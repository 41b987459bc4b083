---------------------------- MODULE PulseChipProofs ----------------------------
(***************************************************************************)
(* What holds of the pulse chip for every set of settings, every adjust    *)
(* and any number of measurements: the types, that an event leaves the     *)
(* chip as the settings ask for, and that a capture which had the bus to   *)
(* itself samples with these settings.                                     *)
(***************************************************************************)
EXTENDS PulseChip, TLAPS

MainLabels == Captures \union {"boot", "idle", "check", "unadjust", "write", "search",
                               "searchMedium", "adjust", "ack"}
WheelLabels == Captures \union {"rest", "row"}

\* What each register may hold.
Word == 0..(256^2 - 1)
Byte == 0..255
Codes == {0, 4, 8, 12, 16, 20, 24, 28}
Holds(r) ==
    CASE r = "gain" -> Codes
      [] r = "coarse" -> Word
      [] r \in {"medium", "fine"} -> Byte
      [] OTHER -> {"reset", "set"}

\* What the chip's registers hold, and samples taken with them.
IsRegs(data) ==
    /\ data = [r \in Registers |-> data[r]]
    /\ \A r \in Registers : data[r] \in Holds(r)
IsData(data) == data = None \/ data = Mixed \/ IsRegs(data)

ControlType ==
    /\ pc \in [Threads -> MainLabels \union WheelLabels]
    /\ pc.main \in MainLabels /\ pc.wheel \in WheelLabels
    /\ op \in {"none", "on", "modify"}
    /\ runAcq \in BOOLEAN /\ sweeping \in BOOLEAN
    /\ applied \in BOOLEAN /\ clash \in BOOLEAN
    /\ last \in Threads

\* Groups are counted while they are written, and measurements while one more is due.
CountType ==
    /\ step \in 1..Len(Groups) /\ (pc.main # "write" => step = 1)
    /\ round \in 0..Rounds
    /\ pc.main \in Captures \union {"search", "searchMedium"} => round < Rounds

ParamType == param \in Settings /\ adjust \in [coarse : Nat, medium : Nat, fine : Nat]

DataType == IsRegs(regs) /\ IsData(counters) /\ IsData(output) /\ IsData(readData)

Types == ControlType /\ CountType /\ ParamType /\ DataType

\* A capture that has met no other transfer is made while main is idle.
ClashInv == pc.wheel # "rest" /\ ~clash => pc.main = "idle"

\* Who starts a sweep waits for its end.
SweepInv == sweeping => pc.main = "poll" \/ pc.wheel = "poll"

\* How far the registers have come on their way to the row, in a capture by itself.
CaptureInv ==
    ~clash => /\ pc.wheel = "start" => counters = None
              /\ pc.wheel \in {"poll", "load"} => counters = regs
              /\ pc.wheel \in {"read", "continue"} => output = regs
              /\ pc.wheel = "continue" => last = "wheel"
              /\ pc.wheel = "row" => readData = regs

\* A group that has been written, "clear" apart, which the gain follows.
IsSet(group) == group # "clear" => regs[group] = Value(group)
AllSet == \A r \in Registers : regs[r] = Value(r)

\* The groups before the step are written, and all of them when an initialisation is
\* over; an event that leaves the settings alone may find the chip as it was.
SetInv ==
    /\ pc.main = "write" => \A i \in 1..(step - 1) : IsSet(Groups[i])
    /\ pc.main = "ack" => AllSet
    /\ pc.main \in {"idle", "check"} /\ applied => AllSet
    /\ pc.main = "boot" => ~applied

IInv == Types /\ ClashInv /\ SweepInv /\ CaptureInv /\ SetInv

-----------------------------------------------------------------------------
(* Registers.                                                               *)

LEMMA GroupsAre ==
    /\ Len(Groups) = 9
    /\ Groups[1] = "readout" /\ Groups[2] = "clear" /\ Groups[3] = "gain"
    /\ Groups[4] = "sweep" /\ Groups[5] = "pulse" /\ Groups[6] = "coarse"
    /\ Groups[7] = "medium" /\ Groups[8] = "fine" /\ Groups[9] = "send"
BY DEF Groups

\* Bytes and words, and what SPI_Write leaves of a value.
LEMMA Widths ==
    /\ Byte \subseteq Word /\ 0..351 \subseteq Word
    /\ 0 \in Word /\ 31 \in Word /\ 0 \in Byte /\ 31 \in Byte
<1> DEFINE bound == 256^2 - 1
<1>1. bound \in Int /\ bound >= 351
  OBVIOUS
<1>2. Word = 0..bound
  BY DEF Word
<1> HIDE DEF bound
<1>3. Byte \subseteq Word /\ 0..351 \subseteq Word /\ 0 \in Word /\ 31 \in Word
  BY <1>1, <1>2 DEF Byte
<1>4. 0 \in Byte /\ 31 \in Byte
  BY DEF Byte
<1> QED BY <1>3, <1>4

LEMMA LowType ==
    ASSUME NEW value \in Int PROVE Low(value, 2) \in Word /\ Low(value, 1) \in Byte
<1>1. Low(value, 2) \in Word
  <2> DEFINE bound == 256^2
  <2>1. bound \in Int /\ bound > 0
    OBVIOUS
  <2>2. Word = 0..(bound - 1) /\ Low(value, 2) = value % bound
    BY DEF Word, Low
  <2> HIDE DEF bound
  <2> QED BY <2>1, <2>2
<1>2. 256^1 = 256
  OBVIOUS
<1>3. Low(value, 1) = value % 256
  BY <1>2 DEF Low
<1> QED BY <1>1, <1>3 DEF Byte

LEMMA GainCodeType ==
    ASSUME NEW gain \in 1..7 PROVE GainCode(gain) \in Codes
BY DEF GainCode, Codes

\* No register file is taken for the lack of samples, or for mixed ones.
LEMMA RegsAreSamples ==
    ASSUME NEW data, IsRegs(data) PROVE data # None /\ data # Mixed
<1>1. DOMAIN data = Registers
  BY DEF IsRegs
<1>2. DOMAIN None = {"kind"} /\ DOMAIN Mixed = {"kind"}
  BY DEF None, Mixed
<1> QED BY <1>1, <1>2 DEF Registers

\* A register that gets what it may hold leaves a register file.
LEMMA RegsUpdated ==
    ASSUME NEW data, IsRegs(data), NEW r \in Registers, NEW value \in Holds(r)
    PROVE  /\ IsRegs([data EXCEPT ![r] = value])
           /\ \A q \in Registers :
                 [data EXCEPT ![r] = value][q] = IF q = r THEN value ELSE data[q]
BY DEF IsRegs

\* What is written to a register may be there.
LEMMA ValueType ==
    ASSUME ParamType, IsRegs(regs), NEW r \in Registers
    PROVE  Value(r) \in Holds(r)
<1>1. /\ param.gain \in Int
      /\ param.coarse + adjust.coarse \in Int /\ param.medium + adjust.medium \in Int
      /\ param.fine + adjust.fine \in Int
  BY DEF ParamType, Settings
<1>2. CASE r = "gain"
  <2>1. HasGain => GainCode(param.gain) \in Codes
    BY GainCodeType DEF HasGain
  <2>2. regs.gain \in Codes
    BY DEF IsRegs, Registers, Holds
  <2> QED BY <1>2, <2>1, <2>2 DEF Value, Holds
<1>3. CASE r = "coarse"
  BY <1>1, <1>3, LowType DEF Value, Holds
<1>4. CASE r = "medium"
  BY <1>1, <1>4, LowType DEF Value, Holds
<1>5. CASE r = "fine"
  BY <1>1, <1>5, LowType DEF Value, Holds
<1>6. CASE r \notin {"gain", "coarse", "medium", "fine"}
  BY <1>6 DEF Value, Holds
<1> QED BY <1>2, <1>3, <1>4, <1>5, <1>6

\* A group writes its register and leaves the others; "clear" writes the gain's.
LEMMA WrittenType ==
    ASSUME ParamType, IsRegs(regs), NEW i \in 1..Len(Groups)
    PROVE  /\ IsRegs(Written(Groups[i]))
           /\ Groups[i] # "clear" =>
                 /\ Groups[i] \in Registers
                 /\ \A q \in Registers : Written(Groups[i])[q] =
                       IF q = Groups[i] THEN Value(q) ELSE regs[q]
           /\ Groups[i] = "clear" =>
                 \A q \in Registers \ {"gain"} : Written(Groups[i])[q] = regs[q]
<1>1. CASE Groups[i] = "clear"
  <2>1. "gain" \in Registers /\ 0 \in Holds("gain")
    BY DEF Registers, Holds, Codes
  <2>2. /\ IsRegs([regs EXCEPT !["gain"] = 0])
        /\ \A q \in Registers \ {"gain"} : [regs EXCEPT !["gain"] = 0][q] = regs[q]
    BY <2>1, RegsUpdated
  <2> QED BY <1>1, <2>2 DEF Written
<1>2. CASE Groups[i] # "clear"
  <2>1. Groups[i] \in Registers
    BY <1>2, GroupsAre DEF Registers
  <2>2. Written(Groups[i]) = [regs EXCEPT ![Groups[i]] = Value(Groups[i])]
    BY <1>2 DEF Written
  <2> QED BY <1>2, <2>1, <2>2, RegsUpdated, ValueType
<1> QED BY <1>1, <1>2

LEMMA SampleType == ASSUME NEW data, IsData(data) PROVE IsSample(data)
<1>1. CASE IsRegs(data)
  <2>1. /\ DOMAIN data = Registers
        /\ \A r \in {"readout", "sweep", "pulse", "send"} : data[r] \in {"reset", "set"}
        /\ data.gain \in Codes /\ data.coarse \in Word
        /\ data.medium \in Byte /\ data.fine \in Byte
    BY <1>1 DEF IsRegs, Registers, Holds
  <2> QED BY <2>1 DEF IsSample, Codes, Word, Byte
<1> QED BY <1>1 DEF IsData, IsSample

-----------------------------------------------------------------------------
(* Types.                                                                   *)

\* Where a thread goes; the other one stays where it is.
LEMMA Goes ==
    ASSUME ControlType, NEW t \in Threads, NEW label \in MainLabels \union WheelLabels,
           Goto(t, label),
           t = "main" => label \in MainLabels, t = "wheel" => label \in WheelLabels
    PROVE  /\ pc' \in [Threads -> MainLabels \union WheelLabels]
           /\ pc'[t] = label
           /\ t = "main" => pc'.main = label /\ pc'.wheel = pc.wheel
           /\ t = "wheel" => pc'.wheel = label /\ pc'.main = pc.main
           /\ pc'.main \in MainLabels /\ pc'.wheel \in WheelLabels
BY DEF ControlType, Goto, Threads

\* A capture takes its thread to the next of its steps, or keeps it waiting.
LEMMA CaptureGoes ==
    ASSUME ControlType, NEW t \in Threads, Capture(t)
    PROVE  /\ \/ \E label \in Captures \union {"search", "row"} :
                    /\ Goto(t, label)
                    /\ label = "search" => t = "main"
                    /\ label = "row" => t = "wheel"
              \/ UNCHANGED pc
           /\ pc[t] \in Captures
           /\ UNCHANGED <<work, param, adjust, regs, runAcq, applied>>
<1> USE DEF Captures
<1>1. CASE ResetCounters(t) BY <1>1 DEF ResetCounters
<1>2. CASE StartSweep(t) BY <1>2 DEF StartSweep
<1>3. CASE Poll(t) BY <1>3 DEF Poll
<1>4. CASE LoadOutput(t) BY <1>4 DEF LoadOutput
<1>5. CASE ReadFirst(t) BY <1>5 DEF ReadFirst
<1>6. CASE ReadOn(t) BY <1>6 DEF ReadOn, Threads
<1> QED BY <1>1, <1>2, <1>3, <1>4, <1>5, <1>6 DEF Capture

LEMMA CaptureLabels ==
    ASSUME ControlType, NEW t \in Threads, Capture(t)
    PROVE  /\ pc' \in [Threads -> MainLabels \union WheelLabels]
           /\ pc'.main \in MainLabels /\ pc'.wheel \in WheelLabels
           /\ t = "main" => /\ pc.main \in Captures
                            /\ pc'.main \in Captures \union {"search"}
                            /\ pc'.wheel = pc.wheel
           /\ t = "wheel" => /\ pc.wheel \in Captures
                             /\ pc'.wheel \in Captures \union {"row"}
                             /\ pc'.main = pc.main
<1>1. CASE UNCHANGED pc
  BY <1>1, CaptureGoes DEF ControlType, Threads
<1>2. CASE \E label \in Captures \union {"search", "row"} :
              Goto(t, label) /\ (label = "search" => t = "main")
                             /\ (label = "row" => t = "wheel")
  <2>1. PICK label \in Captures \union {"search", "row"} :
           Goto(t, label) /\ (label = "search" => t = "main") /\ (label = "row" => t = "wheel")
    BY <1>2
  <2>2. label \in MainLabels \union WheelLabels
    BY DEF MainLabels, WheelLabels
  <2>3. (t = "main" => label \in MainLabels) /\ (t = "wheel" => label \in WheelLabels)
    BY <2>1 DEF MainLabels, WheelLabels, Captures
  <2>4. (t = "main" => label \in Captures \union {"search"})
        /\ (t = "wheel" => label \in Captures \union {"row"})
    BY <2>1 DEF Captures
  <2>5. pc[t] \in Captures
    BY CaptureGoes
  <2> QED BY <2>1, <2>2, <2>3, <2>4, <2>5, Goes DEF Threads
<1> QED BY <1>1, <1>2, CaptureGoes

\* Where the steps of main and of the wheel outside a capture go.
LEMMA MainLabel ==
    ASSUME ControlType, NEW label \in MainLabels, Goto("main", label)
    PROVE  /\ pc' \in [Threads -> MainLabels \union WheelLabels]
           /\ pc'.main = label /\ pc'.wheel = pc.wheel
BY Goes DEF Threads

LEMMA WheelLabel ==
    ASSUME ControlType, NEW label \in WheelLabels, Goto("wheel", label)
    PROVE  /\ pc' \in [Threads -> MainLabels \union WheelLabels]
           /\ pc'.wheel = label /\ pc'.main = pc.main
BY Goes DEF Threads

LEMMA NextControl ==
    ASSUME Types, [Next]_vars PROVE ControlType'
<1> USE DEF Types, AtWork
<1>a. /\ pc \in [Threads -> MainLabels \union WheelLabels]
      /\ pc.main \in MainLabels /\ pc.wheel \in WheelLabels
      /\ op \in {"none", "on", "modify"}
      /\ runAcq \in BOOLEAN /\ sweeping \in BOOLEAN
      /\ applied \in BOOLEAN /\ clash \in BOOLEAN
      /\ last \in Threads
  BY DEF ControlType
<1>1. ASSUME NEW t \in Threads, Capture(t) PROVE ControlType'
  <2>1. UNCHANGED <<op, runAcq, applied>>
    BY <1>1, CaptureGoes DEF work
  <2>2. sweeping' \in BOOLEAN /\ clash' \in BOOLEAN /\ last' \in Threads
    BY <1>1, <1>a DEF Capture, ResetCounters, StartSweep, Poll, LoadOutput, ReadFirst, ReadOn
  <2> QED BY <1>1, <1>a, <2>1, <2>2, CaptureLabels DEF ControlType
<1>2. CASE FrontRow \/ WheelTurns
  <2>1. PICK label \in {"rest", "reset"} : Goto("wheel", label)
    BY <1>2 DEF FrontRow, WheelTurns
  <2>2. label \in WheelLabels
    BY DEF WheelLabels, Captures
  <2>3. UNCHANGED <<op, runAcq, sweeping, applied, last>> /\ clash' \in BOOLEAN
    BY <1>2 DEF FrontRow, WheelTurns, work, chip
  <2> QED BY <1>a, <2>1, <2>2, <2>3, WheelLabel DEF ControlType
<1>3. CASE CheckKit \/ Unadjust \/ WriteGroup \/ Search \/ Adjust \/ Complete \/ Boot
           \/ BeginOn \/ (\E settings \in Choices : BeginModify(settings))
  <2>1. (\E label \in MainLabels : Goto("main", label)) \/ UNCHANGED pc
    BY <1>3 DEF CheckKit, Unadjust, WriteGroup, Search, Adjust, Complete, Boot, BeginOn,
       BeginModify, MainLabels, Captures
  <2>2. op' \in {"none", "on", "modify"} /\ UNCHANGED runAcq
    BY <1>3, <1>a DEF CheckKit, Unadjust, WriteGroup, Search, Adjust, Complete, Boot, BeginOn,
       BeginModify, work
  <2>3. sweeping' \in BOOLEAN /\ applied' \in BOOLEAN /\ clash' \in BOOLEAN /\ last' \in Threads
    BY <1>3, <1>a DEF CheckKit, Unadjust, WriteGroup, Search, Adjust, Complete, Boot, BeginOn,
       BeginModify, chip, Registered, Threads
  <2> QED BY <1>a, <2>1, <2>2, <2>3, MainLabel DEF ControlType
<1>4. CASE SweepEnds
  BY <1>4 DEF SweepEnds, ControlType, work
<1>5. CASE StartOrStop
  BY <1>5 DEF StartOrStop, ControlType, work, chip
<1>6. CASE UNCHANGED vars
  BY <1>6 DEF vars, ControlType, work, chip
<1> QED
  BY <1>1, <1>2, <1>3, <1>4, <1>5, <1>6 DEF Next, Main, Wheel, Threads

LEMMA NextCount ==
    ASSUME Types, [Next]_vars PROVE CountType'
<1> USE DEF Types, Captures
<1>a. /\ step \in 1..9 /\ (pc.main # "write" => step = 1)
      /\ round \in 0..Rounds /\ Rounds \in Nat \ {0}
      /\ pc.main \in Captures \union {"search", "searchMedium"} => round < Rounds
  BY RoundsAssumption, GroupsAre DEF CountType
<1>1. CASE \E t \in Threads : Capture(t)
  <2>1. /\ UNCHANGED <<step, round>>
        /\ \/ pc'.main = pc.main
           \/ pc.main \in Captures /\ pc'.main \in Captures \union {"search"}
    BY <1>1, CaptureGoes, CaptureLabels DEF work, Threads
  <2> QED BY <1>a, <2>1, GroupsAre DEF CountType
<1>2. CASE FrontRow \/ WheelTurns
  <2>1. pc'.main = pc.main /\ UNCHANGED <<step, round>>
    BY <1>2, WheelLabel DEF FrontRow, WheelTurns, work, WheelLabels
  <2> QED BY <1>a, <2>1, GroupsAre DEF CountType
<1>3. CASE CheckKit \/ Adjust \/ Complete \/ Boot \/ BeginOn
           \/ (\E settings \in Choices : BeginModify(settings))
  <2>1. /\ pc'.main \in {"unadjust", "idle", "write", "check"}
        /\ UNCHANGED <<step, round>> /\ pc.main # "write"
    BY <1>3, MainLabel DEF CheckKit, Adjust, Complete, Boot, BeginOn, BeginModify, work,
       MainLabels
  <2> QED BY <1>a, <2>1, GroupsAre DEF CountType
<1>4. CASE Unadjust
  <2>1. pc'.main = "write"
    BY <1>4, MainLabel DEF Unadjust, MainLabels
  <2> QED BY <1>4, <1>a, <2>1, GroupsAre DEF CountType, Unadjust
<1>5. CASE WriteGroup
  <2>1. CASE step < Len(Groups)
    BY <1>5, <1>a, <2>1, GroupsAre DEF WriteGroup, CountType
  <2>2. CASE ~(step < Len(Groups))
    <3>1. step' = 1 /\ UNCHANGED round
      BY <1>5, <2>2 DEF WriteGroup
    <3>2. CASE round < Rounds
      BY <1>5, <1>a, <2>2, <3>1, <3>2, MainLabel, GroupsAre DEF WriteGroup, CountType, MainLabels
    <3>3. CASE ~(round < Rounds)
      <4>1. pc'.main \in {"ack", "idle"}
        BY <1>5, <2>2, <3>3, MainLabel DEF WriteGroup, MainLabels
      <4> QED BY <1>a, <3>1, <4>1, GroupsAre DEF CountType
    <3> QED BY <3>2, <3>3
  <2> QED BY <2>1, <2>2
<1>6. CASE Search
  <2>1. CASE pc.main = "search"
    <3>1. pc'.main = "searchMedium" /\ UNCHANGED <<step, round>>
      BY <1>6, <2>1, MainLabel DEF Search, MainLabels
    <3> QED BY <1>a, <2>1, <3>1, GroupsAre DEF CountType
  <2>2. CASE pc.main = "searchMedium"
    <3>1. pc'.main \in {"write", "adjust"} /\ round' = round + 1 /\ UNCHANGED step
      BY <1>6, <2>2, MainLabel DEF Search, MainLabels
    <3> QED BY <1>a, <2>2, <3>1, GroupsAre DEF CountType
  <2> QED BY <1>6, <2>1, <2>2 DEF Search
<1>7. CASE SweepEnds \/ StartOrStop \/ UNCHANGED vars
  BY <1>7, <1>a, GroupsAre DEF SweepEnds, StartOrStop, vars, CountType, work
<1> QED
  BY <1>1, <1>2, <1>3, <1>4, <1>5, <1>6, <1>7 DEF Next, Main, Wheel, Threads

LEMMA NextParam ==
    ASSUME ParamType, [Next]_vars PROVE ParamType'
<1> USE SettingsAssumption, AdjustsAssumption DEF ParamType, work
<1>1. CASE BeginOn \/ \E settings \in Choices : BeginModify(settings)
  BY <1>1 DEF BeginOn, BeginModify
<1>2. CASE Unadjust \/ Adjust \/ Boot
  BY <1>2 DEF Unadjust, Adjust, Boot
<1>3. CASE UNCHANGED <<param, adjust>>
  BY <1>3
<1> QED
  BY <1>1, <1>2, <1>3 DEF Next, vars, Main, Wheel, Capture, ResetCounters, StartSweep, Poll,
     LoadOutput, ReadFirst, ReadOn, FrontRow, WheelTurns, SweepEnds, StartOrStop,
     CheckKit, WriteGroup, Search, Complete

LEMMA NextData ==
    ASSUME Types, [Next]_vars PROVE DataType'
<1> USE DEF Types
<1>a. IsRegs(regs) /\ IsData(counters) /\ IsData(output) /\ IsData(readData)
  BY DEF DataType
<1>b. IsData(None) /\ IsData(Mixed) /\ IsData(regs)
  BY <1>a DEF IsData
<1>1. ASSUME NEW t \in Threads, Capture(t) PROVE DataType'
  <2>1. UNCHANGED regs
    BY <1>1, CaptureGoes
  <2>2. /\ counters' \in {counters, None, Mixed, regs} /\ output' \in {output, Mixed, counters}
        /\ readData' \in {readData, output, Mixed}
    BY <1>1 DEF Capture, ResetCounters, StartSweep, Poll, LoadOutput, ReadFirst, ReadOn
  <2> QED BY <1>a, <1>b, <2>1, <2>2 DEF DataType
<1>2. CASE WriteGroup
  <2>1. IsRegs(Written(Groups[step]))
    BY <1>a, WrittenType DEF CountType
  <2>2. regs' = Written(Groups[step]) /\ counters' \in {counters, Mixed}
        /\ UNCHANGED <<output, readData>>
    BY <1>2 DEF WriteGroup, Registered
  <2> QED BY <1>a, <1>b, <2>1, <2>2 DEF DataType
<1>3. CASE Search
  <2>1. PICK r \in {"coarse", "medium"}, delay \in Searched :
           /\ Registered([regs EXCEPT ![r] = delay])
           /\ r = "medium" => delay \in 0..255
    BY <1>3 DEF Search
  <2>2. r \in Registers /\ delay \in Holds(r)
    BY <2>1, SearchedAssumption, Widths DEF Registers, Holds, Byte
  <2>3. regs' = [regs EXCEPT ![r] = delay] /\ counters' \in {counters, Mixed}
        /\ UNCHANGED <<output, readData>>
    BY <1>3, <2>1 DEF Registered, Search
  <2> QED BY <1>a, <1>b, <2>2, <2>3, RegsUpdated DEF DataType
<1>4. CASE /\ UNCHANGED <<regs, output>> /\ counters' \in {counters, Mixed}
           /\ readData' \in {readData, None}
  BY <1>4, <1>a, <1>b DEF DataType
<1> QED
  BY <1>1, <1>2, <1>3, <1>4 DEF Next, vars, chip, Main, Wheel, Threads, FrontRow, WheelTurns,
     SweepEnds, StartOrStop, CheckKit, Complete, Unadjust, Adjust, Boot, BeginOn, BeginModify

LEMMA NextTypes == Types /\ [Next]_vars => Types'
BY NextControl, NextCount, NextParam, NextData DEF Types

LEMMA InitTypes == Init => Types
<1> SUFFICES ASSUME Init PROVE Types
  OBVIOUS
<1>1. ControlType
  <2>1. pc = [t \in Threads |-> IF t = "main" THEN "boot" ELSE "rest"]
    BY DEF Init, Threads
  <2>2. pc.main = "boot" /\ pc.wheel = "rest"
    BY DEF Init
  <2>3. "boot" \in MainLabels /\ "rest" \in WheelLabels
    BY DEF MainLabels, WheelLabels
  <2>4. pc \in [Threads -> MainLabels \union WheelLabels]
    BY <2>1, <2>3
  <2> QED BY <2>2, <2>3, <2>4 DEF Init, ControlType, Threads
<1>2. CountType
  BY RoundsAssumption, GroupsAre DEF Init, CountType, Captures
<1>3. ParamType
  BY SettingsAssumption DEF Init, ParamType
<1>4. IsRegs(Reset)
  BY Widths DEF IsRegs, Reset, Registers, Holds, Codes
<1>5. IsRegs(Left)
  BY Widths DEF IsRegs, Left, Registers, Holds, Codes
<1>6. DataType
  BY <1>4, <1>5 DEF Init, DataType, IsData
<1> QED BY <1>1, <1>2, <1>3, <1>6 DEF Types

\* Every variable of the chip and of its two threads keeps its type, and no register
\* ever holds more than its bytes.
THEOREM ChipTypes == Spec => []TypeOK
<1>1. Types => TypeOK
  <2> SUFFICES ASSUME Types PROVE TypeOK
    OBVIOUS
  <2>1. /\ IsSample(regs) /\ IsSample(counters) /\ IsSample(output) /\ IsSample(readData)
        /\ regs # None /\ regs # Mixed
    BY SampleType, RegsAreSamples DEF Types, DataType, IsData
  <2> QED BY <2>1 DEF Types, ControlType, CountType, ParamType, TypeOK, MainLabels, WheelLabels
<1> QED BY <1>1, InitTypes, NextTypes, PTL DEF Spec

-----------------------------------------------------------------------------
(* A capture by itself.                                                     *)

\* A transfer of main marks the capture in hand.
MainSteps ==
    \/ Capture("main")
    \/ CheckKit \/ Unadjust \/ WriteGroup \/ Search \/ Adjust \/ Complete
    \/ BeginOn \/ \E settings \in Choices : BeginModify(settings)

LEMMA MainClashes ==
    ASSUME ControlType, MainSteps
    PROVE  pc'.wheel = pc.wheel /\ clash' = (clash \/ pc.wheel # "rest")
<1>1. clash' = (clash \/ pc.wheel # "rest")
  BY DEF MainSteps, Capture, ResetCounters, StartSweep, Poll, LoadOutput, ReadFirst, ReadOn,
     CheckKit, Unadjust, WriteGroup, Search, Adjust, Complete, BeginOn, BeginModify, AtWork
<1>2. CASE Capture("main")
  BY <1>1, <1>2, CaptureLabels DEF Threads
<1>3. CASE ~Capture("main")
  <2>1. (\E label \in MainLabels : Goto("main", label)) \/ UNCHANGED pc
    BY <1>3 DEF MainSteps, CheckKit, Unadjust, WriteGroup, Search, Adjust, Complete, BeginOn,
       BeginModify, MainLabels, Captures
  <2> QED BY <1>1, <2>1, MainLabel
<1> QED BY <1>2, <1>3

\* The wheel's capture marks nothing, and leaves main where it is.
LEMMA WheelCapture ==
    ASSUME ControlType, Capture("wheel")
    PROVE  /\ pc'.main = pc.main /\ UNCHANGED <<clash, regs>>
           /\ pc.wheel \in Captures
<1>1. UNCHANGED clash
  BY DEF Capture, ResetCounters, StartSweep, Poll, LoadOutput, ReadFirst, ReadOn, AtWork,
     ControlType
<1> QED BY <1>1, CaptureLabels, CaptureGoes DEF Threads

LEMMA NextClash ==
    ASSUME Types, ClashInv, [Next]_vars PROVE ClashInv'
<1> USE DEF Types
<1>1. CASE MainSteps
  BY <1>1, MainClashes DEF ClashInv
<1>2. CASE Capture("wheel")
  BY <1>2, WheelCapture DEF ClashInv, Captures
<1>3. CASE FrontRow \/ WheelTurns
  BY <1>3, WheelLabel DEF FrontRow, WheelTurns, ClashInv, WheelLabels, Captures
<1>4. CASE Boot
  <2>1. pc'.wheel = pc.wheel
    BY <1>4, MainLabel DEF Boot, MainLabels
  <2> QED BY <1>4, <2>1 DEF Boot, ClashInv
<1>5. CASE SweepEnds \/ StartOrStop \/ UNCHANGED vars
  BY <1>5 DEF SweepEnds, StartOrStop, vars, ClashInv
<1> QED
  BY <1>1, <1>2, <1>3, <1>4, <1>5 DEF Next, Main, Wheel, MainSteps

\* A transfer of a capture leaves a sweep that somebody waits for.
LEMMA NextSweep ==
    ASSUME Types, SweepInv, [Next]_vars PROVE SweepInv'
<1> USE DEF Types
<1>1. ASSUME NEW t \in Threads, Capture(t) PROVE SweepInv'
  <2>1. CASE StartSweep(t)
    <3>1. pc'[t] = "poll"
      BY <2>1, Goes DEF StartSweep, MainLabels, WheelLabels, Captures
    <3> QED BY <3>1 DEF SweepInv, Threads
  <2>2. CASE Poll(t)
    BY <2>2 DEF Poll, SweepInv
  <2>3. CASE ResetCounters(t) \/ LoadOutput(t) \/ ReadFirst(t) \/ ReadOn(t)
    <3>1. pc[t] # "poll" /\ UNCHANGED sweeping
      BY <2>3 DEF ResetCounters, LoadOutput, ReadFirst, ReadOn
    <3>2. (t = "main" => pc'.wheel = pc.wheel) /\ (t = "wheel" => pc'.main = pc.main)
      BY <1>1, CaptureLabels
    <3> QED BY <3>1, <3>2 DEF SweepInv, Threads
  <2> QED BY <1>1, <2>1, <2>2, <2>3 DEF Capture
<1>2. CASE MainSteps /\ ~Capture("main")
  <2>1. (sweeping' = sweeping \/ ~sweeping') /\ pc.main # "poll"
    BY <1>2 DEF MainSteps, CheckKit, Unadjust, WriteGroup, Search, Adjust, Complete, BeginOn,
       BeginModify, Registered, chip
  <2>2. pc'.wheel = pc.wheel
    BY <1>2, MainClashes
  <2> QED BY <2>1, <2>2 DEF SweepInv
<1>3. CASE FrontRow \/ WheelTurns
  <2>1. pc.wheel # "poll" /\ pc'.main = pc.main /\ UNCHANGED sweeping
    BY <1>3, WheelLabel DEF FrontRow, WheelTurns, WheelLabels, Captures, chip
  <2> QED BY <2>1 DEF SweepInv
<1>4. CASE Boot
  <2>1. pc.main # "poll" /\ pc'.wheel = pc.wheel /\ UNCHANGED sweeping
    BY <1>4, MainLabel DEF Boot, MainLabels, chip
  <2> QED BY <2>1 DEF SweepInv
<1>5. CASE SweepEnds \/ StartOrStop \/ UNCHANGED vars
  BY <1>5 DEF SweepEnds, StartOrStop, vars, chip, SweepInv
<1> QED
  BY <1>1, <1>2, <1>3, <1>4, <1>5 DEF Next, Main, Wheel, MainSteps, Threads

\* By itself, a capture hands on what the registers hold, from transfer to transfer.
LEMMA NextCapture ==
    ASSUME Types, ClashInv, SweepInv, CaptureInv, [Next]_vars PROVE CaptureInv'
<1> USE DEF Types
<1>1. CASE MainSteps
  BY <1>1, MainClashes DEF CaptureInv
<1>2. CASE Capture("wheel")
  <2> SUFFICES ASSUME ~clash' PROVE CaptureInv'
    BY DEF CaptureInv
  <2>1. ~clash /\ pc.wheel \in Captures /\ pc.main = "idle" /\ UNCHANGED regs
    BY <1>2, WheelCapture DEF ClashInv, Captures
  <2>2. sweeping => pc.wheel = "poll"
    BY <2>1 DEF SweepInv
  <2> USE DEF MainLabels, WheelLabels, Captures, CaptureInv, Threads
  <2>3. CASE ResetCounters("wheel")
    BY <2>1, <2>2, <2>3, WheelLabel DEF ResetCounters
  <2>4. CASE StartSweep("wheel")
    BY <2>1, <2>2, <2>4, WheelLabel DEF StartSweep
  <2>5. CASE Poll("wheel")
    BY <2>1, <2>5, WheelLabel DEF Poll
  <2>6. CASE LoadOutput("wheel")
    BY <2>1, <2>2, <2>6, WheelLabel DEF LoadOutput
  <2>7. CASE ReadFirst("wheel")
    BY <2>1, <2>7, WheelLabel DEF ReadFirst
  <2>8. CASE ReadOn("wheel")
    BY <2>1, <2>8, WheelLabel DEF ReadOn
  <2> QED BY <1>2, <2>3, <2>4, <2>5, <2>6, <2>7, <2>8 DEF Capture
<1>3. CASE FrontRow \/ WheelTurns
  BY <1>3, WheelLabel DEF FrontRow, WheelTurns, CaptureInv, WheelLabels, Captures
<1>4. CASE Boot
  <2>1. pc'.wheel = pc.wheel
    BY <1>4, MainLabel DEF Boot, MainLabels
  <2> QED BY <1>4, <2>1 DEF Boot, ClashInv, CaptureInv
<1>5. CASE SweepEnds \/ StartOrStop \/ UNCHANGED vars
  BY <1>5 DEF SweepEnds, StartOrStop, vars, chip, CaptureInv
<1> QED
  BY <1>1, <1>2, <1>3, <1>4, <1>5 DEF Next, Main, Wheel, MainSteps

-----------------------------------------------------------------------------
(* The registers and the settings.                                          *)

\* What is asked of a register changes with the settings and the adjust only; where no
\* gain is set, its register asks for what it holds.
LEMMA ValueKept ==
    ASSUME UNCHANGED <<param, adjust>>
    PROVE  /\ \A r : r # "gain" => Value(r)' = Value(r)
           /\ HasGain => Value("gain")' = Value("gain")
           /\ ~HasGain => Value("gain")' = regs'["gain"]
BY DEF Value, HasGain

LEMMA SettingsUntouched ==
    ASSUME UNCHANGED <<param, adjust, regs>>
    PROVE  \A r : Value(r)' = Value(r)
BY DEF Value, HasGain

\* A group more is set, and none is undone.
LEMMA WriteSets ==
    ASSUME Types, WriteGroup, \A i \in 1..(step - 1) : IsSet(Groups[i])
    PROVE  \A i \in 1..step : IsSet(Groups[i])'
<1> SUFFICES ASSUME NEW i \in 1..step, Groups[i] # "clear"
             PROVE  regs'[Groups[i]] = Value(Groups[i])'
  BY DEF IsSet
<1>1. step \in 1..9 /\ UNCHANGED <<param, adjust>> /\ regs' = Written(Groups[step])
  BY GroupsAre DEF Types, CountType, WriteGroup, Registered
<1>2. Groups[i] \in Registers
  BY <1>1, GroupsAre DEF Registers
<1>3. CASE i = step
  <2>1. regs'[Groups[i]] = Value(Groups[i])
    BY <1>1, <1>2, <1>3, WrittenType, GroupsAre DEF Types, DataType
  <2> QED BY <1>1, <2>1, ValueKept
<1>4. CASE i < step
  <2>1. regs[Groups[i]] = Value(Groups[i])
    BY <1>1, <1>4 DEF IsSet
  <2>2. Groups[i] # Groups[step] /\ (Groups[step] = "clear" => Groups[i] # "gain")
    BY <1>1, <1>4, GroupsAre
  <2>3. regs'[Groups[i]] = regs[Groups[i]]
    BY <1>1, <1>2, <2>2, WrittenType, GroupsAre DEF Types, DataType
  <2> QED BY <1>1, <2>1, <2>3, ValueKept
<1> QED BY <1>1, <1>3, <1>4

LEMMA NextSet ==
    ASSUME Types, SetInv, [Next]_vars PROVE SetInv'
<1> USE DEF Types
<1>1. CASE /\ UNCHANGED <<param, adjust, regs, step, applied>>
           /\ pc'.main = pc.main \/ pc'.main \in Captures \union {"search"}
  BY <1>1, SettingsUntouched DEF SetInv, IsSet, AllSet, Captures
<1>2. CASE Capture("main") \/ Capture("wheel")
  BY <1>1, <1>2, CaptureGoes, CaptureLabels DEF Threads, work
<1>3. CASE FrontRow \/ WheelTurns
  BY <1>1, <1>3, WheelLabel DEF FrontRow, WheelTurns, work, WheelLabels, Captures
<1>4. CASE SweepEnds \/ StartOrStop \/ UNCHANGED vars
  BY <1>1, <1>4 DEF SweepEnds, StartOrStop, vars, work
<1>5. CASE CheckKit \/ BeginOn \/ Complete
  <2>1. /\ UNCHANGED <<param, adjust, regs, step, applied>>
        /\ \/ pc'.main \in {"unadjust"}
           \/ pc'.main \in {"check", "idle"} /\ pc.main \in {"check", "idle", "ack"}
    BY <1>5, MainLabel DEF CheckKit, BeginOn, Complete, MainLabels
  <2> QED BY <2>1, SettingsUntouched DEF SetInv, AllSet
<1>6. CASE Boot
  BY <1>6, MainLabel DEF Boot, MainLabels, SetInv
<1>7. CASE \E settings \in Choices : BeginModify(settings)
  BY <1>7, MainLabel DEF BeginModify, MainLabels, SetInv
<1>8. CASE Unadjust \/ Search \/ Adjust
  <2>1. pc'.main \in {"write", "searchMedium", "adjust"} /\ step' = 1
    BY <1>8, MainLabel DEF Unadjust, Search, Adjust, MainLabels, work, CountType
  <2> QED BY <2>1 DEF SetInv
<1>9. CASE WriteGroup
  <2>1. step \in 1..9 /\ \A i \in 1..step : IsSet(Groups[i])'
    BY <1>9, WriteSets, GroupsAre DEF SetInv, WriteGroup, CountType
  <2>2. CASE step < Len(Groups)
    <3>1. step' = step + 1 /\ pc' = pc
      BY <1>9, <2>2 DEF WriteGroup
    <3>2. (step + 1) - 1 = step
      BY <2>1
    <3> QED BY <1>9, <2>1, <3>1, <3>2 DEF SetInv, WriteGroup
  <2>3. CASE ~(step < Len(Groups))
    <3>1. step = 9 /\ step' = 1
      BY <1>9, <2>1, <2>3, GroupsAre DEF WriteGroup
    <3>2. \A r \in Registers : \E i \in 1..9 : Groups[i] = r
      BY GroupsAre DEF Registers
    <3>3. AllSet'
      BY <2>1, <3>1, <3>2 DEF AllSet, IsSet, Registers
    <3>4. pc'.main \in {"reset", "ack", "idle"}
      BY <1>9, <2>3, MainLabel DEF WriteGroup, MainLabels, Captures
    <3> QED BY <3>3, <3>4 DEF SetInv
  <2> QED BY <2>2, <2>3
<1> QED
  BY <1>2, <1>3, <1>4, <1>5, <1>6, <1>7, <1>8, <1>9 DEF Next, Main, Wheel

-----------------------------------------------------------------------------
(* The theorems.                                                            *)

LEMMA InitIInv == Init => IInv
<1> SUFFICES ASSUME Init PROVE IInv
  OBVIOUS
<1>1. pc.main = "boot" /\ pc.wheel = "rest" /\ ~sweeping /\ ~applied
  BY DEF Init
<1> QED BY <1>1, InitTypes DEF IInv, ClashInv, SweepInv, CaptureInv, SetInv

LEMMA NextIInv == IInv /\ [Next]_vars => IInv'
BY NextTypes, NextClash, NextSweep, NextCapture, NextSet DEF IInv

\* The inductive invariant holds, however the transfers of the two threads alternate.
THEOREM ChipSafe == Spec => []IInv
BY InitIInv, NextIInv, PTL DEF Spec

\* Registers that hold what is asked of them are as the settings ask for.
LEMMA AllAsSet == Types /\ AllSet => AsSet(regs)
<1> SUFFICES ASSUME Types, AllSet PROVE AsSet(regs)
  OBVIOUS
<1>1. regs # None /\ regs # Mixed
  BY RegsAreSamples DEF Types, DataType
<1>2. \A r \in Registers : regs[r] = Value(r)
  BY DEF AllSet
<1>3. HasGain => regs.gain = GainCode(param.gain)
  BY <1>2 DEF Registers, Value
<1>4. regs.coarse = (param.coarse + adjust.coarse) % 256^2
  BY <1>2 DEF Registers, Value, Low
<1>5. 256^1 = 256
  OBVIOUS
<1>6. /\ regs.medium = (param.medium + adjust.medium) % 256
      /\ regs.fine = (param.fine + adjust.fine) % 256
  BY <1>2, <1>5 DEF Registers, Value, Low
<1>7. \A r \in {"readout", "sweep", "pulse", "send"} : regs[r] = "set"
  BY <1>2 DEF Registers, Value
<1> QED BY <1>1, <1>3, <1>4, <1>6, <1>7 DEF AsSet

\* Once the chip was initialised, every event, whatever its settings and adjusts and
\* however its measurements left the registers, ends with the registers the settings
\* and the last adjust ask for, modulo the width of each.
THEOREM ChipAsSet == Spec => []SettingsApplied
<1>1. IInv => SettingsApplied
  BY AllAsSet DEF IInv, SetInv, SettingsApplied
<1> QED BY <1>1, ChipSafe, PTL

\* A row whose capture met no transfer of main holds samples of one sweep, taken with
\* those registers.
THEOREM ChipRowAsSet == Spec => []RowAsSet
<1>1. IInv => RowAsSet
  <2> SUFFICES ASSUME IInv, pc.wheel = "row", ~clash, applied PROVE AsSet(readData)
    BY DEF RowAsSet
  <2>1. readData = regs /\ pc.main = "idle"
    BY DEF IInv, CaptureInv, ClashInv
  <2> QED BY <2>1, AllAsSet DEF IInv, SetInv
<1> QED BY <1>1, ChipSafe, PTL
=============================================================================
