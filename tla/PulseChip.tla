------------------------------- MODULE PulseChip -------------------------------
(***************************************************************************)
(* The radar chip behind one SPI bus, and the two threads that command it  *)
(* without a lock: the main thread, which enters the acquisition screen    *)
(* (NVA_Init) and takes new settings (NVA_MODIFY), and wiringPi's interrupt*)
(* thread, which captures a pulse for every step of the wheel.             *)
(*                                                                         *)
(* A transfer is atomic, a capture or an initialisation is not.  Samples   *)
(* are told apart by the registers they were taken with only; those taken  *)
(* while a register changed, by two sweeps at once, or read in pieces with *)
(* another transfer between are Mixed.  The searches of the timing         *)
(* measurement (TimingSearch) leave any delay behind here.  The settings   *)
(* file is the subject of ChipSettings.                                    *)
(***************************************************************************)
EXTENDS Integers, Sequences

CONSTANTS Choices,      \* settings an app sends
          Default,      \* the settings NVAParam is born with
          Adjusts,      \* what a timing measurement may adjust
          Searched,     \* delays a search may leave a register at
          Rounds        \* measurements of one initialisation, 10

Settings == [gain : Int, coarse : Int, medium : Int, fine : Int]

ASSUME SettingsAssumption == Choices \subseteq Settings /\ Default \in Settings
ASSUME AdjustsAssumption == Adjusts \subseteq [coarse : Nat, medium : Nat, fine : Nat]
ASSUME SearchedAssumption == Searched \subseteq 0..351
ASSUME RoundsAssumption == Rounds \in Nat \ {0}

Threads == {"main", "wheel"}
None == [kind |-> "none"]       \* no samples yet, or counters just reset
Mixed == [kind |-> "mixed"]     \* samples of more than one configuration

VARIABLES
    pc,         \* of each thread: its next transfer or statement
    op,         \* the event the main thread handles
    step,       \* the next group of registers NVA_VarInit writes
    round,      \* measurements made in this initialisation
    param,      \* NVAParam: Gain, CoarseTune, MediumTune, FineTune
    adjust,     \* NVAParam: the three adjusts
    regs,       \* the chip's registers
    sweeping,   \* the chip sweeps
    counters,   \* the samples in the chip's counters
    output,     \* the samples in its output buffer
    last,       \* the thread of the last transfer
    readData,   \* acqCon.NVA_readData
    runAcq,     \* acqCon.runAcq
    applied,    \* history: this program has initialised the chip
    clash       \* history: the main thread was busy during the capture in hand

chip == <<sweeping, counters, output, last>>
work == <<op, step, round>>
vars == <<pc, work, param, adjust, regs, chip, readData, runAcq, applied, clash>>

-----------------------------------------------------------------------------
(* Registers.                                                               *)

\* THRESHOLDER_CTRL for a gain.
GainCode(gain) == 4 * (<<7, 3, 5, 1, 6, 2, 4>>)[gain]
HasGain == param.gain \in 1..7

\* Mutant of Low: no byte is cut off.
Mut_LowWide(value, bytes) == value

\* SPI_Write sends the low bytes of a value.
Low(value, bytes) == value % 256^bytes

\* NVA_VarInit, in its order.  "clear" is the 0 that goes to THRESHOLDER_CTRL before
\* the gain; "readout", "sweep", "pulse" and "send" stand for registers that are
\* written with one value for ever.
Groups == <<"readout", "clear", "gain", "sweep", "pulse", "coarse", "medium",
            "fine", "send">>

Registers == {"readout", "gain", "sweep", "pulse", "coarse", "medium", "fine", "send"}
Reset == [r \in Registers |-> IF r \in {"gain", "coarse", "medium", "fine"}
                              THEN 0 ELSE "reset"]

\* The chip keeps its power when the program ends: what an earlier one left in it.
Left == [r \in Registers |-> CASE r = "gain" -> 28
                               [] r \in {"coarse", "medium", "fine"} -> 31
                               [] OTHER -> "set"]

\* Mutant of Value: the adjust of the fine delay is forgotten.
Mut_ValueUnadjusted(r) ==
    CASE r = "gain" -> IF HasGain THEN GainCode(param.gain) ELSE regs.gain
      [] r = "coarse" -> Low(param.coarse + adjust.coarse, 2)
      [] r = "medium" -> Low(param.medium + adjust.medium, 1)
      [] r = "fine" -> Low(param.fine, 1)
      [] OTHER -> "set"

\* What is written to a register: no gain outside 1..7 is.
Value(r) ==
    CASE r = "gain" -> IF HasGain THEN GainCode(param.gain) ELSE regs.gain
      [] r = "coarse" -> Low(param.coarse + adjust.coarse, 2)
      [] r = "medium" -> Low(param.medium + adjust.medium, 1)
      [] r = "fine" -> Low(param.fine + adjust.fine, 1)
      [] OTHER -> "set"

Init ==
    /\ pc = [main |-> "boot", wheel |-> "rest"]
    /\ op = "none" /\ step = 1 /\ round = 0
    /\ param = Default
    /\ adjust = [coarse |-> 0, medium |-> 0, fine |-> 0]
    /\ regs \in {Reset, Left}
    /\ sweeping = FALSE /\ counters = None /\ output = None /\ last = "main"
    /\ readData = None
    /\ runAcq = FALSE
    /\ applied = FALSE /\ clash = FALSE

Goto(t, label) == pc' = [pc EXCEPT ![t] = label]

\* The main thread is at work: a capture in hand is no longer by itself.
AtWork(t) == clash' = (clash \/ (t = "main" /\ pc.wheel # "rest"))

-----------------------------------------------------------------------------
(* GPR_Capture_raw, by either thread.                                       *)

ResetCounters(t) ==
    /\ pc[t] = "reset"
    /\ counters' = IF sweeping THEN Mixed ELSE None
    /\ last' = t
    /\ Goto(t, "start") /\ AtWork(t)
    /\ UNCHANGED <<work, param, adjust, regs, sweeping, output, readData, runAcq, applied>>

StartSweep(t) ==
    /\ pc[t] = "start"
    /\ sweeping' = TRUE
    /\ counters' = IF sweeping \/ counters # None THEN Mixed ELSE regs
    /\ last' = t
    /\ Goto(t, "poll") /\ AtWork(t)
    /\ UNCHANGED <<work, param, adjust, regs, output, readData, runAcq,
                   applied>>

\* The chip comes to the end of a sweep.
SweepEnds ==
    /\ sweeping
    /\ sweeping' = FALSE
    /\ UNCHANGED <<pc, work, param, adjust, regs, counters, output, last, readData,
                   runAcq, clash, applied>>

\* Mutants of Poll: it does not look at the status; it goes on at the wrong one.
Mut_PollBlind(t) ==
    /\ pc[t] = "poll"
    /\ last' = t
    /\ Goto(t, "load") /\ AtWork(t)
    /\ UNCHANGED <<work, param, adjust, regs, sweeping, counters, output, readData,
                   runAcq, applied>>

Mut_PollInverted(t) ==
    /\ pc[t] = "poll"
    /\ last' = t
    /\ IF sweeping THEN Goto(t, "load") ELSE UNCHANGED pc
    /\ AtWork(t)
    /\ UNCHANGED <<work, param, adjust, regs, sweeping, counters, output, readData,
                   runAcq, applied>>

\* The loop on SWEEP_CONTROLLER_STATUS.
Poll(t) ==
    /\ pc[t] = "poll"
    /\ last' = t
    /\ IF sweeping THEN UNCHANGED pc ELSE Goto(t, "load")
    /\ AtWork(t)
    /\ UNCHANGED <<work, param, adjust, regs, sweeping, counters, output, readData,
                   runAcq, applied>>

LoadOutput(t) ==
    /\ pc[t] = "load"
    /\ output' = IF sweeping THEN Mixed ELSE counters
    /\ last' = t
    /\ Goto(t, "read") /\ AtWork(t)
    /\ UNCHANGED <<work, param, adjust, regs, sweeping, counters, readData, runAcq, applied>>

\* SPI_Read of more than 127 bytes: the first piece, then those that continue it,
\* and the samples are laid into the buffer that both threads share.
ReadFirst(t) ==
    /\ pc[t] = "read"
    /\ last' = t
    /\ Goto(t, "continue") /\ AtWork(t)
    /\ UNCHANGED <<work, param, adjust, regs, sweeping, counters, output, readData,
                   runAcq, applied>>

ReadOn(t) ==
    /\ pc[t] = "continue"
    /\ readData' = IF last = t THEN output ELSE Mixed
    /\ last' = t
    /\ Goto(t, IF t = "main" THEN "search" ELSE "row") /\ AtWork(t)
    /\ UNCHANGED <<work, param, adjust, regs, sweeping, counters, output, runAcq, applied>>

Capture(t) ==
    \/ ResetCounters(t) \/ StartSweep(t) \/ Poll(t)
    \/ LoadOutput(t) \/ ReadFirst(t) \/ ReadOn(t)

-----------------------------------------------------------------------------
(* The interrupt thread: encoder_interrupt, going forward (Recorder has the *)
(* rest of it).                                                             *)

WheelTurns ==
    /\ pc.wheel = "rest"
    /\ runAcq
    /\ Goto("wheel", "reset")
    /\ clash' = (pc.main # "idle")
    /\ readData' = None      \* what it held is not read again
    /\ UNCHANGED <<work, param, adjust, regs, chip, runAcq, applied>>

\* frontRowData writes what the shared buffer holds.
FrontRow ==
    /\ pc.wheel = "row"
    /\ Goto("wheel", "rest")
    /\ clash' = FALSE
    /\ readData' = None
    /\ UNCHANGED <<work, param, adjust, regs, chip, runAcq, applied>>

-----------------------------------------------------------------------------
(* The main thread: events.                                                 *)

\* ACQ_START and the ends of a recording, as far as the wheel sees them.
StartOrStop ==
    /\ pc.main = "idle"
    /\ runAcq' = ~runAcq
    /\ UNCHANGED <<pc, work, param, adjust, regs, chip, readData, clash, applied>>

\* ACQ_ON: acqOn.
BeginOn ==
    /\ pc.main = "idle"
    /\ op' = "on"
    /\ Goto("main", "check") /\ AtWork("main")
    /\ UNCHANGED <<step, round, param, adjust, regs, chip, readData, runAcq,
                   applied>>

\* NVA_KitConncetCheck: a chip that does not answer with its ID is left alone.
CheckKit ==
    /\ pc.main = "check"
    /\ sweeping' = FALSE
    /\ counters' = IF sweeping THEN Mixed ELSE counters
    /\ last' = "main"
    /\ \/ Goto("main", "unadjust") /\ UNCHANGED op
       \/ Goto("main", "idle") /\ op' = "none"
    /\ AtWork("main")
    /\ UNCHANGED <<step, round, param, adjust, regs, output, readData, runAcq,
                   applied>>

\* NVA_MODIFY: setNVASetting, and saveNVASetting, which leaves the chip alone.
BeginModify(settings) ==
    /\ pc.main = "idle"
    /\ op' = "modify"
    /\ param' = settings
    /\ Goto("main", "unadjust") /\ AtWork("main")
    /\ UNCHANGED <<step, round, adjust, regs, chip, readData, runAcq, applied>>

-----------------------------------------------------------------------------
(* The main thread: NVA_TMVInit and NVA_VarInit.                            *)

Unadjust ==
    /\ pc.main = "unadjust"
    /\ adjust' = [coarse |-> 0, medium |-> 0, fine |-> 0]
    /\ round' = 0 /\ step' = 1
    /\ Goto("main", "write") /\ AtWork("main")
    /\ UNCHANGED <<op, param, regs, chip, readData, runAcq, applied>>

Written(group) ==
    CASE group = "clear" -> IF HasGain THEN [regs EXCEPT !.gain = 0] ELSE regs
      [] OTHER -> [regs EXCEPT ![group] = Value(group)]

\* Chip registers change to new, under a sweep or not.
Registered(new) ==
    /\ regs' = new
    /\ counters' = IF sweeping /\ new # regs THEN Mixed ELSE counters
    /\ last' = "main"
    /\ UNCHANGED <<sweeping, output>>

\* After the measurements of this initialisation, the last NVA_VarInit ends it.
WriteGroup ==
    /\ pc.main = "write"
    /\ Registered(Written(Groups[step]))
    /\ IF step < Len(Groups)
       THEN step' = step + 1 /\ UNCHANGED <<pc, op, applied>>
       ELSE /\ step' = 1
            /\ IF round < Rounds
               THEN Goto("main", "reset") /\ UNCHANGED <<op, applied>>
               ELSE /\ applied' = TRUE
                    /\ IF op = "modify"
                       THEN Goto("main", "ack") /\ UNCHANGED op
                       ELSE Goto("main", "idle") /\ op' = "none"
    /\ AtWork("main")
    /\ UNCHANGED <<round, param, adjust, readData, runAcq>>

\* The searches of one measurement: the coarse register, then the medium one, which is
\* a byte, is left at some delay.
Search ==
    /\ \/ /\ pc.main = "search"
          /\ \E delay \in Searched : Registered([regs EXCEPT !.coarse = delay])
          /\ Goto("main", "searchMedium")
          /\ UNCHANGED round
       \/ /\ pc.main = "searchMedium"
          /\ \E delay \in Searched \intersect 0..255 :
                Registered([regs EXCEPT !.medium = delay])
          /\ round' = round + 1
          /\ Goto("main", IF round' < Rounds THEN "write" ELSE "adjust")
    /\ AtWork("main")
    /\ UNCHANGED <<op, step, param, adjust, readData, runAcq, applied>>

Adjust ==
    /\ pc.main = "adjust"
    /\ adjust' \in Adjusts
    /\ Goto("main", "write") /\ AtWork("main")
    /\ UNCHANGED <<work, param, regs, chip, readData, runAcq, applied>>

\* NVA_COMPLETE_NTF.
Complete ==
    /\ pc.main = "ack"
    /\ op' = "none"
    /\ Goto("main", "idle") /\ AtWork("main")
    /\ UNCHANGED <<step, round, param, adjust, regs, chip, readData, runAcq,
                   applied>>

-----------------------------------------------------------------------------
(* The start of the program.                                                *)

\* main: loadNVASetting, from whatever the file holds.
Boot ==
    /\ pc.main = "boot"
    /\ param' \in Choices \union {Default}
    /\ Goto("main", "idle")
    /\ UNCHANGED <<work, adjust, regs, chip, readData, runAcq, clash,
                   applied>>

-----------------------------------------------------------------------------
Wheel == Capture("wheel") \/ FrontRow

Main ==
    \/ CheckKit \/ Unadjust \/ WriteGroup \/ Capture("main") \/ Search \/ Adjust
    \/ Complete \/ Boot

Next ==
    \/ Main \/ Wheel \/ SweepEnds
    \/ WheelTurns
    \/ StartOrStop \/ BeginOn \/ (\E settings \in Choices : BeginModify(settings))

\* Each thread goes on with what it has begun, and a sweep ends.
Spec == Init /\ [][Next]_vars /\ WF_vars(Main) /\ WF_vars(Wheel) /\ WF_vars(SweepEnds)

-----------------------------------------------------------------------------
(* Properties.                                                              *)

Captures == {"reset", "start", "poll", "load", "read", "continue"}
IsSample(data) ==
    \/ data \in {None, Mixed}
    \/  /\ DOMAIN data = Registers
        /\ \A r \in {"readout", "sweep", "pulse", "send"} : data[r] \in {"reset", "set"}
        /\ data.gain \in {0, 4, 8, 12, 16, 20, 24, 28}
        /\ data.coarse \in 0..(256^2 - 1) /\ data.medium \in 0..255 /\ data.fine \in 0..255

\* Types.
TypeOK ==
    /\ pc.main \in Captures \union {"boot", "idle", "check", "unadjust",
                                    "write", "search", "searchMedium", "adjust", "ack"}
    /\ pc.wheel \in Captures \union {"rest", "row"}
    /\ op \in {"none", "on", "modify"} /\ step \in 1..Len(Groups) /\ round \in 0..Rounds
    /\ param \in Settings
    /\ adjust \in [coarse : Nat, medium : Nat, fine : Nat]
    /\ regs # None /\ regs # Mixed /\ IsSample(regs)
    /\ sweeping \in BOOLEAN /\ last \in Threads
    /\ IsSample(counters) /\ IsSample(output) /\ IsSample(readData)
    /\ runAcq \in BOOLEAN
    /\ applied \in BOOLEAN /\ clash \in BOOLEAN

\* Samples or registers that the settings in force and the last adjust ask for.
AsSet(data) ==
    /\ data \notin {None, Mixed}
    /\ HasGain => data.gain = GainCode(param.gain)
    /\ data.coarse = (param.coarse + adjust.coarse) % 256^2
    /\ data.medium = (param.medium + adjust.medium) % 256
    /\ data.fine = (param.fine + adjust.fine) % 256
    /\ \A r \in {"readout", "sweep", "pulse", "send"} : data[r] = "set"

\* A row captured while the main thread had nothing to do was sampled, in one sweep,
\* with the registers that the settings and the last measurement ask for.
RowAsSet == pc.wheel = "row" /\ ~clash /\ applied => AsSet(readData)

\* Once the chip was initialised, no event ends with a register other than the
\* settings ask for: what the ten measurements moved is put back.
SettingsApplied == pc.main = "idle" /\ applied => AsSet(regs)

\* An event that finds the wheel at rest is finished.
ModifyEnds == pc.main \in {"check", "unadjust"} /\ ~runAcq ~> pc.main = "idle"

\* What a recording would need while the settings change: the code lets the two
\* threads' commands mix, so this does not hold.
RowUnmixed == pc.wheel = "row" /\ applied => readData # Mixed
=============================================================================
