----------------------------- MODULE TimingSearch -----------------------------
(***************************************************************************)
(* The timing measurement of the radar chip (GPR_TimingMeasurement.c) and  *)
(* the adjustment made of it (NVA_CON.c, NVA_TMVInit), as the main thread  *)
(* runs it when nobody else is in the chip.                                *)
(*                                                                         *)
(* A search steps a delay register and samples a signal until it has the   *)
(* level looked for: once per delay at first, and Samples times from the   *)
(* first delay on that looks right.  The signal is high or low at a delay, *)
(* with a few samples of noise, or unsteady: one sample tells nothing, and *)
(* of many neither nine in ten are high nor nine in ten low.               *)
(*                                                                         *)
(* The delay elements are passed by value, so each keeps the value 1 it    *)
(* was born with, and VarSetIntValue never writes that value.  MeasureWait *)
(* reads a register and, for every value of it, does not wait.             *)
(***************************************************************************)
EXTENDS Integers

CONSTANTS CoarseMax,        \* SampleDelayCoarseTune, 351
          MediumMax,        \* SampleDelayMediumTune, 63
          FineMax,          \* SampleDelayFineTune, 63
          Start,            \* the first coarse delay searched, 3
          Samples,          \* GPRTimingTMSample, 10
          MediumInCoarse,   \* MediumInCoarseAverage, 30
          FineInMedium,     \* FineInMediumAverage, 28
          Rounds,           \* measurements that are averaged, 10
          Reference,        \* m_fReferenceTMV in ps, 15450
          CoarseTune, MediumTune,   \* the settings in force
          Garbage           \* what a variable without a value may hold

ASSUME DelaysAssumption ==
    /\ CoarseMax \in 0..998 /\ MediumMax \in 0..998 /\ FineMax = MediumMax
    /\ Start \in Nat /\ Start > 1
    /\ CoarseTune \in Nat /\ MediumTune \in Nat
ASSUME SamplesAssumption == Samples \in Nat /\ Samples > 1
ASSUME AveragesAssumption ==
    /\ MediumInCoarse \in Nat \ {0} /\ FineInMedium \in Nat \ {0}
    /\ Rounds \in Nat \ {0} /\ Reference \in Nat
ASSUME GarbageAssumption == Garbage \subseteq Int

Levels == {"high", "low", "unsteady"}
Searches == {"level", "coarse", "medium", "fine"}

VARIABLES
    phase,      \* "begin", a search, "round", "adjust" or "done"
    counter,    \* the delay being tried
    fast,       \* fastSearch: one sample per delay
    register,   \* the delay registers of the chip
    signal,     \* the signal at each delay of a register
    edge,       \* edge_at of each search of this measurement
    found,      \* the search for a level has found one
    round,      \* measurements so far
    sum,        \* their sum, in ns
    adjust      \* CoarseTuneAdjust, MediumTuneAdjust, FineTuneAdjust

vars == <<phase, counter, fast, register, signal, edge, found, round, sum, adjust>>

Init ==
    /\ phase = "begin" /\ counter = 0 /\ fast = TRUE
    /\ register = [coarse |-> CoarseTune, medium |-> MediumTune]
    /\ signal \in [coarse : [0..CoarseMax -> Levels],
                   medium : [0..MediumMax -> Levels]]
    /\ edge = [s \in Searches |-> 0]
    /\ found = TRUE
    /\ round = 0 /\ sum = 0
    /\ adjust = [coarse |-> 0, medium |-> 0, fine |-> 0]

\* TimingFlag: the search for the fine delay moves the medium register too.
Tuned(s) == IF s \in {"level", "coarse"} THEN "coarse" ELSE "medium"

\* Mutant of Limit: the search for the fine delay leaves out the last one.
Mut_LimitShort(s) == CASE s \in {"level", "coarse"} -> CoarseMax
                       [] s = "medium" -> MediumMax
                       [] s = "fine" -> FineMax - 1

Limit(s) == CASE s \in {"level", "coarse"} -> CoarseMax
              [] s = "medium" -> MediumMax
              [] s = "fine" -> FineMax

-----------------------------------------------------------------------------
(* One delay of a search.                                                   *)

VarSetIntValue(reg, s, value) ==
    IF value \in 0..999 /\ value # 1
    THEN [reg EXCEPT ![Tuned(s)] = value]
    ELSE reg

High(result, n) == 10 * result >= 9 * n
Low(result, n) == 10 * result <= n

\* What n samples of a signal may add up to.
Results(level, n) ==
    {result \in 0..n :
        CASE level = "high" -> High(result, n)
          [] level = "low" -> Low(result, n)
          [] level = "unsteady" -> n = 1 \/ (~High(result, n) /\ ~Low(result, n))}

SignalAt(reg, s) == signal[Tuned(s)][reg[Tuned(s)]]

Matches(s, result, n) ==
    IF s = "level" THEN High(result, n) ELSE Low(result, n)

\* What a search tells: the delay found, or for an edge the one before it.
Told(s) == IF s = "level" \/ counter = 0 THEN counter
           ELSE IF counter > 0 THEN counter - 1 ELSE 0

Following(s) ==
    CASE s = "level" -> "coarse"
      [] s = "coarse" -> "medium"
      [] s = "medium" -> "fine"
      [] s = "fine" -> "told"

\* A search ends, and the next begins: the one for the edge of the coarse delay
\* right after the level, the others at 0.
Ends(s, told) ==
    /\ edge' = [edge EXCEPT ![s] = told]
    /\ phase' = Following(s)
    /\ counter' = IF s = "level" THEN told + 1 ELSE 0
    /\ fast' = TRUE

\* Mutants of Probe: the delay is taken at the first sample that fits; a delay whose
\* samples do not bear it out is tried again.
Mut_ProbeOnce(s) ==
    /\ phase = s
    /\ counter <= Limit(s)
    /\ LET reg == VarSetIntValue(register, s, counter) IN
       \E result \in Results(SignalAt(reg, s), 1) :
        \/ /\ ~Matches(s, result, 1)
           /\ register' = reg
           /\ counter' = counter + 1
           /\ UNCHANGED <<phase, fast, edge>>
        \/ /\ Matches(s, result, 1)
           /\ register' = VarSetIntValue(reg, s, Told(s))
           /\ Ends(s, Told(s))
    /\ UNCHANGED <<signal, found, round, sum, adjust>>

Mut_ProbeAgain(s) ==
    /\ phase = s
    /\ counter <= Limit(s)
    /\ LET reg == VarSetIntValue(register, s, counter)
           n == IF fast THEN 1 ELSE Samples
       IN \E result \in Results(SignalAt(reg, s), n) :
            \/ /\ ~Matches(s, result, n)
               /\ register' = reg
               /\ counter' = IF fast THEN counter + 1 ELSE counter
               /\ fast' = TRUE
               /\ UNCHANGED <<phase, edge>>
            \/ /\ Matches(s, result, n) /\ fast
               /\ register' = reg
               /\ fast' = FALSE
               /\ UNCHANGED <<phase, counter, edge>>
            \/ /\ Matches(s, result, n) /\ ~fast
               /\ register' = VarSetIntValue(reg, s, Told(s))
               /\ Ends(s, Told(s))
    /\ UNCHANGED <<signal, found, round, sum, adjust>>

\* One iteration of the loop of GPR_FindLevel or GPR_FindEdge.
Probe(s) ==
    /\ phase = s
    /\ counter <= Limit(s)
    /\ LET reg == VarSetIntValue(register, s, counter)
           n == IF fast THEN 1 ELSE Samples
       IN \E result \in Results(SignalAt(reg, s), n) :
            \/ /\ ~Matches(s, result, n)
               /\ register' = reg
               /\ counter' = counter + 1
               /\ UNCHANGED <<phase, fast, edge>>
            \/ /\ Matches(s, result, n) /\ fast
               /\ register' = reg
               /\ fast' = FALSE
               /\ UNCHANGED <<phase, counter, edge>>
            \/ /\ Matches(s, result, n) /\ ~fast
               /\ register' = VarSetIntValue(reg, s, Told(s))
               /\ Ends(s, Told(s))
    /\ UNCHANGED <<signal, found, round, sum, adjust>>

\* The loop runs out.  An edge is told to be past the last delay; a level is told
\* from a variable that was never given a value.
Exhausted(s) ==
    /\ phase = s
    /\ counter > Limit(s)
    /\ \E told \in IF s = "level" THEN Garbage ELSE {counter} : Ends(s, told)
    /\ found' = (found /\ s # "level")
    /\ UNCHANGED <<register, signal, round, sum, adjust>>

-----------------------------------------------------------------------------
(* A measurement, their average, and what is made of it.                    *)

\* NVA_VarInit, as far as the delays go.
Tune(coarse, medium) == [coarse |-> coarse, medium |-> medium]

Begin ==
    /\ phase = "begin"
    /\ register' = Tune(CoarseTune, MediumTune)
    /\ phase' = "level" /\ counter' = Start /\ fast' = TRUE
    /\ found' = TRUE
    /\ UNCHANGED <<signal, edge, round, sum, adjust>>

\* timingValue, a float that only ever holds whole numbers.
Value ==
    edge["coarse"] + edge["medium"] \div MediumInCoarse
        + (edge["fine"] \div FineInMedium) \div MediumInCoarse

EndRound ==
    /\ phase = "told"
    /\ sum' = sum + Value
    /\ round' = round + 1
    /\ phase' = IF round' = Rounds THEN "adjust" ELSE "begin"
    /\ UNCHANGED <<counter, fast, register, signal, edge, found, adjust>>

\* Temp, in ps.
Excess == ((1000 * sum) \div Rounds - Reference) \div 2

\* Mutant of SplitExcess: the coarse part is not taken off.
Mut_SplitWhole(temp) ==
    {[coarse |-> temp \div 1000, medium |-> temp \div 31,
      fine |-> (10 * (temp % 31)) \div 17]}

\* n \div d as floats divide: when d divides n, it may come out just below.
Quotients(n, d) ==
    {n \div d} \union (IF n > 0 /\ n % d = 0 THEN {n \div d - 1} ELSE {})

\* Whole elements of 1 ns, of 31 ps and of 1.7 ps.
SplitExcess(temp) ==
    LET Parts(coarse, medium) ==
            {[coarse |-> coarse, medium |-> medium, fine |-> fine] :
                fine \in Quotients(10 * (temp - 1000 * coarse - 31 * medium), 17)}
    IN  UNION {UNION {Parts(coarse, medium) : medium \in Quotients(temp - 1000 * coarse, 31)}
                 : coarse \in Quotients(temp, 1000)}

Adjust ==
    /\ phase = "adjust"
    /\ adjust' \in IF Excess > 0 THEN SplitExcess(Excess)
                   ELSE {[coarse |-> 0, medium |-> 0, fine |-> 0]}
    /\ register' = Tune(CoarseTune + adjust'.coarse, MediumTune + adjust'.medium)
    /\ phase' = "done"
    /\ UNCHANGED <<counter, fast, signal, edge, found, round, sum>>

Next == Begin \/ (\E s \in Searches : Probe(s) \/ Exhausted(s)) \/ EndRound \/ Adjust

\* Nothing but the measurement runs, and it only waits for the chip.
Spec == Init /\ [][Next]_vars /\ WF_vars(Next)

-----------------------------------------------------------------------------
(* Properties.                                                              *)

\* Types.
TypeOK ==
    /\ phase \in Searches \union {"begin", "told", "adjust", "done"}
    /\ counter \in Int /\ fast \in BOOLEAN
    /\ register \in [coarse : Nat, medium : Nat]
    /\ edge \in [Searches -> Int] /\ found \in BOOLEAN
    /\ round \in 0..Rounds /\ sum \in Nat
    /\ adjust \in [coarse : Nat, medium : Nat, fine : Nat]

\* Delay d is the first from "from" on where the signal is steadily at level.
IsFirst(delays, d, from, level) ==
    /\ d >= from /\ d \in DOMAIN delays /\ delays[d] = level
    /\ \A e \in from..(d - 1) : delays[e] # level

\* The coarse edge is the last delay before the first one after the first high one
\* that is steadily low, however unsteady the signal is between (or the end of the
\* register), and the register is left there.
CoarseEdgeFirst ==
    phase = "medium" /\ found =>
        /\ IsFirst(signal.coarse, edge["level"], Start, "high")
        /\ \/ /\ IsFirst(signal.coarse, edge["coarse"] + 1, edge["level"] + 1, "low")
              /\ register.coarse = edge["coarse"]
           \/ /\ edge["coarse"] = CoarseMax + 1
              /\ \A d \in (edge["level"] + 1)..CoarseMax : signal.coarse[d] # "low"

\* The search for the fine delay tells what the one for the medium delay told,
\* because both move the same register.
FineTellsMedium == phase = "told" => edge["fine"] = edge["medium"]

\* The most that measurements sum up to unless a level was told from no value: floats
\* of this size hold a sum, and what is left of it, to less than a tenth of a ps.
Measurable == Rounds * (CoarseMax + MediumMax + FineMax + 3)

\* Of measurements that the registers can give, what is adjusted is what was measured in
\* excess, to one fine element of 1.7 ps: not to less than one, since a division of
\* floats may come out just below.
AdjustmentCloses ==
    phase = "done" /\ sum <= Measurable =>
        LET applied == 10000 * adjust.coarse + 310 * adjust.medium + 17 * adjust.fine
        IN  IF Excess > 0 THEN 10 * Excess - applied \in 0..17 ELSE applied = 0

\* The measurement ends.
MeasurementEnds == <>(phase = "done")
=============================================================================
