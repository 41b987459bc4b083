------------------------------- MODULE PulseRow -------------------------------
(***************************************************************************)
(* What SPI_Read makes of a captured pulse before it is sent and recorded  *)
(* (NVA_SPI.c): a reading that stands out is replaced by what its          *)
(* neighbours say, and every reading keeps its low 16 bits.                *)
(***************************************************************************)
LOCAL INSTANCE Naturals

CONSTANTS Length,   \* readings of a pulse, 320
          Spike,    \* what no reading of 50 iterations exceeds, 49000
          Word,     \* 2^32, an unsigned int
          Half      \* 2^16

Places == 0..(Length - 1)

\* Mutant of Smoothed: the last place is left as it is, like place 1.
Mut_SmoothedButLast(raw) ==
    LET smooth[i \in Places] ==
            IF raw[i] <= Spike \/ i \in {1, Length - 1} THEN raw[i]
            ELSE IF i = 0 THEN raw[1]
            ELSE ((smooth[i - 1] + raw[i + 1]) % Word) \div 2
    IN  smooth

\* From the front to the back, so that the left neighbour is smooth already and the
\* right one as it was read.  Place 1 is left as it is.
Smoothed(raw) ==
    LET smooth[i \in Places] ==
            IF raw[i] <= Spike \/ i = 1 THEN raw[i]
            ELSE IF i = 0 THEN raw[1]
            ELSE IF i = Length - 1 THEN smooth[i - 1]
            ELSE ((smooth[i - 1] + raw[i + 1]) % Word) \div 2
    IN  smooth

Sent(raw) == LET smooth == Smoothed(raw) IN [i \in Places |-> smooth[i] % Half]

Least(a, b) == IF a < b THEN a ELSE b
Greatest(a, b) == IF a < b THEN b ELSE a

\* A row is told as it was read but for its spikes, and what stands for a spike is none
\* and lies between what is told on both sides of it.  Two spikes next to each other,
\* and one at place 1, are excepted: they may stay, and lose their high bits.
SpikesCut(raw) ==
    LET spikes == {i \in Places : raw[i] > Spike}
        sent == Sent(raw)
    IN  (1 \notin spikes /\ \A i \in spikes : i + 1 \notin spikes) =>
            /\ \A i \in Places \ spikes : sent[i] = raw[i]
            /\ \A i \in spikes \ {0, Length - 1} :
                sent[i] \in Least(sent[i - 1], sent[i + 1])..Greatest(sent[i - 1], sent[i + 1])
            /\ \A i \in spikes : sent[i] <= Spike
=============================================================================
