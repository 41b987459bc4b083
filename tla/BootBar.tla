------------------------------- MODULE BootBar -------------------------------
(***************************************************************************)
(* The bar of lights while the Raspberry Pi starts (arduino_code.c): a     *)
(* timer's interrupt lights one more for every interval, and makes the bar *)
(* red when the server has not told its start by the end; any line stops   *)
(* the timer.  Lines come in the order in which the server writes them,    *)
(* with the battery thread's text anywhere after the first.                *)
(***************************************************************************)
LOCAL INSTANCE Naturals

Lights == 0..4                          \* NUM_LEDS
Lines == <<"boot completed", "server on">>

VARIABLES
    bar,            \* leds
    bootWaitCnt,    \* intervals so far
    timer,          \* MsTimer2 runs
    said,           \* lines of the server read so far
    serverLed       \* the green light of the switch

vars == <<bar, bootWaitCnt, timer, said, serverLed>>

All(colour) == [i \in Lights |-> colour]

\* setup.
Init ==
    /\ bar = [i \in Lights |-> IF i = 0 THEN "blue" ELSE "off"]
    /\ bootWaitCnt = 0 /\ timer = TRUE
    /\ said = 0 /\ serverLed = FALSE

\* bootWaitFunc, the timer's interrupt.
BootWait ==
    /\ timer
    /\ bootWaitCnt' = bootWaitCnt + 1
    /\ IF bootWaitCnt' \in Lights
       THEN bar' = [bar EXCEPT ![bootWaitCnt'] = "blue"] /\ UNCHANGED timer
       ELSE bar' = All("red") /\ timer' = FALSE
    /\ UNCHANGED <<said, serverLed>>

\* Mutant of ReadLine: the timer is stopped by its own last interval only.
Mut_ReadLineTimed(line) ==
    /\ bar' = IF line = "boot completed" THEN All("green") ELSE bar
    /\ serverLed' = (serverLed \/ line = "server on")
    /\ UNCHANGED <<bootWaitCnt, timer>>

\* loop: it stops the timer, and then looks at the line.
ReadLine(line) ==
    /\ timer' = FALSE
    /\ bar' = IF line = "boot completed" THEN All("green") ELSE bar
    /\ serverLed' = (serverLed \/ line = "server on")
    /\ UNCHANGED bootWaitCnt

ServerLine ==
    /\ said < 2
    /\ said' = said + 1
    /\ ReadLine(Lines[said'])

TextLine ==
    /\ said > 0
    /\ ReadLine("text")
    /\ UNCHANGED said

Next == BootWait \/ ServerLine \/ TextLine

Spec == Init /\ [][Next]_vars

-----------------------------------------------------------------------------
\* Types.
TypeOK ==
    /\ bar \in [Lights -> {"off", "blue", "red", "green"}]
    /\ bootWaitCnt \in Nat /\ timer \in BOOLEAN
    /\ said \in 0..2 /\ serverLed \in BOOLEAN

\* While the switch tells that the server is on, the bar does not tell that it is
\* starting or failed to start, however late it came and wherever the timer was.
StartedIsGreen == serverLed => bar = All("green")
=============================================================================
