---------------------------- MODULE RecorderProofs ----------------------------
(***************************************************************************)
(* Proofs about Recorder: for every set of 3D targets and every way a write*)
(* can be cut short, with fopen failing or not, with or without an         *)
(* ACQ_START during a recording, and for files of any number of rows.      *)
(*                                                                         *)
(* The lemmas say that [Next]_vars preserves one part of the invariant     *)
(* each; a step per action, the actions that leave the part alone together.*)
(***************************************************************************)
EXTENDS Recorder, TLAPS

\* The steps of the main thread but those of startAcq and endFileWrite.
EventStep ==
    \/ \E is3D \in BOOLEAN : SetHeader(is3D)
    \/ \E target \in Targets : SetAcqInfo(target)
    \/ BeginStart
    \/ \E event \in {"stop", "refresh", "quit"} : BeginEnd(event)

\* Each thread goes from one of its statements to another of them.
LEMMA NextControl ==
    ASSUME ControlType, [Next]_vars
    PROVE  ControlType'
<1> USE DEF ControlType, mainVars, isrVars, setVars, history, limits, fileVars,
            noteVars
<1>1. CASE EventStep
  BY <1>1 DEF EventStep, SetHeader, SetAcqInfo, BeginStart, BeginEnd
<1>2. CASE CloseFile \/ NullFile \/ Halt \/ Unlink
  BY <1>2 DEF CloseFile, NullFile, AfterEndFileWrite, Halt, Unlink
<1>3. CASE ZeroCount \/ OpenFile \/ SeekPastHeader \/ SetRunning \/ Acknowledge
  BY <1>3 DEF ZeroCount, OpenFile, SeekPastHeader, SetRunning, Acknowledge
<1>4. CASE Edge \/ TestFile
  BY <1>4 DEF Edge, TestFile
<1>5. CASE WriteRow \/ TellRow \/ Rewind
  BY <1>5 DEF WriteRow, TellRow, Rewind
<1>6. CASE MisuseFile
  BY <1>6 DEF MisuseFile
<1>7. CASE LoadCount \/ StoreCount \/ Notify \/ ClampCount
  BY <1>7 DEF LoadCount, StoreCount, Notify, ClampCount
<1>8. CASE UNCHANGED vars
  BY <1>8 DEF vars
<1>9. QED
  BY <1>1, <1>2, <1>3, <1>4, <1>5, <1>6, <1>7, <1>8
     DEF Next, Main, Interrupt, EventStep

LEMMA NextFlag ==
    ASSUME FlagType, [Next]_vars
    PROVE  FlagType'
<1> USE DEF FlagType, mainVars, isrVars, setVars, history, limits, fileVars,
            noteVars
<1>1. CASE EventStep
  BY <1>1 DEF EventStep, SetHeader, SetAcqInfo, BeginStart, BeginEnd
<1>2. CASE CloseFile \/ NullFile \/ Halt \/ Unlink
  BY <1>2 DEF CloseFile, NullFile, Halt, Unlink
<1>3. CASE ZeroCount \/ OpenFile \/ SeekPastHeader \/ SetRunning \/ Acknowledge
  BY <1>3 DEF ZeroCount, OpenFile, SeekPastHeader, SetRunning, Acknowledge
<1>4. CASE Edge \/ TestFile \/ TellRow \/ Rewind
  BY <1>4 DEF Edge, TestFile, TellRow, Rewind
<1>5. CASE WriteRow
  BY <1>5 DEF WriteRow, Grow
<1>6. CASE MisuseFile
  BY <1>6 DEF MisuseFile
<1>7. CASE LoadCount \/ StoreCount \/ Notify \/ ClampCount
  BY <1>7 DEF LoadCount, StoreCount, Notify, ClampCount
<1>8. CASE UNCHANGED vars
  BY <1>8 DEF vars
<1>9. QED
  BY <1>1, <1>2, <1>3, <1>4, <1>5, <1>6, <1>7, <1>8
     DEF Next, Main, Interrupt, EventStep

\* The numbers stay natural numbers, dataCnt but for the moment before its clamp.
LEMMA NextNumber ==
    ASSUME NumberType, [Next]_vars
    PROVE  NumberType'
<1> USE DEF NumberType, mainVars, isrVars, setVars, history, limits, fileVars,
            noteVars
<1>1. CASE EventStep
  BY <1>1, TargetsAssumption
     DEF EventStep, SetHeader, SetAcqInfo, BeginStart, BeginEnd, Larger
<1>2. CASE CloseFile \/ NullFile \/ Halt \/ Unlink
  BY <1>2 DEF CloseFile, NullFile, Halt, Unlink
<1>3. CASE ZeroCount \/ OpenFile \/ SeekPastHeader \/ SetRunning \/ Acknowledge
  BY <1>3 DEF ZeroCount, OpenFile, SeekPastHeader, SetRunning, Acknowledge,
              Larger, Header
<1>4. CASE Edge \/ TestFile \/ TellRow \/ MisuseFile
  BY <1>4 DEF Edge, TestFile, TellRow, MisuseFile
<1>5. CASE WriteRow
  BY <1>5, ShortAssumption DEF WriteRow, Grow, Larger, Row
<1>6. CASE Rewind
  BY <1>6 DEF Rewind, Row
<1>7. CASE LoadCount \/ StoreCount
  BY <1>7 DEF LoadCount, StoreCount
<1>8. CASE Notify \/ ClampCount
  BY <1>8 DEF Notify, ClampCount, Larger
<1>9. CASE UNCHANGED vars
  BY <1>9 DEF vars
<1>10. QED
  BY <1>1, <1>2, <1>3, <1>4, <1>5, <1>6, <1>7, <1>8, <1>9
     DEF Next, Main, Interrupt, EventStep

LEMMA InitType ==
    ASSUME Init
    PROVE  TypeOK
<1>1. ControlType
  BY DEF Init, ControlType
<1>2. FlagType
  BY DEF Init, FlagType
<1>3. NumberType
  BY DEF Init, NumberType
<1>4. QED
  BY <1>1, <1>2, <1>3 DEF TypeOK

\* The state shared by the two threads always has its type; in particular the
\* file offset is never negative, and dataCnt only just before its clamp.
THEOREM TypeCorrect == Spec => []TypeOK
<1>1. Init => TypeOK
  BY InitType
<1>2. TypeOK /\ [Next]_vars => TypeOK'
  BY NextControl, NextFlag, NextNumber DEF TypeOK
<1>3. QED
  BY <1>1, <1>2, PTL DEF Spec

-----------------------------------------------------------------------------
(* What follows a halt.                                                     *)

LEMMA NextLag ==
    ASSUME NumberType, LagInv, [Next]_vars
    PROVE  LagInv'
<1> USE DEF LagInv, InHand, mainVars, isrVars, setVars, history, limits, fileVars,
            noteVars
<1>1. CASE EventStep
  BY <1>1 DEF EventStep, SetHeader, SetAcqInfo, BeginStart, BeginEnd
<1>2. CASE CloseFile \/ NullFile
  BY <1>2 DEF CloseFile, NullFile, AfterEndFileWrite
<1>3. CASE Halt \* starts the count
  BY <1>3 DEF Halt
<1>4. CASE Unlink \* a refresh reopens a file only while runAcq is set
  BY <1>4 DEF Unlink
<1>5. CASE ZeroCount \/ OpenFile \/ SeekPastHeader \/ SetRunning \/ Acknowledge
  BY <1>5 DEF ZeroCount, OpenFile, SeekPastHeader, SetRunning, Acknowledge
<1>6. CASE Edge \* not while halted
  BY <1>6 DEF Edge
<1>7. CASE TestFile \/ WriteRow \/ TellRow \/ Rewind \/ MisuseFile
  BY <1>7 DEF TestFile, WriteRow, TellRow, Rewind, MisuseFile
<1>8. CASE LoadCount \/ StoreCount \/ ClampCount
  BY <1>8 DEF LoadCount, StoreCount, ClampCount
<1>9. CASE Notify \* the one in hand
  BY <1>9 DEF Notify, NumberType
<1>10. CASE UNCHANGED vars
  BY <1>10 DEF vars
<1>11. QED
  BY <1>1, <1>2, <1>3, <1>4, <1>5, <1>6, <1>7, <1>8, <1>9, <1>10
     DEF Next, Main, Interrupt, EventStep

\* After a halt of the recording the interrupt thread notifies at most the one
\* row, or step back, that it had in hand.
THEOREM LagBounded == Spec => []StopLag
<1>1. Init => LagInv
  BY DEF Init, LagInv
<1>2. TypeOK /\ LagInv /\ [Next]_vars => LagInv'
  BY NextLag DEF TypeOK
<1>3. LagInv => StopLag
  BY DEF LagInv, StopLag
<1>4. QED
  BY <1>1, <1>2, <1>3, TypeCorrect, PTL DEF Spec

LEMMA NextFile ==
    ASSUME FileInv, [Next]_vars
    PROVE  FileInv'
<1> USE DEF FileInv, mainVars, isrVars, setVars, history, limits, fileVars,
            noteVars
<1>1. CASE EventStep
  BY <1>1 DEF EventStep, SetHeader, SetAcqInfo, BeginStart, BeginEnd
<1>2. CASE CloseFile
  BY <1>2 DEF CloseFile, AfterEndFileWrite
<1>3. CASE NullFile
  BY <1>3 DEF NullFile, AfterEndFileWrite
<1>4. CASE Halt \/ Unlink
  BY <1>4 DEF Halt, Unlink
<1>5. CASE ZeroCount \/ OpenFile \/ SeekPastHeader \/ SetRunning \/ Acknowledge
  BY <1>5 DEF ZeroCount, OpenFile, SeekPastHeader, SetRunning, Acknowledge
<1>6. CASE Edge \/ TestFile \/ WriteRow \/ TellRow \/ Rewind \/ MisuseFile
  BY <1>6 DEF Edge, TestFile, WriteRow, TellRow, Rewind, MisuseFile
<1>7. CASE LoadCount \/ StoreCount \/ Notify \/ ClampCount
  BY <1>7 DEF LoadCount, StoreCount, Notify, ClampCount
<1>8. CASE UNCHANGED vars
  BY <1>8 DEF vars
<1>9. QED
  BY <1>1, <1>2, <1>3, <1>4, <1>5, <1>6, <1>7, <1>8
     DEF Next, Main, Interrupt, EventStep

LEMMA FileInvariant == Spec => []FileInv
<1>1. Init => FileInv
  BY DEF Init, FileInv
<1>2. FileInv /\ [Next]_vars => FileInv'
  BY NextFile
<1>3. QED
  BY <1>1, <1>2, PTL DEF Spec

\* When no event is being handled and no recording runs, fp is NULL.
THEOREM FileForgotten == Spec => []ClosedWhenHalted
<1>1. FileInv => ClosedWhenHalted
  BY DEF FileInv, ClosedWhenHalted
<1>2. QED
  BY <1>1, FileInvariant, PTL

-----------------------------------------------------------------------------
(* The rows of the file against dataCnt and the 3D target.                  *)

\* A row moves the offset by at most one row, a step back by minus one unless
\* there is no row left; an empty file has none, before and after the seek.
LEMMA RowsStep ==
    ASSUME NEW p \in Nat
    PROVE  /\ RowsAt(p) \in Nat
           /\ RowsAt(p + Row) <= RowsAt(p) + 1
           /\ p >= Row => RowsAt(p - Row) <= RowsAt(p) - 1 \/ RowsAt(p - Row) = 0
           /\ ~(p >= Row) => RowsAt(p) = 0
<1>1. RowsAt(p) \in Nat
  BY DEF RowsAt, Row, Header
<1>2. RowsAt(p + Row) <= RowsAt(p) + 1
  BY DEF RowsAt, Row, Header
<1>3. p >= Row => RowsAt(p - Row) <= RowsAt(p) - 1 \/ RowsAt(p - Row) = 0
  BY DEF RowsAt, Row, Header
<1>4. ~(p >= Row) => RowsAt(p) = 0
  BY DEF RowsAt, Row, Header
<1>5. QED
  BY <1>1, <1>2, <1>3, <1>4

LEMMA NoRows == RowsAt(0) = 0 /\ RowsAt(Header) = 0
  BY DEF RowsAt, Row, Header

\* Rows after a step, for the actions that move the offset by a row.
LEMMA RowsAfter ==
    ASSUME NumberType
    PROVE  /\ Rows \in Nat
           /\ pos' = pos + Row => Rows' <= Rows + 1 /\ Rows' \in Nat
           /\ pos' = (IF pos >= Row THEN pos - Row ELSE pos)
                 => (Rows' <= Rows - 1 \/ Rows' = 0) /\ Rows' \in Nat
           /\ pos' = 0 \/ pos' = Header => Rows' = 0
           /\ pos' = pos => Rows' = Rows
<1>1. pos \in Nat
  BY DEF NumberType
<1>2. Rows \in Nat
  BY <1>1, RowsStep DEF Rows
<1>3. ASSUME pos' = pos + Row
      PROVE  Rows' <= Rows + 1 /\ Rows' \in Nat
  <2>1. pos' \in Nat
    BY <1>1, <1>3 DEF Row
  <2>2. QED
    BY <1>1, <1>3, <2>1, RowsStep DEF Rows
<1>4. ASSUME pos' = IF pos >= Row THEN pos - Row ELSE pos
      PROVE  (Rows' <= Rows - 1 \/ Rows' = 0) /\ Rows' \in Nat
  <2>1. pos' \in Nat
    BY <1>1, <1>4 DEF Row
  <2>2. QED
    BY <1>1, <1>4, <2>1, RowsStep DEF Rows
<1>5. pos' = 0 \/ pos' = Header => Rows' = 0
  BY NoRows DEF Rows
<1>6. pos' = pos => Rows' = Rows
  BY DEF Rows
<1>7. QED
  BY <1>2, <1>3, <1>4, <1>5, <1>6

LEMMA NextCount ==
    ASSUME ControlType, NumberType, FileInv, CountInv, [Next]_vars
    PROVE  CountInv'
<1> USE DEF CountInv, Counted, Larger, mainVars, isrVars, setVars, history, limits,
            fileVars, noteVars
<1>1. pos \in Nat /\ dataCnt \in Int /\ loaded \in Nat
  BY DEF NumberType
<1>2. CASE EventStep
  BY <1>2, RowsAfter DEF EventStep, SetHeader, SetAcqInfo, BeginStart, BeginEnd
<1>3. CASE CloseFile \/ NullFile \/ Halt \/ Unlink
  BY <1>3 DEF CloseFile, NullFile, AfterEndFileWrite, Halt, Unlink, FileInv
<1>4. CASE ZeroCount
  BY <1>4 DEF ZeroCount
<1>5. CASE OpenFile
  BY <1>5, RowsAfter DEF OpenFile, NumberType
<1>6. CASE SeekPastHeader
  BY <1>6, RowsAfter DEF SeekPastHeader, NumberType
<1>7. CASE SetRunning \/ Acknowledge
  BY <1>7, RowsAfter DEF SetRunning, Acknowledge
<1>8. CASE Edge \/ TestFile \/ TellRow \/ MisuseFile
  BY <1>8, RowsAfter DEF Edge, TestFile, TellRow, MisuseFile
<1>9. CASE WriteRow
  BY <1>1, <1>9, RowsAfter DEF WriteRow, Grow
<1>10. CASE Rewind
  BY <1>1, <1>10, RowsAfter DEF Rewind
<1>11. CASE LoadCount \/ StoreCount \/ Notify \/ ClampCount
  BY <1>1, <1>11, RowsAfter DEF LoadCount, StoreCount, Notify, ClampCount, NumberType
<1>12. CASE UNCHANGED vars
  BY <1>12, RowsAfter DEF vars
<1>13. QED
  BY <1>2, <1>3, <1>4, <1>5, <1>6, <1>7, <1>8, <1>9, <1>10, <1>11, <1>12
     DEF Next, Main, Interrupt, EventStep

LEMMA CountInvariant == Spec => []CountInv
<1>1. Init => CountInv
  BY DEF Init, CountInv, Counted
<1>2. TypeOK /\ FileInv /\ CountInv /\ [Next]_vars => CountInv'
  BY NextCount DEF TypeOK
<1>3. QED
  BY <1>1, <1>2, TypeCorrect, FileInvariant, PTL DEF Spec

\* With both threads at rest dataCnt is at least the rows of the open file.
THEOREM RowsCounted == Spec => []CountCoversFile
<1>1. CountInv => CountCoversFile
  BY DEF CountInv, CountCoversFile, Counted
<1>2. QED
  BY <1>1, CountInvariant, PTL

LEMMA NextGrid ==
    ASSUME ControlType, NumberType, FileInv, CountInv, GridInv, [Next]_vars
    PROVE  GridInv'
<1> USE DEF GridInv, Counted, mainVars, isrVars, setVars, history, limits,
            fileVars, noteVars
<1>1. pos \in Nat /\ dataCnt \in Int /\ cap \in Nat /\ dataSize3D \in Nat
  BY DEF NumberType
<1>2. CASE EventStep
  <2>0. Rows \in Nat
    BY RowsAfter
  <2>1. Rows' = Rows
    BY <1>2, RowsAfter DEF EventStep, SetHeader, SetAcqInfo, BeginStart, BeginEnd
  <2>2. CASE \E is3D \in BOOLEAN : SetHeader(is3D)
    <3>1. ~free2D' => scan3D' /\ ~free2D
      <4>1. PICK is3D \in BOOLEAN : SetHeader(is3D)
        BY <2>2
      <4>2. scan3D' = is3D /\ free2D' = (free2D \/ ~is3D)
        BY <4>1 DEF SetHeader
      <4>3. QED
        BY <4>2, Zenon
    <3>2. Counted' => Counted
      BY <2>2 DEF SetHeader
    <3>3. UNCHANGED <<dataSize3D, cap, ipc>>
      BY <2>2 DEF SetHeader
    <3>4. QED
      BY <2>1, <3>1, <3>2, <3>3
  <2>3. CASE \E target \in Targets : SetAcqInfo(target)
    BY <1>1, <2>0, <2>1, <2>3, TargetsAssumption DEF SetAcqInfo, Larger
  <2>4. CASE BeginStart \/ \E event \in {"stop", "refresh", "quit"} : BeginEnd(event)
    BY <2>1, <2>4 DEF BeginStart, BeginEnd
  <2>5. QED
    BY <1>2, <2>2, <2>3, <2>4 DEF EventStep
<1>3. CASE CloseFile \/ NullFile \/ Halt \/ Unlink
  BY <1>3 DEF CloseFile, NullFile, AfterEndFileWrite, Halt, Unlink, FileInv
<1>4. CASE ZeroCount
  BY <1>4 DEF ZeroCount
<1>5. CASE OpenFile
  <2>1. Counted' => /\ Rows' = 0
                     /\ dataSize3D' <= cap' /\ 1 <= cap'
    BY <1>1, <1>5, RowsAfter DEF OpenFile, Larger
  <2>2. Counted' /\ ~free2D' => scan3D'
    BY <1>5, Zenon DEF OpenFile
  <2>3. QED
    BY <1>1, <1>5, <2>1, <2>2 DEF OpenFile, Larger
<1>6. CASE SeekPastHeader
  BY <1>1, <1>6, RowsAfter DEF SeekPastHeader
<1>7. CASE SetRunning \/ Acknowledge
  BY <1>7, RowsAfter DEF SetRunning, Acknowledge
<1>8. CASE Edge \* the target's test, and dataCnt covers the file
  <2>1. Counted => Rows <= dataCnt
    BY <1>8 DEF CountInv, Edge
  <2>2. Counted /\ ~free2D => dataCnt < cap
    BY <1>1, <1>8 DEF Edge, RoomForRow
  <2>3. Rows \in Nat /\ Rows' = Rows
    BY <1>8, RowsAfter DEF Edge
  <2>4. QED
    BY <1>1, <1>8, <2>1, <2>2, <2>3 DEF Edge
<1>9. CASE TestFile \/ TellRow \/ MisuseFile
  BY <1>1, <1>9, RowsAfter DEF TestFile, TellRow, MisuseFile
<1>10. CASE WriteRow
  BY <1>1, <1>10, RowsAfter DEF WriteRow, Grow
<1>11. CASE Rewind
  BY <1>1, <1>11, RowsAfter DEF Rewind
<1>12. CASE LoadCount \/ StoreCount \/ Notify \/ ClampCount
  BY <1>12, RowsAfter DEF LoadCount, StoreCount, Notify, ClampCount
<1>13. CASE UNCHANGED vars
  BY <1>13, RowsAfter DEF vars
<1>14. QED
  BY <1>2, <1>3, <1>4, <1>5, <1>6, <1>7, <1>8, <1>9, <1>10, <1>11, <1>12, <1>13
     DEF Next, Main, Interrupt, EventStep

\* A 3D file never holds more rows than its grid's target.
THEOREM GridRespected == Spec => []GridLimit
<1>1. Init => GridInv
  BY DEF Init, GridInv, Counted
<1>2. TypeOK /\ FileInv /\ CountInv /\ GridInv /\ [Next]_vars => GridInv'
  BY NextGrid DEF TypeOK
<1>3. TypeOK /\ GridInv => GridLimit
  <2> SUFFICES ASSUME TypeOK, GridInv, Counted, ~free2D
               PROVE  Rows <= cap
    BY DEF GridLimit, Counted
  <2>1. Rows \in Nat
    BY RowsAfter DEF TypeOK
  <2>2. cap \in Nat
    BY DEF TypeOK, NumberType
  <2>3. QED
    BY <2>1, <2>2 DEF GridInv
<1>4. QED
  BY <1>1, <1>2, <1>3, TypeCorrect, FileInvariant, CountInvariant, PTL DEF Spec
=============================================================================
