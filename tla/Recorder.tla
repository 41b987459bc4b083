------------------------------- MODULE Recorder --------------------------------
(***************************************************************************)
(* The recording of one file, as the two threads that share acqCon see it: *)
(* the main thread, which runs the handlers of ACQ_START, ACQ_STOP,        *)
(* ACQ_REFRESH, HEADER_INFO, ACQ_INFO, ACQ_ABNORMAL_QUIT and socket_close  *)
(* (gpr_socket.c, gpr_socket_acq.c), and wiringPi's interrupt thread, which*)
(* runs encoder_interrupt (encoder.c), one call at a time.                 *)
(*                                                                         *)
(* There is no lock.  Every access that one thread makes to state the other*)
(* one writes is a step of its own, and acqCon.fp is read again at each    *)
(* use.  Using a FILE after fclose, or NULL, is undefined: the step either *)
(* ends the process or does nothing.                                       *)
(*                                                                         *)
(* Offsets in the file are counted in units of 128 bytes, so the header's  *)
(* 256 bytes are 2 units and a row's 640 bytes are 5.                      *)
(***************************************************************************)
EXTENDS Integers

CONSTANTS Targets,     \* values of dataSize3D an app sends
          ShortWrites, \* units a failing fwrite may still have put on the disk
          OpenMayFail, \* fopen may fail
          StartAgain,  \* an app may send ACQ_START while it records
          MaxRows      \* bound: a row is added only below so many counted or written

ASSUME TargetsAssumption == Targets \subseteq Nat \ {0}
ASSUME ShortAssumption == ShortWrites \subseteq 0..4
ASSUME SwitchAssumption == OpenMayFail \in BOOLEAN /\ StartAgain \in BOOLEAN
ASSUME MaxRowsAssumption == MaxRows \in Nat

Header == 2     \* fixHeaderSize
Row == 5        \* fixDepthDataSize

VARIABLES
    mpc,        \* main thread: the next statement that touches shared state;
                \* "dead" if the process is
    op,         \* main thread: the event being handled
    pathSet,    \* acqCon.savePath # NULL
    runAcq,     \* acqCon.runAcq
    fp,         \* acqCon.fp: "null", "open", or "closed" (closed, not yet NULL)
    dataCnt,    \* acqCon.dataCnt
    dataSize3D, \* acqCon.dataSize3D
    scan3D,     \* headerParameter.cScanMode # 0
    pos,        \* the offset of the open file
    size,       \* how far the open file has been written
    ipc,        \* interrupt thread: its next statement, or "dead"
    loaded,     \* interrupt thread: dataCnt as it read it
    halted,     \* history: runAcq was cleared and no ACQ_START came since
    late,       \* history: notifications sent while halted
    misused,    \* history: a file was used that was not open
    torn,       \* history: a short write since the file was opened
    headerHit,  \* history: a row was written over the open file's header
    free2D,     \* history: 2D mode at some time since the file was opened
    cap         \* history: largest 3D target since the file was opened

mainVars == <<mpc, op, pathSet>>
isrVars == <<ipc, loaded>>
setVars == <<dataSize3D, scan3D>>
history == <<torn, headerHit, misused>>
limits == <<free2D, cap>>
fileVars == <<fp, pos, size, history, limits>>
noteVars == <<halted, late>>
vars == <<mainVars, isrVars, setVars, fileVars, noteVars, runAcq, dataCnt>>

Init ==
    /\ mpc = "idle" /\ op = "none" /\ pathSet = FALSE
    /\ runAcq = FALSE
    /\ fp = "null" /\ pos = 0 /\ size = 0
    /\ dataCnt = 0 /\ dataSize3D = 0 /\ scan3D = FALSE
    /\ ipc = "idle" /\ loaded = 0
    /\ halted = FALSE /\ late = 0
    /\ misused = FALSE /\ torn = FALSE /\ headerHit = FALSE
    /\ free2D = FALSE /\ cap = 0

Larger(m, n) == IF m > n THEN m ELSE n

\* Whole rows between the header and the file's offset.
RowsAt(p) == IF p < Header THEN 0 ELSE (p - Header) \div Row
Rows == RowsAt(pos)

-----------------------------------------------------------------------------
(* Main thread: events.  An event starts only when the last one is done.    *)

\* HEADER_INFO: setHeaderFromJson, as far as the recording reads it.
SetHeader(is3D) ==
    /\ mpc = "idle"
    /\ scan3D' = is3D
    /\ free2D' = (free2D \/ ~is3D)
    /\ UNCHANGED <<mainVars, isrVars, dataSize3D, fp, pos, size, history, cap,
                   noteVars, runAcq, dataCnt>>

\* ACQ_INFO: setAcqInfoFromJson and makeSavePath leave a path; the target is
\* taken over in 3D mode only.
SetAcqInfo(target) ==
    /\ mpc = "idle"
    /\ pathSet' = TRUE
    /\ IF scan3D
       THEN dataSize3D' = target /\ cap' = Larger(cap, target)
       ELSE UNCHANGED <<dataSize3D, cap>>
    /\ UNCHANGED <<mpc, op, isrVars, scan3D, fp, pos, size, history, free2D,
                   noteVars, runAcq, dataCnt>>

\* ACQ_START: startAcq does nothing but acknowledge when there is no path.
BeginStart ==
    /\ mpc = "idle"
    /\ StartAgain \/ ~runAcq
    /\ op' = "start"
    /\ mpc' = IF pathSet THEN "zero" ELSE "ack"
    /\ halted' = FALSE
    /\ late' = 0
    /\ UNCHANGED <<pathSet, isrVars, setVars, fileVars, runAcq, dataCnt>>

\* ACQ_STOP, ACQ_REFRESH; "quit" is ACQ_ABNORMAL_QUIT and socket_close, which
\* end a recording without an acknowledgement.
BeginEnd(event) ==
    /\ mpc = "idle"
    /\ op' = event
    /\ mpc' = "close"
    /\ UNCHANGED <<pathSet, isrVars, setVars, fileVars, noteVars, runAcq,
                   dataCnt>>

-----------------------------------------------------------------------------
(* Main thread: endFileWrite, stopAcq and the rest of the refresh handler.  *)

AfterEndFileWrite == IF op = "refresh" THEN "unlink" ELSE "halt"

CloseFile ==
    /\ mpc = "close"
    /\ IF fp = "null"
       THEN mpc' = AfterEndFileWrite /\ UNCHANGED fp
       ELSE mpc' = "null" /\ fp' = "closed"
    /\ UNCHANGED <<op, pathSet, isrVars, setVars, pos, size, history, limits,
                   noteVars, runAcq, dataCnt>>

\* Mutant of NullFile: fp keeps pointing at the closed file.
Mut_NullForgotten ==
    /\ mpc = "null"
    /\ mpc' = AfterEndFileWrite
    /\ UNCHANGED <<op, pathSet, isrVars, setVars, fileVars, noteVars, runAcq,
                   dataCnt>>

NullFile ==
    /\ mpc = "null"
    /\ fp' = "null"
    /\ mpc' = AfterEndFileWrite
    /\ UNCHANGED <<op, pathSet, isrVars, setVars, pos, size, history, limits,
                   noteVars, runAcq, dataCnt>>

\* Mutant of Halt: runAcq is left set.
Mut_HaltKeepsRunning ==
    /\ mpc = "halt"
    /\ halted' = TRUE
    /\ late' = 0
    /\ IF op = "stop"
       THEN mpc' = "ack" /\ UNCHANGED op
       ELSE mpc' = "idle" /\ op' = "none"
    /\ UNCHANGED <<pathSet, isrVars, setVars, fileVars, runAcq, dataCnt>>

Halt ==
    /\ mpc = "halt"
    /\ runAcq' = FALSE
    /\ halted' = TRUE
    /\ late' = 0
    /\ IF op = "stop"
       THEN mpc' = "ack" /\ UNCHANGED op
       ELSE mpc' = "idle" /\ op' = "none"
    /\ UNCHANGED <<pathSet, isrVars, setVars, fileVars, dataCnt>>

\* deleteAcqFile, ACQ_REFRESH_NTF and the test of runAcq, which only this
\* thread writes.
Unlink ==
    /\ mpc = "unlink"
    /\ IF runAcq
       THEN mpc' = "zero" /\ UNCHANGED op
       ELSE mpc' = "idle" /\ op' = "none"
    /\ UNCHANGED <<pathSet, isrVars, setVars, fileVars, noteVars, runAcq,
                   dataCnt>>

-----------------------------------------------------------------------------
(* Main thread: startAcq.                                                   *)

ZeroCount ==
    /\ mpc = "zero"
    /\ dataCnt' = 0
    /\ mpc' = "open"
    /\ UNCHANGED <<op, pathSet, isrVars, setVars, fileVars, noteVars, runAcq>>

\* fopen(path, "wb") empties the file, or fails and leaves NULL.
OpenFile ==
    /\ mpc = "open"
    /\ \/ /\ fp' = "open" /\ mpc' = "seek"
          /\ pos' = 0 /\ size' = 0
          /\ torn' = FALSE /\ headerHit' = FALSE
          /\ free2D' = ~scan3D
          /\ cap' = Larger(dataSize3D, 1)
       \/ /\ OpenMayFail
          /\ fp' = "null" /\ mpc' = "run"
          /\ UNCHANGED <<pos, size, torn, headerHit, free2D, cap>>
    /\ UNCHANGED <<op, pathSet, isrVars, setVars, misused, noteVars, runAcq,
                   dataCnt>>

SeekPastHeader ==
    /\ mpc = "seek"
    /\ pos' = Header
    /\ mpc' = "run"
    /\ UNCHANGED <<op, pathSet, isrVars, setVars, fp, size, history, limits,
                   noteVars, runAcq, dataCnt>>

SetRunning ==
    /\ mpc = "run"
    /\ runAcq' = TRUE
    /\ IF op = "start"
       THEN mpc' = "ack" /\ UNCHANGED op
       ELSE mpc' = "idle" /\ op' = "none"
    /\ UNCHANGED <<pathSet, isrVars, setVars, fileVars, noteVars, dataCnt>>

\* ACQ_START_NTF or ACQ_STOP_NTF.
Acknowledge ==
    /\ mpc = "ack"
    /\ mpc' = "idle" /\ op' = "none"
    /\ UNCHANGED <<pathSet, isrVars, setVars, fileVars, noteVars, runAcq,
                   dataCnt>>

Main ==
    \/ \E is3D \in BOOLEAN : SetHeader(is3D)
    \/ \E target \in Targets : SetAcqInfo(target)
    \/ BeginStart
    \/ \E event \in {"stop", "refresh", "quit"} : BeginEnd(event)
    \/ CloseFile
    \/ NullFile
    \/ Halt
    \/ Unlink
    \/ ZeroCount
    \/ OpenFile
    \/ SeekPastHeader
    \/ SetRunning
    \/ Acknowledge

-----------------------------------------------------------------------------
(* Interrupt thread: encoder_interrupt.                                     *)

\* The mutant tests the target as if it were inclusive.
Mut_RoomForOneMore == ~scan3D \/ dataCnt <= dataSize3D

RoomForRow == ~scan3D \/ dataCnt < dataSize3D

\* An edge of the encoder while a recording runs and its target is not met;
\* pin 1 tells forwards from backwards.
Edge ==
    /\ ipc = "idle"
    /\ runAcq
    /\ RoomForRow
    /\ \/ dataCnt < MaxRows /\ Rows < MaxRows /\ ipc' = "front"
       \/ ipc' = "back"
    /\ UNCHANGED <<mainVars, loaded, setVars, fileVars, noteVars, runAcq,
                   dataCnt>>

\* if (acqCon.fp != NULL) of frontRowData and backRowData.
TestFile ==
    /\ ipc \in {"front", "back"}
    /\ ipc' = CASE fp = "null" -> "idle"
                [] fp # "null" /\ ipc = "front" -> "write"
                [] OTHER -> "tell"
    /\ UNCHANGED <<mainVars, loaded, setVars, fileVars, noteVars, runAcq,
                   dataCnt>>

Grow(n) ==
    /\ pos' = pos + n
    /\ size' = Larger(size, pos + n)
    /\ headerHit' = (headerHit \/ (n > 0 /\ pos < Header))

\* fwrite of one row, whole or cut short by a full disk.
WriteRow ==
    /\ ipc = "write" /\ fp = "open"
    /\ \/ Grow(Row) /\ ipc' = "load" /\ UNCHANGED torn
       \/ \E n \in ShortWrites : Grow(n) /\ ipc' = "idle" /\ torn' = TRUE
    /\ UNCHANGED <<mainVars, loaded, setVars, fp, misused, limits, noteVars,
                   runAcq, dataCnt>>

\* ftell: only a file that holds a row goes back.
TellRow ==
    /\ ipc = "tell" /\ fp = "open"
    /\ ipc' = IF pos > Header THEN "rewind" ELSE "idle"
    /\ UNCHANGED <<mainVars, loaded, setVars, fileVars, noteVars, runAcq,
                   dataCnt>>

\* fseek by minus one row; it fails before the start of the file, and its
\* result is not looked at.
Rewind ==
    /\ ipc = "rewind" /\ fp = "open"
    /\ pos' = IF pos >= Row THEN pos - Row ELSE pos
    /\ ipc' = "backNote"
    /\ UNCHANGED <<mainVars, loaded, setVars, fp, size, history, limits,
                   noteVars, runAcq, dataCnt>>

\* fwrite, ftell or fseek on a FILE that the main thread closed since the test.
MisuseFile ==
    /\ ipc \in {"write", "tell", "rewind"}
    /\ fp # "open"
    /\ misused' = TRUE
    /\ \/ mpc' = "dead" /\ ipc' = "dead"
       \/ /\ ipc' \in CASE ipc = "write"  -> {"idle", "load"}
                       [] ipc = "tell"   -> {"idle", "rewind"}
                       [] ipc = "rewind" -> {"backNote"}
          /\ UNCHANGED mpc
    /\ UNCHANGED <<op, pathSet, loaded, setVars, fp, pos, size, torn, headerHit,
                   limits, noteVars, runAcq, dataCnt>>

\* dataCnt++ and dataCnt--: a load and a store.
LoadCount ==
    /\ ipc \in {"load", "loadBack"}
    /\ loaded' = dataCnt
    /\ ipc' = IF ipc = "load" THEN "store" ELSE "storeBack"
    /\ UNCHANGED <<mainVars, setVars, fileVars, noteVars, runAcq, dataCnt>>

\* Mutant of StoreCount: a row taken back is counted back twice.
Mut_StoreBackTwice ==
    /\ ipc \in {"store", "storeBack"}
    /\ IF ipc = "store"
       THEN dataCnt' = loaded + 1 /\ ipc' = "note"
       ELSE dataCnt' = loaded - 2 /\ ipc' = "clamp"
    /\ UNCHANGED <<mainVars, loaded, setVars, fileVars, noteVars, runAcq>>

StoreCount ==
    /\ ipc \in {"store", "storeBack"}
    /\ IF ipc = "store"
       THEN dataCnt' = loaded + 1 /\ ipc' = "note"
       ELSE dataCnt' = loaded - 1 /\ ipc' = "clamp"
    /\ UNCHANGED <<mainVars, loaded, setVars, fileVars, noteVars, runAcq>>

\* ACQ_DATA_NTF after the count, ACQ_BACK_DATA_NTF before it.
Notify ==
    /\ ipc \in {"note", "backNote"}
    /\ ipc' = IF ipc = "note" THEN "idle" ELSE "loadBack"
    /\ late' = IF halted THEN late + 1 ELSE late
    /\ UNCHANGED <<mainVars, loaded, setVars, fileVars, halted, runAcq,
                   dataCnt>>

\* Mutant of ClampCount: a count below zero stays.
Mut_ClampForgotten ==
    /\ ipc = "clamp"
    /\ ipc' = "idle"
    /\ UNCHANGED <<mainVars, loaded, setVars, fileVars, noteVars, runAcq, dataCnt>>

ClampCount ==
    /\ ipc = "clamp"
    /\ dataCnt' = Larger(dataCnt, 0)
    /\ ipc' = "idle"
    /\ UNCHANGED <<mainVars, loaded, setVars, fileVars, noteVars, runAcq>>

Interrupt ==
    \/ Edge
    \/ TestFile
    \/ WriteRow
    \/ TellRow
    \/ Rewind
    \/ MisuseFile
    \/ LoadCount
    \/ StoreCount
    \/ Notify
    \/ ClampCount

Next == Main \/ Interrupt

Spec == Init /\ [][Next]_vars

-----------------------------------------------------------------------------
(* Properties.                                                              *)

ControlType ==
    /\ mpc \in {"idle", "close", "null", "halt", "unlink", "zero", "open", "seek",
                "run", "ack", "dead"}
    /\ op \in {"none", "start", "stop", "refresh", "quit"}
    /\ ipc \in {"idle", "front", "back", "write", "tell", "rewind", "backNote",
                "load", "loadBack", "store", "storeBack", "note", "clamp", "dead"}
    /\ fp \in {"null", "open", "closed"}

FlagType ==
    /\ pathSet \in BOOLEAN /\ runAcq \in BOOLEAN /\ scan3D \in BOOLEAN
    /\ halted \in BOOLEAN /\ misused \in BOOLEAN /\ torn \in BOOLEAN
    /\ headerHit \in BOOLEAN /\ free2D \in BOOLEAN

NumberType ==
    /\ pos \in Nat /\ size \in Nat /\ late \in Nat /\ loaded \in Nat
    /\ dataSize3D \in Nat /\ cap \in Nat
    /\ dataCnt \in Int /\ dataCnt >= -1
    /\ dataCnt = -1 => ipc = "clamp"

\* Types; dataCnt is -1 only between its decrement and the clamp.
TypeOK == ControlType /\ FlagType /\ NumberType

\* Between a halt of the recording (ACQ_STOP, ACQ_ABNORMAL_QUIT, a lost client)
\* and the next ACQ_START, at most one row or step back is still notified, the
\* one the interrupt thread had in hand; a client that comes next may see it.
StopLag == halted => late <= 1

\* Once a recording is over its file is closed and forgotten.
ClosedWhenHalted == mpc = "idle" /\ ~runAcq => fp = "null"

\* In 3D the file never holds more rows than the grid's target, although the
\* target is tested long before the row is written and ACQ_REFRESH resets the
\* count in between.
GridLimit ==
    fp = "open" /\ mpc # "open" /\ ~torn /\ ~free2D => Rows <= cap

\* The count covers the file: when neither thread is at work dataCnt is at least
\* the number of rows before the offset.
CountCoversFile ==
    mpc = "idle" /\ ipc = "idle" /\ fp = "open" /\ ~torn => Rows <= dataCnt

-----------------------------------------------------------------------------
(* What makes the properties inductive.                                     *)

\* The interrupt thread still owes a notification.
InHand == ipc \in {"front", "back", "write", "tell", "rewind", "backNote", "load",
                   "store", "note"}

\* While halted no edge is taken, so what is in hand is all that can come.
LagInv ==
    halted => /\ ~runAcq
              /\ mpc \notin {"zero", "open", "seek", "run"}
              /\ late = 0 \/ (late = 1 /\ ~InHand)

\* Where the main thread is tells what it has done to fp.
FileInv ==
    /\ mpc \in {"halt", "unlink"} => fp = "null"
    /\ mpc \in {"idle", "ack"} /\ ~runAcq => fp = "null"
    /\ fp = "closed" => mpc \in {"null", "dead"}

\* The file that dataCnt counts the rows of: not the one that an ACQ_START during
\* a recording is about to empty, after it has reset the count.
Counted == fp = "open" /\ mpc # "open" /\ ~torn

\* Rows against dataCnt, allowing for the half of a row or of a step back that
\* the interrupt thread has done.
CountInv ==
    Counted =>
        CASE ipc = "load" -> Rows <= dataCnt + 1
          [] ipc = "store" -> Rows <= loaded + 1
          [] ipc \in {"backNote", "loadBack"} -> Rows <= Larger(dataCnt - 1, 0)
          [] ipc = "storeBack" -> Rows <= Larger(loaded - 1, 0)
          [] ipc = "clamp" -> Rows <= Larger(dataCnt, 0)
          [] OTHER -> Rows <= dataCnt

\* A row whose test has passed has its place, in this file or as the first row
\* of the next.
GridInv ==
    Counted /\ ~free2D =>
        /\ scan3D
        /\ dataSize3D <= cap /\ 1 <= cap
        /\ Rows + (IF ipc \in {"front", "write"} THEN 1 ELSE 0) <= cap

-----------------------------------------------------------------------------
(* What comments of the code say of it.                                     *)

\* Once endFileWrite has closed the file nothing is written to it.
NoUseAfterClose == ~misused

\* The first 256 bytes of the file are left to the header.
HeaderReserved == fp = "open" /\ mpc = "idle" => ~headerHit

\* A 3D recording that the code takes for full has its target's rows.
FullMeansFull ==
    mpc = "idle" /\ ipc = "idle" /\ fp = "open" /\ ~torn /\ ~RoomForRow =>
        Rows >= dataSize3D

\* At ACQ_STOP the file holds the rows that dataCnt counts.
StoppedFileMatchesCount ==
    mpc = "ack" /\ op = "stop" /\ ipc = "idle" /\ ~torn /\ ~misused /\ ~headerHit =>
        size \in {0, Header + Row * dataCnt}
=============================================================================
