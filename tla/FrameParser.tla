------------------------------ MODULE FrameParser ------------------------------
(***************************************************************************)
(* The byte-to-event parser of the TCP link (gpr_socket_data.c,            *)
(* convertEvent), fed by an app that frames its events the way             *)
(* socket_write does: 0x7E, a two-byte length (high byte first), the event *)
(* code and its data, and a byte that makes the sum 0xFF modulo 256.       *)
(*                                                                         *)
(* TCP keeps bytes in order, so handing a byte over is one step: the app   *)
(* emits its next byte and convertEvent runs one iteration of its loop.    *)
(* How read() cuts the stream makes no difference, convertEvent keeps all  *)
(* of its state in tcpData between two calls.  What TCP does not promise   *)
(* is that a session ends between two frames: Disconnect may fall anywhere,*)
(* and nothing on that path touches tcpData.                               *)
(***************************************************************************)
EXTENDS Integers, Sequences

CONSTANTS Payloads,     \* the events of the app: code byte, then data bytes
          MaxFrames,    \* bound: frames per session
          MaxSessions   \* bound: sessions

Byte == 0..255
SOF == 126              \* 0x7E, the start byte
MaxLength == 65535      \* what the two length bytes can say

ASSUME PayloadsAssumption ==
    \A p \in Payloads : p \in Seq(Byte) /\ Len(p) \in 1..MaxLength

VARIABLES
    connected,  \* a client is accepted
    sessions,   \* sessions so far
    tx,         \* the event the app is sending, <<>> between two frames
    pos,        \* how many bytes of its frame the parser has handled
    sum,        \* the app's running sum of the event's bytes, modulo 256
    index, length, checkSum, data_buffer,  \* the fields of tcpData
    live,       \* data buffers allocated and not yet freed
    synced,     \* history: in this session the parser has once been idle
                \* while the app was between two frames
    frames,     \* history: frames the app completed in this session
    due,        \* history: events completed while synced
    got         \* history: events handed to socket_read while synced

appVars == <<tx, pos, sum, frames, due, synced>>
tcpData == <<index, length, checkSum, data_buffer>>
parserVars == <<tcpData, live, got>>
vars == <<connected, sessions, appVars, parserVars>>

Init ==
    /\ connected = FALSE
    /\ sessions = 0
    /\ tx = <<>> /\ pos = 0 /\ sum = 0
    /\ index = 0 /\ length = 0 /\ checkSum = 0 /\ data_buffer = <<>>
    /\ live = 0
    /\ synced = FALSE
    /\ frames = 0
    /\ due = <<>> /\ got = <<>>

-----------------------------------------------------------------------------
(* One iteration of convertEvent for byte b.  checkSum is an int of which   *)
(* the code only ever looks at the low eight bits, so it is kept modulo 256.*)

\* Mutant of AddByte: the sum is not cut to a byte.
Mut_AddByteWide(s, b) == s + b

AddByte(s, b) == (s + b) % 256

WaitForStart(b) ==
    /\ index = 0
    /\ index' = IF b = SOF THEN 1 ELSE 0
    /\ UNCHANGED <<length, checkSum, data_buffer, live, got>>

LengthHigh(b) ==
    /\ index = 1
    /\ index' = 2
    /\ length' = b
    /\ UNCHANGED <<checkSum, data_buffer, live, got>>

\* calloc: the buffer exists from here on, whatever the length says.
LengthLow(b) ==
    /\ index = 2
    /\ index' = 3
    /\ length' = length * 256 + b
    /\ data_buffer' = <<>>
    /\ live' = live + 1
    /\ UNCHANGED <<checkSum, got>>

\* Mutant of StoresByte: one byte too many.
Mut_StoresOneMore ==
    \/ index = 3
    \/ index > 3 /\ index <= length + 3

\* The code byte is stored without looking at the length, the data bytes only
\* up to it.
StoresByte ==
    \/ index = 3
    \/ index > 3 /\ index < length + 3

StoreByte(b) ==
    /\ StoresByte
    /\ index' = index + 1
    /\ checkSum' = AddByte(checkSum, b)
    /\ data_buffer' = Append(data_buffer, b)
    /\ UNCHANGED <<length, live, got>>

\* Mutants of FinishFrame: the running sum is not reset; the buffer is freed
\* only after a good sum.
Mut_FinishKeepsSum(b) ==
    /\ index > 3 /\ ~StoresByte
    /\ got' = IF synced /\ AddByte(checkSum, b) = 255
              THEN Append(got, data_buffer)
              ELSE got
    /\ index' = 0 /\ length' = 0 /\ data_buffer' = <<>>
    /\ checkSum' = AddByte(checkSum, b)
    /\ live' = live - 1

Mut_FinishFreesGoodOnly(b) ==
    /\ index > 3 /\ ~StoresByte
    /\ got' = IF synced /\ AddByte(checkSum, b) = 255
              THEN Append(got, data_buffer)
              ELSE got
    /\ index' = 0 /\ length' = 0 /\ checkSum' = 0 /\ data_buffer' = <<>>
    /\ live' = IF AddByte(checkSum, b) = 255 THEN live - 1 ELSE live

\* Last byte: dispatch the event if the sum is right, start over in any case.
FinishFrame(b) ==
    /\ index > 3 /\ ~StoresByte
    /\ got' = IF synced /\ AddByte(checkSum, b) = 255
              THEN Append(got, data_buffer)
              ELSE got
    /\ index' = 0 /\ length' = 0 /\ checkSum' = 0 /\ data_buffer' = <<>>
    /\ live' = live - 1

ConvertByte(b) ==
    \/ WaitForStart(b)
    \/ LengthHigh(b)
    \/ LengthLow(b)
    \/ StoreByte(b)
    \/ FinishFrame(b)

-----------------------------------------------------------------------------
(* The app.                                                                 *)

FrameByte ==
    CASE pos = 0 -> SOF
      [] pos = 1 -> Len(tx) \div 256
      [] pos = 2 -> Len(tx) % 256
      [] pos > 2 /\ pos < Len(tx) + 3 -> tx[pos - 2]
      [] OTHER -> 255 - sum

LastByte == pos = Len(tx) + 3

\* Both ends at rest at the same moment: frames line up from here on.
Resync == synced' = (synced \/ (index' = 0 /\ pos' = 0))

StartFrame(p) ==
    /\ connected
    /\ tx = <<>>
    /\ frames < MaxFrames
    /\ tx' = p
    /\ UNCHANGED <<connected, sessions, pos, sum, frames, due, synced, parserVars>>

SendByte ==
    /\ connected
    /\ tx # <<>>
    /\ ConvertByte(FrameByte)
    /\ IF LastByte
       THEN /\ tx' = <<>> /\ pos' = 0 /\ sum' = 0
            /\ frames' = frames + 1
            /\ due' = IF synced THEN Append(due, tx) ELSE due
       ELSE /\ pos' = pos + 1
            /\ sum' = IF pos > 2 THEN AddByte(sum, FrameByte) ELSE sum
            /\ UNCHANGED <<tx, frames, due>>
    /\ Resync
    /\ UNCHANGED <<connected, sessions>>

-----------------------------------------------------------------------------
(* Sessions: accept in main, and the end of the receive loop.  socket_close *)
(* stops the recording and the laser, and leaves tcpData as it is.          *)

Connect ==
    /\ ~connected
    /\ sessions < MaxSessions
    /\ connected' = TRUE
    /\ sessions' = sessions + 1
    /\ synced' = (index = 0)
    /\ frames' = 0
    /\ due' = <<>> /\ got' = <<>>
    /\ UNCHANGED <<tx, pos, sum, tcpData, live>>

Disconnect ==
    /\ connected
    /\ connected' = FALSE
    /\ tx' = <<>> /\ pos' = 0 /\ sum' = 0
    /\ UNCHANGED <<sessions, synced, frames, due, parserVars>>

Next ==
    \/ Connect
    \/ Disconnect
    \/ \E p \in Payloads : StartFrame(p)
    \/ SendByte

Spec == Init /\ [][Next]_vars

-----------------------------------------------------------------------------
(* Properties.                                                              *)

\* Types: of convertEvent's tcpData, of the app and of the histories.
TypeOK ==
    /\ connected \in BOOLEAN
    /\ sessions \in Nat
    /\ tx \in Payloads \union {<<>>}
    /\ pos \in 0..(Len(tx) + 3)
    /\ sum \in Byte
    /\ index \in Nat /\ length \in Nat /\ checkSum \in Byte
    /\ data_buffer \in Seq(Byte)
    /\ live \in Int
    /\ synced \in BOOLEAN
    /\ frames \in Nat
    /\ due \in Seq(Payloads)
    /\ got \in Seq(Seq(Byte))

\* From the moment the two ends are at rest together, socket_read is handed
\* exactly the events the app completed, in order, unaltered and none twice,
\* whatever bytes (a start byte included) the events contain.
SyncedDelivery == got = due

\* convertEvent holds one buffer from the length bytes to the end of a frame
\* and none outside, over any mix of good, bad and half-received frames:
\* no frame leaks its buffer, and none is freed twice.
HeapBalance == live = IF index >= 3 THEN 1 ELSE 0

\* In a synced session the bytes convertEvent stores fit the buffer that the
\* length bytes allocated.
BufferFits ==
    synced /\ connected /\ index >= 3 =>
        Len(data_buffer) <= length

\* The two ends agree, byte for byte, on where they are in the frame.  This is
\* what carries SyncedDelivery and BufferFits from one byte to the next.
Aligned ==
    synced /\ connected =>
        /\ index = pos
        /\ checkSum = sum
        /\ pos = 2 => length = Len(tx) \div 256
        /\ pos >= 3 => /\ length = Len(tx)
                      /\ Len(data_buffer) = pos - 3
                      /\ \A i \in 1..(pos - 3) : data_buffer[i] = tx[i]

\* At rest nothing is half done.
AtRest ==
    /\ tx = <<>> => pos = 0
    /\ pos <= 3 => sum = 0
    /\ index <= 3 => checkSum = 0
    /\ ~connected => tx = <<>>

\* Every frame that the app completes in a session is handed to socket_read:
\* a session starts with a parser that waits for 0x7E.
EveryFrameHandled == connected => frames = Len(got)

\* The channel that the parser implements (module FrameChannel).
Channel == INSTANCE FrameChannel
    WITH Events <- Payloads, up <- connected, outgoing <- tx,
         reliable <- synced, delivered <- got

\* Seen from outside, bytes and buffers left aside, the link is that channel: it
\* delivers each event of a synced session when its last byte is handled, and it
\* neither loses, repeats nor invents one, nor falls out of step again.
ImplementsChannel == Channel!Spec

=============================================================================
