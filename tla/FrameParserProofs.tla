--------------------------- MODULE FrameParserProofs ---------------------------
(***************************************************************************)
(* Proofs about FrameParser, for every set of events whose length fits the *)
(* two length bytes and any number of sessions and frames.                 *)
(***************************************************************************)
EXTENDS FrameParser, TLAPS

\* The low byte of a sum is a byte.
LEMMA AddByteType ==
    ASSUME NEW s \in Byte, NEW b \in Byte
    PROVE  AddByte(s, b) \in Byte
  BY DEF AddByte, Byte

\* The byte the app appends makes the parser's sum 0xFF.
LEMMA LastByteBalances ==
    ASSUME NEW s \in Byte
    PROVE  AddByte(s, 255 - s) = 255
  BY DEF AddByte, Byte

\* The two length bytes of a frame give its length back.
LEMMA LengthBytes ==
    ASSUME NEW n \in 1..MaxLength
    PROVE  /\ n \div 256 \in Byte
           /\ n % 256 \in Byte
           /\ (n \div 256) * 256 + (n % 256) = n
  BY DEF MaxLength, Byte

\* Every byte of a frame is a byte.
LEMMA FrameByteType ==
    ASSUME TypeOK, tx # <<>>
    PROVE  FrameByte \in Byte
<1>1. tx \in Payloads
  BY DEF TypeOK
<1>2. tx \in Seq(Byte) /\ Len(tx) \in 1..MaxLength
  BY <1>1, PayloadsAssumption
<1>3. pos \in 0..(Len(tx) + 3) /\ sum \in Byte
  BY DEF TypeOK
<1>4. Len(tx) \div 256 \in Byte /\ Len(tx) % 256 \in Byte
  BY <1>2, LengthBytes
<1>5. pos > 2 /\ pos < Len(tx) + 3 => tx[pos - 2] \in Byte
  BY <1>2, <1>3
<1>6. SOF \in Byte /\ 255 - sum \in Byte
  BY <1>3 DEF SOF, Byte
<1>7. QED
  BY <1>4, <1>5, <1>6 DEF FrameByte

\* One iteration of convertEvent keeps the types, whatever the byte.
LEMMA ConvertByteType ==
    ASSUME TypeOK, NEW b \in Byte, ConvertByte(b)
    PROVE  /\ index' \in Nat /\ length' \in Nat /\ checkSum' \in Byte
           /\ data_buffer' \in Seq(Byte)
           /\ live' \in Int
           /\ got' \in Seq(Seq(Byte))
<1>1. CASE WaitForStart(b)
  BY <1>1 DEF TypeOK, WaitForStart
<1>2. CASE LengthHigh(b)
  BY <1>2 DEF TypeOK, LengthHigh, Byte
<1>3. CASE LengthLow(b)
  BY <1>3 DEF TypeOK, LengthLow, Byte
<1>4. CASE StoreByte(b)
  <2>1. AddByte(checkSum, b) \in Byte
    BY AddByteType DEF TypeOK
  <2>2. Append(data_buffer, b) \in Seq(Byte)
    BY DEF TypeOK
  <2>3. QED
    BY <1>4, <2>1, <2>2 DEF TypeOK, StoreByte
<1>5. CASE FinishFrame(b)
  BY <1>5 DEF TypeOK, FinishFrame, Byte
<1>6. QED
  BY <1>1, <1>2, <1>3, <1>4, <1>5 DEF ConvertByte

LEMMA NextType ==
    ASSUME TypeOK, [Next]_vars
    PROVE  TypeOK'
<1>1. CASE Connect
  BY <1>1 DEF TypeOK, Connect, tcpData
<1>2. CASE Disconnect
  <2>1. tx' \in Payloads \union {<<>>} /\ pos' \in 0..(Len(tx') + 3)
    BY <1>2 DEF Disconnect
  <2>2. sum' \in Byte
    BY <1>2 DEF Disconnect, Byte
  <2>3. connected' \in BOOLEAN
    BY <1>2 DEF Disconnect
  <2>4. QED
    BY <1>2, <2>1, <2>2, <2>3 DEF TypeOK, Disconnect, parserVars, tcpData
<1>3. ASSUME NEW p \in Payloads, StartFrame(p)
      PROVE  TypeOK'
  <2>1. p \in Seq(Byte) /\ Len(p) \in Nat
    BY PayloadsAssumption
  <2>2. tx = <<>> /\ pos \in 0..3
    BY <1>3 DEF TypeOK, StartFrame
  <2>3. pos' \in 0..(Len(tx') + 3)
    BY <1>3, <2>1, <2>2 DEF StartFrame
  <2>4. QED
    BY <1>3, <2>3 DEF TypeOK, StartFrame, parserVars, tcpData
<1>4. CASE SendByte
  <2>1. tx \in Payloads /\ tx # <<>>
    BY <1>4 DEF TypeOK, SendByte
  <2>0. Len(tx) \in Nat
    BY <2>1, PayloadsAssumption
  <2>2. FrameByte \in Byte
    BY <2>1, FrameByteType
  <2>3. /\ index' \in Nat /\ length' \in Nat /\ checkSum' \in Byte
        /\ data_buffer' \in Seq(Byte)
        /\ live' \in Int
        /\ got' \in Seq(Seq(Byte))
    BY <1>4, <2>2, ConvertByteType DEF SendByte
  <2>4. AddByte(sum, FrameByte) \in Byte
    BY <2>2, AddByteType DEF TypeOK
  <2>5. synced' \in BOOLEAN
    BY <1>4 DEF SendByte, Resync
  <2>6. CASE LastByte
    <3>1. tx' = <<>> /\ pos' = 0 /\ sum' = 0 /\ frames' = frames + 1
      BY <1>4, <2>6 DEF SendByte
    <3>2. due' \in Seq(Payloads)
      <4>1. due' = due \/ due' = Append(due, tx)
        BY <1>4, <2>6 DEF SendByte
      <4>2. due \in Seq(Payloads)
        BY DEF TypeOK
      <4>3. QED
        BY <2>1, <4>1, <4>2
    <3>3. tx' \in Payloads \union {<<>>} /\ pos' \in 0..(Len(tx') + 3)
      BY <3>1
    <3>4. sum' \in Byte /\ frames' \in Nat
      BY <3>1 DEF TypeOK, Byte
    <3>5. QED
      BY <1>4, <2>3, <2>5, <3>2, <3>3, <3>4 DEF TypeOK, SendByte
  <2>7. CASE ~LastByte
    <3>1. pos' = pos + 1 /\ tx' = tx /\ due' = due /\ frames' = frames
      BY <1>4, <2>7 DEF SendByte
    <3>2. pos' \in 0..(Len(tx') + 3)
      BY <2>0, <2>7, <3>1 DEF TypeOK, LastByte
    <3>3. sum' \in Byte
      BY <1>4, <2>4, <2>7 DEF SendByte, TypeOK
    <3>4. QED
      BY <1>4, <2>3, <2>5, <3>1, <3>2, <3>3 DEF TypeOK, SendByte
  <2>8. QED
    BY <2>6, <2>7
<1>5. CASE UNCHANGED vars
  BY <1>5 DEF TypeOK, vars, appVars, parserVars, tcpData
<1>6. QED
  BY <1>1, <1>2, <1>3, <1>4, <1>5 DEF Next

LEMMA InitType ==
    ASSUME Init
    PROVE  TypeOK
<1>1. 0 \in Byte
  BY DEF Byte
<1>2. connected \in BOOLEAN /\ synced \in BOOLEAN
  BY DEF Init
<1>3. tx \in Payloads \union {<<>>} /\ pos \in 0..(Len(tx) + 3)
  BY DEF Init
<1>4. QED
  BY <1>1, <1>2, <1>3 DEF Init, TypeOK

\* The state of tcpData, of the app and of the histories always has its type.
THEOREM TypeCorrect == Spec => []TypeOK
<1>1. Init => TypeOK
  BY InitType
<1>2. TypeOK /\ [Next]_vars => TypeOK'
  BY NextType
<1>3. QED
  BY <1>1, <1>2, PTL DEF Spec

-----------------------------------------------------------------------------
(* HeapBalance.  It is inductive on its own once index is a number.         *)

LEMMA ConvertByteHeap ==
    ASSUME TypeOK, HeapBalance, NEW b, ConvertByte(b)
    PROVE  HeapBalance'
<1>1. index \in Nat
  BY DEF TypeOK
<1>2. CASE WaitForStart(b)
  BY <1>1, <1>2 DEF HeapBalance, WaitForStart
<1>3. CASE LengthHigh(b)
  BY <1>1, <1>3 DEF HeapBalance, LengthHigh
<1>4. CASE LengthLow(b)
  BY <1>1, <1>4 DEF HeapBalance, LengthLow
<1>5. CASE StoreByte(b)
  BY <1>1, <1>5 DEF HeapBalance, StoreByte, StoresByte
<1>6. CASE FinishFrame(b)
  BY <1>1, <1>6 DEF HeapBalance, FinishFrame
<1>7. QED
  BY <1>2, <1>3, <1>4, <1>5, <1>6 DEF ConvertByte

\* convertEvent holds exactly one buffer inside a frame and none outside, over
\* any number of sessions, good frames, bad frames and frames cut short.
THEOREM NoBufferLeak == Spec => []HeapBalance
<1>1. Init => HeapBalance
  BY DEF Init, HeapBalance
<1>2. TypeOK /\ HeapBalance /\ [Next]_vars => HeapBalance'
  <2> SUFFICES ASSUME TypeOK, HeapBalance, [Next]_vars
               PROVE  HeapBalance'
    OBVIOUS
  <2>1. CASE Connect
    BY <2>1 DEF Connect, HeapBalance, tcpData
  <2>2. CASE Disconnect
    BY <2>2 DEF Disconnect, HeapBalance, parserVars, tcpData
  <2>3. CASE \E p \in Payloads : StartFrame(p)
    BY <2>3 DEF StartFrame, HeapBalance, parserVars, tcpData
  <2>4. CASE SendByte
    BY <2>4, ConvertByteHeap DEF SendByte
  <2>5. CASE UNCHANGED vars
    BY <2>5 DEF vars, parserVars, tcpData, HeapBalance
  <2>6. QED
    BY <2>1, <2>2, <2>3, <2>4, <2>5 DEF Next
<1>3. QED
  BY <1>1, <1>2, TypeCorrect, PTL DEF Spec

-----------------------------------------------------------------------------
(* SyncedDelivery and BufferFits, from the alignment of the two ends.       *)

IInv == TypeOK /\ AtRest /\ Aligned /\ SyncedDelivery

LEMMA InitInv ==
    ASSUME Init
    PROVE  IInv
<1>1. TypeOK
  BY InitType
<1>2. AtRest
  BY DEF Init, AtRest
<1>3. Aligned /\ SyncedDelivery
  BY DEF Init, Aligned, SyncedDelivery
<1>4. QED
  BY <1>1, <1>2, <1>3 DEF IInv

\* What Aligned says while it applies, with the bounds it is used with.
LEMMA AlignedFacts ==
    ASSUME IInv, synced, connected
    PROVE  /\ index = pos /\ checkSum = sum
           /\ pos = 2 => length = Len(tx) \div 256
           /\ pos >= 3 => length = Len(tx) /\ Len(data_buffer) = pos - 3
           /\ pos >= 3 => \A i \in 1..(pos - 3) : data_buffer[i] = tx[i]
  BY DEF IInv, Aligned

LEMMA SendingFacts ==
    ASSUME IInv, SendByte
    PROVE  /\ tx \in Payloads /\ tx # <<>> /\ tx \in Seq(Byte)
           /\ Len(tx) \in 1..MaxLength /\ Len(tx) \in Nat
           /\ pos \in Nat /\ pos <= Len(tx) + 3
           /\ index \in Nat /\ length \in Nat /\ data_buffer \in Seq(Byte)
           /\ connected /\ connected' = connected
<1>1. tx \in Payloads /\ tx # <<>> /\ connected /\ connected' = connected
  BY DEF IInv, TypeOK, SendByte
<1>2. tx \in Seq(Byte) /\ Len(tx) \in 1..MaxLength /\ Len(tx) \in Nat
  BY <1>1, PayloadsAssumption
<1>3. pos \in 0..(Len(tx) + 3)
  BY DEF IInv, TypeOK
<1>4. index \in Nat /\ length \in Nat /\ data_buffer \in Seq(Byte)
  BY DEF IInv, TypeOK
<1>5. QED
  BY <1>1, <1>2, <1>3, <1>4

\* A byte that is not the last of its frame, handled by an aligned parser:
\* both ends move one byte on.
LEMMA InnerByteAligned ==
    ASSUME IInv, SendByte, ~LastByte, synced
    PROVE  Aligned' /\ got' = got
<1> DEFINE b == FrameByte
<1>1. /\ pos' = pos + 1 /\ tx' = tx
      /\ sum' = IF pos > 2 THEN AddByte(sum, b) ELSE sum
      /\ ConvertByte(b)
  BY DEF SendByte
<1>2. /\ tx \in Seq(Byte) /\ Len(tx) \in 1..MaxLength /\ Len(tx) \in Nat
      /\ pos \in Nat /\ pos < Len(tx) + 3
      /\ index \in Nat /\ length \in Nat /\ data_buffer \in Seq(Byte)
      /\ connected /\ connected' = connected
  BY SendingFacts DEF LastByte
<1>3. /\ index = pos /\ checkSum = sum
      /\ pos = 2 => length = Len(tx) \div 256
      /\ pos >= 3 => length = Len(tx) /\ Len(data_buffer) = pos - 3
      /\ pos >= 3 => \A i \in 1..(pos - 3) : data_buffer[i] = tx[i]
  BY <1>2, AlignedFacts
<1> HIDE DEF b
<1>4. CASE WaitForStart(b)
  <2>1. b = SOF /\ pos = 0
    BY <1>3, <1>4 DEF b, FrameByte, WaitForStart
  <2>2. index' = 1 /\ checkSum' = checkSum /\ pos' = 1 /\ sum' = sum /\ got' = got
    BY <1>1, <1>4, <2>1 DEF WaitForStart
  <2>3. QED
    BY <1>3, <2>2 DEF Aligned
<1>5. CASE LengthHigh(b)
  <2>1. b = Len(tx) \div 256 /\ pos = 1
    BY <1>3, <1>5 DEF b, FrameByte, LengthHigh
  <2>2. /\ index' = 2 /\ checkSum' = checkSum /\ pos' = 2 /\ sum' = sum
        /\ length' = Len(tx) \div 256 /\ got' = got
    BY <1>1, <1>5, <2>1 DEF LengthHigh
  <2>3. QED
    BY <1>1, <1>3, <2>2 DEF Aligned
<1>6. CASE LengthLow(b)
  <2>1. b = Len(tx) % 256 /\ pos = 2 /\ length = Len(tx) \div 256
    BY <1>3, <1>6 DEF b, FrameByte, LengthLow
  <2>2. /\ index' = 3 /\ checkSum' = checkSum /\ pos' = 3 /\ sum' = sum
        /\ length' = (Len(tx) \div 256) * 256 + (Len(tx) % 256)
        /\ data_buffer' = <<>> /\ got' = got
    BY <1>1, <1>6, <2>1 DEF LengthLow
  <2>3. length' = Len(tx)
    BY <1>2, <2>2, LengthBytes
  <2>4. Len(data_buffer') = 0 /\ 1..(pos' - 3) = {}
    BY <2>2
  <2>5. QED
    BY <1>1, <1>3, <2>2, <2>3, <2>4 DEF Aligned
<1>7. CASE StoreByte(b)
  <2>1. pos >= 3 /\ pos > 2
    BY <1>2, <1>3, <1>7 DEF StoreByte, StoresByte
  <2>2. b = tx[pos - 2] /\ b \in Byte
    BY <1>2, <2>1 DEF b, FrameByte
  <2>3. /\ index' = pos' /\ checkSum' = AddByte(sum, b) /\ sum' = AddByte(sum, b)
        /\ length' = length /\ data_buffer' = Append(data_buffer, b) /\ got' = got
    BY <1>1, <1>3, <1>7, <2>1 DEF StoreByte
  <2>4. Len(data_buffer') = pos' - 3
    BY <1>1, <1>2, <1>3, <2>1, <2>2, <2>3
  <2>5. ASSUME NEW i \in 1..(pos' - 3)
        PROVE  data_buffer'[i] = tx[i]
    <3>1. CASE i = pos - 2
      BY <1>1, <1>2, <1>3, <2>1, <2>2, <2>3, <3>1
    <3>2. CASE i # pos - 2
      <4>1. i \in 1..(pos - 3)
        BY <1>1, <1>2, <2>1, <3>2
      <4>2. data_buffer'[i] = data_buffer[i]
        BY <1>2, <1>3, <2>1, <2>2, <2>3, <4>1
      <4>3. QED
        BY <1>3, <2>1, <4>1, <4>2
    <3>3. QED
      BY <3>1, <3>2
  <2>6. pos' # 2 /\ length' = Len(tx')
    BY <1>1, <1>2, <1>3, <2>1, <2>3
  <2>7. QED
    BY <1>1, <2>3, <2>4, <2>5, <2>6 DEF Aligned
<1>8. CASE FinishFrame(b)
  <2>1. pos > 3 /\ pos >= Len(tx) + 3
    BY <1>2, <1>3, <1>8 DEF FinishFrame, StoresByte
  <2>2. QED
    BY <1>2, <2>1
<1>9. QED
  BY <1>1, <1>4, <1>5, <1>6, <1>7, <1>8 DEF ConvertByte

\* The last byte of a frame, handled by an aligned parser: the event is
\* delivered whole and both ends are at rest.
LEMMA LastByteAligned ==
    ASSUME IInv, SendByte, LastByte, synced
    PROVE  /\ got' = Append(got, tx)
           /\ index' = 0 /\ checkSum' = 0
<1> DEFINE b == FrameByte
<1>1. ConvertByte(b) /\ pos = Len(tx) + 3
  BY DEF SendByte, LastByte
<1>2. /\ tx \in Seq(Byte) /\ Len(tx) \in 1..MaxLength /\ Len(tx) \in Nat
      /\ index \in Nat /\ length \in Nat /\ data_buffer \in Seq(Byte)
      /\ connected
  BY SendingFacts
<1>3. /\ index = pos /\ checkSum = sum
      /\ pos >= 3 => length = Len(tx) /\ Len(data_buffer) = pos - 3
      /\ pos >= 3 => \A i \in 1..(pos - 3) : data_buffer[i] = tx[i]
  BY <1>2, AlignedFacts
<1>4. b = 255 - sum /\ sum \in Byte
  BY <1>1, <1>2 DEF FrameByte, IInv, TypeOK
<1>5. pos > 3 /\ pos >= 3 /\ length = Len(tx)
  BY <1>1, <1>2, <1>3
<1>6. data_buffer = tx
  BY <1>1, <1>2, <1>3, <1>5
<1> HIDE DEF b
<1>7. FinishFrame(b)
  BY <1>1, <1>2, <1>3, <1>5
     DEF ConvertByte, WaitForStart, LengthHigh, LengthLow, StoreByte, StoresByte
<1>8. AddByte(checkSum, b) = 255
  BY <1>3, <1>4, LastByteBalances
<1>9. QED
  BY <1>6, <1>7, <1>8 DEF FinishFrame

\* An iteration of convertEvent never leaves a sum behind an idle parser, and
\* delivers nothing while the ends are out of step.
LEMMA ConvertByteAtRest ==
    ASSUME IInv, NEW b, ConvertByte(b)
    PROVE  /\ index' <= 3 => checkSum' = 0
           /\ ~synced => got' = got
<1>1. index \in Nat /\ (index <= 3 => checkSum = 0)
  BY DEF IInv, TypeOK, AtRest
<1>2. CASE WaitForStart(b)
  BY <1>1, <1>2 DEF WaitForStart
<1>3. CASE LengthHigh(b)
  BY <1>1, <1>3 DEF LengthHigh
<1>4. CASE LengthLow(b)
  BY <1>1, <1>4 DEF LengthLow
<1>5. CASE StoreByte(b)
  BY <1>1, <1>5 DEF StoreByte, StoresByte
<1>6. CASE FinishFrame(b)
  BY <1>1, <1>6 DEF FinishFrame
<1>7. QED
  BY <1>2, <1>3, <1>4, <1>5, <1>6 DEF ConvertByte

LEMMA SendByteInv ==
    ASSUME IInv, SendByte
    PROVE  AtRest' /\ Aligned' /\ SyncedDelivery'
<1>1. /\ ConvertByte(FrameByte) /\ Resync
      /\ pos \in Nat /\ tx # <<>> /\ connected'
  BY SendingFacts DEF SendByte
<1>2. /\ index' <= 3 => checkSum' = 0
      /\ ~synced => got' = got
  BY <1>1, ConvertByteAtRest
<1>3. CASE LastByte
  <2>1. /\ tx' = <<>> /\ pos' = 0 /\ sum' = 0
        /\ due' = IF synced THEN Append(due, tx) ELSE due
    BY <1>3 DEF SendByte
  <2>2. AtRest'
    BY <1>1, <1>2, <2>1 DEF AtRest
  <2>3. SyncedDelivery'
    BY <1>2, <1>3, <2>1, LastByteAligned DEF IInv, SyncedDelivery
  <2>4. synced' => index' = 0
    BY <1>1, <1>3, LastByteAligned DEF Resync
  <2>5. Aligned'
    BY <1>2, <2>1, <2>4 DEF Aligned
  <2>6. QED
    BY <2>2, <2>3, <2>5
<1>4. CASE ~LastByte
  <2>1. /\ tx' = tx /\ pos' = pos + 1 /\ due' = due
        /\ pos <= 2 => sum' = sum
    BY <1>1, <1>4 DEF SendByte
  <2>2. AtRest'
    BY <1>1, <1>2, <2>1 DEF AtRest, IInv
  <2>3. synced' = synced
    BY <1>1, <2>1 DEF Resync, IInv, TypeOK
  <2>4. got' = got
    BY <1>2, <1>4, InnerByteAligned
  <2>5. SyncedDelivery'
    BY <2>1, <2>4 DEF IInv, SyncedDelivery
  <2>6. Aligned'
    <3>1. CASE synced
      BY <1>4, <3>1, InnerByteAligned
    <3>2. CASE ~synced
      BY <2>3, <3>2 DEF Aligned
    <3>3. QED
      BY <3>1, <3>2
  <2>7. QED
    BY <2>2, <2>5, <2>6
<1>5. QED
  BY <1>3, <1>4

LEMMA NextInv ==
    ASSUME IInv, [Next]_vars
    PROVE  IInv'
<1>1. TypeOK'
  BY NextType DEF IInv
<1>2. CASE Connect
  <2>1. tx = <<>> /\ pos = 0 /\ sum = 0 /\ (index <= 3 => checkSum = 0)
    BY <1>2 DEF IInv, AtRest, Connect
  <2>2. /\ UNCHANGED <<tx, pos, sum, index, length, checkSum, data_buffer>>
        /\ synced' = (index = 0) /\ due' = <<>> /\ got' = <<>>
    BY <1>2 DEF Connect, tcpData
  <2>3. AtRest'
    BY <2>1, <2>2 DEF AtRest
  <2>4. synced' => index' = pos' /\ checkSum' = sum' /\ pos' = 0
    <3>1. index = 0 => index' = pos' /\ checkSum' = sum' /\ pos' = 0
      BY <2>1, <2>2
    <3>2. synced' => index = 0
      BY <2>2, Zenon
    <3>3. QED
      BY <3>1, <3>2
  <2>5. Aligned'
    BY <2>4 DEF Aligned
  <2>6. SyncedDelivery'
    BY <2>2 DEF SyncedDelivery
  <2>7. QED
    BY <1>1, <2>3, <2>5, <2>6 DEF IInv
<1>3. CASE Disconnect
  BY <1>1, <1>3 DEF Disconnect, parserVars, tcpData, IInv, AtRest, Aligned,
                    SyncedDelivery
<1>4. ASSUME NEW p \in Payloads, StartFrame(p)
      PROVE  IInv'
  <2>1. p # <<>>
    <3>1. Len(p) \in 1..MaxLength /\ p \in Seq(Byte)
      BY PayloadsAssumption
    <3>2. QED
      BY <3>1
  <2>2. /\ pos = 0 /\ tx' = p /\ connected
        /\ UNCHANGED <<connected, pos, sum, due, synced, index, length,
                       checkSum, data_buffer, live, got>>
    BY <1>4 DEF IInv, AtRest, StartFrame, parserVars, tcpData
  <2>3. AtRest'
    BY <2>1, <2>2 DEF IInv, AtRest
  <2>4. Aligned' /\ SyncedDelivery'
    BY <2>2 DEF IInv, Aligned, SyncedDelivery
  <2>5. QED
    BY <1>1, <2>3, <2>4 DEF IInv
<1>5. CASE SendByte
  BY <1>1, <1>5, SendByteInv DEF IInv
<1>6. CASE UNCHANGED vars
  BY <1>1, <1>6 DEF vars, appVars, parserVars, tcpData, IInv, AtRest, Aligned,
                    SyncedDelivery
<1>7. QED
  BY <1>2, <1>3, <1>4, <1>5, <1>6 DEF Next

\* In a session whose two ends have once been at rest together, socket_read is
\* handed exactly the events the app completed since, in order and unaltered.
THEOREM DeliveryCorrect == Spec => []SyncedDelivery
<1>1. Init => IInv
  BY InitInv
<1>2. IInv /\ [Next]_vars => IInv'
  BY NextInv
<1>3. IInv => SyncedDelivery
  BY DEF IInv
<1>4. QED
  BY <1>1, <1>2, <1>3, PTL DEF Spec

\* The bytes convertEvent stores in a synced session fit their buffer.
THEOREM StoresFit == Spec => []BufferFits
<1>1. Init => IInv
  BY InitInv
<1>2. IInv /\ [Next]_vars => IInv'
  BY NextInv
<1>3. IInv => BufferFits
  <2> SUFFICES ASSUME IInv, synced, connected, index >= 3
               PROVE  Len(data_buffer) <= length
    BY DEF BufferFits
  <2>1. index = pos /\ (pos >= 3 => length = Len(tx) /\ Len(data_buffer) = pos - 3)
    BY AlignedFacts
  <2>2. pos <= Len(tx) + 3 /\ pos \in Nat
    <3>1. pos \in 0..(Len(tx) + 3)
      BY DEF IInv, TypeOK
    <3>2. tx \in Payloads \union {<<>>}
      BY DEF IInv, TypeOK
    <3>3. Len(tx) \in Nat
      BY <3>2, PayloadsAssumption
    <3>4. QED
      BY <3>1, <3>3
  <2>3. length \in Nat
    BY DEF IInv, TypeOK
  <2>4. QED
    BY <2>1, <2>2, <2>3
<1>4. QED
  BY <1>1, <1>2, <1>3, PTL DEF Spec

-----------------------------------------------------------------------------
(* The parser and the app together implement FrameChannel.                  *)

\* A byte is either the last of its event, which the channel delivers or loses,
\* or nothing that the channel knows of.
LEMMA SendByteImplements ==
    ASSUME IInv, SendByte
    PROVE  [Channel!Next]_(Channel!vars)
<1>1. /\ tx # <<>> /\ connected /\ connected' = connected
      /\ ConvertByte(FrameByte) /\ Resync /\ synced \in BOOLEAN
  BY SendingFacts DEF SendByte, IInv, TypeOK
<1>2. CASE LastByte /\ synced
  <2>1. tx' = <<>> /\ due' = Append(due, tx)
    BY <1>2 DEF SendByte
  <2>2. got' = Append(got, tx)
    BY <1>2, <2>1, SendByteInv DEF IInv, SyncedDelivery
  <2>3. synced' = synced
    BY <1>1, <1>2, Zenon DEF Resync
  <2>4. Channel!Deliver
    BY <1>1, <1>2, <2>1, <2>2, <2>3 DEF Channel!Deliver, Channel!None
  <2>5. QED
    BY <2>4 DEF Channel!Next
<1>3. CASE LastByte /\ ~synced
  <2>1. tx' = <<>>
    BY <1>3 DEF SendByte
  <2>2. got' = got
    BY <1>1, <1>3, ConvertByteAtRest
  <2>3. synced' \in BOOLEAN
    BY <1>1, <1>3, SMT DEF Resync
  <2>4. Channel!Lose
    BY <1>1, <1>3, <2>1, <2>2, <2>3 DEF Channel!Lose, Channel!None
  <2>5. QED
    BY <2>4 DEF Channel!Next
<1>4. CASE ~LastByte
  <2>1. tx' = tx /\ pos' = pos + 1
    BY <1>4 DEF SendByte
  <2>2. got' = got
    BY <1>1, <1>4, ConvertByteAtRest, InnerByteAligned
  <2>3. pos' # 0
    BY <2>1, SendingFacts
  <2>4. synced' = synced
    BY <1>1, <2>3, Zenon DEF Resync
  <2>5. UNCHANGED Channel!vars
    BY <1>1, <2>1, <2>2, <2>4 DEF Channel!vars
  <2>6. QED
    BY <2>5
<1>5. QED
  BY <1>1, <1>2, <1>3, <1>4

LEMMA NextImplements ==
    ASSUME IInv, [Next]_vars
    PROVE  [Channel!Next]_(Channel!vars)
<1>1. CASE Connect
  <2>1. synced' \in BOOLEAN
    BY <1>1 DEF Connect
  <2>2. Channel!Open
    BY <1>1, <2>1 DEF Connect, Channel!Open
  <2>3. QED
    BY <2>2 DEF Channel!Next
<1>2. CASE Disconnect
  <2>1. Channel!Cut
    BY <1>2 DEF Disconnect, parserVars, Channel!Cut, Channel!None
  <2>2. QED
    BY <2>1 DEF Channel!Next
<1>3. ASSUME NEW p \in Payloads, StartFrame(p)
      PROVE  Channel!Next
  <2>1. Channel!Send(p)
    BY <1>3 DEF StartFrame, parserVars, Channel!Send, Channel!None
  <2>2. QED
    BY <2>1 DEF Channel!Next
<1>4. CASE SendByte
  BY <1>4, SendByteImplements
<1>5. CASE UNCHANGED vars
  BY <1>5 DEF vars, appVars, parserVars, Channel!vars
<1>6. QED
  BY <1>1, <1>2, <1>3, <1>4, <1>5 DEF Next

\* Every behaviour of the parser and an app is one of the channel's: what leaves
\* the link in a synced session is what went in, event by event.
THEOREM ChannelImplemented == Spec => ImplementsChannel
<1>1. Init => IInv
  BY InitInv
<1>2. IInv /\ [Next]_vars => IInv'
  BY NextInv
<1>3. Init => Channel!Init
  BY DEF Init, Channel!Init, Channel!None
<1>4. IInv /\ [Next]_vars => [Channel!Next]_(Channel!vars)
  BY NextImplements
<1>5. QED
  BY <1>1, <1>2, <1>3, <1>4, PTL DEF Spec, ImplementsChannel, Channel!Spec
=============================================================================
