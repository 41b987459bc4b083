---------------------------- MODULE FileSendProofs ----------------------------
(***************************************************************************)
(* What holds of any number of loads, sessions and file lengths, and of    *)
(* every buffer size: what a load gives back, which load's frames a client *)
(* may still get, and that the code which ends a load comes after all of   *)
(* its file.                                                               *)
(***************************************************************************)
EXTENDS FileSend, TLAPS

\* The cleanup handler has begun, or is over.
Past == {"path", "file", "info", "ended"}
Labels == {"none", "new", "open", "size", "data", "code", "path", "file", "info",
           "ended", "hung"}

AppType ==
    /\ session \in 0..MaxSessions /\ up \in BOOLEAN /\ alive \in BOOLEAN
    /\ created \in 0..MaxLoads /\ fileThread = created
    /\ wanted \in {0, created} /\ gaveUp \subseteq 1..created

ThreadType ==
    /\ pc \in [Loads -> Labels]
    /\ length \in [Loads -> Lengths \union {Missing, 0}]
    /\ sent \in [Loads -> Nat]
    /\ filePtr \in [Loads -> {"unset", "null", "open", "closed"}]
    /\ pending \in [Loads -> BOOLEAN] /\ exiting \in [Loads -> BOOLEAN]
    /\ cut \in [Loads -> BOOLEAN]
    /\ born \in [Loads -> 0..session] /\ late \in [Loads -> 0..1]

\* How far a thread has come, and what it has of its file by then.
ProgressInv ==
    \A l \in Loads :
        /\ l > created => pc[l] = "none"
        /\ pc[l] \in {"none", "new", "open", "size"} => sent[l] = 0
        /\ pc[l] \in {"size", "data"} => length[l] # Missing
        /\ pc[l] = "data" => sent[l] < Buffers(length[l])
        /\ sent[l] > 0 => sent[l] <= Buffers(length[l])
        /\ exiting[l] => pc[l] \in Past

StreamType ==
    stream \in Seq([load : 1..created, part : Writing, bytes : Nat])

SeenType == seen \in 0..Len(stream)

\* What is given back by each statement of the cleanup handler.
GivenBack(label) ==
    CASE label = "file" -> {"path"}
      [] label = "info" -> {"path", "file"}
      [] label = "ended" -> Resources
      [] OTHER -> {}

ReleasedInv ==
    /\ released \in [Loads -> [Resources -> Nat]]
    /\ \A l \in Loads : \A r \in Resources :
          /\ released[l][r] <= 1
          /\ r \notin GivenBack(pc[l]) => released[l][r] = 0
          /\ r \in GivenBack(pc[l]) /\ ~(pc[l] = "ended" /\ cut[l]) => released[l][r] = 1

\* A stale code is among the frames before frame i.
StaleBefore(i) == \E k \in 1..(i - 1) : IsCode(k) /\ Stale(k)

\* A load of this session that the app no longer waits for was cancelled, or its code
\* was read, or a stale code was read.
WaitInv ==
    up => \A l \in Loads :
             l <= created /\ l # wanted /\ born[l] = session =>
                \/ l \in gaveUp
                \/ \E k \in 1..seen : IsCode(k) /\ (stream[k].load = l \/ Stale(k))

\* A load that was cancelled ends, or had sent all it had to.
GaveUpInv == \A l \in gaveUp : pending[l] \/ pc[l] \in Past

\* A code is sent last.
CodeInv == \A i \in DOMAIN stream : stream[i].part = "code" => pc[stream[i].load] \in Past

\* No load sends two codes.
CodeOnce ==
    \A i, j \in DOMAIN stream :
        IsCode(i) /\ IsCode(j) /\ stream[i].load = stream[j].load => i = j

\* When a load's frame was sent, every older load of the session had been cancelled or
\* was over, or the client had got a stale code.
OlderInv ==
    \A i \in DOMAIN stream : \A l \in Loads :
        l < stream[i].load /\ born[l] = session =>
            pending[l] \/ pc[l] \in Past \/ StaleBefore(i)

Types == AppType /\ ThreadType /\ ProgressInv /\ StreamType /\ SeenType

-----------------------------------------------------------------------------
(* Arithmetic of buffers.                                                   *)

LEMMA Division ==
    ASSUME NEW n \in Nat
    PROVE  /\ n \div Buffer \in Nat
           /\ n % Buffer \in 0..(Buffer - 1)
           /\ n = (n \div Buffer) * Buffer + (n % Buffer)
BY BufferAssumption

LEMMA BufferCount ==
    ASSUME NEW n \in Nat
    PROVE  /\ Buffers(n) \in Nat
           /\ n \div Buffer <= Buffers(n)
           /\ Buffers(n) <= n \div Buffer + 1
           /\ n % Buffer = 0 <=> Buffers(n) = n \div Buffer
BY Division DEF Buffers

-----------------------------------------------------------------------------
(* The steps, seen from outside: those of a thread that send nothing, those *)
(* that send a frame, and those of the app.                                 *)

Moves(l) == Enter(l) \/ Open(l) \/ CleanUp(l) \/ Cancelled(l)
Sends(l) ==
    /\ pending[l] => late[l] = 0
    /\ SendSize(l) \/ SendData(l) \/ SendCode(l)
App ==
    \/ \E n \in Lengths \union {Missing} : Request(n)
    \/ Cancel \/ GotCode \/ Connect \/ Disconnect

\* A thread in its cleanup handler sends nothing more.
LEMMA NextCases ==
    ASSUME ProgressInv, [Next]_vars
    PROVE  (\E l \in Loads : Moves(l) \/ Sends(l)) \/ App \/ UNCHANGED vars
<1>1. ASSUME NEW l \in Loads, Step(l)
      PROVE  Moves(l) \/ Sends(l)
    <2>1. exiting[l] => ~(SendSize(l) \/ SendData(l) \/ SendCode(l))
        BY DEF ProgressInv, Past, SendSize, SendData, SendCode
    <2> QED BY <1>1, <2>1 DEF Step, Moves, Sends
<1>2. ASSUME NEW l \in Loads, Thread(l)
      PROVE  Moves(l) \/ Sends(l)
    BY <1>1, <1>2 DEF Thread, Moves
<1> QED BY <1>2 DEF Next, App

\* Where a load goes after it has sent n buffers.
LEMMA AfterCases ==
    ASSUME NEW l \in Loads, NEW n \in Nat
    PROVE  /\ n < Buffers(length[l]) => AfterBuffers(l, n) = "data"
           /\ ~(n < Buffers(length[l])) => AfterBuffers(l, n) = "code"
BY DEF AfterBuffers

LEMMA LengthNat ==
    ASSUME NEW l \in Loads, ThreadType, length[l] # Missing
    PROVE  length[l] \in Nat
<1>1. length[l] \in Lengths \/ length[l] = 0
    BY DEF ThreadType
<1>2. CASE length[l] \in Lengths
    BY <1>2, LengthsAssumption
<1> QED BY <1>1, <1>2

\* Thread l writes, or tries to write, a frame with so many bytes, and goes on to next.
Sending(l, bytes, next) ==
    /\ pc[l] \in Writing
    /\ pending[l] => late[l] = 0
    /\ late' = [late EXCEPT ![l] = IF pending[l] THEN late[l] + 1 ELSE late[l]]
    /\ \/ up /\ stream' = Append(stream, Frame(l, pc[l], bytes)) /\ alive' = alive
       \/ ~up /\ stream' = stream /\ alive' \in BOOLEAN
    /\ pc' = [pc EXCEPT ![l] = next]
    /\ pc[l] = "size" => bytes = length[l] /\ next = AfterBuffers(l, 0) /\ sent' = sent
    /\ pc[l] = "data" => /\ bytes = NextBuffer(l) /\ next = AfterBuffers(l, sent[l] + 1)
                         /\ sent' = [sent EXCEPT ![l] = sent[l] + 1]
    /\ pc[l] = "code" => next = "path" /\ sent' = sent
    /\ UNCHANGED <<app, created, fileThread, length, filePtr, released, pending, exiting,
                   cut, born>>

LEMMA SendCases ==
    ASSUME NEW l \in Loads, AppType, ThreadType, ProgressInv, Sends(l)
    PROVE  \E bytes \in Nat, next \in {"data", "code", "path"} : Sending(l, bytes, next)
<1> USE DEF Sending
<1>1. CASE SendSize(l)
    <2>1. length[l] \in Nat
        BY <1>1, LengthNat DEF ProgressInv, SendSize
    <2>2. AfterBuffers(l, 0) \in {"data", "code", "path"}
        BY DEF AfterBuffers
    <2>3. Frame(l, "size", length[l]).load = l
        BY DEF Frame
    <2> QED BY <1>1, <2>1, <2>2, <2>3 DEF SendSize, SocketWrite, Goto, Sends, Writing
<1>2. CASE SendData(l)
    <2> pc[l] = "data"
        BY <1>2 DEF SendData
    <2>1. length[l] \in Nat /\ sent[l] \in Nat
        <3>1. length[l] # Missing
            BY DEF ProgressInv
        <3> QED BY <3>1, LengthNat DEF ThreadType
    <2>2. AfterBuffers(l, sent[l] + 1) \in {"data", "code", "path"}
        BY DEF AfterBuffers
    <2>3. Frame(l, "data", NextBuffer(l)).load = l
        BY DEF Frame
    <2>4. NextBuffer(l) \in Nat
        <3>1. length[l] % Buffer \in 0..(Buffer - 1)
            BY <2>1, Division
        <3> QED BY <3>1, BufferAssumption DEF NextBuffer
    <2> QED BY <1>2, <2>1, <2>2, <2>3, <2>4 DEF SendData, SocketWrite, Goto, Sends, Writing
<1>3. CASE SendCode(l)
    <2>1. Frame(l, "code", 0).load = l
        BY DEF Frame
    <2> QED BY <1>3, <2>1 DEF SendCode, SocketWrite, Goto, Sends, Writing
<1> QED BY <1>1, <1>2, <1>3 DEF Sends

-----------------------------------------------------------------------------
(* Types.                                                                   *)

LEMMA TypesInit == Init => Types
<1> SUFFICES ASSUME Init PROVE Types
    OBVIOUS
<1>1. AppType
    <2>1. /\ session = 0 /\ up = FALSE /\ wanted = 0 /\ created = 0 /\ fileThread = 0
          /\ alive = TRUE /\ gaveUp = {}
        BY DEF Init
    <2>2. session \in 0..MaxSessions /\ created \in 0..MaxLoads
        BY <2>1, BoundsAssumption
    <2> QED BY <2>1, <2>2 DEF AppType
<1>2. ThreadType
    BY BoundsAssumption DEF Init, Of, ThreadType, Labels, Missing
<1>3. ProgressInv
    <2>1. \A l \in Loads : /\ pc[l] = "none" /\ sent[l] = 0 /\ exiting[l] = FALSE
                           /\ length[l] = 0
        BY DEF Init, Of
    <2> QED BY <2>1, BufferCount DEF ProgressInv
<1>4. StreamType
    BY DEF Init, StreamType
<1>5. SeenType
    BY DEF Init, SeenType
<1> QED BY <1>1, <1>2, <1>3, <1>4, <1>5 DEF Types

LEMMA AppNext ==
    ASSUME Types, [Next]_vars
    PROVE  AppType'
<1> USE DEF Types, AppType
<1>1. ASSUME NEW l \in Loads, Moves(l)
      PROVE  AppType'
    <2>1. UNCHANGED <<app, created, fileThread>> /\ alive' \in BOOLEAN
        BY <1>1 DEF Moves, Enter, Open, CleanUp, Cancelled
    <2> QED BY <2>1 DEF app
<1>2. ASSUME NEW l \in Loads, Sends(l)
      PROVE  AppType'
    <2>1. UNCHANGED <<app, created, fileThread>> /\ alive' \in BOOLEAN
        BY <1>2, SendCases DEF Sending
    <2> QED BY <2>1 DEF app
<1>3. ASSUME App
      PROVE  AppType'
    <2>1. ASSUME NEW n \in Lengths \union {Missing}, Request(n)
          PROVE  AppType'
        BY <2>1, BoundsAssumption DEF Request
    <2>2. CASE Cancel
        BY <2>2 DEF Cancel
    <2>3. CASE GotCode
        BY <2>3 DEF GotCode, threads
    <2>4. CASE Connect
        BY <2>4, BoundsAssumption DEF Connect, threads
    <2>5. CASE Disconnect
        BY <2>5 DEF Disconnect, threads
    <2> QED BY <1>3, <2>1, <2>2, <2>3, <2>4, <2>5 DEF App
<1>4. CASE UNCHANGED vars
    BY <1>4 DEF vars, app
<1> QED BY <1>1, <1>2, <1>3, <1>4, NextCases

LEMMA ThreadNext ==
    ASSUME Types, [Next]_vars
    PROVE  ThreadType'
<1> USE DEF Types, AppType, ThreadType, Labels, app
<1>1. ASSUME NEW l \in Loads, Moves(l)
      PROVE  ThreadType'
    <2>1. CASE Enter(l)
        BY <2>1 DEF Enter, Goto
    <2>2. CASE Open(l)
        BY <2>2 DEF Open, Goto
    <2>3. CASE CleanUp(l)
        <3>1. PICK r \in Resources : CleanUp(l)!(r)
            BY <2>3 DEF CleanUp
        <3>2. Following(r) \in {"file", "info", "ended"}
            BY DEF Following, Resources
        <3> QED BY <3>1, <3>2 DEF Goto
    <2>4. CASE Cancelled(l)
        BY <2>4 DEF Cancelled, Goto
    <2> QED BY <1>1, <2>1, <2>2, <2>3, <2>4 DEF Moves
<1>2. ASSUME NEW l \in Loads, Sends(l)
      PROVE  ThreadType'
    <2>1. PICK bytes \in Nat, next \in {"data", "code", "path"} : Sending(l, bytes, next)
        BY <1>2, SendCases
    <2>2. pc' \in [Loads -> Labels]
        BY <2>1 DEF Sending
    <2>3. sent' \in [Loads -> Nat]
        <3>1. sent' = sent \/ sent' = [sent EXCEPT ![l] = sent[l] + 1]
            BY <2>1 DEF Sending, Writing
        <3> QED BY <3>1
    <2>4. late' \in [Loads -> 0..1]
        <3>1. late[l] \in 0..1 /\ pending[l] \in BOOLEAN
            OBVIOUS
        <3>2. CASE pending[l]
            <4>1. late[l] = 0 /\ late' = [late EXCEPT ![l] = late[l] + 1]
                BY <2>1, <3>2 DEF Sending
            <4> QED BY <4>1
        <3>3. CASE ~pending[l]
            <4>1. late' = [late EXCEPT ![l] = late[l]]
                BY <2>1, <3>3 DEF Sending
            <4> QED BY <4>1
        <3> QED BY <3>1, <3>2, <3>3
    <2>5. UNCHANGED <<session, length, filePtr, pending, exiting, cut, born>>
        BY <2>1 DEF Sending
    <2> QED BY <2>2, <2>3, <2>4, <2>5
<1>3. ASSUME App
      PROVE  ThreadType'
    <2>1. ASSUME NEW n \in Lengths \union {Missing}, Request(n)
          PROVE  ThreadType'
        <3>1. created + 1 \in Loads
            BY <2>1, BoundsAssumption DEF Request, Loads
        <3>2. /\ pc' = [pc EXCEPT ![created + 1] = "new"]
              /\ length' = [length EXCEPT ![created + 1] = n]
              /\ born' = [born EXCEPT ![created + 1] = session]
            BY <2>1 DEF Request
        <3>3. pc' \in [Loads -> Labels]
            BY <3>1, <3>2
        <3>4. length' \in [Loads -> Lengths \union {Missing, 0}]
            BY <3>1, <3>2
        <3>5. born' \in [Loads -> 0..session]
            BY <3>1, <3>2, BoundsAssumption
        <3>6. UNCHANGED <<session, sent, filePtr, pending, exiting, cut, late>>
            BY <2>1 DEF Request
        <3> QED BY <3>3, <3>4, <3>5, <3>6
    <2>2. CASE Cancel
        BY <2>2 DEF Cancel
    <2>3. CASE GotCode
        BY <2>3 DEF GotCode, threads
    <2>4. CASE Connect
        <3>1. born' \in [Loads -> 0..session']
            BY <2>4 DEF Connect, threads
        <3> QED BY <2>4, <3>1 DEF Connect, threads
    <2>5. CASE Disconnect
        BY <2>5 DEF Disconnect, threads
    <2> QED BY <1>3, <2>1, <2>2, <2>3, <2>4, <2>5 DEF App
<1>4. CASE UNCHANGED vars
    BY <1>4 DEF vars, threads
<1> QED BY <1>1, <1>2, <1>3, <1>4, NextCases

\* A thread never passes the end of its file.
LEMMA ProgressNext ==
    ASSUME Types, [Next]_vars
    PROVE  ProgressInv'
<1> USE DEF Types, Loads
<1>1. ASSUME NEW l \in Loads, Moves(l)
      PROVE  ProgressInv'
    <2>1. UNCHANGED <<created, length, sent>>
        BY <1>1 DEF Moves, Enter, Open, CleanUp, Cancelled, app
    <2>2. CASE Enter(l)
        BY <2>1, <2>2 DEF Enter, Goto, ProgressInv, AppType, ThreadType, Past
    <2>3. CASE Open(l)
        BY <2>1, <2>3 DEF Open, Goto, ProgressInv, AppType, ThreadType, Past
    <2>4. CASE CleanUp(l)
        <3>1. PICK r \in Resources : CleanUp(l)!(r)
            BY <2>4 DEF CleanUp
        <3>2. Following(r) \in {"file", "info", "ended"}
            BY DEF Following, Resources
        <3>3. pc[l] \in {"path", "file", "info"}
            BY <3>1 DEF Resources
        <3> QED BY <2>1, <3>1, <3>2, <3>3 DEF Goto, ProgressInv, AppType, ThreadType, Past
    <2>5. CASE Cancelled(l)
        <3>1. pc[l] # "none" /\ ~exiting[l]
            BY <2>5 DEF Cancelled, Writing, Resources
        <3>2. \E label \in {"ended", "path", "hung"} :
                 /\ pc' = [pc EXCEPT ![l] = label]
                 /\ \/ exiting' = exiting
                    \/ label = "path" /\ exiting' = [exiting EXCEPT ![l] = TRUE]
            BY <2>5 DEF Cancelled, Goto
        <3>3. PICK label \in {"ended", "path", "hung"} :
                 /\ pc' = [pc EXCEPT ![l] = label]
                 /\ \/ exiting' = exiting
                    \/ label = "path" /\ exiting' = [exiting EXCEPT ![l] = TRUE]
            BY <3>2
        <3>4. ASSUME NEW k \in Loads
              PROVE  ProgressInv!(k)'
            <4>1. CASE k = l
                <5>1. pc'[k] = label /\ (exiting'[k] => label = "path")
                    BY <3>1, <3>3, <4>1 DEF ThreadType
                <5> QED BY <2>1, <3>1, <4>1, <5>1 DEF ProgressInv, Past
            <4>2. CASE k # l
                <5>1. pc'[k] = pc[k] /\ exiting'[k] = exiting[k]
                    BY <3>3, <4>2 DEF ThreadType
                <5> QED BY <2>1, <5>1 DEF ProgressInv
            <4> QED BY <4>1, <4>2
        <3> QED BY <3>4 DEF ProgressInv
    <2> QED BY <1>1, <2>2, <2>3, <2>4, <2>5 DEF Moves
<1>2. ASSUME NEW l \in Loads, Sends(l)
      PROVE  ProgressInv'
    <2>1. PICK bytes \in Nat, next \in {"data", "code", "path"} : Sending(l, bytes, next)
        BY <1>2, SendCases
    <2>2. /\ UNCHANGED <<created, length, exiting>>
          /\ pc[l] \in Writing /\ pc' = [pc EXCEPT ![l] = next]
        BY <2>1 DEF Sending, app
    <2>3. l <= created /\ ~exiting[l]
        BY <2>2 DEF ProgressInv, Writing, AppType, Past
    <2>4. /\ length'[l] = length[l]
          /\ next = "data" => length[l] # Missing /\ sent'[l] < Buffers(length[l])
          /\ sent'[l] > 0 => sent'[l] <= Buffers(length[l])
          /\ \A k \in Loads \ {l} : sent'[k] = sent[k]
        <3>1. CASE pc[l] = "size"
            <4>1. sent' = sent /\ sent[l] = 0 /\ length[l] # Missing /\ next = AfterBuffers(l, 0)
                BY <2>1, <3>1 DEF Sending, ProgressInv
            <4> QED BY <2>2, <4>1, AfterCases DEF ProgressInv
        <3>2. CASE pc[l] = "data"
            <4>1. /\ sent' = [sent EXCEPT ![l] = sent[l] + 1]
                  /\ next = AfterBuffers(l, sent[l] + 1)
                BY <2>1, <3>2 DEF Sending
            <4>2. length[l] # Missing /\ sent[l] < Buffers(length[l]) /\ sent[l] \in Nat
                BY <3>2 DEF ProgressInv, ThreadType
            <4>3. Buffers(length[l]) \in Nat
                BY <4>2, LengthNat, BufferCount
            <4>4. sent'[l] = sent[l] + 1 /\ \A k \in Loads \ {l} : sent'[k] = sent[k]
                BY <4>1 DEF ThreadType
            <4> QED BY <2>2, <4>1, <4>2, <4>3, <4>4, AfterCases
        <3>3. CASE pc[l] = "code"
            <4>1. sent' = sent /\ next = "path"
                BY <2>1, <3>3 DEF Sending
            <4> QED BY <2>2, <4>1 DEF ProgressInv
        <3> QED BY <2>2, <3>1, <3>2, <3>3 DEF Writing
    <2>5. ASSUME NEW k \in Loads
          PROVE  ProgressInv!(k)'
        <3>1. CASE k = l
            <4>1. pc'[l] = next
                BY <2>2 DEF ThreadType
            <4> QED BY <2>2, <2>3, <2>4, <3>1, <4>1 DEF AppType
        <3>2. CASE k # l
            <4>1. pc'[k] = pc[k] /\ sent'[k] = sent[k]
                BY <2>2, <2>4, <3>2 DEF ThreadType
            <4> QED BY <2>2, <4>1 DEF ProgressInv
        <3> QED BY <3>1, <3>2
    <2> QED BY <2>5 DEF ProgressInv
<1>3. ASSUME App
      PROVE  ProgressInv'
    <2>1. ASSUME NEW n \in Lengths \union {Missing}, Request(n)
          PROVE  ProgressInv'
        <3>1. /\ created + 1 \in Loads /\ created' = created + 1
              /\ pc' = [pc EXCEPT ![created + 1] = "new"]
              /\ length' = [length EXCEPT ![created + 1] = n]
              /\ UNCHANGED <<sent, exiting>>
            BY <2>1, BoundsAssumption DEF Request, AppType
        <3>2. pc[created + 1] = "none"
            BY <3>1 DEF AppType, ProgressInv
        <3>3. sent[created + 1] = 0 /\ exiting[created + 1] = FALSE
            BY <3>1, <3>2 DEF ProgressInv, ThreadType, Past
        <3>4. ASSUME NEW k \in Loads
              PROVE  ProgressInv!(k)'
            <4>1. CASE k = created + 1
                <5>1. pc'[k] = "new" /\ length'[k] = n /\ sent'[k] = 0 /\ exiting'[k] = FALSE
                    BY <3>1, <3>3, <4>1 DEF ThreadType
                <5> QED BY <3>1, <4>1, <5>1 DEF AppType
            <4>2. CASE k # created + 1
                <5>1. pc'[k] = pc[k] /\ length'[k] = length[k]
                    BY <3>1, <4>2 DEF ThreadType
                <5> QED BY <3>1, <5>1 DEF ProgressInv, AppType
            <4> QED BY <4>1, <4>2
        <3> QED BY <3>4 DEF ProgressInv
    <2>2. CASE Cancel
        BY <2>2 DEF Cancel, ProgressInv
    <2>3. CASE GotCode
        BY <2>3 DEF GotCode, threads, ProgressInv
    <2>4. CASE Connect
        BY <2>4 DEF Connect, threads, ProgressInv
    <2>5. CASE Disconnect
        BY <2>5 DEF Disconnect, threads, ProgressInv
    <2> QED BY <1>3, <2>1, <2>2, <2>3, <2>4, <2>5 DEF App
<1>4. CASE UNCHANGED vars
    BY <1>4 DEF vars, threads, ProgressInv
<1> QED BY <1>1, <1>2, <1>3, <1>4, NextCases

\* The frames a client has got, seen as data.
FrameSet == [load : Loads, part : Writing, bytes : Nat]

\* The frames of the first n loads, taken one by one.
Good(frames, n) == /\ frames \in Seq(FrameSet)
                   /\ \A i \in 1..Len(frames) : frames[i].load <= n

LEMMA StreamFrames ==
    ASSUME NEW n \in 0..MaxLoads, NEW frames
    PROVE  frames \in Seq([load : 1..n, part : Writing, bytes : Nat]) <=> Good(frames, n)
<1> DEFINE Now == [load : 1..n, part : Writing, bytes : Nat]
<1>1. \A f : f \in Now <=> f \in FrameSet /\ f.load <= n
    BY BoundsAssumption DEF FrameSet, Loads
<1> HIDE DEF Now
<1>2. ASSUME frames \in Seq(Now)
      PROVE  Good(frames, n)
    <2>1. frames \in Seq(Now) /\ Now \subseteq FrameSet
        BY <1>1, <1>2
    <2>2. \A i \in 1..Len(frames) : frames[i] \in Now
        BY <1>2
    <2> QED BY <1>1, <2>1, <2>2 DEF Good
<1>3. ASSUME Good(frames, n)
      PROVE  frames \in Seq(Now)
    <2>1. \A i \in 1..Len(frames) : frames[i] \in FrameSet
        BY <1>3 DEF Good
    <2>2. \A i \in 1..Len(frames) : frames[i] \in Now
        BY <1>1, <1>3, <2>1 DEF Good
    <2> QED BY <1>3, <2>2 DEF Good
<1> QED BY <1>2, <1>3 DEF Now

\* What a step does to the stream: one frame of a load that was created is added, the
\* stream is started again, or nothing changes.
LEMMA StreamSteps ==
    ASSUME Types, [Next]_vars
    PROVE  /\ created <= created'
           /\ \/ stream' = stream
              \/ stream' = <<>> /\ Connect
              \/ \E l \in Loads, bytes \in Nat, next \in {"data", "code", "path"} :
                    /\ l <= created /\ up
                    /\ Sending(l, bytes, next)
                    /\ Frame(l, pc[l], bytes) \in FrameSet
                    /\ stream' = Append(stream, Frame(l, pc[l], bytes))
<1> USE DEF Types, AppType
<1>1. ASSUME NEW l \in Loads, Moves(l)
      PROVE  UNCHANGED <<created, stream>>
    BY <1>1 DEF Moves, Enter, Open, CleanUp, Cancelled, app
<1>2. ASSUME NEW l \in Loads, Sends(l)
      PROVE  /\ created' = created
             /\ \/ stream' = stream
                \/ \E bytes \in Nat, next \in {"data", "code", "path"} :
                    /\ l <= created /\ up
                    /\ Sending(l, bytes, next)
                    /\ Frame(l, pc[l], bytes) \in FrameSet
                    /\ stream' = Append(stream, Frame(l, pc[l], bytes))
    <2>1. PICK bytes \in Nat, next \in {"data", "code", "path"} : Sending(l, bytes, next)
        BY <1>2, SendCases
    <2>2. l <= created
        <3>1. pc[l] # "none"
            BY <2>1 DEF Sending, Writing
        <3> QED BY <3>1 DEF ProgressInv, Loads
    <2>3. Frame(l, pc[l], bytes) \in FrameSet
        BY <2>1 DEF Sending, Frame, FrameSet
    <2> QED BY <2>1, <2>2, <2>3 DEF Sending
<1>3. ASSUME App
      PROVE  /\ created <= created'
             /\ \/ stream' = stream
                \/ stream' = <<>> /\ Connect
    BY <1>3 DEF App, Request, Cancel, GotCode, Connect, Disconnect
<1>4. CASE UNCHANGED vars
    BY <1>4 DEF vars
<1> QED BY <1>1, <1>2, <1>3, <1>4, NextCases

LEMMA StreamNext ==
    ASSUME Types, [Next]_vars
    PROVE  StreamType'
<1>1. AppType /\ AppType' /\ created <= created'
    BY AppNext, StreamSteps DEF Types
<1>2. Good(stream, created)
    BY <1>1, StreamFrames DEF Types, StreamType, AppType
<1>3. created \in Nat /\ created' \in Nat
    BY <1>1, BoundsAssumption DEF AppType
<1>4. \A f \in FrameSet : f.load \in Nat
    BY BoundsAssumption DEF FrameSet, Loads
<1>5. Good(stream', created')
    <2>1. CASE stream' = stream
        BY <1>1, <1>2, <1>3, <1>4, <2>1 DEF Good
    <2>2. CASE stream' = <<>>
        BY <2>2 DEF Good
    <2>3. ASSUME NEW l \in Loads, NEW bytes \in Nat, NEW next \in {"data", "code", "path"},
                 l <= created, Sending(l, bytes, next), Frame(l, pc[l], bytes) \in FrameSet,
                 stream' = Append(stream, Frame(l, pc[l], bytes))
          PROVE  Good(stream', created')
        <3>1. Frame(l, pc[l], bytes).load = l /\ created' = created
            BY <2>3 DEF Frame, Sending
        <3> QED BY <1>2, <1>3, <2>3, <3>1 DEF Good
    <2> QED BY <2>1, <2>2, <2>3, StreamSteps
<1> QED BY <1>1, <1>5, StreamFrames DEF StreamType, AppType

-----------------------------------------------------------------------------
(* What a load gives back.                                                  *)

LEMMA GivenBackCases ==
    /\ GivenBack("file") = {"path"} /\ GivenBack("info") = {"path", "file"}
    /\ GivenBack("ended") = {"path", "file", "info"}
    /\ \A label \in {"none", "new", "open", "size", "data", "code", "path", "hung"} :
          GivenBack(label) = {}
BY DEF GivenBack, Resources

LEMMA ReleasedInit == Init => ReleasedInv
<1> SUFFICES ASSUME Init PROVE ReleasedInv
    OBVIOUS
<1>1. pc = [l \in Loads |-> "none"] /\ released = [l \in Loads |-> [r \in Resources |-> 0]]
    BY DEF Init, Of
<1> QED BY <1>1, GivenBackCases DEF ReleasedInv

\* What one load must have given back, of each resource.
GivesBack(l, r) ==
    /\ released[l][r] <= 1
    /\ r \notin GivenBack(pc[l]) => released[l][r] = 0
    /\ r \in GivenBack(pc[l]) /\ ~(pc[l] = "ended" /\ cut[l]) => released[l][r] = 1

\* Each statement of the cleanup handler runs once, and a load that begins has nothing
\* given back.
LEMMA ReleasedNext ==
    ASSUME Types, ReleasedInv, [Next]_vars
    PROVE  ReleasedInv'
<1> USE DEF Types, ThreadType
<1>0. \A l \in Loads : \A r \in Resources : GivesBack(l, r) /\ released[l][r] \in Nat
    BY DEF ReleasedInv, GivesBack
\* A load goes from one label where nothing is given back to another.
<1> DEFINE Nothing == {"none", "new", "open", "size", "data", "code", "path", "hung"}
<1>1. ASSUME NEW l \in Loads, NEW label \in Nothing, pc[l] \in Nothing,
             pc' = [pc EXCEPT ![l] = label], released' = released, cut' = cut
      PROVE  ReleasedInv'
    <2>1. ASSUME NEW k \in Loads, NEW r \in Resources
          PROVE  GivesBack(k, r)'
        <3>1. CASE k = l
            <4>1. pc'[k] = label
                BY <1>1, <3>1
            <4>2. GivenBack(pc[k]) = {} /\ GivenBack(pc'[k]) = {}
                BY <1>1, <3>1, <4>1, GivenBackCases
            <4> QED BY <1>0, <1>1, <4>2 DEF GivesBack
        <3>2. CASE k # l
            <4>1. pc'[k] = pc[k]
                BY <1>1, <3>2
            <4> QED BY <1>0, <1>1, <4>1 DEF GivesBack
        <3> QED BY <3>1, <3>2
    <2> QED BY <1>1, <2>1 DEF ReleasedInv, GivesBack
<1>2. ASSUME pc' = pc, released' = released, cut' = cut
      PROVE  ReleasedInv'
    BY <1>2 DEF ReleasedInv
<1>3. ASSUME NEW l \in Loads, Moves(l)
      PROVE  ReleasedInv'
    <2>1. CASE Enter(l)
        BY <1>1, <2>1 DEF Enter, Goto
    <2>2. CASE Open(l)
        <3>1. \E label \in {"code", "size"} : pc' = [pc EXCEPT ![l] = label]
            BY <2>2 DEF Open, Goto
        <3> QED BY <1>1, <2>2, <3>1 DEF Open
    <2>3. CASE CleanUp(l)
        <3>1. PICK s \in Resources : CleanUp(l)!(s)
            BY <2>3 DEF CleanUp
        <3>2. /\ pc[l] = s /\ pc' = [pc EXCEPT ![l] = Following(s)] /\ cut' = cut
              /\ released' = [released EXCEPT ![l] = [released[l] EXCEPT ![s] = @ + 1]]
            BY <3>1 DEF Goto
        <3>3. /\ GivenBack(Following(s)) = GivenBack(s) \union {s} /\ s \notin GivenBack(s)
              /\ s # "ended"
            BY GivenBackCases DEF Following, Resources
        <3>4. released' \in [Loads -> [Resources -> Nat]]
            BY <3>2 DEF ReleasedInv
        <3>5. ASSUME NEW k \in Loads, NEW r \in Resources
              PROVE  GivesBack(k, r)'
            <4>1. CASE k = l
                <5>1. pc'[k] = Following(s) /\ pc[k] = s
                    BY <3>2, <4>1
                <5>2. released'[k][r] = IF r = s THEN released[k][r] + 1 ELSE released[k][r]
                    BY <3>2, <4>1 DEF ReleasedInv
                <5>3. CASE r = s
                    <6>1. released[k][r] = 0
                        BY <1>0, <3>3, <5>1, <5>3 DEF GivesBack
                    <6> QED BY <3>3, <5>1, <5>2, <5>3, <6>1 DEF GivesBack
                <5>4. CASE r # s
                    BY <1>0, <3>3, <5>1, <5>2, <5>4 DEF GivesBack
                <5> QED BY <5>3, <5>4
            <4>2. CASE k # l
                <5>1. pc'[k] = pc[k] /\ released'[k] = released[k]
                    BY <3>2, <4>2 DEF ReleasedInv
                <5> QED BY <1>0, <3>2, <5>1 DEF GivesBack
            <4> QED BY <4>1, <4>2
        <3> QED BY <3>4, <3>5 DEF ReleasedInv, GivesBack
    <2>4. CASE Cancelled(l)
        <3>1. ASSUME pc[l] \in {"open"} \union Writing
              PROVE  ReleasedInv'
            <4>1. \E label \in {"path", "hung"} : pc' = [pc EXCEPT ![l] = label]
                BY <2>4, <3>1 DEF Cancelled, Goto, Writing, Resources
            <4>2. released' = released /\ cut' = cut
                BY <2>4, <3>1 DEF Cancelled, Writing, Resources
            <4> QED BY <1>1, <3>1, <4>1, <4>2 DEF Writing
        <3>2. ASSUME pc[l] \in {"new"} \union Resources
              PROVE  ReleasedInv'
            <4>1. /\ pc' = [pc EXCEPT ![l] = "ended"] /\ released' = released
                  /\ cut' = [cut EXCEPT ![l] = TRUE]
                BY <2>4, <3>2 DEF Cancelled, Goto, Writing, Resources
            <4>2. ASSUME NEW k \in Loads, NEW r \in Resources
                  PROVE  GivesBack(k, r)'
                <5>1. CASE k = l
                    <6>1. pc'[k] = "ended" /\ cut'[k] = TRUE
                        BY <4>1, <5>1
                    <6> QED BY <1>0, <4>1, <6>1, GivenBackCases DEF GivesBack, Resources
                <5>2. CASE k # l
                    <6>1. pc'[k] = pc[k] /\ cut'[k] = cut[k]
                        BY <4>1, <5>2
                    <6> QED BY <1>0, <4>1, <6>1 DEF GivesBack
                <5> QED BY <5>1, <5>2
            <4> QED BY <4>1, <4>2 DEF ReleasedInv, GivesBack
        <3> QED BY <2>4, <3>1, <3>2 DEF Cancelled
    <2> QED BY <1>3, <2>1, <2>2, <2>3, <2>4 DEF Moves
<1>4. ASSUME NEW l \in Loads, Sends(l)
      PROVE  ReleasedInv'
    <2>1. PICK bytes \in Nat, next \in {"data", "code", "path"} : Sending(l, bytes, next)
        BY <1>4, SendCases
    <2> QED BY <1>1, <2>1 DEF Sending, Writing
<1>5. ASSUME App
      PROVE  ReleasedInv'
    <2>1. ASSUME NEW n \in Lengths \union {Missing}, Request(n)
          PROVE  ReleasedInv'
        <3>1. created + 1 \in Loads
            BY <2>1, BoundsAssumption DEF Request, AppType, Loads
        <3>2. pc[created + 1] = "none"
            BY <3>1 DEF AppType, ProgressInv, Loads
        <3> QED BY <1>1, <2>1, <3>1, <3>2 DEF Request
    <2> QED BY <1>2, <1>5, <2>1 DEF App, Cancel, GotCode, Connect, Disconnect, threads
<1>6. CASE UNCHANGED vars
    BY <1>2, <1>6 DEF vars, threads
<1> QED BY <1>3, <1>4, <1>5, <1>6, NextCases

-----------------------------------------------------------------------------
(* What stays as it is.                                                     *)

\* A cleanup handler that has begun goes on to its end; a cancellation is not taken
\* back; what a load was asked for does not change.
LEMMA Stays ==
    ASSUME Types, [Next]_vars, NEW l \in Loads
    PROVE  /\ pc[l] \in Past => pc'[l] \in Past
           /\ pending[l] => pending'[l]
           /\ l <= created => born'[l] = born[l] /\ length'[l] = length[l]
<1> USE DEF Types, ThreadType
<1>1. ASSUME NEW k \in Loads, Moves(k)
      PROVE  /\ UNCHANGED <<pending, born, length>>
             /\ pc[l] \in Past => pc'[l] \in Past
    <2>1. UNCHANGED <<pending, born, length>>
        BY <1>1 DEF Moves, Enter, Open, CleanUp, Cancelled
    <2>2. CASE Enter(k) \/ Open(k)
        BY <2>2 DEF Enter, Open, Goto, Past
    <2>3. CASE CleanUp(k)
        <3>1. PICK r \in Resources : pc' = [pc EXCEPT ![k] = Following(r)]
            BY <2>3 DEF CleanUp, Goto
        <3>2. Following(r) \in Past
            BY DEF Following, Resources, Past
        <3> QED BY <2>1, <3>1, <3>2
    <2>4. CASE Cancelled(k)
        <3>1. CASE pc[k] \in {"open"} \union Writing
            <4>1. PICK label \in {"path", "hung"} : pc' = [pc EXCEPT ![k] = label]
                BY <2>4, <3>1 DEF Cancelled, Goto, Writing, Resources
            <4> QED BY <2>1, <3>1, <4>1 DEF Past, Writing
        <3>2. CASE pc[k] \in {"new"} \union Resources
            <4>1. pc' = [pc EXCEPT ![k] = "ended"]
                BY <2>4, <3>2 DEF Cancelled, Goto, Writing, Resources
            <4> QED BY <2>1, <4>1 DEF Past
        <3> QED BY <2>4, <3>1, <3>2 DEF Cancelled
    <2> QED BY <1>1, <2>1, <2>2, <2>3, <2>4 DEF Moves
<1>2. ASSUME NEW k \in Loads, Sends(k)
      PROVE  /\ UNCHANGED <<pending, born, length>>
             /\ pc[l] \in Past => pc'[l] \in Past
    <2>1. PICK bytes \in Nat, next \in {"data", "code", "path"} : Sending(k, bytes, next)
        BY <1>2, SendCases
    <2> QED BY <2>1 DEF Sending, Writing, Past
<1>3. ASSUME App
      PROVE  /\ pc[l] \in Past => pc'[l] \in Past
             /\ pending[l] => pending'[l]
             /\ l <= created => born'[l] = born[l] /\ length'[l] = length[l]
    <2>1. ASSUME NEW n \in Lengths \union {Missing}, Request(n)
          PROVE  /\ pc[l] \in Past => pc'[l] \in Past
                 /\ pending[l] => pending'[l]
                 /\ l <= created => born'[l] = born[l] /\ length'[l] = length[l]
        <3>1. /\ created + 1 \in Loads
              /\ pc' = [pc EXCEPT ![created + 1] = "new"]
              /\ length' = [length EXCEPT ![created + 1] = n]
              /\ born' = [born EXCEPT ![created + 1] = session]
              /\ pending' = pending
            BY <2>1, BoundsAssumption DEF Request, AppType, Loads
        <3>2. pc[created + 1] = "none"
            BY <3>1 DEF AppType, ProgressInv, Loads
        <3>3. l <= created => l # created + 1
            BY DEF AppType, Loads
        <3> QED BY <3>1, <3>2, <3>3 DEF Past
    <2>2. CASE Cancel
        <3>1. UNCHANGED <<pc, born, length>>
            BY <2>2 DEF Cancel
        <3>2. pending' = pending \/ pending' = [pending EXCEPT ![fileThread] = TRUE]
            BY <2>2 DEF Cancel
        <3>3. pending[l] => pending'[l]
            BY <3>2
        <3> QED BY <3>1, <3>3
    <2> QED BY <1>3, <2>1, <2>2 DEF App, GotCode, Connect, Disconnect, threads
<1>4. CASE UNCHANGED vars
    BY <1>4 DEF vars, threads
<1> QED BY <1>1, <1>2, <1>3, <1>4, NextCases

\* Only connecting begins a session, and only then is anything up that was down.
LEMMA SessionSteps ==
    ASSUME Types, [Next]_vars
    PROVE  Connect \/ (session' = session /\ (up' => up))
<1>1. ASSUME NEW l \in Loads, Moves(l)
      PROVE  session' = session /\ (up' => up)
    BY <1>1 DEF Moves, Enter, Open, CleanUp, Cancelled, app
<1>2. ASSUME NEW l \in Loads, Sends(l)
      PROVE  session' = session /\ (up' => up)
    BY <1>2, SendCases DEF Types, Sending, app
<1>3. ASSUME App
      PROVE  Connect \/ (session' = session /\ (up' => up))
    BY <1>3 DEF App, Request, Cancel, GotCode, Disconnect
<1>4. CASE UNCHANGED vars
    <2>1. session' = session /\ up' = up
        BY <1>4 DEF vars, app
    <2>2. up' => up
        BY <2>1
    <2> QED BY <2>1, <2>2
<1> DEFINE Steady == Connect \/ (session' = session /\ (up' => up))
<1>5. (\E l \in Loads : Moves(l) \/ Sends(l)) => Steady
    BY <1>1, <1>2
<1>6. (\E l \in Loads : Moves(l) \/ Sends(l)) \/ App \/ UNCHANGED vars
    BY NextCases DEF Types
<1> QED BY <1>3, <1>4, <1>5, <1>6

\* The frames of the stream, taken one by one.
LEMMA StreamGood ==
    ASSUME Types
    PROVE  /\ Good(stream, created) /\ DOMAIN stream = 1..Len(stream) /\ Len(stream) \in Nat
           /\ \A i \in DOMAIN stream : stream[i] \in FrameSet /\ stream[i].load \in Loads
<1>1. Good(stream, created)
    BY StreamFrames DEF Types, StreamType, AppType
<1>2. \A f \in FrameSet : f.load \in Loads
    BY DEF FrameSet
<1> QED BY <1>1, <1>2 DEF Good

\* What appending a frame does to the stream.
LEMMA Appended ==
    ASSUME NEW frames \in Seq(FrameSet), NEW frame \in FrameSet
    PROVE  /\ Append(frames, frame) \in Seq(FrameSet)
           /\ Len(Append(frames, frame)) = Len(frames) + 1 /\ Len(frames) \in Nat
           /\ DOMAIN Append(frames, frame) = 1..(Len(frames) + 1)
           /\ \A i \in 1..Len(frames) : Append(frames, frame)[i] = frames[i]
           /\ Append(frames, frame)[Len(frames) + 1] = frame
OBVIOUS

LEMMA CodeNext ==
    ASSUME Types, CodeInv, [Next]_vars
    PROVE  CodeInv'
<1>1. CASE stream' = stream
    BY <1>1, StreamGood, Stays DEF CodeInv
<1>2. CASE stream' = <<>>
    BY <1>2 DEF CodeInv
<1>3. ASSUME NEW l \in Loads, NEW bytes \in Nat, NEW next \in {"data", "code", "path"},
             Sending(l, bytes, next), Frame(l, pc[l], bytes) \in FrameSet,
             stream' = Append(stream, Frame(l, pc[l], bytes))
      PROVE  CodeInv'
    <2>1. ASSUME NEW i \in 1..Len(stream), stream[i].part = "code"
          PROVE  pc'[stream[i].load] \in Past
        BY <2>1, StreamGood, Stays DEF CodeInv
    <2>2. ASSUME pc[l] = "code"
          PROVE  pc'[l] \in Past
        BY <1>3, <2>2 DEF Sending, Types, ThreadType, Past
    <2>3. Frame(l, pc[l], bytes).load = l /\ Frame(l, pc[l], bytes).part = pc[l]
        BY DEF Frame
    <2>4. stream \in Seq(FrameSet)
        BY StreamGood DEF Good
    <2> QED BY <1>3, <2>1, <2>2, <2>3, <2>4, Appended DEF CodeInv
<1> QED BY <1>1, <1>2, <1>3, StreamSteps

\* A load sends its code once.
LEMMA CodeOnceNext ==
    ASSUME Types, CodeInv, CodeOnce, [Next]_vars
    PROVE  CodeOnce'
<1>1. CASE stream' = stream
    BY <1>1 DEF CodeOnce, IsCode
<1>2. CASE stream' = <<>>
    BY <1>2 DEF CodeOnce
<1>3. ASSUME NEW l \in Loads, NEW bytes \in Nat, NEW next \in {"data", "code", "path"},
             Sending(l, bytes, next), Frame(l, pc[l], bytes) \in FrameSet,
             stream' = Append(stream, Frame(l, pc[l], bytes))
      PROVE  CodeOnce'
    <2>1. /\ Frame(l, pc[l], bytes).load = l /\ stream \in Seq(FrameSet)
          /\ DOMAIN stream = 1..Len(stream)
        BY StreamGood DEF Frame, Good
    <2>2. ASSUME NEW i \in 1..Len(stream), stream[i].part = "code"
          PROVE  stream[i].load # l
        BY <1>3, <2>1, <2>2 DEF CodeInv, Sending, Writing, Past
    <2>3. /\ DOMAIN stream' = 1..(Len(stream) + 1) /\ Len(stream) \in Nat
          /\ \A i \in 1..Len(stream) : stream'[i] = stream[i]
          /\ stream'[Len(stream) + 1].load = l
        BY <1>3, <2>1, Appended
    <2>4. ASSUME NEW i \in 1..(Len(stream) + 1), NEW j \in 1..(Len(stream) + 1),
                 stream'[i].part = "code", stream'[j].part = "code",
                 stream'[i].load = stream'[j].load
          PROVE  i = j
        <3>1. CASE i \in 1..Len(stream) /\ j \in 1..Len(stream)
            BY <2>1, <2>3, <2>4, <3>1 DEF CodeOnce, IsCode
        <3>2. CASE i \in 1..Len(stream) /\ j = Len(stream) + 1
            BY <2>2, <2>3, <2>4, <3>2
        <3>3. CASE i = Len(stream) + 1 /\ j \in 1..Len(stream)
            BY <2>2, <2>3, <2>4, <3>3
        <3> QED BY <2>3, <3>1, <3>2, <3>3
    <2> QED BY <2>3, <2>4 DEF CodeOnce, IsCode
<1> QED BY <1>1, <1>2, <1>3, StreamSteps

-----------------------------------------------------------------------------
(* What the app has read, and what it gave up.                              *)

\* Only connecting and reading a code change what was read; nothing given up is taken
\* back.
LEMMA ReadSteps ==
    ASSUME Types, [Next]_vars
    PROVE  /\ Connect \/ GotCode \/ seen' = seen
           /\ gaveUp \subseteq gaveUp'
<1>1. ASSUME NEW l \in Loads, Moves(l)
      PROVE  seen' = seen /\ gaveUp' = gaveUp
    BY <1>1 DEF Moves, Enter, Open, CleanUp, Cancelled, app
<1>2. ASSUME NEW l \in Loads, Sends(l)
      PROVE  seen' = seen /\ gaveUp' = gaveUp
    BY <1>2, SendCases DEF Types, Sending, app
<1>3. ASSUME App
      PROVE  (Connect \/ GotCode \/ seen' = seen) /\ gaveUp \subseteq gaveUp'
    BY <1>3 DEF App, Request, Cancel, GotCode, Connect, Disconnect
<1>4. CASE UNCHANGED vars
    BY <1>4 DEF vars, app
<1> QED BY <1>1, <1>2, <1>3, <1>4, NextCases DEF Types

\* The frames a client has got stay until the next one connects.
LEMMA Kept ==
    ASSUME Types, [Next]_vars, ~Connect
    PROVE  /\ Len(stream) \in Nat /\ Len(stream') \in Nat /\ Len(stream) <= Len(stream')
           /\ DOMAIN stream = 1..Len(stream) /\ DOMAIN stream' = 1..Len(stream')
           /\ \A i \in 1..Len(stream) : stream'[i] = stream[i]
<1>1. stream \in Seq(FrameSet) /\ DOMAIN stream = 1..Len(stream) /\ Len(stream) \in Nat
    BY StreamGood DEF Good
<1>2. CASE stream' = stream
    BY <1>1, <1>2
<1>3. ASSUME NEW frame \in FrameSet, stream' = Append(stream, frame)
      PROVE  /\ Len(stream) \in Nat /\ Len(stream') = Len(stream) + 1
             /\ DOMAIN stream' = 1..Len(stream')
             /\ \A i \in 1..Len(stream) : stream'[i] = stream[i]
    BY <1>1, <1>3, Appended
<1> QED BY <1>1, <1>2, <1>3, StreamSteps

\* A code stays one, of the same load, and a stale one stays stale.
LEMMA CodeStays ==
    ASSUME Types, [Next]_vars, ~Connect, NEW k \in DOMAIN stream, IsCode(k)
    PROVE  IsCode(k)' /\ stream'[k] = stream[k] /\ (Stale(k) => Stale(k)')
<1>1. k \in DOMAIN stream' /\ stream'[k] = stream[k]
    BY Kept
<1>2. stream[k].load \in Loads /\ stream[k].load <= created
    BY StreamGood DEF Good
<1>3. born'[stream[k].load] = born[stream[k].load] /\ session' = session
    BY <1>2, Stays, SessionSteps
<1> QED BY <1>1, <1>3, ReadSteps DEF IsCode, Stale

LEMMA StaleStays ==
    ASSUME Types, [Next]_vars, ~Connect, NEW i, StaleBefore(i)
    PROVE  StaleBefore(i)'
<1>1. PICK k \in 1..(i - 1) : IsCode(k) /\ Stale(k)
    BY DEF StaleBefore
<1>2. IsCode(k)' /\ Stale(k)'
    BY <1>1, CodeStays DEF IsCode
<1> QED BY <1>2 DEF StaleBefore

LEMMA SeenNext ==
    ASSUME Types, [Next]_vars
    PROVE  SeenType'
<1>1. seen \in 0..Len(stream) /\ Len(stream) \in Nat
    BY StreamGood DEF Types, SeenType
<1>2. CASE Connect
    BY <1>2 DEF Connect, SeenType
<1>3. CASE GotCode
    <2>1. \E i \in DOMAIN stream : seen' = i /\ stream' = stream
        BY <1>3 DEF GotCode
    <2> QED BY <2>1, StreamGood DEF SeenType
<1>4. CASE ~Connect /\ seen' = seen
    BY <1>1, <1>4, Kept DEF SeenType
<1> QED BY <1>2, <1>3, <1>4, ReadSteps

LEMMA GaveUpNext ==
    ASSUME Types, GaveUpInv, [Next]_vars
    PROVE  GaveUpInv'
<1> USE DEF Types, AppType
<1>1. ASSUME NEW l \in gaveUp
      PROVE  pending'[l] \/ pc'[l] \in Past
    <2>1. l \in Loads
        BY BoundsAssumption DEF Loads
    <2> QED BY <2>1, Stays DEF GaveUpInv
<1>2. CASE Cancel
    <2>1. /\ wanted = created /\ wanted # 0 /\ fileThread = created /\ pc' = pc
          /\ gaveUp' = gaveUp \union {created}
        BY <1>2 DEF Cancel
    <2>2. created \in Loads
        BY <2>1, BoundsAssumption DEF Loads
    <2>3. pc[created] = "ended" \/ pending' = [pending EXCEPT ![created] = TRUE]
        BY <1>2, <2>1 DEF Cancel
    <2>4. pending'[created] \/ pc'[created] \in Past
        BY <2>1, <2>2, <2>3 DEF ThreadType, Past
    <2> QED BY <1>1, <2>1, <2>4 DEF GaveUpInv
<1>3. CASE gaveUp' = gaveUp
    BY <1>1, <1>3 DEF GaveUpInv
<1>4. ASSUME NEW l \in Loads, Moves(l) \/ Sends(l)
      PROVE  gaveUp' = gaveUp
    BY <1>4, SendCases DEF Moves, Enter, Open, CleanUp, Cancelled, Sending, app
<1>5. App \/ UNCHANGED vars => Cancel \/ gaveUp' = gaveUp
    BY DEF App, Request, GotCode, Connect, Disconnect, vars, app
<1> QED BY <1>2, <1>3, <1>4, <1>5, NextCases

\* What the app knows of a load it does not wait for.
Known(l) ==
    \/ l \in gaveUp
    \/ \E k \in 1..seen : IsCode(k) /\ (stream[k].load = l \/ Stale(k))

\* What it knows stays known.
LEMMA KnownStays ==
    ASSUME Types, [Next]_vars, ~Connect, NEW l \in Loads, Known(l)
    PROVE  Known(l)'
<1>1. seen \in 0..Len(stream) /\ Len(stream) \in Nat /\ DOMAIN stream = 1..Len(stream)
    BY StreamGood DEF Types, SeenType
<1>2. seen' \in Nat /\ seen <= seen'
    <2>1. CASE GotCode
        <3>1. \E i \in DOMAIN stream : i > seen /\ seen' = i
            BY <2>1 DEF GotCode
        <3> QED BY <1>1, <3>1
    <2> QED BY <1>1, <2>1, ReadSteps
<1>3. CASE l \in gaveUp
    BY <1>3, ReadSteps DEF Known
<1>4. ASSUME NEW k \in 1..seen, IsCode(k), stream[k].load = l \/ Stale(k)
      PROVE  Known(l)'
    <2>1. IsCode(k)' /\ stream'[k] = stream[k] /\ (Stale(k) => Stale(k)')
        BY <1>1, <1>4, CodeStays
    <2>2. k \in 1..seen'
        BY <1>1, <1>2
    <2> QED BY <1>4, <2>1, <2>2 DEF Known
<1> QED BY <1>3, <1>4 DEF Known

\* The load of a code that the app has not read yet is the one it waits for, or the code
\* is stale, or a stale code was read.
LEMMA NextCode ==
    ASSUME Types, WaitInv, CodeOnce, up, NEW i \in DOMAIN stream, IsCode(i), i > seen,
           stream[i].load # wanted, ~Stale(i)
    PROVE  \E k \in 1..seen : IsCode(k) /\ Stale(k)
<1> DEFINE l == stream[i].load
<1>1. l \in Loads /\ l <= created /\ seen \in 0..Len(stream) /\ DOMAIN stream = 1..Len(stream)
    BY StreamGood DEF Good, Types, SeenType
<1>2. born[l] = session /\ l \notin gaveUp
    <2>1. born[l] \in 0..session /\ session \in Nat
        BY <1>1, BoundsAssumption DEF Types, ThreadType, AppType
    <2> QED BY <2>1 DEF Stale
<1>3. PICK k \in 1..seen : IsCode(k) /\ (stream[k].load = l \/ Stale(k))
    BY <1>1, <1>2 DEF WaitInv
<1>4. stream[k].load # l
    <2>1. k \in DOMAIN stream /\ k # i
        BY <1>1, StreamGood
    <2> QED BY <1>3, <2>1 DEF CodeOnce
<1> QED BY <1>3, <1>4

LEMMA WaitNext ==
    ASSUME Types, WaitInv, CodeOnce, [Next]_vars
    PROVE  WaitInv'
<1> USE DEF Types
<1> SUFFICES ASSUME up', NEW l \in Loads, l <= created', l # wanted', born'[l] = session'
             PROVE  Known(l)'
    BY DEF WaitInv, Known
<1>1. ASSUME ~Connect, up, l <= created, l # wanted, born[l] = session
      PROVE  Known(l)'
    <2>1. Known(l)
        BY <1>1 DEF WaitInv, Known
    <2> QED BY <1>1, <2>1, KnownStays
<1>2. ASSUME NEW k \in Loads, Moves(k) \/ Sends(k)
      PROVE  UNCHANGED <<session, up, wanted, created, born>>
    BY <1>2, SendCases DEF Moves, Enter, Open, CleanUp, Cancelled, Sending, app
<1>3. CASE Connect
    <2>1. session' = session + 1 /\ born'[l] = born[l]
        BY <1>3 DEF Connect, threads
    <2>2. born[l] \in 0..session /\ session \in Nat
        BY BoundsAssumption DEF ThreadType, AppType
    <2> QED BY <2>1, <2>2
<1>4. ASSUME App, ~Connect
      PROVE  Known(l)'
    <2>1. ASSUME NEW n \in Lengths \union {Missing}, Request(n)
          PROVE  Known(l)'
        <3>1. /\ up /\ wanted = 0 /\ created' = created + 1 /\ wanted' = created + 1
              /\ session' = session
            BY <2>1 DEF Request
        <3>2. l <= created /\ l # wanted
            BY <3>1, BoundsAssumption DEF AppType, Loads
        <3>3. born[l] = session
            BY <3>1, <3>2, Stays
        <3> QED BY <1>1, <1>4, <3>1, <3>2, <3>3
    <2>2. CASE Cancel
        <3>1. /\ up /\ UNCHANGED <<created, session, born>>
              /\ gaveUp' = gaveUp \union {wanted}
            BY <2>2 DEF Cancel
        <3>2. CASE l = wanted
            BY <3>1, <3>2 DEF Known
        <3>3. CASE l # wanted
            BY <1>1, <1>4, <3>1, <3>3
        <3> QED BY <3>2, <3>3
    <2>3. CASE GotCode
        <3>1. /\ up /\ UNCHANGED <<created, session, born, stream, gaveUp>>
            BY <2>3 DEF GotCode, threads
        <3>2. CASE l # wanted
            BY <1>1, <1>4, <3>1, <3>2
        <3>3. CASE l = wanted
            <4>1. PICK i \in DOMAIN stream : IsCode(i) /\ i > seen /\ seen' = i
                BY <2>3 DEF GotCode
            <4>2. i \in 1..Len(stream) /\ seen \in 0..Len(stream)
                BY StreamGood DEF SeenType
            <4>3. IsCode(i)' /\ stream'[i] = stream[i] /\ (Stale(i) => Stale(i)')
                BY <1>4, <4>1, CodeStays
            <4>4. CASE stream[i].load = l \/ Stale(i)
                <5>1. i \in 1..seen'
                    BY <4>1, <4>2
                <5> QED BY <4>3, <4>4, <5>1 DEF Known
            <4>5. CASE stream[i].load # l /\ ~Stale(i)
                <5>1. Known(l)
                    BY <3>1, <3>3, <4>1, <4>5, NextCode DEF Known
                <5> QED BY <1>4, <5>1, KnownStays
            <4> QED BY <4>4, <4>5
        <3> QED BY <3>2, <3>3
    <2>4. CASE Disconnect
        BY <2>4 DEF Disconnect
    <2> QED BY <1>4, <2>1, <2>2, <2>3, <2>4 DEF App
<1>5. CASE UNCHANGED vars
    <2>1. UNCHANGED <<session, up, wanted, created, born>>
        BY <1>5 DEF vars, app, threads
    <2> QED BY <1>1, <1>3, <2>1
<1> QED BY <1>1, <1>2, <1>3, <1>4, <1>5, NextCases

-----------------------------------------------------------------------------
(* Which loads may still send.                                              *)

\* A load that the app knows of is over or cancelled, or a stale code was sent.
LEMMA KnownEnds ==
    ASSUME Types, GaveUpInv, CodeInv, NEW l \in Loads, Known(l)
    PROVE  pending[l] \/ pc[l] \in Past \/ StaleBefore(Len(stream) + 1)
<1>1. seen \in 0..Len(stream) /\ Len(stream) \in Nat
    BY StreamGood DEF Types, SeenType
<1>2. CASE l \in gaveUp
    BY <1>2 DEF GaveUpInv
<1>3. ASSUME NEW k \in 1..seen, IsCode(k), stream[k].load = l \/ Stale(k)
      PROVE  pending[l] \/ pc[l] \in Past \/ StaleBefore(Len(stream) + 1)
    <2>1. k \in 1..(Len(stream) + 1 - 1)
        BY <1>1
    <2>2. CASE stream[k].load = l
        BY <1>3, <2>2 DEF CodeInv, IsCode
    <2> QED BY <1>3, <2>1, <2>2 DEF StaleBefore
<1> QED BY <1>2, <1>3 DEF Known

LEMMA OlderNext ==
    ASSUME Types, WaitInv, GaveUpInv, CodeInv, OlderInv, [Next]_vars
    PROVE  OlderInv'
<1> USE DEF Types
<1>1. CASE Connect
    <2>1. stream' = <<>>
        BY <1>1 DEF Connect
    <2> QED BY <2>1 DEF OlderInv
<1>2. CASE ~Connect
    <2>1. /\ Len(stream) \in Nat /\ Len(stream') \in Nat /\ Len(stream) <= Len(stream')
          /\ DOMAIN stream = 1..Len(stream) /\ DOMAIN stream' = 1..Len(stream')
          /\ \A i \in 1..Len(stream) : stream'[i] = stream[i]
        BY <1>2, Kept
    <2>2. session' = session
        BY <1>2, SessionSteps
    <2> SUFFICES ASSUME NEW i \in DOMAIN stream', NEW l \in Loads, l < stream'[i].load,
                        born'[l] = session'
                 PROVE  pending'[l] \/ pc'[l] \in Past \/ StaleBefore(i)'
        BY DEF OlderInv
    <2>3. CASE i \in 1..Len(stream)
        <3>1. stream'[i] = stream[i] /\ stream[i].load \in Loads /\ stream[i].load <= created
            BY <2>1, <2>3, StreamGood DEF Good
        <3>2. l <= created
            BY <3>1, BoundsAssumption DEF Loads, AppType
        <3>3. born[l] = session
            BY <2>2, <3>2, Stays
        <3>4. pending[l] \/ pc[l] \in Past \/ StaleBefore(i)
            BY <2>1, <2>3, <3>1, <3>3 DEF OlderInv
        <3> QED BY <1>2, <3>4, Stays, StaleStays
    <2>4. CASE i \notin 1..Len(stream)
        <3>1. PICK m \in Loads, bytes \in Nat, next \in {"data", "code", "path"} :
                 /\ m <= created /\ up
                 /\ Sending(m, bytes, next)
                 /\ Frame(m, pc[m], bytes) \in FrameSet
                 /\ stream' = Append(stream, Frame(m, pc[m], bytes))
            BY <1>2, <2>1, <2>4, StreamSteps
        <3>2. stream \in Seq(FrameSet) /\ Frame(m, pc[m], bytes).load = m
            BY StreamGood DEF Good, Frame
        <3>3. i = Len(stream) + 1 /\ stream'[i].load = m
            BY <2>1, <2>4, <3>1, <3>2, Appended
        <3>4. l <= created /\ l # wanted /\ l # 0
            BY <3>1, <3>3, BoundsAssumption DEF Loads, AppType
        <3>5. born[l] = session
            BY <2>2, <3>4, Stays
        <3>6. Known(l)
            BY <3>1, <3>4, <3>5 DEF WaitInv, Known
        <3>7. pending[l] \/ pc[l] \in Past \/ StaleBefore(i)
            BY <3>3, <3>6, KnownEnds
        <3> QED BY <1>2, <3>7, Stays, StaleStays
    <2> QED BY <2>3, <2>4
<1> QED BY <1>1, <1>2

LEMMA NewerNext ==
    ASSUME Types, OlderInv, NewerLoadAlone, [Next]_vars
    PROVE  NewerLoadAlone'
<1> USE DEF Types, AppType, ThreadType
<1> DEFINE May(l, i) == born[l] < session \/ (pending[l] /\ late[l] <= 1) \/ StaleBefore(i)
\* What was true of a frame stays true.
<1>1. ASSUME ~Connect, NEW l \in Loads, l <= created, NEW i \in 1..Len(stream), May(l, i)
      PROVE  May(l, i)'
    <2>1. born[l] = born'[l] /\ (pending[l] => pending'[l])
        BY <1>1, Stays
    <2>2. late'[l] \in 0..1
        BY ThreadNext
    <2>3. session' = session
        BY <1>1, SessionSteps
    <2>4. StaleBefore(i) => StaleBefore(i)'
        BY <1>1, StaleStays
    <2> QED BY <1>1, <2>1, <2>2, <2>3, <2>4
<1>2. CASE Connect
    <2>1. stream' = <<>>
        BY <1>2 DEF Connect
    <2> QED BY <2>1 DEF NewerLoadAlone
<1>3. ASSUME ~Connect, NEW i \in DOMAIN stream', NEW j \in DOMAIN stream',
             i < j, stream'[j].load < stream'[i].load, NEW l, l = stream'[j].load
      PROVE  May(l, i)'
    <2>1. /\ Len(stream) \in Nat /\ Len(stream') \in Nat /\ Len(stream) <= Len(stream')
          /\ DOMAIN stream = 1..Len(stream) /\ DOMAIN stream' = 1..Len(stream')
          /\ \A n \in 1..Len(stream) : stream'[n] = stream[n]
        BY <1>3, Kept
    <2>2. \A n \in 1..Len(stream) : stream[n].load \in Loads /\ stream[n].load <= created
        BY <2>1, StreamGood DEF Good
    <2>3. CASE j \in 1..Len(stream)
        <3>1. i \in 1..Len(stream)
            BY <1>3, <2>1, <2>3
        <3>2. l = stream[j].load /\ l \in Loads /\ l <= created
            BY <1>3, <2>1, <2>2, <2>3
        <3>3. May(l, i)
            BY <1>3, <2>1, <2>3, <3>1, <3>2 DEF NewerLoadAlone, StaleBefore
        <3> QED BY <1>1, <1>3, <3>1, <3>2, <3>3
    <2>4. CASE j \notin 1..Len(stream)
        <3>1. PICK m \in Loads, bytes \in Nat, next \in {"data", "code", "path"} :
                 /\ m <= created /\ up
                 /\ Sending(m, bytes, next)
                 /\ Frame(m, pc[m], bytes) \in FrameSet
                 /\ stream' = Append(stream, Frame(m, pc[m], bytes))
            BY <1>3, <2>1, <2>4, StreamSteps
        <3>2. stream \in Seq(FrameSet) /\ Frame(m, pc[m], bytes).load = m
            BY StreamGood DEF Good, Frame
        <3>3. j = Len(stream) + 1 /\ m = l /\ i \in 1..Len(stream)
            BY <1>3, <2>1, <2>4, <3>1, <3>2, Appended
        <3>4. pc[l] \notin Past
            BY <3>1, <3>3 DEF Sending, Writing, Past
        <3>5. born[l] \in 0..session /\ session \in Nat /\ late[l] \in 0..1
            BY <3>3, BoundsAssumption
        <3>6. l < stream[i].load
            BY <1>3, <2>1, <3>3
        <3>7. May(l, i)
            BY <2>1, <3>3, <3>4, <3>5, <3>6 DEF OlderInv
        <3> QED BY <1>1, <1>3, <3>1, <3>3, <3>7
    <2> QED BY <2>3, <2>4
<1>4. CASE ~Connect
    BY <1>3, <1>4 DEF NewerLoadAlone, StaleBefore
<1> QED BY <1>2, <1>4

-----------------------------------------------------------------------------
(* The sum of a load's bytes.  BytesOf is a recursive function; that it has *)
(* a value, and one only, is carried along the behaviour frame by frame.    *)

BytesIn(l, frame) == IF frame.load = l /\ frame.part = "data" THEN frame.bytes ELSE 0

Sums(l, frames, f) ==
    f = [k \in 0..Len(frames) |-> IF k = 0 THEN 0 ELSE f[k - 1] + BytesIn(l, frames[k])]

\* BytesOf is the running sum, and nothing else is.
Summed(l, frames) ==
    /\ Sums(l, frames, BytesOf(l, frames))
    /\ BytesOf(l, frames) \in [0..Len(frames) -> Nat]
    /\ \A f : Sums(l, frames, f) => f = BytesOf(l, frames)

LEMMA BytesExist ==
    ASSUME NEW l, NEW frames, NEW f, Sums(l, frames, f)
    PROVE  Sums(l, frames, BytesOf(l, frames))
<1>1. BytesOf(l, frames) = CHOOSE g : Sums(l, frames, g)
    BY DEF BytesOf, Sums, BytesIn
<1> QED BY <1>1

LEMMA SummedEmpty ==
    ASSUME NEW l
    PROVE  Summed(l, <<>>) /\ BytesOf(l, <<>>)[0] = 0
<1> DEFINE zero == [k \in 0..0 |-> 0]
<1>1. \A f : Sums(l, <<>>, f) <=> f = zero
    <2>1. ASSUME NEW f
          PROVE  Sums(l, <<>>, f) <=> f = zero
        <3>1. Len(<<>>) = 0 /\ 0..0 = {0}
            OBVIOUS
        <3>2. [k \in 0..Len(<<>>) |-> IF k = 0 THEN 0 ELSE f[k - 1] + BytesIn(l, <<>>[k])] = zero
            BY <3>1
        <3> QED BY <3>2 DEF Sums
    <2> QED BY <2>1
<1>2. BytesOf(l, <<>>) = zero
    BY <1>1, BytesExist
<1>3. Len(<<>>) = 0 /\ zero \in [0..0 -> Nat] /\ zero[0] = 0
    OBVIOUS
<1> QED BY <1>1, <1>2, <1>3 DEF Summed

\* One frame more adds its bytes, and changes no earlier sum.
LEMMA SummedAppend ==
    ASSUME NEW l, NEW frames \in Seq(FrameSet), NEW frame \in FrameSet, Summed(l, frames)
    PROVE  /\ Summed(l, Append(frames, frame))
           /\ \A k \in 0..Len(frames) :
                 BytesOf(l, Append(frames, frame))[k] = BytesOf(l, frames)[k]
           /\ BytesOf(l, Append(frames, frame))[Len(frames) + 1] =
                 BytesOf(l, frames)[Len(frames)] + BytesIn(l, frame)
<1> DEFINE n == Len(frames)
           old == BytesOf(l, frames)
           more == Append(frames, frame)
           new == [k \in 0..(n + 1) |-> IF k <= n THEN old[k] ELSE old[n] + BytesIn(l, frame)]
<1>1. /\ n \in Nat /\ Len(more) = n + 1
      /\ \A i \in 1..n : more[i] = frames[i]
      /\ more[n + 1] = frame
    BY Appended
<1>2. /\ Sums(l, frames, old) /\ old \in [0..n -> Nat]
      /\ \A f : Sums(l, frames, f) => f = old
    BY DEF Summed
<1>3. BytesIn(l, frame) \in Nat
    BY DEF BytesIn, FrameSet
<1> HIDE DEF n, more
<1>4. old = [k \in 0..n |-> IF k = 0 THEN 0 ELSE old[k - 1] + BytesIn(l, frames[k])]
    BY <1>2 DEF Sums, n
<1> HIDE DEF old
<1>5. /\ new \in [0..(n + 1) -> Nat]
      /\ \A k \in 0..n : new[k] = old[k]
      /\ new[n + 1] = old[n] + BytesIn(l, frame)
    BY <1>1, <1>2, <1>3
<1>6. \A k \in 0..(n + 1) :
         new[k] = IF k = 0 THEN 0 ELSE new[k - 1] + BytesIn(l, more[k])
    <2>1. \A k \in 0..n : old[k] = IF k = 0 THEN 0 ELSE old[k - 1] + BytesIn(l, frames[k])
        BY <1>4
    <2> HIDE DEF new
    <2>2. ASSUME NEW k \in 0..n
          PROVE  new[k] = IF k = 0 THEN 0 ELSE new[k - 1] + BytesIn(l, more[k])
        <3>1. new[k] = IF k = 0 THEN 0 ELSE old[k - 1] + BytesIn(l, frames[k])
            BY <1>5, <2>1
        <3>2. CASE k # 0
            <4>1. k \in 1..n /\ k - 1 \in 0..n
                BY <1>1, <3>2
            <4>2. new[k - 1] = old[k - 1] /\ more[k] = frames[k]
                BY <1>1, <1>5, <4>1
            <4> QED BY <3>1, <3>2, <4>2
        <3> QED BY <3>1, <3>2
    <2>3. new[n + 1] = new[n] + BytesIn(l, more[n + 1])
        BY <1>1, <1>5
    <2> QED BY <1>1, <2>2, <2>3
<1>7. Sums(l, more, new)
    BY <1>1, <1>6 DEF Sums
<1>8. ASSUME NEW f, Sums(l, more, f)
      PROVE  f = new
    <2>1. /\ f = [k \in 0..(n + 1) |-> f[k]]
          /\ \A k \in 0..(n + 1) : f[k] = IF k = 0 THEN 0 ELSE f[k - 1] + BytesIn(l, more[k])
        BY <1>1, <1>8 DEF Sums
    <2> DEFINE part == [k \in 0..n |-> f[k]]
    <2>2. \A k \in 0..n : part[k] = f[k]
        OBVIOUS
    <2>3. ASSUME NEW k \in 0..n
          PROVE  f[k] = IF k = 0 THEN 0 ELSE part[k - 1] + BytesIn(l, frames[k])
        <3>1. CASE k = 0
            BY <1>1, <2>1, <3>1
        <3>2. CASE k # 0
            <4>1. k - 1 \in 0..n /\ k \in 1..n /\ k \in 0..(n + 1)
                BY <1>1, <3>2
            <4> HIDE DEF part
            <4> QED BY <1>1, <2>1, <2>2, <3>2, <4>1
        <3> QED BY <3>1, <3>2
    <2>4. part = [k \in 0..n |-> IF k = 0 THEN 0 ELSE part[k - 1] + BytesIn(l, frames[k])]
        BY <2>3
    <2>5. part = old
        BY <1>2, <2>4 DEF Sums, n
    <2>6. \A k \in 0..n : f[k] = old[k]
        BY <2>2, <2>5
    <2>7. f[n + 1] = old[n] + BytesIn(l, frame)
        <3>1. n + 1 \in 0..(n + 1) /\ n + 1 # 0 /\ (n + 1) - 1 = n /\ n \in 0..n
            BY <1>1
        <3>2. f[n + 1] = f[n] + BytesIn(l, more[n + 1])
            BY <2>1, <3>1
        <3> QED BY <1>1, <2>6, <3>1, <3>2
    <2>8. \A k \in 0..(n + 1) : f[k] = new[k]
        BY <1>1, <1>5, <2>6, <2>7
    <2> QED BY <2>1, <2>8
<1> HIDE DEF new
<1>9. BytesOf(l, more) = new
    BY <1>7, <1>8, BytesExist
<1>10. Summed(l, more)
    BY <1>1, <1>5, <1>7, <1>8, <1>9 DEF Summed
<1> QED BY <1>5, <1>9, <1>10 DEF n, more, old

-----------------------------------------------------------------------------
(* The code that ends a load.                                               *)

\* The sums of all loads are what they should be, and a load that was not created yet
\* has sent nothing.
SumInv ==
    \A l \in Loads :
        /\ Summed(l, stream)
        /\ l > created => BytesOf(l, stream)[Len(stream)] = 0

\* What the client of this session has got of a load that it asked for.
GotSoFar(l) ==
    /\ pc[l] \in {"new", "open", "size"} =>
          /\ \A i \in 1..Len(stream) : stream[i].load # l
          /\ BytesOf(l, stream)[Len(stream)] = 0
    /\ pc[l] \in {"data", "code"} =>
          /\ Announced(l, stream, Len(stream))
          /\ BytesOf(l, stream)[Len(stream)] =
                IF pc[l] = "data" THEN sent[l] * Buffer ELSE length[l]

WholeInv ==
    up => \A l \in Loads :
             l <= created /\ born[l] = session /\ length[l] # Missing => GotSoFar(l)

LEMMA AnnouncedAppend ==
    ASSUME NEW l, NEW frames \in Seq(FrameSet), NEW frame \in FrameSet
    PROVE  /\ \A n \in 0..Len(frames) :
                 Announced(l, Append(frames, frame), n) <=> Announced(l, frames, n)
           /\ Announced(l, frames, Len(frames))
                 /\ (frame.load = l => frame.part = "data")
              => Announced(l, Append(frames, frame), Len(frames) + 1)
           /\ (\A i \in 1..Len(frames) : frames[i].load # l) /\ frame = Frame(l, "size", length[l])
              => Announced(l, Append(frames, frame), Len(frames) + 1)
<1> DEFINE n == Len(frames)
           more == Append(frames, frame)
<1>1. /\ n \in Nat /\ \A i \in 1..n : more[i] = frames[i]
      /\ more[n + 1] = frame
    BY Appended
<1> HIDE DEF n, more
<1>2. ASSUME NEW m \in 0..n
      PROVE  Announced(l, more, m) <=> Announced(l, frames, m)
    <2>1. \A i \in 1..m : more[i] = frames[i]
        BY <1>1
    <2> QED BY <2>1 DEF Announced
<1>3. ASSUME Announced(l, frames, n), frame.load = l => frame.part = "data"
      PROVE  Announced(l, more, n + 1)
    <2>1. PICK h \in 1..n :
             /\ frames[h] = Frame(l, "size", length[l])
             /\ \A g \in 1..n : frames[g].load = l /\ g # h => g > h /\ frames[g].part = "data"
        BY <1>3 DEF Announced
    <2>2. h \in 1..(n + 1) /\ more[h] = Frame(l, "size", length[l])
        BY <1>1, <2>1
    <2>3. ASSUME NEW g \in 1..(n + 1), more[g].load = l, g # h
          PROVE  g > h /\ more[g].part = "data"
        <3>1. CASE g \in 1..n
            BY <1>1, <2>1, <2>3, <3>1
        <3>2. CASE g = n + 1
            BY <1>1, <1>3, <2>1, <2>3, <3>2
        <3> QED BY <1>1, <3>1, <3>2
    <2> QED BY <2>2, <2>3 DEF Announced
<1>4. ASSUME \A i \in 1..n : frames[i].load # l, frame = Frame(l, "size", length[l])
      PROVE  Announced(l, more, n + 1)
    <2>1. n + 1 \in 1..(n + 1) /\ more[n + 1] = Frame(l, "size", length[l])
        BY <1>1, <1>4
    <2>2. ASSUME NEW g \in 1..(n + 1), more[g].load = l, g # n + 1
          PROVE  FALSE
        <3>1. g \in 1..n
            BY <1>1, <2>2
        <3> QED BY <1>1, <1>4, <2>2, <3>1
    <2> QED BY <2>1, <2>2 DEF Announced
<1> QED BY <1>2, <1>3, <1>4 DEF n, more

\* A frame of another load, or one without data, adds nothing to a load's sum.
LEMMA SumSteps ==
    ASSUME Types, SumInv, NEW l \in Loads, NEW frame \in FrameSet
    PROVE  /\ Summed(l, Append(stream, frame))
           /\ \A n \in 0..Len(stream) :
                 BytesOf(l, Append(stream, frame))[n] = BytesOf(l, stream)[n]
           /\ BytesOf(l, Append(stream, frame))[Len(stream) + 1] =
                 BytesOf(l, stream)[Len(stream)] + BytesIn(l, frame)
           /\ BytesOf(l, stream)[Len(stream)] \in Nat
<1>1. stream \in Seq(FrameSet) /\ Summed(l, stream) /\ Len(stream) \in Nat
    BY StreamGood DEF SumInv, Good
<1>2. BytesOf(l, stream)[Len(stream)] \in Nat
    BY <1>1 DEF Summed
<1> QED BY <1>1, <1>2, SummedAppend

LEMMA SumNext ==
    ASSUME Types, SumInv, [Next]_vars
    PROVE  SumInv'
<1> SUFFICES ASSUME NEW l \in Loads
             PROVE  /\ Summed(l, stream')
                    /\ l > created' => BytesOf(l, stream')[Len(stream')] = 0
    BY DEF SumInv, Summed, Sums, BytesIn, BytesOf
<1>0. l > created' => l > created
    BY StreamSteps, AppNext, BoundsAssumption DEF Types, AppType, Loads
<1>1. CASE stream' = stream
    BY <1>0, <1>1 DEF SumInv
<1>2. CASE stream' = <<>>
    BY <1>2, SummedEmpty
<1>3. ASSUME NEW k \in Loads, NEW bytes \in Nat, NEW next \in {"data", "code", "path"},
             k <= created, Sending(k, bytes, next), Frame(k, pc[k], bytes) \in FrameSet,
             stream' = Append(stream, Frame(k, pc[k], bytes))
      PROVE  /\ Summed(l, stream')
             /\ l > created' => BytesOf(l, stream')[Len(stream')] = 0
    <2>1. Len(stream') = Len(stream) + 1
        BY <1>3, StreamGood, Appended DEF Good
    <2>2. l > created => BytesIn(l, Frame(k, pc[k], bytes)) = 0
        BY <1>3 DEF BytesIn, Frame, Types, AppType, Loads
    <2> QED BY <1>0, <1>3, <2>1, <2>2, SumSteps DEF SumInv
<1> QED BY <1>1, <1>2, <1>3, StreamSteps

\* GotSoFar after a step.
LEMMA GotThen ==
    ASSUME NEW l, pc'[l] \in {"data", "code"} => length'[l] = length[l],
           pc'[l] \in {"new", "open", "size"} =>
              /\ \A i \in 1..Len(stream') : stream'[i].load # l
              /\ BytesOf(l, stream')[Len(stream')] = 0,
           pc'[l] \in {"data", "code"} =>
              /\ Announced(l, stream', Len(stream'))
              /\ BytesOf(l, stream')[Len(stream')] =
                    IF pc'[l] = "data" THEN sent'[l] * Buffer ELSE length[l]
    PROVE  GotSoFar(l)'
<1>1. BytesOf(l, stream)' = BytesOf(l, stream')
    BY DEF BytesOf
<1>2. pc'[l] \in {"data", "code"} => Announced(l, stream, Len(stream))'
    BY DEF Announced, Frame
<1> QED BY <1>1, <1>2 DEF GotSoFar

\* A step that sends nothing, and leaves the load where it is, ends it, or brings it on
\* to another label before its first frame.
LEMMA GotSame ==
    ASSUME NEW l \in Loads, GotSoFar(l), stream' = stream, length' = length, sent' = sent,
           \/ pc'[l] = pc[l]
           \/ pc'[l] \in Past \union {"hung"}
           \/ pc[l] \in {"new", "open", "size"} /\ pc'[l] \in {"new", "open", "size"}
    PROVE  GotSoFar(l)'
BY GotThen DEF GotSoFar, Past

\* The arithmetic of one buffer more.
LEMMA OneMore ==
    ASSUME NEW n \in Nat, NEW b \in Nat, b < Buffers(n)
    PROVE  LET next == IF b < n \div Buffer THEN Buffer ELSE n % Buffer
           IN  /\ b + 1 < Buffers(n) => b * Buffer + next = (b + 1) * Buffer
               /\ ~(b + 1 < Buffers(n)) => b * Buffer + next = n
<1> DEFINE d == n \div Buffer
           m == n % Buffer
<1>1. /\ d \in Nat /\ m \in Nat /\ n = d * Buffer + m
      /\ Buffers(n) \in Nat /\ d <= Buffers(n) /\ Buffers(n) <= d + 1
      /\ m = 0 <=> Buffers(n) = d
    <2>1. /\ n \div Buffer \in Nat /\ n % Buffer \in 0..(Buffer - 1)
          /\ n = (n \div Buffer) * Buffer + (n % Buffer)
        BY Division
    <2>2. n % Buffer \in Nat
        BY <2>1, BufferAssumption
    <2> QED BY <2>1, <2>2, BufferCount
<1>2. Buffer \in Nat
    BY BufferAssumption
<1> HIDE DEF d, m
<1>3. CASE b < d
    <2>1. (b + 1) * Buffer = b * Buffer + Buffer
        BY <1>2
    <2>2. ASSUME ~(b + 1 < Buffers(n))
          PROVE  b + 1 = d /\ m = 0
        BY <1>1, <1>3, <2>2
    <2> QED BY <1>1, <1>2, <1>3, <2>1, <2>2 DEF d
<1>4. CASE ~(b < d)
    <2>1. b = d /\ Buffers(n) = d + 1
        BY <1>1, <1>4
    <2> QED BY <1>1, <1>4, <2>1 DEF d, m
<1> QED BY <1>3, <1>4

\* A thread that sends tells a client of its session all in order.
LEMMA GotSent ==
    ASSUME Types, SumInv, NEW l \in Loads, NEW bytes \in Nat,
           NEW next \in {"data", "code", "path"}, Sending(l, bytes, next),
           Frame(l, pc[l], bytes) \in FrameSet, length[l] # Missing,
           stream' = Append(stream, Frame(l, pc[l], bytes)), GotSoFar(l)
    PROVE  GotSoFar(l)'
<1> DEFINE frame == Frame(l, pc[l], bytes)
<1>1. /\ frame.load = l /\ frame.part = pc[l] /\ frame.bytes = bytes
      /\ frame \in FrameSet /\ stream' = Append(stream, frame)
    BY DEF Frame
<1>2. stream \in Seq(FrameSet) /\ Len(stream) \in Nat /\ Len(stream') = Len(stream) + 1
    BY StreamGood, Appended DEF Good
<1>3. pc'[l] = next /\ length' = length /\ length[l] \in Nat
    BY LengthNat DEF Sending, Types, ThreadType
<1> HIDE DEF frame
<1>4. BytesOf(l, stream')[Len(stream')] = BytesOf(l, stream)[Len(stream)] + BytesIn(l, frame)
    BY <1>1, <1>2, SumSteps
<1>5. CASE pc[l] = "size"
    <2>1. bytes = length[l] /\ next = AfterBuffers(l, 0) /\ sent' = sent /\ sent[l] = 0
        BY <1>5 DEF Sending, Types, ProgressInv
    <2>2. frame = Frame(l, "size", length[l])
        BY <1>5, <2>1 DEF frame
    <2>3. Announced(l, stream', Len(stream'))
        <3>1. \A i \in 1..Len(stream) : stream[i].load # l
            BY <1>5 DEF GotSoFar
        <3>2. frame \in FrameSet /\ stream \in Seq(FrameSet)
            BY <1>1, <1>2
        <3>3. Announced(l, Append(stream, frame), Len(stream) + 1)
            BY <2>2, <3>1, <3>2, AnnouncedAppend
        <3> QED BY <1>1, <1>2, <3>3
    <2>4. BytesOf(l, stream')[Len(stream')] = 0
        BY <1>1, <1>4, <1>5 DEF GotSoFar, BytesIn
    <2>5. next = "data" \/ (next = "code" /\ length[l] = 0)
        <3>1. CASE 0 < Buffers(length[l])
            BY <2>1, <3>1, AfterCases
        <3>2. CASE ~(0 < Buffers(length[l]))
            <4>1. /\ Buffers(length[l]) \in Nat /\ length[l] \div Buffer \in Nat
                  /\ length[l] \div Buffer <= Buffers(length[l])
                  /\ (length[l] % Buffer = 0 <=> Buffers(length[l]) = length[l] \div Buffer)
                  /\ length[l] = (length[l] \div Buffer) * Buffer + (length[l] % Buffer)
                BY <1>3, BufferCount, Division
            <4>2. length[l] \div Buffer = 0 /\ length[l] % Buffer = 0
                BY <3>2, <4>1
            <4>3. length[l] = 0
                <5>1. 0 * Buffer + 0 = 0
                    BY BufferAssumption
                <5> QED BY <4>1, <4>2, <5>1
            <4> QED BY <2>1, <3>2, <4>3, AfterCases
        <3> QED BY <3>1, <3>2
    <2>6. next = "data" => sent'[l] * Buffer = 0
        BY <2>1, BufferAssumption
    <2> QED BY <1>3, <2>3, <2>4, <2>5, <2>6, GotThen
<1>6. CASE pc[l] = "data"
    <2>1. /\ bytes = NextBuffer(l) /\ next = AfterBuffers(l, sent[l] + 1)
          /\ sent' = [sent EXCEPT ![l] = sent[l] + 1]
        BY <1>6 DEF Sending
    <2>2. sent[l] \in Nat /\ sent'[l] = sent[l] + 1 /\ sent[l] < Buffers(length[l])
        BY <1>6, <2>1 DEF Types, ThreadType, ProgressInv
    <2>3. /\ Announced(l, stream, Len(stream))
          /\ BytesOf(l, stream)[Len(stream)] = sent[l] * Buffer
        BY <1>6 DEF GotSoFar
    <2>4. Announced(l, stream', Len(stream'))
        BY <1>1, <1>2, <1>6, <2>3, AnnouncedAppend
    <2>5. BytesOf(l, stream')[Len(stream')] = sent[l] * Buffer + NextBuffer(l)
        BY <1>1, <1>4, <1>6, <2>1, <2>3 DEF BytesIn
    <2>6. /\ sent[l] + 1 < Buffers(length[l]) =>
                sent[l] * Buffer + NextBuffer(l) = sent'[l] * Buffer
          /\ ~(sent[l] + 1 < Buffers(length[l])) =>
                sent[l] * Buffer + NextBuffer(l) = length[l]
        BY <1>3, <2>2, OneMore DEF NextBuffer
    <2>7. /\ sent[l] + 1 < Buffers(length[l]) => next = "data"
          /\ ~(sent[l] + 1 < Buffers(length[l])) => next = "code"
        BY <2>1, <2>2, AfterCases
    <2> QED BY <1>3, <2>4, <2>5, <2>6, <2>7, GotThen
<1>7. CASE pc[l] = "code"
    <2>1. next = "path"
        BY <1>7 DEF Sending
    <2> QED BY <1>3, <2>1, GotThen
<1> QED BY <1>5, <1>6, <1>7 DEF Sending, Writing

\* A frame of another load changes nothing of what a client has got of this one.
LEMMA GotOther ==
    ASSUME Types, SumInv, NEW l \in Loads, NEW k \in Loads, k # l, NEW bytes \in Nat,
           NEW next \in {"data", "code", "path"}, Sending(k, bytes, next),
           Frame(k, pc[k], bytes) \in FrameSet,
           stream' = Append(stream, Frame(k, pc[k], bytes)), GotSoFar(l)
    PROVE  GotSoFar(l)'
<1> DEFINE frame == Frame(k, pc[k], bytes)
<1>1. frame.load = k /\ frame \in FrameSet /\ stream' = Append(stream, frame)
    BY DEF Frame
<1>2. pc'[l] = pc[l] /\ sent'[l] = sent[l] /\ length' = length
    <2>1. sent' = sent \/ sent' = [sent EXCEPT ![k] = sent[k] + 1]
        BY DEF Sending, Writing
    <2>2. pc' = [pc EXCEPT ![k] = next] /\ length' = length
        BY DEF Sending
    <2> QED BY <2>1, <2>2 DEF Types, ThreadType
<1>3. /\ stream \in Seq(FrameSet) /\ Len(stream) \in Nat /\ Len(stream') = Len(stream) + 1
      /\ \A i \in 1..Len(stream) : stream'[i] = stream[i]
      /\ stream'[Len(stream) + 1] = frame
    BY <1>1, StreamGood, Appended DEF Good
<1> HIDE DEF frame
<1>4. BytesOf(l, stream')[Len(stream')] = BytesOf(l, stream)[Len(stream)]
    <2>1. BytesIn(l, frame) = 0
        BY <1>1 DEF BytesIn
    <2> QED BY <1>1, <1>3, <2>1, SumSteps
<1>5. CASE pc[l] \in {"new", "open", "size"}
    <2>1. \A i \in 1..Len(stream') : stream'[i].load # l
        BY <1>1, <1>3, <1>5 DEF GotSoFar
    <2> QED BY <1>2, <1>4, <1>5, <2>1, GotThen DEF GotSoFar
<1>6. CASE pc[l] \in {"data", "code"}
    <2>1. Announced(l, Append(stream, frame), Len(stream) + 1)
        BY <1>1, <1>3, <1>6, AnnouncedAppend DEF GotSoFar
    <2> QED BY <1>1, <1>2, <1>3, <1>4, <1>6, <2>1, GotThen DEF GotSoFar
<1>7. CASE pc[l] \notin {"new", "open", "size", "data", "code"}
    BY <1>2, <1>7, GotThen
<1> QED BY <1>5, <1>6, <1>7

LEMMA WholeNext ==
    ASSUME Types, SumInv, WholeInv, [Next]_vars
    PROVE  WholeInv'
<1> USE DEF Types, ThreadType
<1> SUFFICES ASSUME up', NEW l \in Loads, l <= created', born'[l] = session',
                    length'[l] # Missing
             PROVE  GotSoFar(l)'
    BY DEF WholeInv
<1>1. ASSUME up, l <= created, born[l] = session, length[l] # Missing
      PROVE  GotSoFar(l)
    BY <1>1 DEF WholeInv
<1>2. ASSUME NEW k \in Loads, Moves(k)
      PROVE  GotSoFar(l)'
    <2>1. UNCHANGED <<session, up, created, stream, born, length, sent>>
        BY <1>2 DEF Moves, Enter, Open, CleanUp, Cancelled, app
    <2>2. GotSoFar(l)
        BY <1>1, <2>1
    <2>3. CASE k # l
        <3>1. \E label : pc' = [pc EXCEPT ![k] = label]
            BY <1>2 DEF Moves, Enter, Open, CleanUp, Cancelled, Goto
        <3>2. pc'[l] = pc[l]
            BY <2>3, <3>1
        <3> QED BY <2>1, <2>2, <3>2, GotSame
    <2>4. CASE k = l
        <3>1. CASE Enter(l)
            <4>1. pc[l] = "new" /\ pc'[l] = "open"
                BY <3>1 DEF Enter, Goto
            <4> QED BY <2>1, <2>2, <4>1, GotSame
        <3>2. CASE Open(l)
            <4>1. pc[l] = "open" /\ pc'[l] = "size"
                BY <2>1, <3>2 DEF Open, Goto
            <4> QED BY <2>1, <2>2, <4>1, GotSame
        <3>3. CASE CleanUp(l)
            <4>1. PICK r \in Resources : pc' = [pc EXCEPT ![l] = Following(r)]
                BY <3>3 DEF CleanUp, Goto
            <4>2. pc'[l] \in Past
                BY <4>1 DEF Following, Resources, Past
            <4> QED BY <2>1, <2>2, <4>2, GotSame
        <3>4. CASE Cancelled(l)
            <4>1. \E label \in {"ended", "path", "hung"} : pc' = [pc EXCEPT ![l] = label]
                BY <3>4 DEF Cancelled, Goto
            <4>2. pc'[l] \in Past \union {"hung"}
                BY <4>1 DEF Past
            <4> QED BY <2>1, <2>2, <4>2, GotSame
        <3> QED BY <1>2, <2>4, <3>1, <3>2, <3>3, <3>4 DEF Moves
    <2> QED BY <2>3, <2>4
<1>3. ASSUME NEW k \in Loads, Sends(k)
      PROVE  GotSoFar(l)'
    <2>1. PICK bytes \in Nat, next \in {"data", "code", "path"} : Sending(k, bytes, next)
        BY <1>3, SendCases
    <2>2. UNCHANGED <<session, up, created, born, length>> /\ up
        BY <2>1 DEF Sending, app
    <2>3. GotSoFar(l) /\ length[l] # Missing
        BY <1>1, <2>2
    <2>4. stream' = Append(stream, Frame(k, pc[k], bytes))
        BY <2>1, <2>2 DEF Sending
    <2>5. Frame(k, pc[k], bytes) \in FrameSet
        BY <2>1 DEF Sending, Frame, FrameSet
    <2> QED BY <2>1, <2>3, <2>4, <2>5, GotSent, GotOther
<1>4. ASSUME App
      PROVE  GotSoFar(l)'
    <2>1. ASSUME NEW n \in Lengths \union {Missing}, Request(n)
          PROVE  GotSoFar(l)'
        <3>1. /\ up /\ created + 1 \in Loads /\ created' = created + 1
              /\ pc' = [pc EXCEPT ![created + 1] = "new"]
              /\ length' = [length EXCEPT ![created + 1] = n]
              /\ born' = [born EXCEPT ![created + 1] = session]
              /\ UNCHANGED <<session, stream, sent>>
            BY <2>1, BoundsAssumption DEF Request, AppType, Loads
        <3>2. CASE l = created + 1
            <4>1. pc'[l] = "new"
                BY <3>1, <3>2
            <4>2. \A i \in 1..Len(stream') : stream'[i].load # l
                <5>1. \A i \in 1..Len(stream) : stream[i].load <= created
                    BY StreamGood DEF Good
                <5>2. created \in Nat /\ ~(l <= created)
                    BY <3>2, BoundsAssumption DEF AppType
                <5> QED BY <3>1, <5>1, <5>2
            <4>3. BytesOf(l, stream')[Len(stream')] = 0
                BY <3>1, <3>2 DEF SumInv, AppType
            <4> QED BY <4>1, <4>2, <4>3, GotThen
        <3>3. CASE l # created + 1
            <4>1. /\ pc'[l] = pc[l] /\ length'[l] = length[l] /\ born'[l] = born[l]
                  /\ l <= created
                BY <3>1, <3>3 DEF AppType, Loads
            <4>2. GotSoFar(l)
                BY <1>1, <3>1, <4>1
            <4> QED BY <3>1, <4>1, <4>2, GotThen DEF GotSoFar
        <3> QED BY <3>2, <3>3
    <2>2. CASE Cancel \/ GotCode
        <3>1. UNCHANGED <<session, up, created, stream, born, length, sent, pc>>
            BY <2>2 DEF Cancel, GotCode, threads
        <3> QED BY <1>1, <3>1, GotSame
    <2>3. CASE Connect
        <3>1. session' = session + 1 /\ born' = born
            BY <2>3 DEF Connect, threads
        <3>2. born[l] \in 0..session /\ session \in Nat
            BY BoundsAssumption DEF AppType
        <3> QED BY <3>1, <3>2
    <2>4. CASE Disconnect
        BY <2>4 DEF Disconnect
    <2> QED BY <1>4, <2>1, <2>2, <2>3, <2>4 DEF App
<1>5. CASE UNCHANGED vars
    <2>1. UNCHANGED <<session, up, created, stream, born, length, sent, pc>>
        BY <1>5 DEF vars, app, threads
    <2> QED BY <1>1, <2>1, GotSame
<1> QED BY <1>2, <1>3, <1>4, <1>5, NextCases

\* What one frame of the stream says: if it is a code, it comes after the whole file.
CodeSays(frames, i) ==
    frames[i].part = "code" /\ born[frames[i].load] = session
            /\ length[frames[i].load] # Missing =>
        /\ Announced(frames[i].load, frames, i - 1)
        /\ BytesOf(frames[i].load, frames)[i - 1] = length[frames[i].load]

LEMMA CodeMeansAllNext ==
    ASSUME Types, SumInv, WholeInv, CodeMeansAll, [Next]_vars
    PROVE  CodeMeansAll'
<1> USE DEF Types
<1>1. \A i \in DOMAIN stream : CodeSays(stream, i)
    BY DEF CodeMeansAll, CodeSays
<1>2. /\ stream \in Seq(FrameSet) /\ Len(stream) \in Nat /\ DOMAIN stream = 1..Len(stream)
      /\ \A i \in 1..Len(stream) : stream[i].load \in Loads /\ stream[i].load <= created
    BY StreamGood DEF Good
<1>3. CASE stream' = <<>>
    BY <1>3 DEF CodeMeansAll
<1>4. CASE stream' # <<>> /\ stream' = stream
    <2>1. session' = session
        <3>1. ~Connect
            BY <1>4 DEF Connect
        <3> QED BY <3>1, SessionSteps
    <2>2. ASSUME NEW i \in DOMAIN stream
          PROVE  CodeSays(stream, i)'
        <3>1. /\ length'[stream[i].load] = length[stream[i].load]
              /\ born'[stream[i].load] = born[stream[i].load]
            BY <1>2, Stays
        <3> QED BY <1>1, <1>4, <2>1, <3>1 DEF CodeSays, Announced, Frame
    <2> QED BY <1>4, <2>2 DEF CodeMeansAll, CodeSays
<1>5. ASSUME NEW l \in Loads, NEW bytes \in Nat, NEW next \in {"data", "code", "path"},
             l <= created, up, Sending(l, bytes, next), Frame(l, pc[l], bytes) \in FrameSet,
             stream' = Append(stream, Frame(l, pc[l], bytes))
      PROVE  CodeMeansAll'
    <2> DEFINE frame == Frame(l, pc[l], bytes)
    <2>1. UNCHANGED <<session, born, length>>
        BY <1>5 DEF Sending, app
    <2>2. frame.load = l /\ frame.part = pc[l] /\ frame \in FrameSet
        BY <1>5 DEF Frame
    <2>3. /\ DOMAIN stream' = 1..(Len(stream) + 1)
          /\ \A i \in 1..Len(stream) : stream'[i] = stream[i]
          /\ stream'[Len(stream) + 1] = frame /\ stream' = Append(stream, frame)
        BY <1>2, <1>5, Appended
    <2> HIDE DEF frame
    <2>4. ASSUME NEW k \in Loads, NEW n \in 0..Len(stream)
          PROVE  /\ Announced(k, stream', n) <=> Announced(k, stream, n)
                 /\ BytesOf(k, stream')[n] = BytesOf(k, stream)[n]
        BY <1>2, <2>2, <2>3, AnnouncedAppend, SumSteps
    <2>5. ASSUME NEW i \in 1..(Len(stream) + 1)
          PROVE  CodeSays(stream', i)
        <3>1. CASE i \in 1..Len(stream)
            <4>1. i - 1 \in 0..Len(stream) /\ i \in DOMAIN stream /\ stream[i].load \in Loads
                BY <1>2, <3>1
            <4> QED BY <1>1, <2>3, <2>4, <3>1, <4>1 DEF CodeSays
        <3>2. CASE i = Len(stream) + 1
            <4>1. i - 1 = Len(stream) /\ Len(stream) \in 0..Len(stream) /\ stream'[i] = frame
                BY <1>2, <2>3, <3>2
            <4>2. ASSUME pc[l] = "code", born[l] = session, length[l] # Missing
                  PROVE  /\ Announced(l, stream, Len(stream))
                         /\ BytesOf(l, stream)[Len(stream)] = length[l]
                BY <1>5, <4>2 DEF WholeInv, GotSoFar
            <4> QED BY <2>2, <2>4, <4>1, <4>2 DEF CodeSays
        <3> QED BY <1>2, <3>1, <3>2
    <2>6. \A i \in DOMAIN stream' : CodeSays(stream', i)
        BY <2>3, <2>5
    <2> QED BY <2>1, <2>6 DEF CodeMeansAll, CodeSays, Announced, Frame
<1> QED BY <1>3, <1>4, <1>5, StreamSteps

-----------------------------------------------------------------------------
(* The theorems.                                                            *)

\* The inductive invariant.
IInv ==
    /\ Types
    /\ ReleasedInv
    /\ WaitInv /\ GaveUpInv /\ CodeInv /\ CodeOnce /\ OlderInv /\ NewerLoadAlone
    /\ SumInv /\ WholeInv /\ CodeMeansAll

LEMMA InvInit == Init => IInv
<1> SUFFICES ASSUME Init PROVE IInv
    OBVIOUS
<1>1. Types /\ ReleasedInv
    BY TypesInit, ReleasedInit
<1>2. stream = <<>> /\ up = FALSE
    BY DEF Init
<1>3. WaitInv /\ WholeInv
    BY <1>2 DEF WaitInv, WholeInv
<1>4. CodeInv /\ CodeOnce /\ OlderInv /\ NewerLoadAlone /\ CodeMeansAll
    BY <1>2 DEF CodeInv, CodeOnce, OlderInv, NewerLoadAlone, CodeMeansAll
<1>5. SumInv
    BY <1>2, SummedEmpty DEF SumInv
<1>6. GaveUpInv
    BY DEF Init, GaveUpInv
<1> QED BY <1>1, <1>3, <1>4, <1>5, <1>6 DEF IInv

LEMMA InvNext == IInv /\ [Next]_vars => IInv'
<1> SUFFICES ASSUME IInv, [Next]_vars PROVE IInv'
    OBVIOUS
<1>1. Types'
    BY AppNext, ThreadNext, ProgressNext, StreamNext, SeenNext DEF IInv, Types
<1>2. /\ ReleasedInv' /\ WaitInv' /\ GaveUpInv' /\ CodeInv' /\ CodeOnce' /\ OlderInv'
      /\ NewerLoadAlone'
    BY ReleasedNext, WaitNext, GaveUpNext, CodeNext, CodeOnceNext, OlderNext, NewerNext
       DEF IInv
<1>3. SumInv' /\ WholeInv' /\ CodeMeansAll'
    BY SumNext, WholeNext, CodeMeansAllNext DEF IInv
<1> QED BY <1>1, <1>2, <1>3 DEF IInv

\* The inductive invariant holds: of any number of loads and sessions, any file lengths
\* and any buffer size.
THEOREM LoadSafe == Spec => []IInv
<1> QED BY InvInit, InvNext, PTL DEF Spec

\* Every variable of the loads keeps its type, and no load sends more buffers than its
\* file fills.
THEOREM LoadTypes == Spec => []TypeOK
<1>1. IInv => TypeOK
    <2> SUFFICES ASSUME IInv PROVE TypeOK
        OBVIOUS
    <2>1. wanted \in 0..created
        BY BoundsAssumption DEF IInv, Types, AppType
    <2>5. seen \in 0..Len(stream) /\ gaveUp \subseteq 1..created
        BY DEF IInv, Types, AppType, SeenType
    <2>2. released \in [Loads -> [Resources -> Nat]]
        BY DEF IInv, ReleasedInv
    <2>3. pc \in [Loads -> {"none", "new", "open", "ended", "hung"} \union Writing
                               \union Resources]
        BY DEF IInv, Types, ThreadType, Labels, Writing, Resources
    <2>4. \A l \in Loads : sent[l] > 0 => sent[l] <= Buffers(length[l])
        BY DEF IInv, Types, ProgressInv
    <2> QED BY <2>1, <2>2, <2>3, <2>4, <2>5
            DEF TypeOK, IInv, Types, AppType, ThreadType, StreamType
<1> QED BY <1>1, LoadSafe, PTL

\* The code that ends a load reaches the client that asked for it only after the file's
\* size and every byte of it (sendFileData), over whatever was cancelled before.
THEOREM LoadCodeMeansAll == Spec => []CodeMeansAll
<1>1. IInv => CodeMeansAll
    BY DEF IInv
<1> QED BY <1>1, LoadSafe, PTL

\* In one session, only a load that was cancelled, or that belongs to an earlier session,
\* sends after a newer load has begun to (threadSendFileCancel does not wait for it),
\* until the client gets the code of such a load, which names no load and which it takes
\* for the end of one that is still being sent.
THEOREM LoadNewerAlone == Spec => []NewerLoadAlone
<1>1. IInv => NewerLoadAlone
    BY DEF IInv
<1> QED BY <1>1, LoadSafe, PTL

\* fileSendCleanUp frees and closes nothing twice, wherever the cancellation acts, and
\* all of it when it runs to its end.
THEOREM LoadReleasedOnce == Spec => []ReleasedOnce
<1>1. IInv => ReleasedOnce
    <2> SUFFICES ASSUME IInv, NEW l \in Loads, NEW r \in Resources
                 PROVE  /\ released[l][r] <= 1
                        /\ pc[l] = "ended" /\ ~cut[l] => released[l][r] = 1
        BY DEF ReleasedOnce
    <2> QED BY GivenBackCases DEF IInv, ReleasedInv, Resources
<1> QED BY <1>1, LoadSafe, PTL

===============================================================================
