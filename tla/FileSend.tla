------------------------------- MODULE FileSend -------------------------------
(***************************************************************************)
(* A file sent to the app (ANA_LOAD_FILE and its cancellation): the main   *)
(* thread creates a detached thread for each load and keeps the handle of  *)
(* the last one; the thread announces the size, sends the file in buffers, *)
(* ends with the code the app asked for, and frees what it was given in a  *)
(* cleanup handler.                                                        *)
(*                                                                         *)
(* Cancellation is asynchronous: it acts after any instruction, of the     *)
(* cleanup handler's last run too.  A write under way is finished first.   *)
(* The thread knows nothing of sessions and writes to client_socket, which *)
(* is the next client's after the next accept.                             *)
(*                                                                         *)
(* A write is one step here: the client reads what is sent, so the socket's*)
(* buffer has room for a frame.                                            *)
(***************************************************************************)
EXTENDS Integers, Sequences

CONSTANTS Buffer,       \* sendBufferSize, 2048
          Lengths,      \* lengths of files in bytes
          MaxLoads,     \* bound: loads
          MaxSessions   \* bound: sessions

ASSUME BufferAssumption == Buffer \in Nat \ {0}
ASSUME LengthsAssumption == Lengths \subseteq Nat
ASSUME BoundsAssumption == MaxLoads \in Nat /\ MaxSessions \in Nat

Loads == 1..MaxLoads
Missing == -1           \* the length of a file that is not there
Resources == {"path", "file", "info"}

VARIABLES
    session,    \* sessions so far
    up,         \* a client is connected
    stream,     \* frames written to the client of this session
    wanted,     \* app: the load whose end it waits for, or 0
    seen,       \* app: the place in stream of the last code it has read, or 0
    gaveUp,     \* history: the loads the app cancelled while it waited for them
    created,    \* loads so far
    fileThread, \* the load whose thread was created last, or 0
    pc,         \* of each load's thread
    length,     \* of each load's file, or Missing
    sent,       \* buffers of it that were sent
    filePtr,    \* sendInfo->filePtr: "unset", "null", "open" or "closed"
    released,   \* history: how often each resource was freed or closed
    pending,    \* a cancellation has not yet acted
    exiting,    \* the cleanup handler runs for a cancellation
    cut,        \* history: cancelled where no cleanup handler was registered
    born,       \* history: the session of the load's request
    late,       \* history: frames written, or tried, after the cancellation
    alive       \* the process runs

threads == <<pc, length, sent, filePtr, released, pending, exiting, cut, born, late>>
app == <<session, up, wanted, seen, gaveUp>>
vars == <<app, stream, created, fileThread, threads, alive>>

Of(value) == [l \in Loads |-> value]

Init ==
    /\ session = 0 /\ up = FALSE /\ stream = <<>> /\ wanted = 0
    /\ seen = 0 /\ gaveUp = {}
    /\ created = 0 /\ fileThread = 0
    /\ pc = Of("none") /\ length = Of(0) /\ sent = Of(0)
    /\ filePtr = Of("unset")
    /\ released = Of([r \in Resources |-> 0])
    /\ pending = Of(FALSE) /\ exiting = Of(FALSE) /\ cut = Of(FALSE)
    /\ born = Of(0) /\ late = Of(0)
    /\ alive = TRUE

Goto(l, label) == pc' = [pc EXCEPT ![l] = label]

-----------------------------------------------------------------------------
(* The thread: sendFileData and fileSendCleanUp.                            *)

\* pthread_setcancelstate, pthread_setcanceltype, pthread_cleanup_push.
Enter(l) ==
    /\ pc[l] = "new"
    /\ Goto(l, "open")
    /\ UNCHANGED <<app, stream, created, fileThread, length, sent, filePtr, released,
                   pending, exiting, cut, born, late, alive>>

\* A file that is not there leaves NULL, and only the code is sent.
Open(l) ==
    /\ pc[l] = "open"
    /\ IF length[l] = Missing
       THEN filePtr' = [filePtr EXCEPT ![l] = "null"] /\ Goto(l, "code")
       ELSE filePtr' = [filePtr EXCEPT ![l] = "open"] /\ Goto(l, "size")
    /\ UNCHANGED <<app, stream, created, fileThread, length, sent, released, pending,
                   exiting, cut, born, late, alive>>

\* Mutant of SocketWrite: without a client the thread waits for one.
Mut_SocketWriteWaits(frame) ==
    /\ up
    /\ late' = [late EXCEPT ![frame.load] = IF pending[frame.load] THEN @ + 1 ELSE @]
    /\ stream' = Append(stream, frame)
    /\ UNCHANGED alive

\* socket_write to a client that is there; without one the write fails, or raises a
\* SIGPIPE, which ends the process.
SocketWrite(frame) ==
    /\ late' = [late EXCEPT ![frame.load] = IF pending[frame.load] THEN @ + 1 ELSE @]
    /\ \/ up /\ stream' = Append(stream, frame) /\ UNCHANGED alive
       \/ ~up /\ alive' \in BOOLEAN /\ UNCHANGED stream

Frame(l, part, bytes) == [load |-> l, part |-> part, bytes |-> bytes]

\* Mutant of Buffers: the rest that fills no buffer is left out.
Mut_BuffersRounded(n) == n \div Buffer

\* How many buffers a file of n bytes takes, and what is in the next one.
Buffers(n) == n \div Buffer + (IF n % Buffer > 0 THEN 1 ELSE 0)
NextBuffer(l) == IF sent[l] < length[l] \div Buffer THEN Buffer ELSE length[l] % Buffer

AfterBuffers(l, n) == IF n < Buffers(length[l]) THEN "data" ELSE "code"

SendSize(l) ==
    /\ pc[l] = "size"
    /\ SocketWrite(Frame(l, "size", length[l]))
    /\ Goto(l, AfterBuffers(l, 0))
    /\ UNCHANGED <<app, created, fileThread, length, sent, filePtr, released, pending,
                   exiting, cut, born>>

SendData(l) ==
    /\ pc[l] = "data"
    /\ SocketWrite(Frame(l, "data", NextBuffer(l)))
    /\ sent' = [sent EXCEPT ![l] = @ + 1]
    /\ Goto(l, AfterBuffers(l, sent[l] + 1))
    /\ UNCHANGED <<app, created, fileThread, length, filePtr, released, pending,
                   exiting, cut, born>>

SendCode(l) ==
    /\ pc[l] = "code"
    /\ SocketWrite(Frame(l, "code", 0))
    /\ Goto(l, "path")
    /\ UNCHANGED <<app, created, fileThread, length, sent, filePtr, released, pending,
                   exiting, cut, born>>

Following(r) == CASE r = "path" -> "file" [] r = "file" -> "info" [] r = "info" -> "ended"

\* One statement of the cleanup handler.  fclose of a pointer that names no open file
\* ends the process.
CleanUp(l) ==
    \E r \in Resources :
        /\ pc[l] = r
        /\ released' = [released EXCEPT ![l][r] = @ + 1]
        /\ alive' = (r = "file" => filePtr[l] = "open")
        /\ filePtr' = IF r = "file" THEN [filePtr EXCEPT ![l] = "closed"] ELSE filePtr
        /\ Goto(l, Following(r))
        /\ UNCHANGED <<app, stream, created, fileThread, length, sent, pending, exiting,
                       cut, born, late>>

Writing == {"size", "data", "code"}

\* Mutant of Step: the thread is cancelled where it waits, and nowhere else.
Mut_StepDeferred(l) ==
    Enter(l) \/ Open(l) \/ SendSize(l) \/ SendData(l) \/ SendCode(l) \/ CleanUp(l)

\* With a cancellation pending, a thread finishes the frame it is writing at most.
Step(l) ==
    \/ /\ ~pending[l] \/ exiting[l]
       /\ Enter(l) \/ Open(l) \/ SendSize(l) \/ SendData(l) \/ SendCode(l) \/ CleanUp(l)
    \/ /\ pending[l] /\ ~exiting[l] /\ late[l] = 0
       /\ SendSize(l) \/ SendData(l) \/ SendCode(l)

\* Mutant of Cancelled: the cleanup handler stays registered while it runs.
Mut_CancelledAgain(l) ==
    /\ pending[l] /\ ~exiting[l] /\ pc[l] \notin {"none", "ended", "hung"}
    /\ exiting' = [exiting EXCEPT ![l] = TRUE]
    /\ Goto(l, "path")
    /\ UNCHANGED <<app, stream, created, fileThread, length, sent, filePtr, released,
                   pending, cut, born, late, alive>>

\* A cancellation acts: without a handler, before its registration or in its last
\* run, the thread just ends; with one the handler runs, unless malloc or stdio was
\* interrupted with a lock held, which nobody releases.
Cancelled(l) ==
    /\ pending[l] /\ ~exiting[l]
    /\ \/ /\ pc[l] \in {"new"} \union Resources
          /\ Goto(l, "ended")
          /\ cut' = [cut EXCEPT ![l] = TRUE]
          /\ UNCHANGED exiting
       \/ /\ pc[l] \in {"open"} \union Writing
          /\ Goto(l, "path")
          /\ exiting' = [exiting EXCEPT ![l] = TRUE]
          /\ UNCHANGED cut
       \/ /\ pc[l] \in {"open"} \union Writing
          /\ Goto(l, "hung")
          /\ UNCHANGED <<exiting, cut>>
    /\ UNCHANGED <<app, stream, created, fileThread, length, sent, filePtr, released,
                   pending, born, late, alive>>

-----------------------------------------------------------------------------
(* The app and the main thread.  The app asks for a file when it waits for  *)
(* none, and may cancel while it waits.  It reads its frames in order.      *)

\* threadSendFileData.
Request(n) ==
    /\ up /\ wanted = 0 /\ created < MaxLoads
    /\ LET l == created + 1 IN
        /\ created' = l /\ fileThread' = l /\ wanted' = l
        /\ pc' = [pc EXCEPT ![l] = "new"]
        /\ length' = [length EXCEPT ![l] = n]
        /\ born' = [born EXCEPT ![l] = session]
    /\ UNCHANGED <<session, up, seen, gaveUp, stream, sent, filePtr, released, pending,
                   exiting, cut, late, alive>>

\* threadSendFileCancel.  A handle of a thread that has ended names nothing: the call
\* fails or ends the process.
Cancel ==
    /\ up /\ wanted # 0
    /\ wanted' = 0 /\ gaveUp' = gaveUp \union {wanted}
    /\ IF pc[fileThread] = "ended"
       THEN alive' \in BOOLEAN /\ UNCHANGED pending
       ELSE pending' = [pending EXCEPT ![fileThread] = TRUE] /\ UNCHANGED alive
    /\ UNCHANGED <<session, up, seen, stream, created, fileThread, pc, length, sent,
                   filePtr, released, exiting, cut, born, late>>

IsCode(i) == i \in DOMAIN stream /\ stream[i].part = "code"

\* The app reads up to the next code.  A code names no load, so whichever load sent it,
\* the app waits no longer.
GotCode ==
    /\ up
    /\ \E i \in DOMAIN stream :
          /\ IsCode(i) /\ i > seen /\ \A k \in (seen + 1)..(i - 1) : ~IsCode(k)
          /\ seen' = i
    /\ wanted' = 0
    /\ UNCHANGED <<session, up, gaveUp, stream, created, fileThread, threads, alive>>

Connect ==
    /\ ~up /\ session < MaxSessions
    /\ up' = TRUE /\ session' = session + 1
    /\ stream' = <<>> /\ seen' = 0
    /\ UNCHANGED <<wanted, gaveUp, created, fileThread, threads, alive>>

\* socket_close and socket_client_done leave the sending threads alone.
Disconnect ==
    /\ up
    /\ up' = FALSE /\ wanted' = 0
    /\ UNCHANGED <<session, seen, gaveUp, stream, created, fileThread, threads, alive>>

Thread(l) == alive /\ (Step(l) \/ Cancelled(l))

Next ==
    \/ \E l \in Loads : Thread(l)
    \/ alive /\ ((\E n \in Lengths \union {Missing} : Request(n)) \/ Cancel \/ GotCode
                 \/ Connect \/ Disconnect)

\* Every thread runs on: its client reads, or the connection is given up.
Spec == Init /\ [][Next]_vars /\ \A l \in Loads : WF_vars(Thread(l))

-----------------------------------------------------------------------------
(* Properties.                                                              *)

\* Types.
TypeOK ==
    /\ session \in 0..MaxSessions /\ up \in BOOLEAN
    /\ wanted \in 0..created /\ seen \in 0..Len(stream) /\ gaveUp \subseteq 1..created
    /\ created \in 0..MaxLoads /\ fileThread = created
    /\ stream \in Seq([load : 1..created, part : Writing, bytes : Nat])
    /\ pc \in [Loads -> {"none", "new", "open", "ended", "hung"} \union Writing
                            \union Resources]
    /\ length \in [Loads -> Lengths \union {Missing, 0}]
    /\ sent \in [Loads -> Nat]
    /\ \A l \in Loads : sent[l] > 0 => sent[l] <= Buffers(length[l])
    /\ filePtr \in [Loads -> {"unset", "null", "open", "closed"}]
    /\ released \in [Loads -> [Resources -> Nat]]
    /\ pending \in [Loads -> BOOLEAN] /\ exiting \in [Loads -> BOOLEAN]
    /\ cut \in [Loads -> BOOLEAN]
    /\ born \in [Loads -> 0..session] /\ late \in [Loads -> 0..1]
    /\ alive \in BOOLEAN

\* How many bytes of load l's file the first k frames hold, for each k.
BytesOf(l, frames) ==
    LET upTo[k \in 0..Len(frames)] ==
            IF k = 0 THEN 0
            ELSE upTo[k - 1] + (IF frames[k].load = l /\ frames[k].part = "data"
                                THEN frames[k].bytes ELSE 0)
    IN  upTo

\* The first of the first n frames of load l is its file's size, the others hold data.
Announced(l, frames, n) ==
    \E h \in 1..n :
        /\ frames[h] = Frame(l, "size", length[l])
        /\ \A g \in 1..n : frames[g].load = l /\ g # h => g > h /\ frames[g].part = "data"

\* The code that ends a load reaches the client that asked for it only after the
\* file's size and every byte of it, over whatever was cancelled before.
CodeMeansAll ==
    \A i \in DOMAIN stream :
        LET l == stream[i].load
        IN  stream[i].part = "code" /\ born[l] = session /\ length[l] # Missing =>
                /\ Announced(l, stream, i - 1)
                /\ BytesOf(l, stream)[i - 1] = length[l]

\* Frame i is of a load that the app no longer waits for: an earlier session's, or one
\* it cancelled.
Stale(i) == born[stream[i].load] < session \/ stream[i].load \in gaveUp

\* In one session, a frame of an older load comes after one of a newer load only from
\* a load that the app cancelled (one frame, which was being written) or that belongs
\* to an earlier session, or when the client got a stale code before, which it took for
\* the end of a load that was still being sent.
NewerLoadAlone ==
    \A i, j \in DOMAIN stream :
        i < j /\ stream[j].load < stream[i].load =>
            \/ born[stream[j].load] < session
            \/ pending[stream[j].load] /\ late[stream[j].load] <= 1
            \/ \E k \in 1..(i - 1) : IsCode(k) /\ Stale(k)

\* Nothing is freed or closed twice, and a load that has ended has given everything
\* back, unless it was cancelled where no cleanup handler was registered.
ReleasedOnce ==
    \A l \in Loads : \A r \in Resources :
        /\ released[l][r] <= 1
        /\ pc[l] = "ended" /\ ~cut[l] => released[l][r] = 1

\* Every load comes to its end, unless it was cancelled with a lock held.
LoadEnds ==
    \A l \in Loads :
        pc[l] = "new" ~> pc[l] = "ended" \/ (pc[l] = "hung" /\ pending[l]) \/ ~alive

\* What the app could hope for: no client gets frames of a file it did not ask for.
\* A thread outlives its session, so this does not hold.
OwnFramesOnly == \A i \in DOMAIN stream : born[stream[i].load] = session

\* What the app could hope for: the code that ends its wait for a load is that load's.
\* socket_write(sendInfo->socketCode, "", 0) names no load, so a stale code ends it too.
CodeIsItsOwn == [][GotCode /\ wanted # 0 => stream[seen'].load = wanted]_vars
=============================================================================
