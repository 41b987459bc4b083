----------------------------- MODULE UsbCopyProofs -----------------------------
(***************************************************************************)
(* What holds of every number of files, copying threads and drive names,   *)
(* and of any app: the types; and, from one moment at which all is over    *)
(* and unmounted to the next request that overlaps a copy, that copies     *)
(* keep to the drive, tell the truth, and leave nothing mounted, except    *)
(* where a cleanup was cut off or never run.                               *)
(***************************************************************************)
EXTENDS UsbCopy, TLAPS

\* One copy is at work, or main looks for the drive, or neither.
AloneInv ==
    /\ \A t, u \in Copies : ~Over(t) /\ ~Over(u) => t = u
    /\ \A t \in Copies : ~Over(t) => mpc \in {"idle", "dead"}

\* Descriptors are left open for the cleanup of the copy that was cancelled, and
\* that cleanup cannot be cancelled again.
HeldInv ==
    held => \E t \in Copies : /\ copy[t].pc \in {"unmount", "lazy"}
                              /\ copy[t].cancel = "taken"

\* At most the drive that main found is mounted, and once.  It is mounted where a
\* copy counts on it, and nothing is where main counts on that.
MountInv ==
    /\ mounts \in {<<>>, <<known>>}
    /\ mpc \in {"lazy", "find", "lazyAgain"} => mounts = <<>>
    /\ \A t \in Copies : copy[t].pc \in {"copy", "write"} => mounts = <<known>>
    /\ \A t \in Copies : copy[t].pc = "write" => copy[t].dest = known

\* A cleanup is at hand for what is mounted, unless one was cut off or left out.
RestInv ==
    /\ cut = {}
    /\ mpc # "unmountAgain"
    /\ \A t \in Copies : copy[t].pc \in {"mount", "ended", "hung"}
    => mounts = <<>>

\* A file of a thread's list is on the drive, was reported, is in hand, or is to come;
\* so none is missing when it tells that it is done.
Truthful(thread, whole) ==
    /\ thread.pc \in {"mount", "copy", "write"} => thread.told = "nothing"
    /\ thread.pc = "mount" => thread.asked \subseteq thread.left
    /\ thread.pc = "copy" => thread.asked \ (thread.failed \union thread.left) \subseteq whole
    /\ thread.pc = "write" =>
           thread.asked \ (thread.failed \union thread.left \union {thread.file}) \subseteq whole
    /\ thread.pc = "unmount" /\ thread.told = "done" =>
           thread.asked \ thread.failed \subseteq whole

ListInv == \A t \in Copies : Truthful(copy[t], onDrive)

\* All that overlapping requests may disturb.
Calm == AloneInv /\ HeldInv /\ MountInv /\ RestInv /\ ListInv

-----------------------------------------------------------------------------
(* Types.                                                                   *)

CopyType ==
    /\ copy \in [Copies -> Thread]
    /\ \A t \in Copies : copy[t].pc = "write" => copy[t].file \in Files
MountType == mounts \in Seq(Names)
MainType ==
    /\ mpc \in {"idle", "unmount", "lazy", "find", "unmountAgain", "lazyAgain", "dead"}
    /\ known \in Names \union {None} /\ usbThread \in Copies \union {None}
    /\ drive \in Names \union {None}
    /\ held \in BOOLEAN
    /\ cut \subseteq {"cancelled", "unparsed"}

\* What umount leaves is a stack of drives.
LEMMA BelowType == MountType => Below \in Seq(Names)
<1> SUFFICES ASSUME MountType, mounts # <<>> PROVE SubSeq(mounts, 1, Len(mounts) - 1) \in Seq(Names)
  BY DEF Below, MountType
<1> QED BY DEF MountType

LEMMA NextMount ==
    ASSUME MainType, MountType, [Next]_vars PROVE MountType'
<1>1. CASE UNCHANGED mounts BY <1>1 DEF MountType
<1>2. CASE mounts' = Below BY <1>2, BelowType DEF MountType
<1>3. CASE \E name \in {known, drive} : MayMount(name) /\ mounts' = Append(mounts, name)
  BY <1>3 DEF MountType, MainType, MayMount
<1> QED
  BY <1>1, <1>2, <1>3 DEF Next, vars, usb, Requests, Main, Copy, Cancel, InfoBegin, InfoUnmount,
     InfoFind, ThreadStep, Mount, Open, OpenFails, Write, WriteFails, Done, CleanUp,
     TakeCancel, Plug, Unplug, Unmount, LazyUnmount

LEMMA NextMain ==
    ASSUME MainType, [Next]_vars PROVE MainType'
<1> USE DEF MainType, usb
<1>1. CASE Requests
  BY <1>1 DEF Requests, Copy, InfoBegin, AppAsks
<1>2. CASE Main
  BY <1>2 DEF Main, Cancel, InfoUnmount, InfoFind, Unmount, LazyUnmount
<1>3. ASSUME NEW t \in Copies, ThreadStep(t) PROVE MainType'
  <2>1. UNCHANGED <<mpc, known, usbThread, drive>>
    BY <1>3 DEF ThreadStep, Mount, Open, OpenFails, Write, WriteFails, Done, CleanUp,
       Unmount, LazyUnmount
  <2>2. held' \in {held, FALSE} /\ cut' \in {cut, {}, cut \union {"unparsed"}}
    BY <1>3 DEF ThreadStep, Mount, Open, OpenFails, Write, WriteFails, Done, CleanUp,
       Unmount, LazyUnmount, Ends
  <2> QED BY <2>1, <2>2
<1>4. ASSUME NEW t \in Copies, TakeCancel(t) PROVE MainType'
  BY <1>4 DEF TakeCancel
<1>5. CASE (\E name \in Names : Plug(name)) \/ Unplug
  BY <1>5 DEF Plug, Unplug
<1>6. CASE UNCHANGED vars
  BY <1>6 DEF vars
<1> QED BY <1>1, <1>2, <1>3, <1>4, <1>5, <1>6 DEF Next

OverlapType == overlapped \in BOOLEAN

LEMMA NextOverlap ==
    ASSUME OverlapType, [Next]_vars PROVE OverlapType'
<1>1. CASE Requests
  <2>1. overlapped' = (~AllOver \/ (overlapped /\ (mounts # <<>> \/ held)))
    BY <1>1 DEF Requests, Copy, InfoBegin, AppAsks
  <2> QED BY <2>1 DEF OverlapType
<1>2. CASE UNCHANGED overlapped
  BY <1>2 DEF OverlapType
<1> QED BY <1>1, <1>2 DEF Next, vars

\* What a step makes of thread t.  The other threads stay as they are.
Moves(t, new) ==
    /\ copy' = [copy EXCEPT ![t] = new]
    /\ new \in Thread
    /\ new.pc = "write" => new.file \in Files

LEMMA Moved ==
    ASSUME CopyType, NEW t \in Copies, NEW new, Moves(t, new)
    PROVE  CopyType' /\ \A u \in Copies : copy'[u] = IF u = t THEN new ELSE copy[u]
BY DEF CopyType, Moves

LEMMA Mounts ==
    ASSUME CopyType, NEW t \in Copies, Mount(t), MayMount(known)
    PROVE  Moves(t, [copy[t] EXCEPT !.pc = "copy"])
<1> DEFINE new == [copy[t] EXCEPT !.pc = "copy"]
<1>1. copy' = [copy EXCEPT ![t] = new]
  BY DEF CopyType, Mount
<1>2. copy[t] \in Thread /\ new \in Thread
  BY DEF CopyType, Thread
<1> QED BY <1>1, <1>2 DEF Moves, Thread

\* A thread that has answered goes on to its cleanup, or just ends.
Ended(t, answer) ==
    IF copy[t].parsed THEN [copy[t] EXCEPT !.pc = "unmount", !.told = answer]
                      ELSE Gone("ended")

LEMMA EndsMoves ==
    ASSUME CopyType, NEW t \in Copies, NEW answer \in {"done", "refused"},
           Ends(t, answer)
    PROVE  /\ Moves(t, Ended(t, answer))
           /\ Ended(t, answer).pc = "unmount" \/ (Ended(t, answer).pc = "ended" /\ cut' # {})
<1>1. copy[t] \in Thread
  BY DEF CopyType
<1>2. CASE copy[t].parsed
  <2> DEFINE new == [copy[t] EXCEPT !.pc = "unmount", !.told = answer]
  <2>1. copy' = [copy EXCEPT ![t] = new]
    BY <1>2 DEF CopyType, Ends
  <2>2. new \in Thread /\ new.pc = "unmount"
    BY <1>1 DEF Thread
  <2>3. Ended(t, answer) = new
    BY <1>2 DEF Ended
  <2> QED BY <2>1, <2>2, <2>3 DEF Moves
<1>3. CASE ~copy[t].parsed
  <2>1. copy' = [copy EXCEPT ![t] = Gone("ended")] /\ cut' # {}
    BY <1>3 DEF Ends
  <2>2. Gone("ended") \in Thread /\ Gone("ended").pc = "ended"
    BY DEF Thread, Gone
  <2>3. Ended(t, answer) = Gone("ended")
    BY <1>3 DEF Ended
  <2> QED BY <2>1, <2>2, <2>3 DEF Moves
<1> QED BY <1>2, <1>3

LEMMA MountRefused ==
    ASSUME CopyType, NEW t \in Copies, Mount(t), ~MayMount(known)
    PROVE  /\ Moves(t, Ended(t, "refused"))
           /\ Ended(t, "refused").pc = "unmount"
              \/ (Ended(t, "refused").pc = "ended" /\ cut' # {})
BY EndsMoves DEF Mount

LEMMA Opens ==
    ASSUME CopyType, MainType, NEW t \in Copies, Open(t)
    PROVE  \E f \in copy[t].left :
              /\ Moves(t, [copy[t] EXCEPT !.pc = "write", !.file = f, !.dest = Top,
                                          !.left = @ \ {f}])
              /\ onDrive' = IF Top = None THEN onDrive ELSE onDrive \ {f}
              /\ onCard' = IF Top = None THEN onCard \union {f} ELSE onCard
<1>1. PICK f \in copy[t].left :
        /\ copy' = [copy EXCEPT ![t].pc = "write", ![t].file = f, ![t].dest = Top,
                                ![t].left = Rest(@, f)]
        /\ onDrive' = IF Top = None THEN onDrive ELSE onDrive \ {f}
        /\ onCard' = IF Top = None THEN onCard \union {f} ELSE onCard
  BY DEF Open
<1> DEFINE new == [copy[t] EXCEPT !.pc = "write", !.file = f, !.dest = Top,
                                  !.left = @ \ {f}]
<1>2. copy' = [copy EXCEPT ![t] = new]
  BY <1>1 DEF CopyType, Rest
<1>3. Top \in Names \union {None}
  BY DEF Open, MainType
<1>4. copy[t] \in Thread /\ f \in Files
  BY DEF CopyType, Thread
<1>5. new \in Thread /\ new.file = f
  BY <1>3, <1>4 DEF Thread
<1> QED BY <1>1, <1>2, <1>4, <1>5 DEF Moves

LEMMA OpenSkips ==
    ASSUME CopyType, NEW t \in Copies, OpenFails(t)
    PROVE  \E f \in copy[t].left :
              Moves(t, [copy[t] EXCEPT !.left = @ \ {f}, !.failed = @ \union {f}])
<1>1. PICK f \in copy[t].left :
        copy' = [copy EXCEPT ![t].left = Rest(@, f), ![t].failed = @ \union {f}]
  BY DEF OpenFails
<1> DEFINE new == [copy[t] EXCEPT !.left = @ \ {f}, !.failed = @ \union {f}]
<1>2. copy' = [copy EXCEPT ![t] = new]
  BY <1>1 DEF CopyType, Rest
<1>3. copy[t] \in Thread /\ f \in Files /\ copy[t].pc = "copy"
  BY DEF CopyType, Thread, OpenFails, At
<1>4. new \in Thread /\ new.pc = "copy"
  BY <1>3 DEF Thread
<1> QED BY <1>2, <1>4 DEF Moves

LEMMA Writes ==
    ASSUME CopyType, NEW t \in Copies, Write(t)
    PROVE  Moves(t, [copy[t] EXCEPT !.pc = "copy", !.file = None, !.dest = None])
<1> DEFINE new == [copy[t] EXCEPT !.pc = "copy", !.file = None, !.dest = None]
<1>1. copy' = [copy EXCEPT ![t] = new]
  BY DEF CopyType, Write
<1>2. copy[t] \in Thread /\ new \in Thread
  BY DEF CopyType, Thread
<1> QED BY <1>1, <1>2 DEF Moves, Thread

LEMMA WriteGivesUp ==
    ASSUME CopyType, NEW t \in Copies, WriteFails(t)
    PROVE  Moves(t, [copy[t] EXCEPT !.pc = "copy", !.file = None, !.dest = None,
                                  !.failed = @ \union {copy[t].file}])
<1> DEFINE new == [copy[t] EXCEPT !.pc = "copy", !.file = None, !.dest = None,
                                  !.failed = @ \union {copy[t].file}]
<1>1. copy' = [copy EXCEPT ![t] = new]
  BY DEF CopyType, WriteFails
<1>2. copy[t] \in Thread /\ copy[t].file \in Files
  BY DEF CopyType, WriteFails, At
<1>3. new \in Thread
  BY <1>2 DEF Thread
<1> QED BY <1>1, <1>2, <1>3 DEF Moves, Thread

LEMMA TellsDone ==
    ASSUME CopyType, NEW t \in Copies, Done(t)
    PROVE  /\ Moves(t, Ended(t, "done"))
           /\ Ended(t, "done").pc = "unmount"
              \/ (Ended(t, "done").pc = "ended" /\ cut' # {})
BY EndsMoves DEF Done

LEMMA CleanUpBegins ==
    ASSUME CopyType, NEW t \in Copies, CleanUp(t), copy[t].pc = "unmount"
    PROVE  Moves(t, [copy[t] EXCEPT !.pc = "lazy"])
<1> DEFINE new == [copy[t] EXCEPT !.pc = "lazy"]
<1>1. copy' = [copy EXCEPT ![t] = new]
  BY DEF CopyType, CleanUp, At
<1>2. copy[t] \in Thread /\ new \in Thread
  BY DEF CopyType, Thread
<1> QED BY <1>1, <1>2 DEF Moves, Thread

LEMMA CleanUpEnds ==
    ASSUME CopyType, NEW t \in Copies, CleanUp(t), copy[t].pc # "unmount"
    PROVE  Moves(t, Gone("ended"))
<1> DEFINE new == Gone("ended")
<1>1. copy' = [copy EXCEPT ![t] = new]
  BY DEF CopyType, CleanUp, At
<1>2. copy[t] \in Thread /\ new \in Thread
  BY DEF CopyType, Thread, Gone
<1> QED BY <1>1, <1>2 DEF Moves, Gone

\* A cancellation runs the cleanup, or takes the thread away.
LEMMA CancelMoves ==
    ASSUME CopyType, NEW t \in Copies, TakeCancel(t)
    PROVE  \E pc \in Cancelled(copy[t].pc) :
              /\ Moves(t, IF pc = "unmount"
                          THEN [copy[t] EXCEPT !.pc = pc, !.cancel = "taken",
                                               !.file = None, !.dest = None]
                          ELSE Gone(pc))
              /\ cut' = IF pc = "hung" \/ copy[t].pc \in {"unmount", "lazy"}
                       THEN cut \union {"cancelled"} ELSE cut
<1>1. PICK pc \in Cancelled(copy[t].pc) :
        /\ copy' = IF pc = "unmount"
                   THEN [copy EXCEPT ![t].pc = pc, ![t].cancel = "taken",
                                     ![t].file = None, ![t].dest = None]
                   ELSE [copy EXCEPT ![t] = Gone(pc)]
        /\ cut' = IF pc = "hung" \/ copy[t].pc \in {"unmount", "lazy"}
                       THEN cut \union {"cancelled"} ELSE cut
  BY DEF TakeCancel
<1>2. copy[t] \in Thread
  BY DEF CopyType
<1>3. CASE pc = "unmount"
  <2> DEFINE new == [copy[t] EXCEPT !.pc = pc, !.cancel = "taken",
                                    !.file = None, !.dest = None]
  <2>1. copy' = [copy EXCEPT ![t] = new]
    BY <1>1, <1>3 DEF CopyType
  <2>2. new \in Thread /\ new.pc = "unmount"
    BY <1>2, <1>3 DEF Thread
  <2> QED BY <1>1, <1>3, <2>1, <2>2 DEF Moves
<1>4. CASE pc # "unmount"
  <2>1. pc \in {"ended", "hung"}
    BY <1>4 DEF Cancelled
  <2>2. Gone(pc) \in Thread /\ Gone(pc).pc # "write"
    BY <2>1 DEF Thread, Gone
  <2> QED BY <1>1, <1>4, <2>2 DEF Moves
<1> QED BY <1>3, <1>4

LEMMA Cancels ==
    ASSUME CopyType, NEW t \in Copies, TakeCancel(t)
    PROVE  \E new \in Thread : Moves(t, new) /\ new.pc \in Cancelled(copy[t].pc)
<1>1. PICK pc \in Cancelled(copy[t].pc) :
           Moves(t, IF pc = "unmount"
                    THEN [copy[t] EXCEPT !.pc = pc, !.cancel = "taken",
                                         !.file = None, !.dest = None]
                    ELSE Gone(pc))
  BY CancelMoves
<1>2. [copy[t] EXCEPT !.pc = pc, !.cancel = "taken", !.file = None, !.dest = None].pc = pc
  BY DEF CopyType, Thread
<1>3. Gone(pc).pc = pc
  BY DEF Gone
<1> QED BY <1>1, <1>2, <1>3 DEF Moves

LEMMA Begins ==
    ASSUME CopyType, NEW t \in Copies, NEW list \in SUBSET Files, NEW parsed \in BOOLEAN,
             Copy(t, list, parsed)
    PROVE  Moves(t, Began(list, parsed))
<1>1. Began(list, parsed) \in Thread /\ Began(list, parsed).pc = "mount"
  BY DEF Thread, Began
<1> QED BY <1>1 DEF Copy, Moves

LEMMA CancelSent ==
    ASSUME CopyType, MainType, Cancel, copy' # copy
    PROVE  /\ usbThread \in Copies
           /\ copy[usbThread].cancel = "no"
           /\ Moves(usbThread, [copy[usbThread] EXCEPT !.cancel = "sent"])
<1>1. /\ usbThread \in Copies
      /\ copy[usbThread].cancel = "no"
      /\ copy' = [copy EXCEPT ![usbThread].cancel = "sent"]
  BY DEF Cancel, MainType
<1> DEFINE new == [copy[usbThread] EXCEPT !.cancel = "sent"]
<1>2. copy' = [copy EXCEPT ![usbThread] = new]
  BY <1>1 DEF CopyType
<1>3. copy[usbThread] \in Thread
  BY <1>1 DEF CopyType
<1>4. new \in Thread /\ new.pc = copy[usbThread].pc /\ new.file = copy[usbThread].file
  BY <1>3 DEF Thread
<1> QED BY <1>1, <1>2, <1>4 DEF Moves, CopyType

\* Every step leaves threads.
LEMMA NextCopy ==
    ASSUME CopyType, MainType, [Next]_vars
    PROVE  CopyType'
<1>1. ASSUME NEW t \in Copies, Mount(t) PROVE CopyType'
  BY <1>1, Mounts, MountRefused, Moved
<1>2. ASSUME NEW t \in Copies, Open(t) PROVE CopyType'
  BY <1>2, Opens, Moved
<1>3. ASSUME NEW t \in Copies, OpenFails(t) PROVE CopyType'
  BY <1>3, OpenSkips, Moved
<1>4. ASSUME NEW t \in Copies, Write(t) PROVE CopyType'
  BY <1>4, Writes, Moved
<1>5. ASSUME NEW t \in Copies, WriteFails(t) PROVE CopyType'
  BY <1>5, WriteGivesUp, Moved
<1>6. ASSUME NEW t \in Copies, Done(t) PROVE CopyType'
  BY <1>6, TellsDone, Moved
<1>7. ASSUME NEW t \in Copies, CleanUp(t) PROVE CopyType'
  BY <1>7, CleanUpBegins, CleanUpEnds, Moved
<1>8. ASSUME NEW t \in Copies, TakeCancel(t) PROVE CopyType'
  BY <1>8, CancelMoves, Moved
<1>9. ASSUME NEW t \in Copies, NEW list \in SUBSET Files, NEW parsed \in BOOLEAN,
             Copy(t, list, parsed)
      PROVE  CopyType'
  BY <1>9, Begins, Moved
<1>10. CASE Cancel
  BY <1>10, CancelSent, Moved DEF CopyType
<1>11. CASE InfoBegin \/ InfoUnmount \/ InfoFind
  BY <1>11 DEF CopyType, InfoBegin, InfoUnmount, InfoFind
<1>12. CASE (\E name \in Names : Plug(name)) \/ Unplug
  BY <1>12 DEF CopyType, Plug, Unplug
<1>13. CASE UNCHANGED vars
  BY <1>13 DEF CopyType, vars
<1> QED
  BY <1>1, <1>2, <1>3, <1>4, <1>5, <1>6, <1>7, <1>8, <1>9, <1>10, <1>11, <1>12, <1>13
     DEF Next, Requests, Main, ThreadStep

\* What is on the drive and on the card are files.
FileType == onDrive \subseteq Files /\ onCard \subseteq Files

LEMMA NextFiles ==
    ASSUME FileType, CopyType, [Next]_vars PROVE FileType'
<1>1. CASE \E t \in Copies : Open(t)
  <2>1. PICK t \in Copies : Open(t)
    BY <1>1
  <2>2. copy[t].left \subseteq Files
    BY DEF CopyType, Thread
  <2> QED BY <2>1, <2>2 DEF Open, FileType
<1>2. CASE \E t \in Copies : Write(t)
  BY <1>2 DEF Write, At, CopyType, FileType
<1>3. CASE UNCHANGED <<onDrive, onCard>>
  BY <1>3 DEF FileType
<1> QED
  BY <1>1, <1>2, <1>3 DEF Next, vars, usb, Requests, Main, Copy, Cancel, InfoBegin, InfoUnmount,
     InfoFind, ThreadStep, Mount, OpenFails, WriteFails, Done, CleanUp,
     TakeCancel, Plug, Unplug, Unmount, LazyUnmount

\* The types as one invariant; a thread that writes has a file in hand.
Types == CopyType /\ MountType /\ MainType /\ FileType /\ OverlapType

LEMMA InitTypes == Init => Types
<1> SUFFICES ASSUME Init PROVE Types
  OBVIOUS
<1>1. Gone("ended") \in Thread /\ Gone("ended").pc = "ended"
  BY DEF Thread, Gone
<1>2. CopyType
  BY <1>1 DEF Init, CopyType
<1>3. MountType
  BY DEF Init, MountType
<1>4. MainType /\ FileType /\ OverlapType
  BY DEF Init, MainType, FileType, OverlapType
<1> QED BY <1>2, <1>3, <1>4 DEF Types

LEMMA NextTypes == Types /\ [Next]_vars => Types'
BY NextCopy, NextMount, NextMain, NextFiles, NextOverlap DEF Types

\* Every variable of the copies keeps its type, whatever the app asks for and
\* whenever it cancels.
THEOREM UsbTypes == Spec => []TypeOK
<1>1. Types => TypeOK
  BY DEF Types, CopyType, MountType, MainType, FileType, OverlapType, TypeOK
<1> QED BY <1>1, InitTypes, NextTypes, PTL DEF Spec

-----------------------------------------------------------------------------
(* Where no request overlaps a copy: one at a time.                         *)

\* While a copy is at work the others are over, and its steps leave them so.
LEMMA OnlyOne ==
    ASSUME CopyType, AloneInv, NEW t \in Copies, ~Over(t), NEW new, Moves(t, new)
    PROVE  /\ copy[t] \in Thread /\ new \in Thread
           /\ mpc \in {"idle", "dead"}
           /\ copy'[t] = new
           /\ \A u \in Copies \ {t} :
                 copy'[u] = copy[u] /\ copy[u].pc \in {"ended", "hung"}
BY Moved DEF AloneInv, Over, CopyType, Moves

\* Where a request overlaps no copy, all copies are over.
LEMMA Politely ==
    ASSUME ~overlapped', AppAsks
    PROVE  mpc = "idle" /\ \A t \in Copies : copy[t].pc \in {"ended", "hung"}
BY DEF AppAsks, AllOver, Over

LEMMA AloneKept ==
    ASSUME CopyType, AloneInv, NEW t \in Copies, ~Over(t), NEW new, Moves(t, new),
           UNCHANGED mpc
    PROVE  AloneInv'
BY OnlyOne DEF AloneInv, Over

\* A copy begins when none is at work, and main looks for the drive then too.
LEMMA NextAlone ==
    ASSUME ~overlapped', Types, AloneInv, [Next]_vars
    PROVE  AloneInv'
<1> USE DEF Types
<1>1. ASSUME NEW t \in Copies, ThreadStep(t) PROVE AloneInv'
  <2>1. ~Over(t) /\ UNCHANGED mpc
    BY <1>1 DEF ThreadStep, Mount, Open, OpenFails, Write, WriteFails, Done, CleanUp,
       At, Over
  <2>2. \E new : Moves(t, new)
    BY <1>1, Mounts, MountRefused, Opens, OpenSkips, Writes, WriteGivesUp, TellsDone,
       CleanUpBegins, CleanUpEnds DEF ThreadStep
  <2> QED BY <2>1, <2>2, AloneKept
<1>2. ASSUME NEW t \in Copies, TakeCancel(t) PROVE AloneInv'
  <2>1. ~Over(t) /\ UNCHANGED mpc
    BY <1>2 DEF TakeCancel, Cancelled, Over
  <2>2. \E new : Moves(t, new)
    BY <1>2, CancelMoves
  <2> QED BY <2>1, <2>2, AloneKept
<1>3. ASSUME NEW t \in Copies, NEW list \in SUBSET Files, NEW parsed \in BOOLEAN,
             Copy(t, list, parsed)
      PROVE  AloneInv'
  BY <1>3, Politely, Begins, Moved DEF AloneInv, Over, Copy
<1>4. CASE Cancel
  <2>1. CASE UNCHANGED copy
    BY <1>4, <2>1 DEF Cancel, AloneInv, Over
  <2>2. CASE copy' # copy
    <3>1. \A u \in Copies : copy'[u].pc = copy[u].pc
      BY <1>4, <2>2, CancelSent, Moved DEF CopyType, Thread
    <3>2. UNCHANGED mpc
      BY <1>4, <2>2 DEF Cancel
    <3> QED BY <3>1, <3>2 DEF AloneInv, Over
  <2> QED BY <2>1, <2>2
<1>5. CASE InfoBegin
  BY <1>5, Politely DEF InfoBegin, AloneInv, Over
<1>6. CASE InfoUnmount \/ InfoFind
  BY <1>6 DEF InfoUnmount, InfoFind, AloneInv, Over
<1>7. CASE (\E name \in Names : Plug(name)) \/ Unplug \/ UNCHANGED vars
  BY <1>7 DEF Plug, Unplug, vars, AloneInv, Over
<1> QED
  BY <1>1, <1>2, <1>3, <1>4, <1>5, <1>6, <1>7 DEF Next, Requests, Main

-----------------------------------------------------------------------------
(* What is mounted.                                                         *)

\* With one drive mounted at most, it is on top and there is nothing below it.
LEMMA TopAndBelow ==
    ASSUME Types, mounts \in {<<>>, <<known>>}
    PROVE  /\ Below = <<>>
           /\ mounts = <<>> => Top = None
           /\ mounts # <<>> => Top = known /\ mounts = <<known>> /\ known \in Names
<1>1. CASE mounts = <<>>
  BY <1>1 DEF Top, Below
<1>2. CASE mounts = <<known>>
  <2>1. Len(mounts) = 1 /\ mounts[1] = known /\ mounts # <<>>
    BY <1>2
  <2>2. known \in Names
    BY <2>1 DEF Types, MountType
  <2>3. SubSeq(mounts, 1, Len(mounts) - 1) = <<>>
    BY <2>1
  <2> QED BY <1>2, <2>1, <2>2, <2>3 DEF Top, Below
<1> QED BY <1>1, <1>2

\* While main looks for the drive, nobody has it in use.
LEMMA NotBusy ==
    ASSUME AloneInv, HeldInv, mpc \notin {"idle", "dead"}
    PROVE  ~Busy
BY DEF AloneInv, HeldInv, Busy, Over

LEMMA NextHeld ==
    ASSUME ~overlapped', Types, AloneInv, HeldInv, [Next]_vars
    PROVE  HeldInv'
<1> USE DEF Types
<1>1. ASSUME NEW t \in Copies, ThreadStep(t), ~CleanUp(t) PROVE HeldInv'
  <2>1. /\ copy[t].pc \in {"mount", "copy", "write"} /\ UNCHANGED held
        /\ \E new : Moves(t, new)
    BY <1>1, Mounts, MountRefused, Opens, OpenSkips, Writes, WriteGivesUp, TellsDone
       DEF ThreadStep, Mount, Open, OpenFails, Write, WriteFails, Done, At, usb
  <2> QED BY <2>1, Moved DEF HeldInv
<1>2. ASSUME NEW t \in Copies, CleanUp(t) PROVE HeldInv'
  <2>1. CASE copy[t].pc = "unmount"
    <3>1. held' = held
      BY <1>2, <2>1 DEF CleanUp, Unmount, At
    <3>2. /\ copy[t] \in Thread
          /\ \A u \in Copies : copy'[u] = IF u = t THEN [copy[t] EXCEPT !.pc = "lazy"]
                                                   ELSE copy[u]
      BY <1>2, <2>1, CleanUpBegins, Moved DEF CopyType
    <3> QED BY <3>1, <3>2 DEF HeldInv, Thread
  <2>2. CASE copy[t].pc # "unmount"
    BY <1>2, <2>2 DEF CleanUp, LazyUnmount, At, HeldInv
  <2> QED BY <2>1, <2>2
<1>3. ASSUME NEW t \in Copies, TakeCancel(t) PROVE HeldInv'
  <2>1. ~Over(t) /\ copy[t].cancel = "sent" /\ copy[t] \in Thread
    BY <1>3 DEF TakeCancel, Cancelled, Over, CopyType
  <2>2. ~held
    BY <2>1 DEF HeldInv, AloneInv, Over
  <2>3. CASE copy[t].pc = "write"
    <3>1. \A pc \in Cancelled(copy[t].pc) : pc = "unmount"
      BY <2>3 DEF Cancelled
    <3>2. Moves(t, [copy[t] EXCEPT !.pc = "unmount", !.cancel = "taken",
                                   !.file = None, !.dest = None])
      BY <1>3, <3>1, CancelMoves
    <3>3. copy'[t] = [copy[t] EXCEPT !.pc = "unmount", !.cancel = "taken",
                                     !.file = None, !.dest = None]
      BY <3>2, Moved
    <3>4. copy'[t].pc = "unmount" /\ copy'[t].cancel = "taken"
      BY <2>1, <3>3 DEF Thread
    <3> QED BY <3>4 DEF HeldInv
  <2>4. CASE copy[t].pc # "write"
    BY <1>3, <2>2, <2>4 DEF TakeCancel, HeldInv
  <2> QED BY <2>3, <2>4
<1>4. ASSUME NEW t \in Copies, NEW list \in SUBSET Files, NEW parsed \in BOOLEAN,
             Copy(t, list, parsed)
      PROVE  HeldInv'
  BY <1>4, Politely DEF HeldInv, Copy, usb
<1>5. CASE Cancel
  <2>1. UNCHANGED held
    BY <1>5 DEF Cancel, usb
  <2>2. CASE UNCHANGED copy
    BY <2>1, <2>2 DEF HeldInv
  <2>3. CASE copy' # copy
    BY <1>5, <2>1, <2>3, CancelSent, Moved DEF HeldInv
  <2> QED BY <2>2, <2>3
<1>6. CASE InfoBegin \/ InfoUnmount \/ InfoFind
  BY <1>6 DEF InfoBegin, InfoUnmount, InfoFind, Unmount, LazyUnmount, HeldInv, usb
<1>7. CASE (\E name \in Names : Plug(name)) \/ Unplug \/ UNCHANGED vars
  BY <1>7 DEF Plug, Unplug, vars, usb, HeldInv
<1> QED
  BY <1>1, <1>2, <1>3, <1>4, <1>5, <1>6, <1>7 DEF Next, Requests, Main, ThreadStep

\* A step of t keeps what is mounted as it should be, when it does so for t itself.
LEMMA MountKept ==
    ASSUME CopyType, AloneInv, MountInv, NEW t \in Copies, ~Over(t),
           NEW new, Moves(t, new), UNCHANGED <<mpc, known>>,
           mounts' \in {<<>>, <<known>>},
           new.pc \in {"copy", "write"} => mounts' = <<known>>,
           new.pc = "write" => new.dest = known
    PROVE  MountInv'
<1>1. /\ mpc \in {"idle", "dead"} /\ copy'[t] = new
      /\ \A u \in Copies \ {t} : copy'[u] = copy[u] /\ copy[u].pc \in {"ended", "hung"}
  BY OnlyOne
<1> QED BY <1>1 DEF MountInv

LEMMA NextMounts ==
    ASSUME ~overlapped', Types, AloneInv, HeldInv, MountInv, [Next]_vars
    PROVE  MountInv'
<1> USE DEF Types
<1>a. mounts \in {<<>>, <<known>>}
  BY DEF MountInv
<1>b. copy \in [Copies -> Thread]
  BY DEF CopyType
<1>1. ASSUME NEW t \in Copies, Mount(t) PROVE MountInv'
  <2>1. ~Over(t) /\ UNCHANGED <<mpc, known>>
    BY <1>1 DEF Mount, At, Over
  <2>2. CASE MayMount(known)
    <3>1. mounts = <<>> /\ mounts' = <<known>>
      BY <1>1, <1>a, <2>2, TopAndBelow DEF Mount, MayMount
    <3> DEFINE new == [copy[t] EXCEPT !.pc = "copy"]
    <3>2. Moves(t, new)
      BY <1>1, <2>2, Mounts
    <3>3. new.pc = "copy"
      BY <1>b DEF Thread
    <3> QED BY <2>1, <3>1, <3>2, <3>3, MountKept
  <2>3. CASE ~MayMount(known)
    <3>1. UNCHANGED mounts
      BY <1>1, <2>3 DEF Mount
    <3>2. Moves(t, Ended(t, "refused")) /\ Ended(t, "refused").pc \in {"unmount", "ended"}
      BY <1>1, <2>3, MountRefused
    <3> QED BY <1>a, <2>1, <3>1, <3>2, MountKept
  <2> QED BY <2>2, <2>3
<1>2. ASSUME NEW t \in Copies, Open(t) PROVE MountInv'
  <2>1. ~Over(t) /\ UNCHANGED <<mpc, known, mounts>> /\ copy[t].pc = "copy"
    BY <1>2 DEF Open, At, Over
  <2>2. mounts = <<known>> /\ Top = known
    BY <2>1, TopAndBelow DEF MountInv
  <2>3. PICK f \in copy[t].left :
           Moves(t, [copy[t] EXCEPT !.pc = "write", !.file = f, !.dest = Top,
                                    !.left = @ \ {f}])
    BY <1>2, Opens
  <2> DEFINE new == [copy[t] EXCEPT !.pc = "write", !.file = f, !.dest = Top,
                                    !.left = @ \ {f}]
  <2>4. new.dest = known
    BY <1>b, <2>2 DEF Thread
  <2> HIDE DEF new
  <2> QED BY <2>1, <2>2, <2>3, <2>4, MountKept DEF new
<1>3. ASSUME NEW t \in Copies, OpenFails(t) \/ Write(t) \/ WriteFails(t) PROVE MountInv'
  <2>1. ~Over(t) /\ UNCHANGED <<mpc, known, mounts>> /\ copy[t].pc \in {"copy", "write"}
    BY <1>3 DEF OpenFails, Write, WriteFails, At, Over, usb
  <2>2. mounts = <<known>>
    BY <2>1 DEF MountInv
  <2>3. PICK new \in Thread : Moves(t, new) /\ new.pc = "copy"
    <3>1. CASE OpenFails(t)
      <4>1. copy[t].pc = "copy"
        BY <3>1 DEF OpenFails, At
      <4>2. PICK f \in copy[t].left :
               Moves(t, [copy[t] EXCEPT !.left = @ \ {f}, !.failed = @ \union {f}])
        BY <3>1, OpenSkips
      <4>3. [copy[t] EXCEPT !.left = @ \ {f}, !.failed = @ \union {f}].pc = "copy"
        BY <1>b, <4>1 DEF Thread
      <4> QED BY <4>2, <4>3 DEF Moves
    <3>2. CASE Write(t)
      <4>1. [copy[t] EXCEPT !.pc = "copy", !.file = None, !.dest = None].pc = "copy"
        BY <1>b DEF Thread
      <4> QED BY <3>2, <4>1, Writes DEF Moves
    <3>3. CASE WriteFails(t)
      <4>1. [copy[t] EXCEPT !.pc = "copy", !.file = None, !.dest = None,
                            !.failed = @ \union {copy[t].file}].pc = "copy"
        BY <1>b DEF Thread
      <4> QED BY <3>3, <4>1, WriteGivesUp DEF Moves
    <3> QED BY <1>3, <3>1, <3>2, <3>3
  <2> QED BY <2>1, <2>2, <2>3, MountKept
<1>4. ASSUME NEW t \in Copies, Done(t) \/ CleanUp(t) PROVE MountInv'
  <2>1. /\ ~Over(t) /\ UNCHANGED <<mpc, known>>
        /\ mounts' \in {mounts, <<>>}
    BY <1>4, <1>a, TopAndBelow DEF Done, CleanUp, Unmount, LazyUnmount, At, Over, usb
  <2>2. PICK new \in Thread : Moves(t, new) /\ new.pc \in {"unmount", "lazy", "ended"}
    <3>1. Done(t) => Ended(t, "done").pc \in {"unmount", "ended"}
      BY TellsDone
    <3>2. [copy[t] EXCEPT !.pc = "lazy"].pc = "lazy"
      BY <1>b DEF Thread
    <3>3. Gone("ended").pc = "ended"
      BY DEF Gone
    <3> QED BY <1>4, <3>1, <3>2, <3>3, TellsDone, CleanUpBegins, CleanUpEnds DEF Moves
  <2> QED BY <1>a, <2>1, <2>2, MountKept
<1>5. ASSUME NEW t \in Copies, TakeCancel(t) PROVE MountInv'
  <2>1. ~Over(t) /\ UNCHANGED <<mpc, known, mounts>>
    BY <1>5 DEF TakeCancel, Cancelled, Over
  <2>2. PICK new \in Thread : Moves(t, new) /\ new.pc \in {"unmount", "ended", "hung"}
    BY <1>5, Cancels DEF Cancelled
  <2> QED BY <1>a, <2>1, <2>2, MountKept
<1>6. ASSUME NEW t \in Copies, NEW list \in SUBSET Files, NEW parsed \in BOOLEAN,
             Copy(t, list, parsed)
      PROVE  MountInv'
  <2>1. Began(list, parsed).pc = "mount"
    BY DEF Began
  <2>2. UNCHANGED <<mpc, known, mounts>>
    BY <1>6 DEF Copy, usb
  <2> QED BY <1>6, <2>1, <2>2, Begins, Moved, Politely DEF Copy, MountInv
<1>7. CASE Cancel
  <2>1. UNCHANGED <<known, mounts>> /\ (UNCHANGED mpc \/ mpc' = "dead")
    BY <1>7 DEF Cancel, usb
  <2>2. \A u \in Copies : copy'[u].pc = copy[u].pc /\ copy'[u].dest = copy[u].dest
    <3>1. CASE UNCHANGED copy
      BY <3>1
    <3>2. CASE copy' # copy
      BY <1>7, <3>2, CancelSent, Moved DEF CopyType, Thread
    <3> QED BY <3>1, <3>2
  <2> QED BY <2>1, <2>2 DEF MountInv
<1>8. CASE InfoBegin
  BY <1>8, Politely DEF InfoBegin, MountInv, usb
<1>9. CASE InfoUnmount
  <2>1. ~Busy /\ \A u \in Copies : Over(u)
    BY <1>9, NotBusy DEF InfoUnmount, AloneInv
  <2>2. mounts' = <<>> /\ UNCHANGED <<known, copy>>
    BY <1>9, <1>a, <2>1, TopAndBelow DEF InfoUnmount, Unmount, LazyUnmount
  <2> QED BY <2>1, <2>2 DEF MountInv, Over
<1>10. CASE InfoFind
  <2>1. mounts = <<>> /\ \A u \in Copies : Over(u)
    BY <1>10 DEF InfoFind, MountInv, AloneInv
  <2>2. UNCHANGED copy /\ mounts' \in {<<>>, <<known'>>} /\ mpc' \in {"idle", "unmountAgain"}
    BY <1>10, <2>1 DEF InfoFind, MayMount
  <2> QED BY <2>1, <2>2 DEF MountInv, Over
<1>11. CASE (\E name \in Names : Plug(name)) \/ Unplug \/ UNCHANGED vars
  BY <1>11 DEF Plug, Unplug, vars, usb, MountInv
<1> QED
  BY <1>1, <1>2, <1>3, <1>4, <1>5, <1>6, <1>7, <1>8, <1>9, <1>10, <1>11
     DEF Next, Requests, Main, ThreadStep

\* Where a cleanup is not at hand for what is mounted, one was cut off.
LEMMA NextRest ==
    ASSUME ~overlapped', Types, AloneInv, HeldInv, MountInv, RestInv, [Next]_vars
    PROVE  RestInv'
<1> USE DEF Types
<1>a. mounts \in {<<>>, <<known>>} /\ copy \in [Copies -> Thread]
  BY DEF MountInv, CopyType
<1>1. ASSUME NEW t \in Copies, ThreadStep(t), ~CleanUp(t) PROVE RestInv'
  <2>1. copy'[t].pc \in {"copy", "write", "unmount"} \/ cut' # {}
    <3>1. CASE Mount(t)
      <4>1. CASE MayMount(known)
        BY <1>a, <3>1, <4>1 DEF Mount, Thread
      <4>2. CASE ~MayMount(known)
        BY <3>1, <4>2, MountRefused, Moved
      <4> QED BY <4>1, <4>2
    <3>2. CASE Open(t)
      <4>1. PICK f \in copy[t].left :
               copy' = [copy EXCEPT ![t].pc = "write", ![t].file = f, ![t].dest = Top,
                                    ![t].left = Rest(@, f)]
        BY <3>2 DEF Open
      <4> QED BY <1>a, <4>1 DEF Thread
    <3>3. CASE OpenFails(t)
      BY <1>a, <3>3 DEF OpenFails, At, Thread
    <3>4. CASE Write(t) \/ WriteFails(t)
      BY <1>a, <3>4 DEF Write, WriteFails, Thread
    <3>5. CASE Done(t)
      BY <3>5, TellsDone, Moved
    <3> QED BY <1>1, <3>1, <3>2, <3>3, <3>4, <3>5 DEF ThreadStep
  <2> QED BY <2>1 DEF RestInv
<1>2. ASSUME NEW t \in Copies, CleanUp(t) PROVE RestInv'
  <2>1. CASE copy[t].pc = "unmount"
    <3>1. copy'[t].pc = "lazy"
      BY <1>a, <1>2, <2>1 DEF CleanUp, At, Thread
    <3> QED BY <3>1 DEF RestInv
  <2>2. CASE copy[t].pc # "unmount"
    BY <1>2, <1>a, <2>2, TopAndBelow DEF CleanUp, LazyUnmount, At, RestInv
  <2> QED BY <2>1, <2>2
<1>3. ASSUME NEW t \in Copies, TakeCancel(t) PROVE RestInv'
  <2>1. PICK pc \in Cancelled(copy[t].pc) :
           /\ Moves(t, IF pc = "unmount"
                       THEN [copy[t] EXCEPT !.pc = pc, !.cancel = "taken",
                                            !.file = None, !.dest = None]
                       ELSE Gone(pc))
           /\ cut' = IF pc = "hung" \/ copy[t].pc \in {"unmount", "lazy"}
                       THEN cut \union {"cancelled"} ELSE cut
    BY <1>3, CancelMoves
  <2>2. UNCHANGED <<mpc, mounts>>
    BY <1>3 DEF TakeCancel
  <2>3. CASE copy[t].pc = "mount" /\ pc = "ended"
    BY <2>1, <2>2, <2>3, Moved DEF RestInv, Gone
  <2>4. CASE pc = "unmount"
    <3> DEFINE new == [copy[t] EXCEPT !.pc = pc, !.cancel = "taken",
                                      !.file = None, !.dest = None]
    <3>1. copy'[t] = new
      BY <2>1, <2>4, Moved
    <3>2. new.pc = "unmount"
      BY <1>a, <2>4 DEF Thread
    <3> QED BY <3>1, <3>2 DEF RestInv
  <2>5. CASE pc = "hung" \/ copy[t].pc \in {"unmount", "lazy"}
    BY <2>1, <2>5 DEF RestInv
  <2> QED BY <2>3, <2>4, <2>5 DEF Cancelled
<1>4. ASSUME NEW t \in Copies, NEW list \in SUBSET Files, NEW parsed \in BOOLEAN,
             Copy(t, list, parsed)
      PROVE  RestInv'
  BY <1>4, Politely DEF Copy, RestInv, usb
<1>5. CASE Cancel
  <2>1. UNCHANGED <<mounts, cut>> /\ mpc = "idle"
    BY <1>5 DEF Cancel, usb
  <2>2. \A u \in Copies : copy'[u].pc = copy[u].pc
    <3>1. CASE copy' # copy
      BY <1>5, <1>a, <3>1, CancelSent, Moved DEF Thread
    <3> QED BY <3>1
  <2> QED BY <2>1, <2>2 DEF RestInv
<1>6. CASE InfoBegin
  BY <1>6 DEF InfoBegin, AppAsks, RestInv, usb
<1>7. CASE InfoUnmount
  <2>1. ~Busy
    BY <1>7, NotBusy DEF InfoUnmount
  <2> QED BY <1>7, <1>a, <2>1, TopAndBelow DEF InfoUnmount, Unmount, LazyUnmount, RestInv
<1>8. CASE InfoFind
  BY <1>8 DEF InfoFind, MountInv, RestInv
<1>9. CASE (\E name \in Names : Plug(name)) \/ Unplug \/ UNCHANGED vars
  BY <1>9 DEF Plug, Unplug, vars, usb, RestInv
<1> QED
  BY <1>1, <1>2, <1>3, <1>4, <1>5, <1>6, <1>7, <1>8, <1>9 DEF Next, Requests, Main, ThreadStep

-----------------------------------------------------------------------------
(* What a copy tells, and where it writes.                                  *)

LEMMA ListKept ==
    ASSUME CopyType, AloneInv, NEW t \in Copies, ~Over(t), NEW new, Moves(t, new),
           Truthful(new, onDrive')
    PROVE  ListInv'
<1>1. /\ copy'[t] = new
      /\ \A u \in Copies \ {t} : copy'[u] = copy[u] /\ copy[u].pc \in {"ended", "hung"}
  BY OnlyOne
<1> QED BY <1>1 DEF ListInv, Truthful

LEMMA NextList ==
    ASSUME ~overlapped', Types, AloneInv, MountInv, ListInv, [Next]_vars
    PROVE  ListInv'
<1> USE DEF Types
<1>a. copy \in [Copies -> Thread]
  BY DEF CopyType
<1>b. \A t \in Copies : Truthful(copy[t], onDrive)
  BY DEF ListInv
<1>1. ASSUME NEW t \in Copies, Mount(t) PROVE ListInv'
  <2>1. ~Over(t) /\ UNCHANGED onDrive /\ copy[t].pc = "mount"
    BY <1>1 DEF Mount, At, Over
  <2>2. CASE MayMount(known)
    <3> DEFINE new == [copy[t] EXCEPT !.pc = "copy"]
    <3>1. Truthful(new, onDrive')
      BY <1>a, <1>b, <2>1 DEF Truthful, Thread
    <3> QED BY <1>1, <2>1, <2>2, <3>1, Mounts, ListKept
  <2>3. CASE ~MayMount(known)
    <3>1. Truthful(Ended(t, "refused"), onDrive')
      BY <1>a DEF Truthful, Thread, Ended, Gone
    <3> QED BY <1>1, <2>1, <2>3, <3>1, MountRefused, ListKept
  <2> QED BY <2>2, <2>3
<1>2. ASSUME NEW t \in Copies, Open(t) PROVE ListInv'
  <2>1. ~Over(t) /\ copy[t].pc = "copy"
    BY <1>2 DEF Open, At, Over
  <2>2. PICK f \in copy[t].left :
           /\ Moves(t, [copy[t] EXCEPT !.pc = "write", !.file = f, !.dest = Top,
                                       !.left = @ \ {f}])
           /\ onDrive' = IF Top = None THEN onDrive ELSE onDrive \ {f}
    BY <1>2, Opens
  <2> DEFINE new == [copy[t] EXCEPT !.pc = "write", !.file = f, !.dest = Top,
                                    !.left = @ \ {f}]
  <2>3. /\ new.pc = "write" /\ new.file = f /\ new.left = copy[t].left \ {f}
        /\ new.asked = copy[t].asked /\ new.failed = copy[t].failed
        /\ new.told = copy[t].told
    BY <1>a DEF Thread
  <2>4. /\ copy[t].told = "nothing"
        /\ copy[t].asked \ (copy[t].failed \union copy[t].left) \subseteq onDrive
    BY <1>b, <2>1 DEF Truthful
  <2> HIDE DEF new
  <2>5. Truthful(new, onDrive')
    BY <2>2, <2>3, <2>4 DEF Truthful
  <2> QED BY <2>1, <2>2, <2>5, ListKept DEF new
<1>3. ASSUME NEW t \in Copies, OpenFails(t) PROVE ListInv'
  <2>1. ~Over(t) /\ copy[t].pc = "copy" /\ UNCHANGED onDrive
    BY <1>3 DEF OpenFails, At, Over, usb
  <2>2. PICK f \in copy[t].left :
           Moves(t, [copy[t] EXCEPT !.left = @ \ {f}, !.failed = @ \union {f}])
    BY <1>3, OpenSkips
  <2> DEFINE new == [copy[t] EXCEPT !.left = @ \ {f}, !.failed = @ \union {f}]
  <2>3. Truthful(new, onDrive')
    BY <1>a, <1>b, <2>1 DEF Truthful, Thread
  <2> QED BY <2>1, <2>2, <2>3, ListKept
<1>4. ASSUME NEW t \in Copies, Write(t) PROVE ListInv'
  <2>1. ~Over(t) /\ copy[t].pc = "write"
    BY <1>4 DEF Write, At, Over
  <2>2. copy[t].dest = known /\ known # None
    BY <2>1, TopAndBelow, NoneAssumption DEF MountInv
  <2>3. onDrive' = onDrive \union {copy[t].file}
    BY <1>4, <2>2 DEF Write
  <2> DEFINE new == [copy[t] EXCEPT !.pc = "copy", !.file = None, !.dest = None]
  <2>4. Truthful(new, onDrive')
    BY <1>a, <1>b, <2>1, <2>3 DEF Truthful, Thread
  <2> QED BY <1>4, <2>1, <2>4, Writes, ListKept
<1>5. ASSUME NEW t \in Copies, WriteFails(t) PROVE ListInv'
  <2>1. ~Over(t) /\ copy[t].pc = "write" /\ UNCHANGED onDrive
    BY <1>5 DEF WriteFails, At, Over, usb
  <2> DEFINE new == [copy[t] EXCEPT !.pc = "copy", !.file = None, !.dest = None,
                                    !.failed = @ \union {copy[t].file}]
  <2>2. Truthful(new, onDrive')
    BY <1>a, <1>b, <2>1 DEF Truthful, Thread
  <2> QED BY <1>5, <2>1, <2>2, WriteGivesUp, ListKept
<1>6. ASSUME NEW t \in Copies, Done(t) PROVE ListInv'
  <2>1. ~Over(t) /\ copy[t].pc = "copy" /\ copy[t].left = {} /\ UNCHANGED onDrive
    BY <1>6 DEF Done, At, Over, usb
  <2>2. Truthful(Ended(t, "done"), onDrive')
    BY <1>a, <1>b, <2>1 DEF Truthful, Thread, Ended, Gone
  <2> QED BY <1>6, <2>1, <2>2, TellsDone, ListKept
<1>7. ASSUME NEW t \in Copies, CleanUp(t) PROVE ListInv'
  <2>1. ~Over(t)
    BY <1>7 DEF CleanUp, At, Over
  <2>2. Truthful([copy[t] EXCEPT !.pc = "lazy"], onDrive')
    BY <1>a DEF Truthful, Thread
  <2>3. Truthful(Gone("ended"), onDrive')
    BY DEF Truthful, Gone
  <2> QED BY <1>7, <2>1, <2>2, <2>3, CleanUpBegins, CleanUpEnds, ListKept
<1>8. ASSUME NEW t \in Copies, TakeCancel(t) PROVE ListInv'
  <2>1. ~Over(t) /\ UNCHANGED onDrive
    BY <1>8 DEF TakeCancel, Cancelled, Over
  <2>2. PICK pc \in Cancelled(copy[t].pc) :
           Moves(t, IF pc = "unmount"
                    THEN [copy[t] EXCEPT !.pc = pc, !.cancel = "taken",
                                         !.file = None, !.dest = None]
                    ELSE Gone(pc))
    BY <1>8, CancelMoves
  <2>3. CASE pc = "unmount"
    <3> DEFINE new == [copy[t] EXCEPT !.pc = pc, !.cancel = "taken",
                                      !.file = None, !.dest = None]
    <3>1. copy[t].pc \in {"mount", "copy", "write"}
      BY <2>3 DEF Cancelled
    <3>2. copy[t].told = "nothing"
      BY <1>b, <3>1 DEF Truthful
    <3>3. new.pc = "unmount" /\ new.told = "nothing"
      BY <1>a, <2>3, <3>2 DEF Thread
    <3>4. Truthful(new, onDrive')
      BY <3>3 DEF Truthful
    <3> QED BY <2>1, <2>2, <2>3, <3>4, ListKept
  <2>4. CASE pc # "unmount"
    <3>1. pc \in {"ended", "hung"}
      BY <2>4 DEF Cancelled
    <3>2. Truthful(Gone(pc), onDrive')
      BY <3>1 DEF Truthful, Gone
    <3> QED BY <2>1, <2>2, <2>4, <3>2, ListKept
  <2> QED BY <2>3, <2>4
<1>9. ASSUME NEW t \in Copies, NEW list \in SUBSET Files, NEW parsed \in BOOLEAN,
             Copy(t, list, parsed)
      PROVE  ListInv'
  <2>1. Truthful(Began(list, parsed), onDrive')
    BY DEF Truthful, Began
  <2>2. UNCHANGED onDrive
    BY <1>9 DEF Copy, usb
  <2>3. \A u \in Copies : copy'[u] = IF u = t THEN Began(list, parsed) ELSE copy[u]
    BY <1>9, Begins, Moved
  <2> QED BY <1>b, <2>1, <2>2, <2>3 DEF ListInv
<1>10. CASE Cancel
  <2>1. UNCHANGED onDrive
    BY <1>10 DEF Cancel, usb
  <2>2. CASE UNCHANGED copy
    BY <2>1, <2>2 DEF ListInv
  <2>3. CASE copy' # copy
    <3> DEFINE new == [copy[usbThread] EXCEPT !.cancel = "sent"]
    <3>1. usbThread \in Copies /\ \A u \in Copies : copy'[u] = IF u = usbThread THEN new ELSE copy[u]
      BY <1>10, <2>3, CancelSent, Moved
    <3>2. Truthful(new, onDrive')
      BY <1>a, <1>b, <2>1, <3>1 DEF Truthful, Thread
    <3> QED BY <1>b, <2>1, <3>1, <3>2 DEF ListInv
  <2> QED BY <2>2, <2>3
<1>11. CASE InfoBegin \/ InfoUnmount \/ InfoFind
  BY <1>11 DEF InfoBegin, InfoUnmount, InfoFind, Unmount, LazyUnmount, usb, ListInv
<1>12. CASE (\E name \in Names : Plug(name)) \/ Unplug \/ UNCHANGED vars
  BY <1>12 DEF Plug, Unplug, vars, usb, ListInv
<1> QED
  BY <1>1, <1>2, <1>3, <1>4, <1>5, <1>6, <1>7, <1>8, <1>9, <1>10, <1>11, <1>12
     DEF Next, Requests, Main, ThreadStep

LEMMA NextCard ==
    ASSUME Types, MountInv, [Next]_vars
    PROVE  onCard' = onCard
<1>1. CASE \E t \in Copies : Open(t)
  <2>1. PICK t \in Copies : Open(t)
    BY <1>1
  <2>2. Top # None
    BY <2>1, TopAndBelow, NoneAssumption DEF Open, At, MountInv
  <2> QED BY <2>1, <2>2 DEF Open
<1>2. CASE UNCHANGED onCard
  BY <1>2
<1> QED
  BY <1>1, <1>2 DEF Next, vars, usb, Requests, Main, Copy, Cancel, InfoBegin,
     InfoUnmount, InfoFind, ThreadStep, Mount, Ends, OpenFails, Write, WriteFails,
     Done, CleanUp, TakeCancel, Plug, Unplug, Unmount, LazyUnmount

-----------------------------------------------------------------------------
(* Overlapping requests, and after them.                                    *)

\* When all is over, unmounted and closed, nothing that has overlapped is left.
LEMMA AtRest ==
    ASSUME mpc = "idle", AllOver, mounts = <<>>, ~held
    PROVE  Calm
<1>1. \A t \in Copies : copy[t].pc \in {"ended", "hung"}
  BY DEF AllOver, Over
<1>2. AloneInv /\ HeldInv
  BY <1>1 DEF AloneInv, HeldInv, Over
<1>3. MountInv
  BY <1>1 DEF MountInv
<1>4. RestInv
  BY DEF RestInv
<1>5. ListInv
  BY <1>1 DEF ListInv, Truthful
<1> QED BY <1>2, <1>3, <1>4, <1>5 DEF Calm

\* A step that leaves requests without overlap begins where all is calm.
LEMMA CalmBefore ==
    ASSUME ~overlapped => Calm, ~overlapped', [Next]_vars
    PROVE  Calm
<1>1. CASE overlapped
  <2>1. Requests
    BY <1>1 DEF Next, vars
  <2>2. AppAsks
    BY <2>1 DEF Requests, Copy, InfoBegin
  <2>3. mpc = "idle" /\ AllOver /\ mounts = <<>> /\ ~held
    BY <1>1, <2>2 DEF AppAsks
  <2> QED BY <2>3, AtRest
<1> QED BY <1>1

IInv == Types /\ (~overlapped => Calm)

LEMMA InitIInv == Init => IInv
<1> SUFFICES ASSUME Init PROVE IInv
  OBVIOUS
<1>1. Types
  BY InitTypes
<1>2. AllOver
  BY DEF Init, Gone, AllOver, Over
<1> QED BY <1>1, <1>2, AtRest DEF Init, IInv

LEMMA NextIInv == IInv /\ [Next]_vars => IInv'
<1> SUFFICES ASSUME IInv, [Next]_vars PROVE IInv'
  OBVIOUS
<1>1. Types /\ Types'
  BY NextTypes DEF IInv
<1>2. ASSUME ~overlapped' PROVE Calm'
  <2>1. AloneInv /\ HeldInv /\ MountInv /\ RestInv /\ ListInv
    BY <1>2, CalmBefore DEF IInv, Calm
  <2>2. AloneInv'
    BY <1>1, <1>2, <2>1, NextAlone
  <2>3. HeldInv'
    BY <1>1, <1>2, <2>1, NextHeld
  <2>4. MountInv'
    BY <1>1, <1>2, <2>1, NextMounts
  <2>5. RestInv'
    BY <1>1, <1>2, <2>1, NextRest
  <2>6. ListInv'
    BY <1>1, <1>2, <2>1, NextList
  <2> QED BY <2>2, <2>3, <2>4, <2>5, <2>6 DEF Calm
<1> QED BY <1>1, <1>2 DEF IInv

-----------------------------------------------------------------------------
(* The theorems.                                                            *)

\* The inductive invariant: where no request overlaps a copy nobody mounts, unmounts
\* or writes beside a copy at work, and this comes back when all is over and unmounted.
THEOREM UsbSafe == Spec => []IInv
BY InitIInv, NextIInv, PTL DEF Spec

\* Of any app: where its requests do not overlap copies it can believe
\* ANA_USB_COPY_DONE_NTF: every file that was not reported is whole on the drive,
\* whatever was pulled or full, and however often the user cancelled.
THEOREM UsbDoneMeansOnDrive == Spec => []DoneMeansOnDrive
<1>1. IInv => DoneMeansOnDrive
  BY DEF IInv, Calm, ListInv, Truthful, DoneMeansOnDrive, ToldTruth
<1> QED BY <1>1, UsbSafe, PTL

\* Where requests do not overlap copies nothing is written to the memory card below
\* the mount point.
THEOREM UsbNothingOnCard == Spec => NothingOnCard
<1>1. IInv /\ [Next]_vars => [~overlapped => onCard' = onCard]_vars
  BY NextCard DEF IInv, Calm
<1> QED BY <1>1, UsbSafe, PTL DEF Spec, NothingOnCard

\* Where requests do not overlap copies the drive is unmounted whenever nothing is at
\* work, unless a cancellation took a cleanup away or a list that was no JSON had
\* none, and nobody has unmounted since.
THEOREM UsbUnmountedAtRest == Spec => []UnmountedAtRest
<1>1. IInv => UnmountedAtRest
  BY DEF IInv, Calm, RestInv, UnmountedAtRest, AllOver, Over
<1> QED BY <1>1, UsbSafe, PTL
=============================================================================
