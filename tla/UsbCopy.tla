-------------------------------- MODULE UsbCopy --------------------------------
(***************************************************************************)
(* Copying recordings to a USB drive (gpr_socket_ana.c, usb_control.c):    *)
(* the main thread, which answers ANA_USB_INFO and starts and cancels      *)
(* copies, one detached thread per copy, and the user, who plugs the drive *)
(* in and pulls it out.  All of them work on one mount point and one       *)
(* global usbData, without a lock.                                         *)
(*                                                                         *)
(* There is one drive.  A file of a list is copied whole or reported; what *)
(* a folder of the list does (mkdirs) and the names told on the way leave  *)
(* nothing behind that the properties tell apart.  Cancellation is         *)
(* asynchronous: it takes effect anywhere between two steps of the thread. *)
(***************************************************************************)
EXTENDS FiniteSets, Naturals, Sequences

CONSTANTS Files,    \* recordings that may be copied
          Copies,   \* bound: slots for copying threads; a slot is used again
          Names,    \* names the kernel gives the drive: "sda", "sdb", ...
          None,     \* no name, no slot
          Waits     \* the app asks for the next copy or for the drive only when
                    \* every copy has told its end

ASSUME NoneAssumption == None \notin Names \union Copies
ASSUME WaitsAssumption == Waits \in BOOLEAN

VARIABLES
    mpc,        \* main thread: its next step; "dead" if the process is
    known,      \* usbData.deviceName, once its fsType is set
    usbThread,  \* the global of that name: the copy started last
    copy,       \* the threads of tryCopyFiles
    drive,      \* the name of the drive, None if it is not plugged in
    mounts,     \* what is mounted at mountPath, the last on top
    held,       \* a cancelled copy left its descriptors open
    onDrive,    \* whole files on the drive
    onCard,     \* files written below mountPath with nothing mounted there
    cut,        \* history: why copies ended without their cleanup since the last
                \* unmount, "cancelled" or "unparsed"
    overlapped  \* history: the app has asked for something while a copy was at
                \* work, since all was last at rest and unmounted

usb == <<drive, mounts, held, onDrive, onCard, cut>>
vars == <<mpc, known, usbThread, copy, usb, overlapped>>

(***************************************************************************)
(* A thread: its next step, whether its list could be parsed, the files of *)
(* it, those it has not come to, those it reported by                      *)
(* ANA_USB_COPY_FAILED_NAME_NTF, the file in hand and what it is written   *)
(* to, what it told last, and its cancellation.                            *)
(***************************************************************************)
Thread ==
    [pc : {"mount", "copy", "write", "unmount", "lazy", "ended", "hung"},
     parsed : BOOLEAN, asked : SUBSET Files, left : SUBSET Files, failed : SUBSET Files,
     file : Files \union {None}, dest : Names \union {None},
     told : {"nothing", "done", "refused"},
     cancel : {"no", "sent", "taken"}]

\* cJSON_Parse gives NULL for a text that is no JSON, which has no files.
Began(list, parsed) ==
    [pc |-> "mount", parsed |-> parsed, asked |-> list, left |-> list, failed |-> {},
     file |-> None, dest |-> None, told |-> "nothing", cancel |-> "no"]

\* Nothing of a thread outlives it.
Gone(pc) ==
    [pc |-> pc, parsed |-> TRUE, asked |-> {}, left |-> {}, failed |-> {},
     file |-> None, dest |-> None, told |-> "nothing", cancel |-> "no"]

Init ==
    /\ mpc = "idle" /\ known = None /\ usbThread = None
    /\ copy = [t \in Copies |-> Gone("ended")]
    /\ drive = None /\ mounts = <<>> /\ held = FALSE
    /\ onDrive = {} /\ onCard = {}
    /\ cut = {} /\ overlapped = FALSE

Alive == mpc # "dead"
At(t, pc) == Alive /\ copy[t].pc = pc
Over(t) == copy[t].pc \in {"ended", "hung"}
AllOver == \A t \in Copies : Over(t)

\* The main thread reads a request of the app, which sees what a copy has told but
\* not the end of its cleanup.
AppAsks ==
    /\ mpc = "idle"
    /\ Waits => \A t \in Copies : Over(t) \/ copy[t].told # "nothing"
    /\ overlapped' = (~AllOver \/ (overlapped /\ (mounts # <<>> \/ held)))

-----------------------------------------------------------------------------
(* mount and umount.                                                        *)

Top == IF mounts = <<>> THEN None ELSE mounts[Len(mounts)]
Below == IF mounts = <<>> THEN mounts ELSE SubSeq(mounts, 1, Len(mounts) - 1)
Mounted == {mounts[i] : i \in 1..Len(mounts)}
Busy == held \/ \E t \in Copies : copy[t].pc = "write"

\* Mutant of MayMount: no look at fsType.
Mut_MountsNothing(name) == name = drive /\ name \notin Mounted

\* tryUsbMount: the kernel refuses to mount a drive onto itself.
MayMount(name) == name # None /\ name = drive /\ Top # name

\* umount, which fails on files in use.
Unmount ==
    /\ mounts' \in {Below} \union (IF Busy THEN {mounts} ELSE {})
    /\ UNCHANGED <<drive, held, onDrive, onCard, cut>>

\* Mutant of LazyUnmount: the command is not run.
Mut_NoLazyUnmount ==
    /\ held' = FALSE /\ cut' = {}
    /\ UNCHANGED <<drive, mounts, onDrive, onCard>>

\* umount -l, which takes the next one off whatever its use.
LazyUnmount ==
    /\ mounts' = Below
    /\ held' = FALSE
    /\ cut' = {}
    /\ UNCHANGED <<drive, onDrive, onCard>>

-----------------------------------------------------------------------------
(* A copy: tryCopyFiles.                                                    *)

\* The answer, and pthread_cleanup_pop(arg): the handler runs only if arg, the list,
\* is not NULL.
Ends(t, answer) ==
    IF copy[t].parsed
    THEN /\ copy' = [copy EXCEPT ![t].pc = "unmount", ![t].told = answer]
         /\ UNCHANGED cut
    ELSE /\ copy' = [copy EXCEPT ![t] = Gone("ended")]
         /\ cut' = cut \union {"unparsed"}

\* Mutant of Mount: the result of tryUsbMount is not looked at.
Mut_MountUnchecked(t) ==
    /\ At(t, "mount")
    /\ copy' = [copy EXCEPT ![t].pc = "copy"]
    /\ mounts' = IF MayMount(known) THEN Append(mounts, known) ELSE mounts
    /\ UNCHANGED <<mpc, known, usbThread, drive, held, onDrive, onCard, cut>>

Mount(t) ==
    /\ At(t, "mount")
    /\ IF MayMount(known)
       THEN /\ copy' = [copy EXCEPT ![t].pc = "copy"]
            /\ mounts' = Append(mounts, known)
            /\ UNCHANGED cut
       ELSE /\ Ends(t, "refused")
            /\ UNCHANGED mounts
    /\ UNCHANGED <<mpc, known, usbThread, drive, held, onDrive, onCard>>

\* Mutant of Rest: a file stays in the list.
Mut_RestAll(list, f) == list

Rest(list, f) == list \ {f}

\* copyFile opens the file on whatever is mounted by now, which empties it.
Open(t) ==
    /\ At(t, "copy")
    /\ Top \in {None, drive}
    /\ \E f \in copy[t].left :
        /\ copy' = [copy EXCEPT ![t].pc = "write", ![t].file = f, ![t].dest = Top,
                                ![t].left = Rest(@, f)]
        /\ onDrive' = IF Top = None THEN onDrive ELSE onDrive \ {f}
        /\ onCard' = IF Top = None THEN onCard \union {f} ELSE onCard
    /\ UNCHANGED <<mpc, known, usbThread, drive, mounts, held, cut>>

\* There is no such recording, no room for another file, or no drive.
OpenFails(t) ==
    /\ At(t, "copy")
    /\ \E f \in copy[t].left :
        copy' = [copy EXCEPT ![t].left = Rest(@, f), ![t].failed = @ \union {f}]
    /\ UNCHANGED <<mpc, known, usbThread, usb>>

Write(t) ==
    /\ At(t, "write")
    /\ copy[t].dest \in {None, drive}
    /\ onDrive' = IF copy[t].dest = None THEN onDrive
                  ELSE onDrive \union {copy[t].file}
    /\ copy' = [copy EXCEPT ![t].pc = "copy", ![t].file = None, ![t].dest = None]
    /\ UNCHANGED <<mpc, known, usbThread, drive, mounts, held, onCard, cut>>

\* Mutant of WriteFails: the result of copyFileToUsb is not looked at.
Mut_FailureUntold(t) ==
    /\ At(t, "write")
    /\ copy' = [copy EXCEPT ![t].pc = "copy", ![t].file = None, ![t].dest = None]
    /\ UNCHANGED <<mpc, known, usbThread, usb>>

\* The disk is full, or the drive is gone.
WriteFails(t) ==
    /\ At(t, "write")
    /\ copy' = [copy EXCEPT ![t].pc = "copy", ![t].file = None, ![t].dest = None,
                            ![t].failed = @ \union {copy[t].file}]
    /\ UNCHANGED <<mpc, known, usbThread, usb>>

Done(t) ==
    /\ At(t, "copy")
    /\ copy[t].left = {}
    /\ Ends(t, "done")
    /\ UNCHANGED <<mpc, known, usbThread, drive, mounts, held, onDrive, onCard>>

\* usbCopyCleanUp: tryUsbUmount.
CleanUp(t) ==
    /\ \/ /\ At(t, "unmount")
          /\ copy' = [copy EXCEPT ![t].pc = "lazy"]
          /\ Unmount
       \/ /\ At(t, "lazy")
          /\ copy' = [copy EXCEPT ![t] = Gone("ended")]
          /\ LazyUnmount
    /\ UNCHANGED <<mpc, known, usbThread>>

\* Where a cancellation leads.  Before the cleanup handler is in place, or in its
\* last run, it just ends the thread; in malloc or stdio it leaves their lock
\* taken and the handler waits for it; else the handler runs.
Cancelled(pc) ==
    CASE pc = "mount" -> {"ended", "unmount"}
      [] pc = "copy" -> {"unmount", "hung"}
      [] pc = "write" -> {"unmount"}
      [] pc \in {"unmount", "lazy"} -> {"ended"}
      [] OTHER -> {}

TakeCancel(t) ==
    /\ Alive
    /\ copy[t].cancel = "sent"
    /\ \E pc \in Cancelled(copy[t].pc) :
        /\ copy' = IF pc = "unmount"
                   THEN [copy EXCEPT ![t].pc = pc, ![t].cancel = "taken",
                                     ![t].file = None, ![t].dest = None]
                   ELSE [copy EXCEPT ![t] = Gone(pc)]
        /\ cut' = IF pc = "hung" \/ copy[t].pc \in {"unmount", "lazy"}
                  THEN cut \union {"cancelled"} ELSE cut
    /\ held' = (held \/ copy[t].pc = "write")
    /\ UNCHANGED <<mpc, known, usbThread, drive, mounts, onDrive, onCard>>

ThreadStep(t) ==
    \/ Mount(t) \/ Open(t) \/ OpenFails(t) \/ Write(t) \/ WriteFails(t)
    \/ Done(t) \/ CleanUp(t)

-----------------------------------------------------------------------------
(* Main thread.                                                             *)

\* ANA_USB_COPY: threadUsbCopy.
Copy(t, list, parsed) ==
    /\ AppAsks
    /\ copy[t].pc = "ended"
    /\ usbThread' = t
    /\ copy' = [copy EXCEPT ![t] = Began(list, parsed)]
    /\ UNCHANGED <<mpc, known, usb>>

\* ANA_USB_COPY_CANCEL: the handle of a thread that has ended, or of none, is not
\* one that pthread_cancel may be given.
Cancel ==
    /\ mpc = "idle"
    /\ IF usbThread = None \/ copy[usbThread].pc = "ended"
       THEN mpc' \in {"idle", "dead"} /\ UNCHANGED copy
       ELSE /\ UNCHANGED mpc
            /\ copy' = IF copy[usbThread].cancel = "no"
                       THEN [copy EXCEPT ![usbThread].cancel = "sent"]
                       ELSE copy
    /\ UNCHANGED <<known, usbThread, usb>>

\* ANA_USB_INFO: getUsbInfo unmounts, looks for the drive, mounts it to read its
\* size, and unmounts again.
InfoBegin ==
    /\ AppAsks
    /\ mpc' = "unmount"
    /\ UNCHANGED <<known, usbThread, copy, usb>>

InfoUnmount ==
    /\ \/ mpc = "unmount" /\ mpc' = "lazy" /\ Unmount
       \/ mpc = "lazy" /\ mpc' = "find" /\ LazyUnmount
       \/ mpc = "unmountAgain" /\ mpc' = "lazyAgain" /\ Unmount
       \/ mpc = "lazyAgain" /\ mpc' = "idle" /\ LazyUnmount
    /\ UNCHANGED <<known, usbThread, copy>>

InfoFind ==
    /\ mpc = "find"
    /\ known' = IF drive = None THEN known ELSE drive
    /\ IF MayMount(drive)
       THEN mpc' = "unmountAgain" /\ mounts' = Append(mounts, drive)
       ELSE mpc' = "idle" /\ UNCHANGED mounts
    /\ UNCHANGED <<usbThread, copy, drive, held, onDrive, onCard, cut>>

Requests ==
    \/ \E t \in Copies : \/ \E list \in SUBSET Files : Copy(t, list, TRUE)
                       \/ Copy(t, {}, FALSE)
    \/ InfoBegin

Main == Cancel \/ InfoUnmount \/ InfoFind

-----------------------------------------------------------------------------
(* The user.  A drive gets a name that nothing mounted or written to holds.  *)

Plug(name) ==
    /\ Alive
    /\ drive = None
    /\ name \notin Mounted
    /\ \A t \in Copies : copy[t].pc = "write" => copy[t].dest # name
    /\ drive' = name
    /\ UNCHANGED <<mpc, known, usbThread, copy, mounts, held, onDrive, onCard, cut>>

Unplug ==
    /\ Alive
    /\ drive # None
    /\ drive' = None
    /\ UNCHANGED <<mpc, known, usbThread, copy, mounts, held, onDrive, onCard, cut>>

Next ==
    \/ Requests
    \/ /\ \/ Main
          \/ \E t \in Copies : ThreadStep(t) \/ TakeCancel(t)
          \/ \E name \in Names : Plug(name)
          \/ Unplug
       /\ UNCHANGED overlapped

\* A thread that can run does.  Nothing is asked of the app and the user.
Spec ==
    /\ Init /\ [][Next]_vars
    /\ \A t \in Copies : WF_vars(ThreadStep(t) /\ UNCHANGED overlapped)

-----------------------------------------------------------------------------
(* Properties.                                                              *)

\* Types.
TypeOK ==
    /\ mpc \in {"idle", "unmount", "lazy", "find", "unmountAgain", "lazyAgain",
                "dead"}
    /\ known \in Names \union {None} /\ usbThread \in Copies \union {None}
    /\ copy \in [Copies -> Thread]
    /\ drive \in Names \union {None} /\ mounts \in Seq(Names)
    /\ held \in BOOLEAN /\ overlapped \in BOOLEAN
    /\ cut \subseteq {"cancelled", "unparsed"}
    /\ onDrive \subseteq Files /\ onCard \subseteq Files

\* What a copy has told is true, every file of its list being whole on the drive
\* or reported.
ToldTruth ==
    \A t \in Copies :
        copy[t].told = "done" /\ copy[t].pc = "unmount" =>
            copy[t].asked \ copy[t].failed \subseteq onDrive

\* As long as requests do not overlap copies, ANA_USB_COPY_DONE_NTF is true whatever
\* was pulled, full or cancelled before, and copies that overlapped do no harm any
\* more once all is over and unmounted.
DoneMeansOnDrive == ~overlapped => ToldTruth

\* Nor is anything written to the memory card at the place where the drive belongs.
NothingOnCard == [][~overlapped => onCard' = onCard]_vars

\* When nothing is at work the drive can be pulled: nothing is mounted, unless a
\* request overlapped a copy, a cancellation took a cleanup away, or a list was no
\* JSON.
UnmountedAtRest == mpc = "idle" /\ AllOver /\ ~overlapped /\ cut = {} => mounts = <<>>

\* Every copy comes to its end, or hangs in a cancellation, or the process dies.
CopyEnds == \A t \in Copies : copy[t].pc = "mount" ~> Over(t) \/ ~Alive

-----------------------------------------------------------------------------
(* What comments of the code say of it.                                     *)

\* A copy tells that it is complete (gpr_socket_ana.c:143): it is, with requests
\* of any time.
CompleteWhenTold == ToldTruth

\* A copy ends with the unmount (gpr_socket_ana.c:286), unless it is cancelled.
CopyUnmounts ==
    mpc = "idle" /\ AllOver /\ ~overlapped /\ "cancelled" \notin cut => mounts = <<>>
=============================================================================
