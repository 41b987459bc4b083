----------------------------- MODULE RecordingStore -----------------------------
(***************************************************************************)
(* The recordings on the disk, event by event: which file an event of the  *)
(* app creates, empties, completes or removes (gpr_socket.c socket_read,   *)
(* gpr_socket_acq.c, dir_control.c), over any order of events, sessions,   *)
(* directory listings, deaths of the process and power cuts.  The main     *)
(* thread handles one event at a time, so an event is one step; what the   *)
(* interrupt thread does between them is the subject of Recorder.          *)
(*                                                                         *)
(* A recording is a file <<directory, number>> of one site: directory 0 is *)
(* the site's 2D folder, directory k > 0 the 3D folder "kM...".  Its first *)
(* 256 bytes are blank until ACQ_SAVE writes the app's header there.       *)
(*                                                                         *)
(* What the program does to its files it does to the kernel's memory: it   *)
(* never syncs.  The kernel writes a file's state back to the memory card  *)
(* when it likes; a power cut leaves what is on the card.                  *)
(***************************************************************************)
EXTENDS Integers, FiniteSets

CONSTANTS MaxFiles,  \* bound: numbers of 2D files
          MaxDirs,   \* bound: 3D folders
          MaxLines,  \* bound: lines of a 3D folder
          FdLimit,   \* file descriptors there are for files
          Ordered    \* the app follows a change of scan mode by ACQ_INFO with
                     \* an empty path before any other event, and ACQ_INFO
                     \* names no path but the one that the server last told

ASSUME BoundsAssumption ==
    /\ MaxFiles \in Nat /\ MaxDirs \in Nat /\ FdLimit \in Nat
    /\ MaxLines \in 0..MaxFiles
ASSUME OrderedAssumption == Ordered \in BOOLEAN

NoPath == -1
Numbers == 1..MaxFiles
Folders == 1..MaxDirs
Directories == {0} \union Folders
Lines == 1..MaxLines
Paths == ({0} \X Numbers) \union (Folders \X Lines)

VARIABLES
    blank,     \* recordings without a header, as the program sees the disk
    whole,     \* recordings with their header
    dirs,      \* 3D folders
    cardBlank, cardWhole, cardDirs,  \* the same, as they are on the card
    savePath,  \* acqCon.savePath: NoPath, or a directory
    fileName,  \* acqCon.fileName: a number, 0 for NULL
    scan3D,    \* headerParameter.cScanMode # 0
    runAcq,    \* acqCon.runAcq
    isOpen,    \* acqCon.fp # NULL
    leaked,    \* descriptors that are never closed
    saved,     \* history: recordings acknowledged by ACQ_SAVE_NTF that the user
               \* did not remove and no power cut met on their way to the card
    safe,      \* history: those of them that have reached the card
    exhausted  \* history: a listing has run out of descriptors

disk == <<blank, whole, dirs>>
target == <<savePath, fileName>>
card == <<cardBlank, cardWhole, cardDirs>>
vars == <<disk, card, target, scan3D, runAcq, isOpen, leaked, saved, safe, exhausted>>

Init ==
    /\ blank = {} /\ whole = {} /\ dirs = {}
    /\ cardBlank = {} /\ cardWhole = {} /\ cardDirs = {}
    /\ savePath = NoPath /\ fileName = 0
    /\ scan3D = FALSE /\ runAcq = FALSE /\ isOpen = FALSE
    /\ leaked = 0
    /\ saved = {} /\ safe = {} /\ exhausted = FALSE

Current == <<savePath, fileName>>
OnDisk == blank \union whole
HasTarget == savePath # NoPath /\ fileName # 0
FilesOf(d) == {f \in OnDisk : f[1] = d}
FreeFds == FdLimit - leaked - (IF isOpen THEN 1 ELSE 0)

\* The path on the server and the scan mode speak of the same kind of recording.
InSync == savePath # NoPath => (scan3D <=> savePath # 0)
AppMay == Ordered => InSync

-----------------------------------------------------------------------------
(* makeSavePath: the first number that is not on the disk.                  *)

\* Mutant of FreeNumbers: the first number is taken without a look at the disk.
Mut_FreeUnchecked(files) == Numbers

FreeNumbers(files) == {n \in Numbers : <<0, n>> \notin files}
FreeFolders == Folders \ dirs
IsFirst(n, S) == n \in S /\ \A m \in S : n <= m

\* In 3D the name of the file is the app's; only the folder is made up.
MakeSavePath(name, files) ==
    IF scan3D
    THEN \E k \in Folders :
            /\ IsFirst(k, FreeFolders)
            /\ savePath' = k /\ fileName' = name
    ELSE \E n \in Numbers :
            /\ IsFirst(n, FreeNumbers(files))
            /\ savePath' = 0 /\ fileName' = n

-----------------------------------------------------------------------------
(* Events of the acquisition screen.                                        *)

SetHeader(is3D) ==
    /\ AppMay
    /\ scan3D' = is3D
    /\ UNCHANGED <<disk, target, runAcq, isOpen, leaked, saved, exhausted>>

\* ACQ_INFO with an empty path.
InfoNewPath(line) ==
    /\ MakeSavePath(line, OnDisk)
    /\ UNCHANGED <<disk, scan3D, runAcq, isOpen, leaked, saved, exhausted>>

\* ACQ_INFO with a path: whichever the app sends.  One that keeps the order sends
\* the path that it was told, in 3D with the file name of the next line.
InfoPath(d, n) ==
    /\ Ordered => InSync /\ HasTarget /\ d = savePath /\ (scan3D \/ n = fileName)
    /\ savePath' = d /\ fileName' = n
    /\ UNCHANGED <<disk, scan3D, runAcq, isOpen, leaked, saved, exhausted>>

\* In 3D the app records a line again, or cancels it, under the name it has.
TakenBack == saved' = IF scan3D THEN saved \ {Current} ELSE saved

\* startAcq, on a disk without the files in gone: an existing file is emptied.
StartAcq(gone, fds) ==
    /\ runAcq' = TRUE
    /\ dirs' = IF savePath \in Folders THEN dirs \union {savePath} ELSE dirs
    /\ isOpen' = (fds > 0)
    /\ IF fds > 0
       THEN /\ blank' = (blank \ gone) \union {Current}
            /\ whole' = (whole \ gone) \ {Current}
       ELSE /\ blank' = blank \ gone
            /\ whole' = whole \ gone

\* ACQ_START; the file of a recording that still runs is never closed.
Start ==
    /\ AppMay
    /\ HasTarget
    /\ StartAcq({}, FreeFds)
    /\ leaked' = IF isOpen THEN leaked + 1 ELSE leaked
    /\ TakenBack
    /\ UNCHANGED <<target, scan3D, exhausted>>

\* stopAcq: ACQ_STOP, and socket_close when the client goes.
Stop ==
    /\ runAcq' = FALSE /\ isOpen' = FALSE
    /\ UNCHANGED <<disk, target, scan3D, leaked, saved, exhausted>>

\* ACQ_NON_SAVE: deleteAcqFile, whether the file is open or not.
NonSave ==
    /\ AppMay
    /\ HasTarget
    /\ blank' = blank \ {Current} /\ whole' = whole \ {Current}
    /\ TakenBack
    /\ UNCHANGED <<dirs, target, scan3D, runAcq, isOpen, leaked, exhausted>>

\* ACQ_REFRESH: the file is removed and, while recording, begun again.
Refresh ==
    /\ AppMay
    /\ HasTarget
    /\ IF runAcq
       THEN StartAcq({Current}, FdLimit - leaked)
       ELSE /\ blank' = blank \ {Current} /\ whole' = whole \ {Current}
            /\ isOpen' = FALSE
            /\ UNCHANGED <<dirs, runAcq>>
    /\ TakenBack
    /\ UNCHANGED <<target, scan3D, leaked, exhausted>>

\* saveAcq: the header goes into the file, if it is there and can be opened.
SaveAcq ==
    IF Current \in OnDisk /\ FreeFds > 0
    THEN /\ blank' = blank \ {Current}
         /\ whole' = whole \union {Current}
         /\ saved' = saved \union {Current}
    ELSE UNCHANGED <<blank, whole, saved>>

\* Mutant of Save: no new path in 2D.
Mut_SaveKeepsPath ==
    /\ AppMay
    /\ HasTarget
    /\ SaveAcq
    /\ UNCHANGED <<dirs, target, scan3D, runAcq, isOpen, leaked, exhausted>>

\* ACQ_SAVE, acknowledged or answered with ACQ_SAVE_FAILED_NTF; in 2D the next path
\* is made up in either case.
Save ==
    /\ AppMay
    /\ HasTarget
    /\ SaveAcq
    /\ IF scan3D THEN UNCHANGED target ELSE MakeSavePath(fileName, OnDisk)
    /\ UNCHANGED <<dirs, scan3D, runAcq, isOpen, leaked, exhausted>>

-----------------------------------------------------------------------------
(* Directory listings: getDirList opens every recording to look at its      *)
(* header, never closes it, and removes one that it finds blank or cannot   *)
(* read.  opendir needs a descriptor of its own meanwhile.                  *)

\* Mutant of Opened: a descriptor for each recording, whatever the limit.
Mut_OpenedAll(d, fds) == {FilesOf(d)}

\* The recordings of d that can be opened with so many descriptors.
Opened(d, fds) ==
    {S \in SUBSET FilesOf(d) :
        Cardinality(S) = IF Cardinality(FilesOf(d)) < fds
                         THEN Cardinality(FilesOf(d)) ELSE fds}

Readable(S) == S \intersect whole

ListDir(d) ==
    /\ FreeFds > 0
    /\ \E S \in Opened(d, FreeFds - 1) :
        /\ blank' = blank \ FilesOf(d)
        /\ whole' = whole \ (FilesOf(d) \ Readable(S))
        /\ leaked' = leaked + Cardinality(S)
        /\ exhausted' = (exhausted \/ S # FilesOf(d))
    /\ UNCHANGED <<dirs, target, scan3D, runAcq, isOpen, saved>>

\* ANA_DELETE_FILE.
DeleteFile(f) ==
    /\ f \in OnDisk
    /\ blank' = blank \ {f} /\ whole' = whole \ {f}
    /\ saved' = saved \ {f}
    /\ UNCHANGED <<dirs, target, scan3D, runAcq, isOpen, leaked, exhausted>>

\* A listing of d, deleteDirList of what it lists and rmdir of d: what the listing
\* reads is removed by deleteDirList, the rest by the listing itself.  Without
\* a descriptor there is no listing and rmdir fails on a folder in use.
EmptyDir(d, fds) ==
    IF fds > 0
    THEN \E S \in Opened(d, fds - 1) :
            /\ blank' = blank \ FilesOf(d)
            /\ whole' = whole \ FilesOf(d)
            /\ dirs' = dirs \ {d}
            /\ leaked' = leaked + Cardinality(S)
    ELSE /\ dirs' = IF FilesOf(d) = {} THEN dirs \ {d} ELSE dirs
         /\ UNCHANGED <<blank, whole, leaked>>

Outside(d) == {f \in saved : f[1] # d}

\* ANA_DELETE_FOLDER.
DeleteFolder(d) ==
    /\ EmptyDir(d, FreeFds)
    /\ saved' = Outside(d)
    /\ UNCHANGED <<target, scan3D, runAcq, isOpen, exhausted>>

\* ACQ_ABNORMAL_QUIT: stopAcq, then the 2D file or, in 3D, all there is at
\* savePath; the 3D recordings go with their folder, 2D ones are no part of it.
AbnormalQuit ==
    /\ AppMay
    /\ HasTarget
    /\ runAcq' = FALSE /\ isOpen' = FALSE
    /\ IF scan3D
       THEN /\ EmptyDir(savePath, FdLimit - leaked)
            /\ saved' = IF savePath = 0 THEN saved ELSE Outside(savePath)
       ELSE /\ blank' = blank \ {Current} /\ whole' = whole \ {Current}
            /\ UNCHANGED <<dirs, leaked, saved>>
    /\ UNCHANGED <<target, scan3D, exhausted>>

Event ==
    \/ \E is3D \in BOOLEAN : SetHeader(is3D)
    \/ \E line \in Lines : InfoNewPath(line)
    \/ \E p \in Paths : InfoPath(p[1], p[2])
    \/ Start \/ Stop \/ NonSave \/ Refresh \/ Save \/ AbnormalQuit
    \/ \E d \in Directories : ListDir(d) \/ DeleteFolder(d)
    \/ \E f \in Paths : DeleteFile(f)

-----------------------------------------------------------------------------
(* The kernel, and how the program ends.                                    *)

\* No event waits for the card.
ProgramStep ==
    /\ Event
    /\ safe' = safe \intersect saved'
    /\ UNCHANGED card

Follow(f, seen, written) == IF f \in seen THEN written \union {f} ELSE written \ {f}

\* A file reaches the card as it is now, and with it the folder that it is in.
WriteBack(f) ==
    /\ cardBlank' = Follow(f, blank, cardBlank)
    /\ cardWhole' = Follow(f, whole, cardWhole)
    /\ cardDirs' = IF f \in OnDisk THEN cardDirs \union ({f[1]} \ {0}) ELSE cardDirs
    /\ safe' = safe \union ({f} \intersect saved \intersect whole)
    /\ UNCHANGED <<disk, target, scan3D, runAcq, isOpen, leaked, saved, exhausted>>

\* A new folder does, or the removal of one after that of its files.
WriteBackDir(d) ==
    /\ d \in dirs \/ ~\E f \in cardBlank \union cardWhole : f[1] = d
    /\ cardDirs' = Follow(d, dirs, cardDirs)
    /\ UNCHANGED <<disk, cardBlank, cardWhole, target, scan3D, runAcq, isOpen, leaked,
                   saved, safe, exhausted>>

\* The program starts with nothing of acqCon and with all its descriptors.
StartOver ==
    /\ savePath' = NoPath /\ fileName' = 0
    /\ scan3D' = FALSE /\ runAcq' = FALSE /\ isOpen' = FALSE
    /\ leaked' = 0

\* The process dies and starts again: the files are as it left them.
Die ==
    /\ StartOver
    /\ UNCHANGED <<disk, card, saved, safe, exhausted>>

\* The device is switched off and on again: the files are what the card has.
PowerCut ==
    /\ StartOver
    /\ blank' = cardBlank /\ whole' = cardWhole /\ dirs' = cardDirs
    /\ saved' = safe
    /\ UNCHANGED <<card, safe, exhausted>>

Next ==
    \/ ProgramStep
    \/ \E f \in Paths : WriteBack(f)
    \/ \E d \in Folders : WriteBackDir(d)
    \/ Die
    \/ PowerCut

Spec == Init /\ [][Next]_vars

-----------------------------------------------------------------------------
(* Properties.                                                              *)

\* Types; no more descriptors are in use than there are.
TypeOK ==
    /\ blank \subseteq Paths /\ whole \subseteq Paths
    /\ dirs \subseteq Folders
    /\ cardBlank \subseteq Paths /\ cardWhole \subseteq Paths /\ cardDirs \subseteq Folders
    /\ savePath \in {NoPath} \union Directories
    /\ fileName \in {0} \union Numbers
    /\ scan3D \in BOOLEAN /\ runAcq \in BOOLEAN /\ isOpen \in BOOLEAN
    /\ leaked \in 0..FdLimit /\ FreeFds >= 0
    /\ saved \subseteq Paths /\ safe \subseteq saved /\ exhausted \in BOOLEAN

\* As long as descriptors last, a recording that was acknowledged as saved keeps
\* its data and its header through every later start, refresh, cancel, abnormal
\* quit, listing and death of the process, and from when the kernel has written it
\* to the card through every power cut, until the user deletes it or, in 3D,
\* records the line again or gives the folder up.
SavedKept == Ordered /\ ~exhausted => saved \subseteq whole

\* In 2D the file that the next event will empty, complete or remove is never one
\* that was acknowledged as saved: every path on that way is a fresh one.
TargetNotSaved ==
    Ordered /\ ~exhausted /\ InSync /\ ~scan3D => Current \notin saved

-----------------------------------------------------------------------------
(* What comments of the code say of it.                                     *)

\* ACQ_ABNORMAL_QUIT removes the 2D file in progress, or a 3D folder: no saved 2D
\* recording is lost to it.
QuitSparesSaved ==
    [][AbnormalQuit => \A f \in saved \intersect whole : f[1] = 0 => f \in whole']_vars

\* saveAcq completes the save (gpr_socket_acq.c): what was acknowledged by
\* ACQ_SAVE_NTF is there after a power cut too.
SavedOutlastsPower == [][PowerCut => saved \subseteq whole']_vars

\* A listing removes only recordings whose header is blank.
ListingRemovesBlank == [][(\E d \in Directories : ListDir(d)) => whole' = whole]_vars
=============================================================================
