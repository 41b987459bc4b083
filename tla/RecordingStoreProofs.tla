-------------------------- MODULE RecordingStoreProofs --------------------------
(***************************************************************************)
(* No saved recording is lost, for any number of files, folders, lines and *)
(* descriptors.  What carries the proof is TargetNotSaved: the path that   *)
(* the next event works on is fresh in 2D, and only makeSavePath makes one.*)
(***************************************************************************)
EXTENDS RecordingStore, FiniteSetTheorems, TLAPS

\* The recordings, by an app that follows a change of mode by ACQ_INFO.
StoreInv == SavedKept /\ TargetNotSaved

\* The path is one that makeSavePath can make; in a 3D folder it ends on a line.
PathType ==
    /\ savePath \in {NoPath} \union Directories
    /\ fileName \in {0} \union Numbers
    /\ savePath \in Folders => fileName \in Lines

\* A recording on the disk has a directory and a number.
DiskType == blank \subseteq Paths /\ whole \subseteq Paths

SavedType == saved \subseteq Paths

CardType == cardBlank \subseteq Paths /\ cardWhole \subseteq Paths /\ cardDirs \subseteq Folders

\* What is said to have reached the card is there.
SafeInv ==
    /\ safe \subseteq saved
    /\ Ordered /\ ~exhausted => safe \subseteq cardWhole

IInv == PathType /\ DiskType /\ SavedType /\ StoreInv /\ CardType /\ SafeInv

-----------------------------------------------------------------------------
(* makeSavePath, and what an event may rely on.                             *)

\* In 2D makeSavePath ends on a name that no file has.
LEMMA FreshPath ==
    ASSUME NEW name, NEW files, ~scan3D, MakeSavePath(name, files)
    PROVE  savePath' = 0 /\ Current' \notin files
BY DEF MakeSavePath, IsFirst, FreeNumbers, Current

\* It ends on a path of the kind that the scan mode calls for.
LEMMA MadePath ==
    ASSUME NEW name, NEW files, MakeSavePath(name, files),
           ~scan3D \/ name \in Lines
    PROVE  PathType'
<1>1. CASE scan3D
  <2>1. PICK k \in Folders : savePath' = k /\ fileName' = name
    BY <1>1 DEF MakeSavePath
  <2>2. name \in Lines /\ name \in Numbers
    BY <1>1, BoundsAssumption DEF Lines, Numbers
  <2> QED
    BY <2>1, <2>2 DEF PathType, Directories
<1>2. CASE ~scan3D
  <2>1. PICK n \in Numbers : savePath' = 0 /\ fileName' = n
    BY <1>2 DEF MakeSavePath
  <2>2. 0 \notin Folders
    BY BoundsAssumption DEF Folders
  <2> QED
    BY <2>1, <2>2 DEF PathType, Directories
<1> QED
  BY <1>1, <1>2

\* No path is not the path of a directory.
LEMMA NoPathNoDirectory ==
    NoPath \notin Directories
BY DEF NoPath, Directories, Folders

\* A target is a possible path.
LEMMA TargetIsPath ==
    ASSUME PathType, HasTarget
    PROVE  Current \in Paths
<1>1. fileName \in Numbers /\ savePath \in Directories
  BY DEF PathType, HasTarget
<1>2. CASE savePath = 0
  BY <1>1, <1>2 DEF Current, Paths
<1>3. CASE savePath \in Folders
  BY <1>3 DEF Current, Paths, PathType
<1> QED
  BY <1>1, <1>2, <1>3 DEF Directories

\* Where there is no path there is nothing saved.
LEMMA NoPathNotSaved ==
    ASSUME SavedType, savePath = NoPath
    PROVE  Current \notin saved
<1>1. ASSUME Current \in Paths
      PROVE  savePath \in Directories
  BY <1>1 DEF Current, Paths, Directories
<1> QED
  BY <1>1, NoPathNoDirectory DEF SavedType

-----------------------------------------------------------------------------
(* Types.                                                                   *)

LEMMA EventPath ==
    ASSUME PathType, Event
    PROVE  PathType'
<1> USE DEF PathType, disk, target
<1>1. ASSUME NEW is3D \in BOOLEAN, SetHeader(is3D)
      PROVE  PathType'
  BY <1>1 DEF SetHeader
<1>2. ASSUME NEW line \in Lines, InfoNewPath(line)
      PROVE  PathType'
  <2>1. line \in Numbers
    BY BoundsAssumption DEF Lines, Numbers
  <2>2. MakeSavePath(line, OnDisk)
    BY <1>2 DEF InfoNewPath
  <2> QED
    BY <2>1, <2>2, MadePath
<1>3. ASSUME NEW p \in Paths, InfoPath(p[1], p[2])
      PROVE  PathType'
  <2>1. 0 \notin Folders /\ Lines \subseteq Numbers
    BY BoundsAssumption DEF Folders, Lines, Numbers
  <2>2. savePath' = p[1] /\ fileName' = p[2]
    BY <1>3 DEF InfoPath
  <2> QED
    BY <2>1, <2>2 DEF Paths, Directories
<1>4. CASE Start \/ Stop \/ NonSave \/ Refresh
  BY <1>4 DEF Start, Stop, NonSave, Refresh
<1>5. CASE Save
  <2>1. CASE scan3D
    BY <1>5, <2>1 DEF Save, SaveAcq
  <2>2. CASE ~scan3D
    BY <1>5, <2>2, MadePath DEF Save, SaveAcq
  <2> QED
    BY <2>1, <2>2
<1>6. CASE AbnormalQuit
  BY <1>6 DEF AbnormalQuit
<1>7. ASSUME NEW d \in Directories, ListDir(d) \/ DeleteFolder(d)
      PROVE  PathType'
  BY <1>7 DEF ListDir, DeleteFolder
<1>8. ASSUME NEW f \in Paths, DeleteFile(f)
      PROVE  PathType'
  BY <1>8 DEF DeleteFile
<1> QED
  BY <1>1, <1>2, <1>3, <1>4, <1>5, <1>6, <1>7, <1>8
  DEF Event

LEMMA StartDisk ==
    ASSUME PathType, DiskType, HasTarget, NEW gone, NEW fds,
           StartAcq(gone, fds)
    PROVE  DiskType'
<1>1. Current \in Paths
  BY TargetIsPath
<1> QED
  BY <1>1 DEF StartAcq, DiskType

LEMMA EventDisk ==
    ASSUME PathType, DiskType, Event
    PROVE  DiskType'
<1> USE DEF DiskType, disk, target
<1>1. ASSUME NEW is3D \in BOOLEAN, SetHeader(is3D)
      PROVE  DiskType'
  BY <1>1 DEF SetHeader
<1>2. ASSUME NEW line \in Lines, InfoNewPath(line)
      PROVE  DiskType'
  BY <1>2 DEF InfoNewPath
<1>3. ASSUME NEW p \in Paths, InfoPath(p[1], p[2])
      PROVE  DiskType'
  BY <1>3 DEF InfoPath
<1>4. CASE Start
  BY <1>4, StartDisk DEF Start
<1>5. CASE Refresh
  <2>1. CASE runAcq
    BY <1>5, <2>1, StartDisk DEF Refresh
  <2>2. CASE ~runAcq
    BY <1>5, <2>2 DEF Refresh
  <2> QED
    BY <2>1, <2>2
<1>6. CASE Stop \/ NonSave
  BY <1>6 DEF Stop, NonSave
<1>7. CASE Save
  <2>1. HasTarget /\ Current \in Paths
    BY <1>7, TargetIsPath DEF Save, SaveAcq
  <2> QED
    BY <1>7, <2>1 DEF Save, SaveAcq
<1>8. CASE AbnormalQuit
  BY <1>8 DEF AbnormalQuit, EmptyDir
<1>9. ASSUME NEW d \in Directories, ListDir(d) \/ DeleteFolder(d)
      PROVE  DiskType'
  BY <1>9 DEF ListDir, DeleteFolder, EmptyDir
<1>10. ASSUME NEW f \in Paths, DeleteFile(f)
       PROVE  DiskType'
  BY <1>10 DEF DeleteFile
<1> QED
  BY <1>1, <1>2, <1>3, <1>4, <1>5, <1>6, <1>7, <1>8, <1>9, <1>10
  DEF Event

LEMMA EventSaved ==
    ASSUME SavedType, DiskType, Event
    PROVE  SavedType'
<1> USE DEF SavedType, disk, target, TakenBack
<1>1. ASSUME NEW is3D \in BOOLEAN, SetHeader(is3D)
      PROVE  SavedType'
  BY <1>1 DEF SetHeader
<1>2. ASSUME NEW line \in Lines, InfoNewPath(line)
      PROVE  SavedType'
  BY <1>2 DEF InfoNewPath
<1>3. ASSUME NEW p \in Paths, InfoPath(p[1], p[2])
      PROVE  SavedType'
  BY <1>3 DEF InfoPath
<1>4. CASE Start \/ Stop \/ NonSave \/ Refresh
  BY <1>4 DEF Start, Stop, NonSave, Refresh
<1>5. CASE Save
  BY <1>5 DEF Save, SaveAcq, OnDisk, DiskType
<1>6. CASE AbnormalQuit
  BY <1>6 DEF AbnormalQuit, Outside
<1>7. ASSUME NEW d \in Directories, ListDir(d) \/ DeleteFolder(d)
      PROVE  SavedType'
  BY <1>7 DEF ListDir, DeleteFolder, Outside
<1>8. ASSUME NEW f \in Paths, DeleteFile(f)
      PROVE  SavedType'
  BY <1>8 DEF DeleteFile
<1> QED
  BY <1>1, <1>2, <1>3, <1>4, <1>5, <1>6, <1>7, <1>8
  DEF Event

-----------------------------------------------------------------------------
(* No saved recording is lost.                                              *)

\* Outside 3D an app that keeps its order never starts, cancels or begins again
\* a recording that is saved.
LEMMA WorksOnUnsaved ==
    ASSUME TargetNotSaved, AppMay, Ordered, ~exhausted, ~scan3D
    PROVE  Current \notin saved
BY DEF TargetNotSaved, AppMay

\* Taking a recording back in 3D takes it out of the saved ones.
LEMMA TakenBackSafe ==
    ASSUME StoreInv, AppMay, Ordered, ~exhausted, TakenBack
    PROVE  saved' \subseteq whole \ {Current}
<1>1. saved \subseteq whole
  BY DEF StoreInv, SavedKept
<1>2. CASE scan3D
  BY <1>1, <1>2 DEF TakenBack
<1>3. CASE ~scan3D
  BY <1>1, <1>3, WorksOnUnsaved DEF TakenBack, StoreInv
<1> QED
  BY <1>2, <1>3

\* An emptied directory keeps what is outside it.
LEMMA OutsideSafe ==
    ASSUME saved \subseteq whole, NEW d, NEW fds, EmptyDir(d, fds)
    PROVE  Outside(d) \subseteq whole'
BY DEF EmptyDir, Outside, FilesOf

\* What a listing has run out of it has run out of for ever.
LEMMA EventExhausted ==
    ASSUME Event
    PROVE  exhausted => exhausted'
<1> USE DEF disk, target
<1>1. ASSUME NEW is3D \in BOOLEAN, SetHeader(is3D)
      PROVE  exhausted => exhausted'
  BY <1>1 DEF SetHeader
<1>2. ASSUME NEW line \in Lines, InfoNewPath(line)
      PROVE  exhausted => exhausted'
  BY <1>2 DEF InfoNewPath
<1>3. ASSUME NEW p \in Paths, InfoPath(p[1], p[2])
      PROVE  exhausted => exhausted'
  BY <1>3 DEF InfoPath
<1>4. CASE Start \/ Stop \/ NonSave \/ Refresh \/ Save \/ AbnormalQuit
  BY <1>4 DEF Start, Stop, NonSave, Refresh, Save, AbnormalQuit
<1>5. ASSUME NEW d \in Directories, ListDir(d) \/ DeleteFolder(d)
      PROVE  exhausted => exhausted'
  BY <1>5 DEF ListDir, DeleteFolder
<1>6. ASSUME NEW f \in Paths, DeleteFile(f)
      PROVE  exhausted => exhausted'
  BY <1>6 DEF DeleteFile
<1> QED
  BY <1>1, <1>2, <1>3, <1>4, <1>5, <1>6
  DEF Event

LEMMA EventKept ==
    ASSUME PathType, StoreInv, Event
    PROVE  SavedKept'
<1> SUFFICES ASSUME Ordered, ~exhausted'
             PROVE  saved' \subseteq whole'
  BY DEF SavedKept
<1> USE DEF disk, target
<1>0. ASSUME ~exhausted
      PROVE  saved \subseteq whole
  BY <1>0 DEF StoreInv, SavedKept
<1>1. ASSUME NEW is3D \in BOOLEAN, SetHeader(is3D)
      PROVE  saved' \subseteq whole'
  BY <1>0, <1>1 DEF SetHeader
<1>2. ASSUME NEW line \in Lines, InfoNewPath(line)
      PROVE  saved' \subseteq whole'
  BY <1>0, <1>2 DEF InfoNewPath
<1>3. ASSUME NEW p \in Paths, InfoPath(p[1], p[2])
      PROVE  saved' \subseteq whole'
  BY <1>0, <1>3 DEF InfoPath
<1>4. CASE Start
  <2>1. saved' \subseteq whole \ {Current}
    BY <1>4, TakenBackSafe DEF Start
  <2> QED
    BY <1>4, <2>1 DEF Start, StartAcq
<1>5. CASE Refresh
  <2>1. saved' \subseteq whole \ {Current}
    BY <1>5, TakenBackSafe DEF Refresh
  <2> QED
    BY <1>5, <2>1 DEF Refresh, StartAcq
<1>6. CASE NonSave
  <2>1. saved' \subseteq whole \ {Current}
    BY <1>6, TakenBackSafe DEF NonSave
  <2> QED
    BY <1>6, <2>1 DEF NonSave
<1>7. CASE Stop
  BY <1>0, <1>7 DEF Stop
<1>8. CASE Save
  BY <1>0, <1>8 DEF Save, SaveAcq
<1>9. CASE AbnormalQuit
  <2>1. saved \subseteq whole /\ ~exhausted /\ AppMay
    BY <1>0, <1>9 DEF AbnormalQuit
  <2>2. CASE scan3D
    <3>1. savePath # 0
      BY <1>9, <2>1, <2>2 DEF AppMay, InSync, HasTarget, AbnormalQuit
    <3>2. EmptyDir(savePath, FdLimit - leaked) /\ saved' = Outside(savePath)
      BY <1>9, <2>2, <3>1 DEF AbnormalQuit
    <3> QED
      BY <2>1, <3>2, OutsideSafe
  <2>3. CASE ~scan3D
    <3>1. Current \notin saved
      BY <2>1, <2>3, WorksOnUnsaved DEF StoreInv
    <3> QED
      BY <1>9, <2>1, <2>3, <3>1 DEF AbnormalQuit
  <2> QED
    BY <2>2, <2>3
<1>10. ASSUME NEW d \in Directories, ListDir(d)
       PROVE  saved' \subseteq whole'
  <2>1. PICK S : /\ whole' = whole \ (FilesOf(d) \ Readable(S))
                 /\ exhausted' = (exhausted \/ S # FilesOf(d))
    BY <1>10 DEF ListDir
  <2>2. S = FilesOf(d) /\ ~exhausted
    BY <2>1
  <2>3. FilesOf(d) \ Readable(S) \subseteq blank \ whole
    BY <2>2 DEF Readable, FilesOf, OnDisk
  <2>4. saved' = saved
    BY <1>10 DEF ListDir
  <2> QED
    BY <1>0, <2>1, <2>2, <2>3, <2>4
<1>11. ASSUME NEW d \in Directories, DeleteFolder(d)
       PROVE  saved' \subseteq whole'
  BY <1>0, <1>11, OutsideSafe DEF DeleteFolder
<1>12. ASSUME NEW f \in Paths, DeleteFile(f)
       PROVE  saved' \subseteq whole'
  BY <1>0, <1>12 DEF DeleteFile
<1> QED
  BY <1>1, <1>2, <1>3, <1>4, <1>5, <1>6, <1>7, <1>8, <1>9, <1>10, <1>11, <1>12
  DEF Event

LEMMA EventTarget ==
    ASSUME SavedType, PathType, StoreInv, Event, SavedType'
    PROVE  TargetNotSaved'
<1> SUFFICES ASSUME Ordered, ~exhausted', InSync', ~scan3D'
             PROVE  Current' \notin saved'
  BY DEF TargetNotSaved
<1> USE DEF disk, target
<1>0. ASSUME ~exhausted, InSync, ~scan3D, UNCHANGED target,
             saved' \subseteq saved
      PROVE  Current' \notin saved'
  BY <1>0 DEF StoreInv, TargetNotSaved, Current
<1>1. ASSUME NEW is3D \in BOOLEAN, SetHeader(is3D)
      PROVE  Current' \notin saved'
  <2>1. CASE savePath = NoPath
    <3>1. Current' = Current /\ saved' = saved
      BY <1>1 DEF SetHeader, Current
    <3> QED
      BY <2>1, <3>1, NoPathNotSaved
  <2>2. CASE savePath # NoPath
    <3>1. InSync /\ ~exhausted /\ savePath' = savePath
      BY <1>1 DEF SetHeader, AppMay
    <3>2. ~scan3D
      BY <2>2, <3>1 DEF InSync
    <3> QED
      BY <1>0, <1>1, <3>1, <3>2 DEF SetHeader
  <2> QED
    BY <2>1, <2>2
<1>2. ASSUME NEW line \in Lines, InfoNewPath(line)
      PROVE  Current' \notin saved'
  <2>1. saved' = saved /\ scan3D' = scan3D /\ exhausted' = exhausted
    BY <1>2 DEF InfoNewPath
  <2>2. saved \subseteq whole
    BY <2>1 DEF StoreInv, SavedKept
  <2>3. Current' \notin OnDisk
    BY <1>2, <2>1, FreshPath DEF InfoNewPath
  <2> QED
    BY <2>1, <2>2, <2>3 DEF OnDisk
<1>3. ASSUME NEW p \in Paths, InfoPath(p[1], p[2])
      PROVE  Current' \notin saved'
  <2>1. UNCHANGED <<scan3D, saved, exhausted>>
    BY <1>3 DEF InfoPath
  <2>2. InSync /\ UNCHANGED target
    BY <1>3, <2>1 DEF InfoPath
  <2> QED
    BY <1>0, <2>1, <2>2
<1>4. CASE Start \/ Refresh \/ NonSave
  BY <1>0, <1>4 DEF Start, Refresh, NonSave, TakenBack, AppMay
<1>5. CASE Save
  <2>1. ~scan3D /\ ~exhausted /\ saved \subseteq whole
    BY <1>5 DEF Save, SaveAcq, StoreInv, SavedKept
  <2>2. Current' \notin OnDisk
    BY <1>5, <2>1, FreshPath DEF Save, SaveAcq
  <2>3. saved' \subseteq OnDisk
    BY <1>5, <2>1 DEF Save, SaveAcq, OnDisk
  <2> QED
    BY <2>2, <2>3
<1>6. CASE AbnormalQuit
  BY <1>0, <1>6 DEF AbnormalQuit, AppMay
<1>7. ASSUME NEW d \in Directories, ListDir(d) \/ DeleteFolder(d)
      PROVE  Current' \notin saved'
  <2>1. UNCHANGED target /\ scan3D' = scan3D /\ saved' \subseteq saved
    BY <1>7 DEF ListDir, DeleteFolder, Outside
  <2>2. ~exhausted
    <3>1. CASE ListDir(d)
      <4>1. PICK S : exhausted' = (exhausted \/ S # FilesOf(d))
        BY <3>1 DEF ListDir
      <4> QED
        BY <4>1
    <3>2. CASE DeleteFolder(d)
      BY <3>2 DEF DeleteFolder
    <3> QED
      BY <1>7, <3>1, <3>2
  <2> QED
    BY <1>0, <2>1, <2>2 DEF InSync
<1>8. ASSUME NEW f \in Paths, DeleteFile(f)
      PROVE  Current' \notin saved'
  BY <1>0, <1>8 DEF DeleteFile, InSync
<1>9. CASE Stop
  BY <1>0, <1>9 DEF Stop, InSync
<1> QED
  BY <1>1, <1>2, <1>3, <1>4, <1>5, <1>6, <1>7, <1>8, <1>9
  DEF Event

-----------------------------------------------------------------------------
(* The kernel, a death of the process, a power cut.                         *)

\* An event keeps the invariant: it does not touch the card, and what is safe stays
\* among the saved.
LEMMA ProgramKeeps ==
    ASSUME IInv, ProgramStep
    PROVE  IInv'
<1>1. Event /\ safe' = safe \intersect saved' /\ UNCHANGED card
  BY DEF ProgramStep
<1>2. PathType /\ DiskType /\ SavedType /\ StoreInv /\ CardType /\ SafeInv
  BY DEF IInv
<1>3. PathType'
  BY <1>1, <1>2, EventPath
<1>4. DiskType'
  BY <1>1, <1>2, EventDisk
<1>5. SavedType'
  BY <1>1, <1>2, EventSaved
<1>6. SavedKept'
  BY <1>1, <1>2, EventKept
<1>7. TargetNotSaved'
  BY <1>1, <1>2, <1>5, EventTarget
<1>8. CardType'
  BY <1>1, <1>2 DEF CardType, card
<1>9. SafeInv'
  <2>1. exhausted => exhausted'
    BY <1>1, EventExhausted
  <2> QED
    BY <1>1, <1>2, <2>1 DEF SafeInv, card
<1> QED
  BY <1>3, <1>4, <1>5, <1>6, <1>7, <1>8, <1>9 DEF IInv, StoreInv

\* What changes nothing but the card and what is safe on it.
LEMMA CardOnly ==
    ASSUME IInv, UNCHANGED <<disk, target, scan3D, saved, exhausted>>,
           CardType', SafeInv'
    PROVE  IInv'
<1>1. PathType /\ DiskType /\ SavedType /\ SavedKept /\ TargetNotSaved
  BY DEF IInv, StoreInv
<1>2. PathType' /\ DiskType' /\ SavedType'
  BY <1>1 DEF PathType, DiskType, SavedType, disk, target
<1>3. SavedKept'
  BY <1>1 DEF SavedKept, disk
<1>4. TargetNotSaved'
  BY <1>1 DEF TargetNotSaved, InSync, Current, target
<1> QED
  BY <1>2, <1>3, <1>4 DEF IInv, StoreInv

\* A write-back takes nothing safe from the card: what is saved is whole, and a
\* whole recording gets there whole.
LEMMA WriteBackKeeps ==
    ASSUME IInv, NEW f \in Paths, WriteBack(f)
    PROVE  IInv'
<1>1. DiskType /\ SavedType /\ SavedKept /\ CardType /\ SafeInv
  BY DEF IInv, StoreInv
<1>2. /\ cardBlank' = Follow(f, blank, cardBlank)
      /\ cardWhole' = Follow(f, whole, cardWhole)
      /\ cardDirs' = IF f \in OnDisk THEN cardDirs \union ({f[1]} \ {0}) ELSE cardDirs
      /\ safe' = safe \union ({f} \intersect saved \intersect whole)
      /\ UNCHANGED <<disk, target, scan3D, saved, exhausted>>
  BY DEF WriteBack
<1>3. CardType'
  <2>1. {f[1]} \ {0} \subseteq Folders
    BY DEF Paths
  <2> QED
    BY <1>1, <1>2, <2>1 DEF CardType, Follow
<1>4. safe' \subseteq saved'
  BY <1>1, <1>2 DEF SafeInv
<1>5. ASSUME Ordered, ~exhausted'
      PROVE  safe' \subseteq cardWhole'
  <2>1. safe \subseteq cardWhole /\ safe \subseteq whole
    BY <1>1, <1>2, <1>5 DEF SafeInv, SavedKept
  <2>2. CASE f \in whole
    BY <1>2, <2>1, <2>2 DEF Follow
  <2>3. CASE f \notin whole
    BY <1>2, <2>1, <2>3 DEF Follow
  <2> QED
    BY <2>2, <2>3
<1> QED
  BY <1>2, <1>3, <1>4, <1>5, CardOnly DEF SafeInv

LEMMA WriteBackDirKeeps ==
    ASSUME IInv, NEW d \in Folders, WriteBackDir(d)
    PROVE  IInv'
<1>1. CardType /\ SafeInv
  BY DEF IInv
<1>2. /\ cardDirs' = Follow(d, dirs, cardDirs)
      /\ UNCHANGED <<disk, cardBlank, cardWhole, target, scan3D, saved, safe, exhausted>>
  BY DEF WriteBackDir
<1>3. CardType'
  BY <1>1, <1>2 DEF CardType, Follow
<1>4. SafeInv'
  BY <1>1, <1>2 DEF SafeInv
<1> QED
  BY <1>2, <1>3, <1>4, CardOnly

\* A program that starts over has no path.
LEMMA StartOverKeeps ==
    ASSUME StartOver, SavedType'
    PROVE  PathType' /\ TargetNotSaved'
<1>1. savePath' = NoPath /\ fileName' = 0
  BY DEF StartOver
<1>2. PathType'
  BY <1>1, NoPathNoDirectory DEF PathType, Directories
<1>3. ASSUME Current' \in Paths
      PROVE  savePath' \in Directories
  BY <1>3 DEF Current, Paths, Directories
<1> QED
  BY <1>1, <1>2, <1>3, NoPathNoDirectory DEF SavedType, TargetNotSaved

LEMMA DieKeeps ==
    ASSUME IInv, Die
    PROVE  IInv'
<1>1. StartOver /\ UNCHANGED <<disk, card, saved, safe, exhausted>>
  BY DEF Die
<1>2. DiskType' /\ SavedType' /\ CardType'
  BY <1>1 DEF IInv, DiskType, SavedType, CardType, disk, card
<1>3. SavedKept' /\ SafeInv'
  BY <1>1 DEF IInv, StoreInv, SavedKept, SafeInv, disk, card
<1>4. PathType' /\ TargetNotSaved'
  BY <1>1, <1>2, StartOverKeeps
<1> QED
  BY <1>2, <1>3, <1>4 DEF IInv, StoreInv

LEMMA PowerCutKeeps ==
    ASSUME IInv, PowerCut
    PROVE  IInv'
<1>1. /\ StartOver
      /\ blank' = cardBlank /\ whole' = cardWhole /\ dirs' = cardDirs
      /\ saved' = safe
      /\ UNCHANGED <<card, safe, exhausted>>
  BY DEF PowerCut
<1>2. SavedType /\ CardType /\ SafeInv
  BY DEF IInv
<1>3. DiskType' /\ SavedType' /\ CardType'
  BY <1>1, <1>2 DEF DiskType, SavedType, CardType, SafeInv, card
<1>4. SavedKept' /\ SafeInv'
  BY <1>1, <1>2 DEF SavedKept, SafeInv, card
<1>5. PathType' /\ TargetNotSaved'
  BY <1>1, <1>3, StartOverKeeps
<1> QED
  BY <1>3, <1>4, <1>5 DEF IInv, StoreInv

LEMMA InvInductive ==
    Spec => []IInv
<1>1. Init => IInv
  <2>1. ASSUME Init
        PROVE  PathType
    BY <2>1, NoPathNoDirectory DEF Init, PathType, Directories
  <2> QED
    BY <2>1
    DEF Init, IInv, DiskType, SavedType, StoreInv, SavedKept, TargetNotSaved,
        CardType, SafeInv
<1>2. ASSUME IInv, [Next]_vars
      PROVE  IInv'
  <2>1. CASE ProgramStep
    BY <1>2, <2>1, ProgramKeeps
  <2>2. ASSUME NEW f \in Paths, WriteBack(f)
        PROVE  IInv'
    BY <1>2, <2>2, WriteBackKeeps
  <2>3. ASSUME NEW d \in Folders, WriteBackDir(d)
        PROVE  IInv'
    BY <1>2, <2>3, WriteBackDirKeeps
  <2>4. CASE Die
    BY <1>2, <2>4, DieKeeps
  <2>5. CASE PowerCut
    BY <1>2, <2>5, PowerCutKeeps
  <2>6. CASE UNCHANGED vars
    <3>1. CardType' /\ SafeInv'
      BY <1>2, <2>6 DEF IInv, CardType, SafeInv, vars, card
    <3> QED
      BY <1>2, <2>6, <3>1, CardOnly DEF vars, disk, target
  <2> QED
    BY <1>2, <2>1, <2>2, <2>3, <2>4, <2>5, <2>6 DEF Next
<1> QED
  BY <1>1, <1>2, PTL DEF Spec

\* No start, refresh, cancel, abnormal quit, listing or death of the process takes
\* the data or the header of a recording that ACQ_SAVE_NTF acknowledged, and no
\* power cut one that the kernel has written to the card.
THEOREM SavedSafe == Spec => []SavedKept
<1>1. IInv => SavedKept
  BY DEF IInv, StoreInv
<1> QED
  BY <1>1, InvInductive, PTL

\* The file that the next 2D event works on is never a saved one.
THEOREM TargetFresh == Spec => []TargetNotSaved
<1>1. IInv => TargetNotSaved
  BY DEF IInv, StoreInv
<1> QED
  BY <1>1, InvInductive, PTL

-----------------------------------------------------------------------------
(* Types and descriptors.                                                   *)

FlagType ==
    /\ dirs \subseteq Folders
    /\ scan3D \in BOOLEAN /\ runAcq \in BOOLEAN /\ isOpen \in BOOLEAN
    /\ exhausted \in BOOLEAN

FdType == leaked \in 0..FdLimit /\ (isOpen => leaked < FdLimit)

\* What is free is never below zero.
LEMMA FreeFdsType ==
    ASSUME FdType
    PROVE  /\ FdLimit - leaked \in Nat
           /\ FreeFds \in Nat
           /\ FreeFds = IF isOpen THEN FdLimit - leaked - 1 ELSE FdLimit - leaked
<1>1. CASE isOpen
  BY <1>1, BoundsAssumption DEF FdType, FreeFds
<1>2. CASE ~isOpen
  BY <1>2, BoundsAssumption DEF FdType, FreeFds
<1> QED
  BY <1>1, <1>2

\* There are finitely many paths.
LEMMA PathsFinite ==
    IsFiniteSet(Paths)
<1>1. IsFiniteSet(Numbers) /\ IsFiniteSet(Folders) /\ IsFiniteSet(Lines)
  BY FS_Interval, BoundsAssumption DEF Numbers, Folders, Lines
<1>2. IsFiniteSet({0})
  BY FS_Singleton
<1>3. IsFiniteSet({0} \X Numbers) /\ IsFiniteSet(Folders \X Lines)
  BY <1>1, <1>2, FS_Product
<1> QED
  BY <1>3, FS_Union DEF Paths

\* A listing takes no more descriptors than it is left with.
LEMMA OpenedBounded ==
    ASSUME DiskType, NEW d, NEW fds \in Nat, NEW S \in Opened(d, fds)
    PROVE  Cardinality(S) \in 0..fds
<1>1. IsFiniteSet(FilesOf(d))
  <2>1. FilesOf(d) \subseteq Paths
    BY DEF FilesOf, OnDisk, DiskType
  <2> QED
    BY <2>1, PathsFinite, FS_Subset
<1>2. Cardinality(FilesOf(d)) \in Nat
  BY <1>1, FS_CardinalityType
<1> QED
  BY <1>2 DEF Opened

\* The same for a folder that is emptied.
LEMMA EmptyDirBounded ==
    ASSUME DiskType, leaked \in Nat, NEW d, NEW fds \in Nat, EmptyDir(d, fds)
    PROVE  leaked' \in Nat /\ leaked' <= leaked + fds
<1>1. CASE fds > 0
  <2>1. PICK S \in Opened(d, fds - 1) : leaked' = leaked + Cardinality(S)
    BY <1>1 DEF EmptyDir
  <2>2. Cardinality(S) \in 0..(fds - 1)
    BY <1>1, OpenedBounded
  <2> QED
    BY <2>1, <2>2
<1>2. CASE ~(fds > 0)
  BY <1>2 DEF EmptyDir
<1> QED
  BY <1>1, <1>2

LEMMA EventFlags ==
    ASSUME FlagType, Event
    PROVE  FlagType'
<1> USE DEF FlagType, disk, target
<1>1. ASSUME NEW is3D \in BOOLEAN, SetHeader(is3D)
      PROVE  FlagType'
  BY <1>1 DEF SetHeader
<1>2. ASSUME NEW line \in Lines, InfoNewPath(line)
      PROVE  FlagType'
  BY <1>2 DEF InfoNewPath
<1>3. ASSUME NEW p \in Paths, InfoPath(p[1], p[2])
      PROVE  FlagType'
  BY <1>3 DEF InfoPath
<1>4. CASE Start
  BY <1>4 DEF Start, StartAcq
<1>5. CASE Refresh
  <2>1. UNCHANGED <<scan3D, exhausted>>
    BY <1>5 DEF Refresh
  <2>2. CASE runAcq
    BY <1>5, <2>1, <2>2 DEF Refresh, StartAcq
  <2>3. CASE ~runAcq
    BY <1>5, <2>1, <2>3 DEF Refresh
  <2> QED
    BY <2>1, <2>2, <2>3
<1>6. CASE Stop \/ NonSave \/ Save
  BY <1>6 DEF Stop, NonSave, Save, SaveAcq
<1>7. CASE AbnormalQuit
  BY <1>7 DEF AbnormalQuit, EmptyDir
<1>8. ASSUME NEW d \in Directories, ListDir(d)
      PROVE  FlagType'
  <2>1. UNCHANGED <<dirs, scan3D, runAcq, isOpen>>
    BY <1>8 DEF ListDir
  <2>2. PICK S : exhausted' = (exhausted \/ S # FilesOf(d))
    BY <1>8 DEF ListDir
  <2> QED
    BY <2>1, <2>2
<1>9. ASSUME NEW d \in Directories, DeleteFolder(d)
      PROVE  FlagType'
  BY <1>9 DEF DeleteFolder, EmptyDir
<1>10. ASSUME NEW f \in Paths, DeleteFile(f)
       PROVE  FlagType'
  BY <1>10 DEF DeleteFile
<1> QED
  BY <1>1, <1>2, <1>3, <1>4, <1>5, <1>6, <1>7, <1>8, <1>9, <1>10
  DEF Event

LEMMA EventFds ==
    ASSUME FlagType, FdType, DiskType, Event
    PROVE  FdType'
<1> USE BoundsAssumption DEF FdType, disk, target
<1>0. /\ FreeFds \in Nat /\ FdLimit - leaked \in Nat
      /\ FreeFds = IF isOpen THEN FdLimit - leaked - 1 ELSE FdLimit - leaked
  BY FreeFdsType
<1>1. ASSUME NEW is3D \in BOOLEAN, SetHeader(is3D)
      PROVE  FdType'
  BY <1>1 DEF SetHeader
<1>2. ASSUME NEW line \in Lines, InfoNewPath(line)
      PROVE  FdType'
  BY <1>2 DEF InfoNewPath
<1>3. ASSUME NEW p \in Paths, InfoPath(p[1], p[2])
      PROVE  FdType'
  BY <1>3 DEF InfoPath
<1>4. CASE Start
  <2>1. leaked' = FdLimit - FreeFds
    <3>1. leaked' = IF isOpen THEN leaked + 1 ELSE leaked
      BY <1>4 DEF Start
    <3> QED
      BY <1>0, <3>1
  <2>2. isOpen' => FreeFds > 0
    BY <1>4 DEF Start, StartAcq
  <2>3. leaked' \in 0..FdLimit /\ (FreeFds > 0 => leaked' < FdLimit)
    BY <1>0, <2>1
  <2> QED
    BY <2>2, <2>3
<1>5. CASE Refresh
  <2>1. leaked' = leaked /\ (isOpen' => FdLimit - leaked > 0)
    BY <1>5 DEF Refresh, StartAcq
  <2>2. FdLimit - leaked > 0 => leaked < FdLimit
    OBVIOUS
  <2> QED
    BY <2>1, <2>2
<1>6. CASE NonSave \/ Save
  BY <1>6 DEF NonSave, Save, SaveAcq
<1>7. CASE Stop
  BY <1>7 DEF Stop
<1>8. CASE AbnormalQuit
  <2>1. isOpen' = FALSE
    BY <1>8 DEF AbnormalQuit
  <2>2. leaked' = leaked \/ EmptyDir(savePath, FdLimit - leaked)
    BY <1>8 DEF AbnormalQuit
  <2>3. leaked' \in 0..FdLimit
    <3>1. CASE leaked' = leaked
      BY <3>1
    <3>2. CASE EmptyDir(savePath, FdLimit - leaked)
      <4>1. leaked \in Nat
        OBVIOUS
      <4>2. leaked' \in Nat /\ leaked' <= leaked + (FdLimit - leaked)
        BY <1>0, <3>2, <4>1, EmptyDirBounded
      <4> QED
        BY <4>1, <4>2
    <3> QED
      BY <2>2, <3>1, <3>2
  <2> QED
    BY <2>1, <2>3
<1>9. ASSUME NEW d \in Directories, ListDir(d)
      PROVE  FdType'
  <2>1. FreeFds > 0 /\ isOpen' = isOpen
    BY <1>9 DEF ListDir
  <2>2. PICK S \in Opened(d, FreeFds - 1) : leaked' = leaked + Cardinality(S)
    BY <1>9 DEF ListDir
  <2>3. FreeFds - 1 \in Nat
    BY <1>0, <2>1
  <2>4. Cardinality(S) \in 0..(FreeFds - 1)
    BY <2>2, <2>3, OpenedBounded
  <2>5. leaked' \in Nat /\ leaked' < leaked + FreeFds
    BY <1>0, <2>2, <2>4
  <2>6. leaked' \in 0..FdLimit /\ (isOpen => leaked' < FdLimit)
    BY <1>0, <2>5
  <2> QED
    BY <2>1, <2>6
<1>10. ASSUME NEW d \in Directories, DeleteFolder(d)
       PROVE  FdType'
  <2>1. EmptyDir(d, FreeFds) /\ isOpen' = isOpen
    BY <1>10 DEF DeleteFolder
  <2>2. leaked \in Nat
    OBVIOUS
  <2>3. leaked' \in Nat /\ leaked' <= leaked + FreeFds
    BY <1>0, <2>1, <2>2, EmptyDirBounded
  <2>4. leaked' \in 0..FdLimit /\ (isOpen => leaked' < FdLimit)
    BY <1>0, <2>3
  <2> QED
    BY <2>1, <2>4
<1>11. ASSUME NEW f \in Paths, DeleteFile(f)
       PROVE  FdType'
  BY <1>11 DEF DeleteFile
<1> QED
  BY <1>1, <1>2, <1>3, <1>4, <1>5, <1>6, <1>7, <1>8, <1>9, <1>10, <1>11
  DEF Event

\* Every recording has a possible path, and no more descriptors are in use than
\* there are, whatever is listed, started and emptied.
THEOREM TypeCorrect == Spec => []TypeOK
<1>1. Init => FlagType /\ FdType
  <2>1. 0 \in 0..FdLimit
    BY BoundsAssumption
  <2> QED
    BY <2>1 DEF Init, FlagType, FdType
<1>2. ASSUME IInv, FlagType, FdType, [Next]_vars
      PROVE  FlagType' /\ FdType'
  <2>1. CASE ProgramStep
    BY <1>2, <2>1, EventFlags, EventFds DEF IInv, ProgramStep
  <2>2. ASSUME NEW f \in Paths, WriteBack(f)
        PROVE  FlagType' /\ FdType'
    BY <1>2, <2>2 DEF WriteBack, FlagType, FdType, disk
  <2>3. ASSUME NEW d \in Folders, WriteBackDir(d)
        PROVE  FlagType' /\ FdType'
    BY <1>2, <2>3 DEF WriteBackDir, FlagType, FdType, disk
  <2>4. 0 \in 0..FdLimit
    BY BoundsAssumption
  <2>5. CASE Die
    BY <1>2, <2>4, <2>5 DEF Die, StartOver, FlagType, FdType, disk
  <2>6. CASE PowerCut
    BY <1>2, <2>4, <2>6 DEF PowerCut, StartOver, FlagType, FdType, IInv, CardType
  <2>7. CASE UNCHANGED vars
    BY <1>2, <2>7 DEF vars, disk, FlagType, FdType
  <2> QED
    BY <1>2, <2>1, <2>2, <2>3, <2>5, <2>6, <2>7 DEF Next
<1>3. IInv /\ FlagType /\ FdType => TypeOK
  <2>1. FdType => FreeFds >= 0 /\ leaked \in 0..FdLimit
    BY FreeFdsType DEF FdType
  <2> QED
    BY <2>1 DEF IInv, PathType, DiskType, SavedType, CardType, SafeInv, FlagType, TypeOK
<1> QED
  BY <1>1, <1>2, <1>3, InvInductive, PTL DEF Spec
=============================================================================
