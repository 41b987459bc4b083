------------------------------- MODULE DirTree -------------------------------
(***************************************************************************)
(* Listing and removing folders for the app (dir_control.c, and the three  *)
(* requests of gpr_socket_ana.c that use it), a system call at a time.     *)
(*                                                                         *)
(* Folders are the numbers 1..FolderCount and files the numbers after      *)
(* them; whatever is in a folder has a greater number than the folder, and *)
(* what is in none of them is in 0.  readdir comes in any order.  A listing*)
(* also removes the recordings it meets whose header is blank.             *)
(***************************************************************************)
EXTENDS Naturals, Sequences

CONSTANTS FolderCount, FileCount

Folders == 1..FolderCount
Files == (FolderCount + 1)..(FolderCount + FileCount)
Nodes == Folders \union Files

VARIABLES
    tree,       \* the folder that each file and folder there is lies in
    blank,      \* the recordings with a blank header
    job,        \* "none", "read", "check", "delete" or "unlink", and "told" after it
    target,     \* the path the app sent
    open,       \* the folders being listed, the innermost last, with what is left
    list,       \* what getDirList has found so far
    step,       \* "list", "files", "folders", "root" or "tell"
    at,         \* the place in list of the next to be removed
    before      \* the tree when the request came

vars == <<tree, blank, job, target, open, list, step, at, before>>

Children(d) == {n \in DOMAIN tree : tree[n] = d}
Without(n) == [m \in DOMAIN tree \ {n} |-> tree[m]]

IsTree(t) == \A n \in DOMAIN t : t[n] < n /\ t[n] \in DOMAIN t \union {0}

Init ==
    /\ \E nodes \in SUBSET Nodes : tree \in [nodes -> Folders \union {0}]
    /\ IsTree(tree)
    /\ blank \in SUBSET Files
    /\ job = "none" /\ target = 0
    /\ open = <<>> /\ list = <<>> /\ step = "tell" /\ at = 0
    /\ before = tree

-----------------------------------------------------------------------------
(* getDirList.                                                              *)

Opened(d) == [folder |-> d, left |-> Children(d)]
Innermost == open[Len(open)]

\* A path that is no folder opens nothing.
Begin(request, path) ==
    /\ job = "none"
    /\ job' = request
    /\ target' = path
    /\ open' = IF path \in Folders \intersect DOMAIN tree THEN <<Opened(path)>> ELSE <<>>
    /\ step' = "list"
    /\ UNCHANGED <<tree, blank, list, at, before>>

\* ANA_READ_DIR_FTN, and ANA_CHECK_DIR_FTN and ANA_UNCHECK_DIR_FTN.
ReadDir(path) == \E request \in {"read", "check"} : Begin(request, path)

DeleteFolder(path) == Begin("delete", path)

\* repet: every request but ANA_READ_DIR_FTN goes into the folders it meets.
Repeat == job # "read"

\* Mutant of ReadEntry: a folder is listed before what is in it.
Mut_ReadEntryFirst ==
    /\ step = "list" /\ open # <<>> /\ Innermost.left # {}
    /\ \E n \in Innermost.left :
        LET rest == [open EXCEPT ![Len(open)].left = @ \ {n}] IN
        /\ open' = IF n \in Folders /\ Repeat THEN Append(rest, Opened(n))
                   ELSE rest
        /\ tree' = IF n \in blank THEN Without(n) ELSE tree
        /\ list' = IF n \in blank THEN list ELSE Append(list, n)
    /\ UNCHANGED <<blank, job, target, step, at, before>>

ReadEntry ==
    /\ step = "list" /\ open # <<>> /\ Innermost.left # {}
    /\ \E n \in Innermost.left :
        LET rest == [open EXCEPT ![Len(open)].left = @ \ {n}] IN
        \/ /\ n \in Folders /\ Repeat
           /\ open' = Append(rest, Opened(n))
           /\ UNCHANGED <<tree, list>>
        \/ /\ n \in blank
           /\ tree' = Without(n)
           /\ open' = rest
           /\ UNCHANGED list
        \/ /\ n \notin blank /\ ~(n \in Folders /\ Repeat)
           /\ list' = Append(list, n)
           /\ open' = rest
           /\ UNCHANGED tree
    /\ UNCHANGED <<blank, job, target, step, at, before>>

\* A folder inside is listed after all that is in it.
CloseFolder ==
    /\ step = "list" /\ open # <<>> /\ Innermost.left = {}
    /\ open' = SubSeq(open, 1, Len(open) - 1)
    /\ list' = IF Len(open) > 1 THEN Append(list, Innermost.folder) ELSE list
    /\ UNCHANGED <<tree, blank, job, target, step, at, before>>

Listed ==
    /\ step = "list" /\ open = <<>>
    /\ step' = IF job = "delete" THEN "files" ELSE "tell"
    /\ at' = Len(list)
    /\ UNCHANGED <<tree, blank, job, target, open, list, before>>

-----------------------------------------------------------------------------
(* deleteDirList, from the end of the list, and what comes after it.        *)

\* Mutant of RemoveListed: from the beginning of the list.
Mut_RemoveForward ==
    /\ step \in {"files", "folders"} /\ at > 0
    /\ at' = at - 1
    /\ LET n == list[Len(list) + 1 - at] IN
       tree' = IF /\ n \in IF step = "files" THEN Files ELSE Folders
                  /\ Children(n) = {}
               THEN Without(n) ELSE tree
    /\ UNCHANGED <<blank, job, target, open, list, step, before>>

\* unlink or rmdir; the latter fails for a folder that is not empty.
RemoveListed ==
    /\ step \in {"files", "folders"} /\ at > 0
    /\ at' = at - 1
    /\ tree' = IF /\ list[at] \in IF step = "files" THEN Files ELSE Folders
                  /\ Children(list[at]) = {}
               THEN Without(list[at]) ELSE tree
    /\ UNCHANGED <<blank, job, target, open, list, step, before>>

RemovedListed ==
    /\ step \in {"files", "folders"} /\ at = 0
    /\ step' = IF step = "files" THEN "folders" ELSE "root"
    /\ at' = Len(list)
    /\ UNCHANGED <<tree, blank, job, target, open, list, before>>

RemoveRoot ==
    /\ step = "root"
    /\ tree' = IF target \in Folders /\ Children(target) = {} THEN Without(target) ELSE tree
    /\ step' = "tell"
    /\ UNCHANGED <<blank, job, target, open, list, at, before>>

\* sendDeleteFile; unlink fails for a folder.
DeleteFile(path) ==
    /\ job = "none"
    /\ job' = "unlink"
    /\ target' = path
    /\ tree' = IF path \in Files THEN Without(path) ELSE tree
    /\ UNCHANGED <<blank, open, list, step, at, before>>

\* The app is told the path it sent and every path of the list.
Told == {target} \union {list[i] : i \in DOMAIN list}

Tell ==
    /\ job \in {"read", "check", "delete", "unlink"} /\ step = "tell"
    /\ job' = "told"
    /\ UNCHANGED <<tree, blank, target, open, list, step, at, before>>

Next == \/ \E path \in Nodes : ReadDir(path) \/ DeleteFolder(path) \/ DeleteFile(path)
        \/ ReadEntry \/ CloseFolder \/ Listed
        \/ RemoveListed \/ RemovedListed \/ RemoveRoot \/ Tell

Spec == Init /\ [][Next]_vars

-----------------------------------------------------------------------------
(* Properties.                                                              *)

\* Node n was somewhere below folder d.
Below(d) ==
    LET below[n \in Nodes] ==
            /\ n \in DOMAIN before /\ before[n] # 0
            /\ before[n] = d \/ below[before[n]]
    IN  {n \in Nodes : below[n]}

HadFolder(d) == \E n \in Folders : n \in DOMAIN before /\ before[n] = d

\* A removal takes every file below the folder and spares everything outside.  Of the
\* folders below it takes those that held no folder, since a folder is removed before
\* the folders in it, and the folder itself when those are all it held.
FilesGoneFoldersLeft ==
    job = "delete" /\ step = "tell" =>
        LET below == Below(target)
            left == {d \in below \intersect Folders : HadFolder(d)}
            removed == (below \ left) \union
                       (IF target \in Folders /\ left = {} THEN {target} ELSE {})
        IN  tree = [n \in DOMAIN before \ removed |-> before[n]]

\* What the app is told is removed is removed.  The code does not keep it.
ToldAreGone == job = "delete" /\ step = "tell" => Told \intersect DOMAIN tree = {}
=============================================================================
