----------------------------- MODULE ChipSettings -----------------------------
(***************************************************************************)
(* The settings of the radar chip on the disk (NVA_file.c): read when the  *)
(* program starts, rewritten in place for every NVA_MODIFY_FTN of the app, *)
(* with a process that may die and a power that may go at any step.        *)
(*                                                                         *)
(* fopen "w" empties the file at once and fclose writes it, so there is a  *)
(* step in between.  What the process has written is in the kernel's       *)
(* memory (file) and reaches the card when the kernel likes; a death of    *)
(* the process keeps the former, a power cut only the latter.              *)
(***************************************************************************)
CONSTANTS Choices,      \* the settings an app may choose
          Factory       \* the settings compiled in, NVA6100.c

VARIABLES
    pc,         \* "down", "idle", or the step of NVA_MODIFY_FTN that comes next
    param,      \* NVAParam, as far as an app sets it
    file, card, \* the file as the process sees it, and as the card has it
    acked,      \* the settings in force at the last NVA_COMPLETE_NTF
    ahead,      \* those asked for since
    harmed      \* the file is not to be relied upon

vars == <<pc, param, file, card, acked, ahead, harmed>>

Missing == [kind |-> "missing"]
Broken == [kind |-> "broken"]       \* empty, or the settings cut short
Whole(settings) == [kind |-> "whole", settings |-> settings]
Settings == Choices \union {Factory}
Files == {Missing, Broken} \union {Whole(s) : s \in Settings}

Init ==
    /\ pc = "down" /\ param = Factory
    /\ file = Missing /\ card = Missing
    /\ acked = Factory /\ ahead = {} /\ harmed = FALSE

\* loadNVASetting: a text that is no JSON leaves what is compiled in.
Boot ==
    /\ pc = "down"
    /\ pc' = "idle"
    /\ param' = IF file.kind = "whole" THEN file.settings ELSE Factory
    /\ UNCHANGED <<file, card, acked, ahead, harmed>>

\* setNVASetting: an event that is no JSON is taken for one that changes nothing.
Modify ==
    /\ pc = "idle"
    /\ pc' = "open"
    /\ param' \in Choices \union {param}
    /\ ahead' = ahead \union {param'}
    /\ UNCHANGED <<file, card, acked, harmed>>

\* A JSON that lacks a member is read through a null pointer.
ModifyIncomplete ==
    /\ pc = "idle"
    /\ pc' = "down"
    /\ UNCHANGED <<param, file, card, acked, ahead, harmed>>

OpenFile ==
    /\ pc = "open"
    /\ \/ pc' = "write" /\ file' = Broken
       \/ pc' = "apply" /\ UNCHANGED file
    /\ harmed' = TRUE
    /\ UNCHANGED <<param, card, acked, ahead>>

\* Mutant of WriteFile: the text is made of the settings compiled in.
Mut_WriteFactory ==
    /\ pc = "write"
    /\ pc' = "apply"
    /\ \/ file' = Whole(Factory) /\ harmed' = FALSE
       \/ UNCHANGED <<file, harmed>>
    /\ UNCHANGED <<param, card, acked, ahead>>

\* A full disk cuts the text short, and nobody looks.
WriteFile ==
    /\ pc = "write"
    /\ pc' = "apply"
    /\ \/ file' = Whole(param) /\ harmed' = FALSE
       \/ UNCHANGED <<file, harmed>>
    /\ UNCHANGED <<param, card, acked, ahead>>

\* NVA_TMVInit and NVA_COMPLETE_NTF.
Complete ==
    /\ pc = "apply"
    /\ pc' = "idle"
    /\ acked' = param
    /\ ahead' = {}
    /\ UNCHANGED <<param, file, card, harmed>>

-----------------------------------------------------------------------------
(* The system the program runs on.                                          *)

WriteBack ==
    /\ card # file
    /\ card' = file
    /\ UNCHANGED <<pc, param, file, acked, ahead, harmed>>

Die ==
    /\ pc # "down"
    /\ pc' = "down"
    /\ UNCHANGED <<param, file, card, acked, ahead, harmed>>

PowerCut ==
    /\ pc' = "down"
    /\ file' = card
    /\ harmed' = (harmed \/ card # file)
    /\ UNCHANGED <<param, card, acked, ahead>>

Next == \/ Boot \/ Modify \/ ModifyIncomplete \/ OpenFile \/ WriteFile \/ Complete
        \/ WriteBack \/ Die \/ PowerCut

Spec == Init /\ [][Next]_vars

-----------------------------------------------------------------------------
(* Properties.                                                              *)

\* Types.
TypeOK ==
    /\ pc \in {"down", "idle", "open", "write", "apply"}
    /\ param \in Settings /\ acked \in Settings /\ ahead \subseteq Settings
    /\ file \in Files /\ card \in Files
    /\ harmed \in BOOLEAN

\* Whatever the process lived through, it waits for the next event with the settings
\* it acknowledged last, or with some it was asked for since and did not come to
\* acknowledge.  Excepted is a file that was opened and never written whole, could
\* not be opened, or was overtaken by a power cut on its way to the card.
SettingsKept == pc = "idle" /\ ~harmed => param \in {acked} \union ahead
=============================================================================
