----------------------------- MODULE MCFrameParser -----------------------------
(***************************************************************************)
(* FrameParser on a small instance: a bare code, an event that contains the*)
(* start byte and every byte a frame may confuse, an event longer than 255 *)
(* bytes (so that the high length byte is not zero).                       *)
(***************************************************************************)
EXTENDS FrameParser

MCPayloads == { <<1>>, <<126, 0, 2, 255>>, <<3>> \o [i \in 1..256 |-> 126] }

\* Without the long event, for the run that looks for a lost frame.
MCShortPayloads == { <<1>>, <<126, 0, 2, 255>> }
=============================================================================
