---------------------------- MODULE MCRecordingStore ----------------------------
(***************************************************************************)
(* The recordings, as far as the descriptors last: once a listing has run  *)
(* out of them SavedKept and TargetNotSaved say nothing more.              *)
(***************************************************************************)
EXTENDS RecordingStore

Lasting == ~exhausted
=============================================================================
