------------------------------- MODULE MCRecorder -------------------------------
(***************************************************************************)
(* Recorder with files of up to two rows, 3D targets of one and two rows *)
(* and a disk that may cut a write after 3 * 128 bytes.                    *)
(***************************************************************************)
EXTENDS Recorder

MCTargets == {1, 2}
MCShortWrites == {3}
=============================================================================
