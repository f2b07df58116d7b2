------------------------------- MODULE MCStream -------------------------------
(* An instance of SealStream: frames of 2 + n + 1 bytes, at most 4 chunks. *)
EXTENDS SealStream

MCAskedSizes == 0 .. 4
MCFileLens == 0 .. 17

===============================================================================
