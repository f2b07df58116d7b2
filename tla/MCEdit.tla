-------------------------------- MODULE MCEdit --------------------------------
(* An instance of EditWriter: two byte values, chunks of one or two bytes. *)
EXTENDS EditWriter, TLC

Symmetry == Permutations(Byte)

===============================================================================
