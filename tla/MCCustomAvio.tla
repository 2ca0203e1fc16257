---------------------------- MODULE MCCustomAvio ----------------------------
(***************************************************************************)
(* Instances of CustomAvio for TLC.  The marks 2 < 4 < 6 < 8 stand for     *)
(* 1024 bytes < 64 KiB < 1 MiB < 16 MiB; with MemLimit 24 the buffer can   *)
(* also take the step by 16 MiB, twice, and with MaxInt64 31 a sum of two  *)
(* offsets can wrap.                                                       *)
(***************************************************************************)
EXTENDS CustomAvio

\* Around zero, past the end of a small file, and the largest.
SeekOffsets == {-1, 0, 5, MaxInt64}

FileOffsets == {-1, 0, 16}
=============================================================================
