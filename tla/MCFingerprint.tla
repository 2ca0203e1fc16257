--------------------------- MODULE MCFingerprint ---------------------------
(***************************************************************************)
(* Instances of Fingerprint for TLC: 2 < 3 < 4 < 6 < 8 stand for 1024      *)
(* bytes < 4096 bytes < 64 KiB < 1 MiB < 16 MiB.  FFmpeg passes on at most *)
(* BufSize bytes at a time; MemLimit decides where the growth ends.        *)
(***************************************************************************)
EXTENDS Fingerprint

Lengths == 0 .. 14
=============================================================================
