--------------------------- MODULE MCTargetFormat ---------------------------
(***************************************************************************)
(* Streams and requests for TargetFormat: one stream for each way through  *)
(* the functions, one request for each of their arguments.                 *)
(***************************************************************************)
EXTENDS TargetFormat

Fmt(base, planar) == [base |-> base, planar |-> planar]

Stream(base, planar, codec) ==
  [fmt |-> Fmt(base, planar), rate |-> 44100, channels |-> 6, depth |-> 0,
   codec |-> codec, dsd |-> NONE]

Streams == {
  Stream("s32", FALSE, "pcm_s24"),
  Stream("flt", TRUE, "other"),
  [Stream("s64", TRUE, "other") EXCEPT !.channels = 2],
  [Stream("s16", TRUE, NONE) EXCEPT !.depth = 16],
  [Stream("u8", FALSE, "other") EXCEPT
     !.rate = 705600, !.depth = 8, !.channels = 1, !.dsd = "planar"],
  [Stream("u8", FALSE, "other") EXCEPT
     !.rate = 352800, !.depth = 8, !.channels = 2, !.dsd = "packed"]}

Keep == [fmt |-> NONE, depth |-> 0, rate |-> 0, stereo |-> FALSE]

Changes == {
  Keep,
  [Keep EXCEPT !.stereo = TRUE, !.rate = 48000],
  [Keep EXCEPT !.fmt = Fmt("s16", TRUE)],
  [Keep EXCEPT !.fmt = Fmt("dbl", TRUE), !.depth = 32],
  [Keep EXCEPT !.fmt = Fmt("s32", FALSE), !.depth = 32],
  [Keep EXCEPT !.depth = 24],
  [Keep EXCEPT !.depth = 20, !.stereo = TRUE]}
=============================================================================
