---------------------------- MODULE MCTranscode ----------------------------
(***************************************************************************)
(* Inputs for Transcode: music alone, with a cover picture, and what else  *)
(* a container may hold.                                                   *)
(***************************************************************************)
EXTENDS Transcode

Music == {<<"audio">>, <<"audio", "other">>}

AnyFile == Music \cup {<<"audio", "audio">>, <<"other", "audio">>, <<"other">>}
=============================================================================
