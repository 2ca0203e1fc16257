------------------------------- MODULE MCCli -------------------------------
(***************************************************************************)
(* An instance of Cli for TLC.                                             *)
(***************************************************************************)
EXTENDS Cli, TLC

Sets(v) == "algo" :> v

Algorithms == Sets({"zstd", "lz4"})

Defaults == Sets("zstd")

\* The user asks for an algorithm that is not supported, the environment for the default.
Files == {Sets("lz4")}

Environments == {Sets(Unset), Sets("zstd")}

Directories == {<<"flac", "other", "flac">>, <<"unreadable", "flac">>}

StreamKinds == {<<2, 4, TRUE>>, <<0, 0, FALSE>>}
=============================================================================
