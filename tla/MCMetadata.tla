----------------------------- MODULE MCMetadata -----------------------------
(***************************************************************************)
(* Files for Metadata: all of up to two streams.                           *)
(***************************************************************************)
EXTENDS Metadata

UpToTwo == UNION {[1 .. n -> {"audio", "other"}] : n \in 0 .. 2}

Music == {<<"audio">>}
=============================================================================
