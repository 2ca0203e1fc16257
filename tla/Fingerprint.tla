---------------------------- MODULE Fingerprint ----------------------------
(***************************************************************************)
(* The way of one fingerprint: FFmpeg's muxer writes it, through an        *)
(* AVIOContext of BufSize bytes, to a memory handle of CustomAvio, and     *)
(* get_metadate_from_file (native/libav.c) copies it out of the buffer of  *)
(* the handle.                                                             *)
(*                                                                         *)
(* Bytes are what CustomAvio makes of them: those of the w-th call of      *)
(* audiofs_avio_write are w.                                               *)
(***************************************************************************)
EXTENDS CustomAvio

CONSTANTS
  BufSize,  \* 4096, the buffer of the AVIOContext
  Totals    \* lengths of a fingerprint; 0 where Chromaprint has none

ASSUME BufAssumption ==
  /\ BufSize \in Nat /\ InitialLen < BufSize /\ BufSize <= K64
  /\ Totals \subseteq Nat

VARIABLES
  stage,       \* what the caller is about to do
  total,       \* length of the fingerprint
  sent,        \* how much of it the AVIOContext has passed on
  error,       \* AVIOContext.error: a write has failed
  chromaprint  \* the string the caller has copied

client == <<stage, total, sent, error, chromaprint>>
allVars == <<vars, client>>

\* No fingerprint: what is copied has at least a byte.
NoString == <<>>

FPInit ==
  /\ Init
  /\ stage = "open"
  /\ total \in Totals
  /\ sent = 0
  /\ error = FALSE
  /\ chromaprint = NoString

-----------------------------------------------------------------------------
\* open_output_file.  Without a handle do_transcode has failed, and there is no
\* fingerprint to follow (module Transcode).
Open ==
  /\ stage = "open"
  /\ \E name \in Prefixes : OpenMemory(name) \/ OpenFails(name)
  /\ stage' = IF kind' = "memory" THEN "mux" ELSE "done"
  /\ UNCHANGED <<total, sent, error, chromaprint>>

\* The AVIOContext's next write.
Chunk == IF total - sent < BufSize THEN total - sent ELSE BufSize

\* The AVIOContext passes on what is in its buffer whenever that is full, and
\* the rest when it is flushed (transcode.c:641); after a failure nothing.
Flush ==
  /\ stage = "mux" /\ call = Idle /\ sent < total
  /\ IF error THEN ~crashed /\ UNCHANGED vars
              ELSE WriteCall(Chunk) \/ NullBuffer
  /\ sent' = sent + Chunk
  /\ UNCHANGED <<stage, total, error, chromaprint>>

\* The write goes on, or fails: av_write_trailer's answer is not looked at.
Write ==
  /\ \/ Resize \/ WriteCopy
     \/ ResizeFails
  /\ error' = (error \/ ret' < 0)
  /\ UNCHANGED <<stage, total, sent, chromaprint>>

\* strncpy over apparent_size bytes, into a string of zeros one longer: it ends
\* at the first zero, and any byte that realloc has added may be one.
Strncpy ==
  {SubSeq(bytes, 1, k) : k \in
     {k \in 0 .. apparent_size :
        /\ \A i \in 1 .. k : ByteAt(i) # Zero
        /\ k = apparent_size \/ ByteAt(k + 1) \in {Zero, Garbage}}}

\* Mutant: takes all of the buffer.
TakeBuffer ==
  /\ stage = "mux" /\ sent = total
  /\ Close
  /\ chromaprint' = IF apparent_size <= 0 THEN NoString ELSE bytes
  /\ stage' = "done"
  /\ UNCHANGED <<total, sent, error>>

\* Nothing in the file is no fingerprint; else it is copied, and the handle is
\* closed either way.
Take ==
  /\ stage = "mux" /\ sent = total
  /\ Close
  /\ chromaprint' \in IF apparent_size <= 0 THEN {NoString} ELSE Strncpy
  /\ stage' = "done"
  /\ UNCHANGED <<total, sent, error>>

\* No memory for the string: strncpy writes through NULL.
TakeFails ==
  /\ stage = "mux" /\ sent = total
  /\ Ready("memory") /\ apparent_size > 0
  /\ crashed' = TRUE
  /\ UNCHANGED <<kind, live, memory, disk, call, ret, got, writes, client>>

FPNext == Open \/ Flush \/ Write \/ Take \/ TakeFails

FPSpec == FPInit /\ [][FPNext]_allVars

-----------------------------------------------------------------------------
(* Properties *)

\* What the muxer wrote, byte by byte.
Muxed == [i \in 1 .. total |-> ((i - 1) \div BufSize) + 1]

\* A fingerprint that fits the AVIOContext arrives as the muxer wrote it or, when
\* there was no memory for it, not at all: no half of one, no zeros in it, no
\* byte of the buffer behind it, whatever the rounds of growth did.
ShortFingerprintIsWhole ==
  total <= BufSize => chromaprint \in {NoString, Muxed}

\* For this client, which never seeks, the position is the end of the file and
\* all of the file is inside the buffer, also after a write that failed: what
\* libav.c:316 copies by audiofs_avio_get_size exists.
SizeWithinBuffer ==
  kind = "memory" => position = apparent_size /\ apparent_size <= len

\* "writes up to buf_size bytes from the buffer starting at buf to the file"
\* (custom_avio.h:38): what is read back from the file is what was muxed, at any
\* length, unless a write failed.
FingerprintIsMuxed ==
  chromaprint # NoString => error \/ chromaprint = Muxed
=============================================================================
