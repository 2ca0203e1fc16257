------------------------------ MODULE ByteFile ------------------------------
(***************************************************************************)
(* What native/custom_avio.h promises of a handle: it reads, writes and    *)
(* seeks "the file referred to by the file descriptor", that is a file in  *)
(* the sense of read(2), write(2) and lseek(2), of which only what the     *)
(* caller can observe is kept.                                             *)
(***************************************************************************)
EXTENDS Integers, Sequences

CONSTANTS
  Chunks,     \* what a caller may write, nonempty sequences of bytes
  ReadSizes,  \* how many bytes a caller may ask for
  MaxOffset,  \* largest offset
  Zero,       \* the byte a hole reads as
  Failures    \* what a call that fails may return

VARIABLES
  content,  \* the bytes of the file
  offset,   \* where the next read or write starts
  got,      \* the bytes the last read stored
  result    \* what the last call returned

fileVars == <<content, offset, got, result>>

Init == content = <<>> /\ offset = 0 /\ got = <<>> /\ result = 0

\* The bytes c with chunk b written over them from offset o on.
Overlay(c, o, b) ==
  [i \in 1 .. (IF Len(c) > o + Len(b) THEN Len(c) ELSE o + Len(b)) |->
     IF i \in o + 1 .. o + Len(b) THEN b[i - o]
     ELSE IF i <= Len(c) THEN c[i] ELSE Zero]

\* The at most n bytes of c from offset o on: none at or past the end.
From(c, o, n) ==
  SubSeq(c, o + 1, IF o + n < Len(c) THEN o + n ELSE Len(c))

Write ==
  \E b \in Chunks :
    /\ content' = Overlay(content, offset, b)
    /\ offset' = offset + Len(b)
    /\ result' = Len(b)
    /\ UNCHANGED got

Read ==
  \E n \in ReadSizes :
    /\ got' = From(content, offset, n)
    /\ offset' = offset + Len(got')
    /\ result' = Len(got')
    /\ UNCHANGED content

Seek ==
  /\ offset' \in 0 .. MaxOffset
  /\ result' = offset'
  /\ UNCHANGED <<content, got>>

\* Any call may fail; then it has done nothing.
Fail ==
  /\ result' \in Failures
  /\ UNCHANGED <<content, offset, got>>

Next == Write \/ Read \/ Seek \/ Fail

Spec == Init /\ [][Next]_fileVars
=============================================================================
