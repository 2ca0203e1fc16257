------------------------- MODULE FingerprintProofs -------------------------
(***************************************************************************)
(* For any marks, limits and lengths: the size of the file is inside the   *)
(* buffer whenever the caller may copy it out, a fingerprint that fits the *)
(* AVIOContext arrives whole, and a longer one never does.                 *)
(***************************************************************************)
EXTENDS Fingerprint, CustomAvioProofs

\* How far the client has come.
ClientInv ==
  /\ total \in Nat /\ sent \in 0 .. total
  /\ stage \in {"open", "mux", "done"}
  /\ stage = "open" => /\ kind = "unopened" /\ sent = 0 /\ writes = 0
                       /\ call = Idle /\ apparent_size = 0 /\ position = 0
  /\ stage = "done" => kind # "memory"

\* The size follows the position, and no further than the buffer goes; a write makes
\* room for its bytes before it moves either.
SizeInv ==
  /\ position = apparent_size
  /\ apparent_size <= len
  /\ call.fn # "seek"
  /\ call # Idle => call.need = position + call.arg

\* The one write of a short fingerprint: it is under way, or has failed, or its bytes
\* are those at the front of the buffer.
OneWrite ==
  total <= BufSize =>
    /\ sent \in {0, total}
    /\ sent = 0 => call = Idle /\ writes = 0 /\ apparent_size = 0
    /\ sent > 0 /\ call # Idle => call.arg = total /\ writes = 0 /\ apparent_size = 0
    /\ sent > 0 /\ call = Idle =>
         \/ apparent_size = 0
         \/ apparent_size = total /\ \A i \in 1 .. total : bytes[i] = 1

FPInv == IInv /\ ClientInv /\ SizeInv /\ OneWrite /\ ShortFingerprintIsWhole

-----------------------------------------------------------------------------
LEMMA InitFPInv == FPInit => FPInv
  <1> SUFFICES ASSUME FPInit PROVE FPInv
    OBVIOUS
  <1>1. IInv
    BY InitIInv DEF FPInit
  <1>2. ClientInv /\ SizeInv /\ OneWrite /\ ShortFingerprintIsWhole
    BY BufAssumption
    DEF FPInit, Init, ClientInv, SizeInv, OneWrite, ShortFingerprintIsWhole, Idle
  <1> QED BY <1>1, <1>2 DEF FPInv

LEMMA ClientOpenStep ==
  ASSUME FPInv, Open
  PROVE  FPInv'
  <1>1. PICK name \in Prefixes : OpenMemory(name) \/ OpenFails(name)
    BY DEF Open
  <1>2. IInv'
    BY <1>1, ArgsAssumption, OpenStep DEF FPInv
  <1>3. UNCHANGED <<apparent_size, position, call, writes, total, sent, chromaprint>>
    BY <1>1 DEF Open, OpenMemory, OpenFails, memory
  <1>4. /\ stage = "open" /\ sent = 0 /\ writes = 0 /\ call = Idle
        /\ apparent_size = 0 /\ position = 0
    BY DEF Open, FPInv, ClientInv
  <1>5. ClientInv'
    <2>1. /\ stage' \in {"mux", "done"} /\ (stage' = "done" => kind' # "memory")
      BY DEF Open
    <2> QED BY <1>3, <1>4, <2>1 DEF FPInv, ClientInv
  <1>6. SizeInv'
    BY <1>2, <1>3, <1>4 DEF SizeInv, IInv, TypeOK, Idle
  <1>7. OneWrite' /\ ShortFingerprintIsWhole'
    BY <1>3, <1>4 DEF FPInv, OneWrite, ShortFingerprintIsWhole, Muxed
  <1> QED BY <1>2, <1>5, <1>6, <1>7 DEF FPInv

\* A short fingerprint is passed on in one write.
LEMMA FlushStep ==
  ASSUME FPInv, Flush
  PROVE  FPInv'
  <1>1. /\ total \in Nat /\ sent \in Nat /\ sent < total /\ BufSize \in Nat \ {0}
        /\ call = Idle /\ stage = "mux"
    BY BufAssumption, MarksAssumption DEF Flush, FPInv, ClientInv
  <1>2. /\ Chunk \in Nat /\ sent + Chunk \in 1 .. total
        /\ total <= BufSize /\ sent = 0 => Chunk = total
    BY <1>1 DEF Chunk
  <1>3. /\ UNCHANGED <<stage, total, chromaprint, len, bytes, apparent_size, position, kind, writes>>
        /\ sent' = sent + Chunk
        /\ \/ call' = call
           \/ call' = [fn |-> "write", arg |-> Chunk, need |-> position + Chunk]
    BY DEF Flush, WriteCall, NullBuffer, vars, memory
  <1>4. IInv'
    <2>1. CASE UNCHANGED vars
      BY <2>1, IInvStep DEF FPInv
    <2>2. CASE WriteCall(Chunk)
      BY <2>2, <1>2, WriteCallStep DEF FPInv
    <2>3. CASE NullBuffer
      BY <2>3, CloseStep DEF FPInv
    <2> QED BY <2>1, <2>2, <2>3 DEF Flush
  <1>5. ClientInv'
    BY <1>1, <1>2, <1>3 DEF FPInv, ClientInv
  <1>6. SizeInv'
    BY <1>1, <1>3 DEF FPInv, SizeInv, Idle
  <1>7. OneWrite'
    <2> SUFFICES ASSUME total <= BufSize PROVE OneWrite'
      BY <1>3 DEF OneWrite
    <2>1. sent = 0
      BY <1>1 DEF FPInv, OneWrite
    <2>2. Chunk = total /\ writes = 0 /\ apparent_size = 0
      BY <1>2, <2>1 DEF FPInv, OneWrite
    <2> QED BY <1>1, <1>2, <1>3, <2>1, <2>2 DEF OneWrite
  <1>8. ShortFingerprintIsWhole'
    BY <1>3 DEF FPInv, ShortFingerprintIsWhole, Muxed
  <1> QED BY <1>4, <1>5, <1>6, <1>7, <1>8 DEF FPInv

LEMMA WriteStep ==
  ASSUME FPInv, Write
  PROVE  FPInv'
  <1>1. Resize \/ ResizeFails \/ WriteCopy
    BY DEF Write
  <1>2. IInv'
    BY <1>1, GrowStep DEF FPInv, Grow
  <1>3. UNCHANGED <<stage, total, sent, chromaprint, kind>>
    BY <1>1 DEF Write, Resize, ResizeFails, WriteCopy
  <1>4. /\ call # Idle /\ kind = "memory" /\ stage = "mux"
        /\ total \in Nat /\ sent \in 0 .. total
        /\ len \in Nat /\ position \in Nat /\ call \in Calls
    BY <1>1 DEF Resize, ResizeFails, WriteCopy, Idle, FPInv, IInv, CallInv, TypeOK, ClientInv
  <1>5. call.fn = "write" /\ call.need = position + call.arg /\ call.arg \in Nat
    BY <1>4 DEF FPInv, SizeInv, IInv, CallInv, Calls
  <1>6. CASE Resize
    <2>1. len' \in Nat /\ len' > len /\ UNCHANGED <<position, apparent_size, call, writes>>
      BY <1>4, <1>6, NewSizeGrows DEF Resize
    <2>2. ClientInv' /\ SizeInv'
      BY <1>3, <1>4, <2>1 DEF FPInv, ClientInv, SizeInv
    <2>3. OneWrite' /\ ShortFingerprintIsWhole'
      BY <1>3, <1>4, <2>1 DEF FPInv, OneWrite, ShortFingerprintIsWhole, Muxed
    <2> QED BY <1>2, <2>2, <2>3 DEF FPInv
  <1>7. CASE ResizeFails
    <2>1. call' = Idle /\ UNCHANGED <<len, bytes, position, apparent_size, writes>>
      BY <1>7 DEF ResizeFails, memory
    <2>2. ClientInv' /\ SizeInv'
      BY <1>3, <1>4, <2>1 DEF FPInv, ClientInv, SizeInv, Idle
    <2>3. OneWrite' /\ ShortFingerprintIsWhole'
      BY <1>3, <1>4, <2>1 DEF FPInv, OneWrite, ShortFingerprintIsWhole, Muxed
    <2> QED BY <1>2, <2>2, <2>3 DEF FPInv
  <1>8. CASE WriteCopy
    <2>1. /\ call' = Idle /\ len' = len /\ len >= call.need
          /\ position' = position + call.arg /\ apparent_size' = apparent_size + call.arg
          /\ bytes' = [i \in 1 .. len |-> IF i <= call.arg THEN writes + 1 ELSE bytes[i]]
      BY <1>8 DEF WriteCopy
    <2>2. ClientInv' /\ SizeInv'
      BY <1>3, <1>4, <1>5, <2>1 DEF FPInv, ClientInv, SizeInv, Idle
    <2>3. OneWrite'
      <3> SUFFICES ASSUME total <= BufSize PROVE OneWrite'
        BY <1>3 DEF OneWrite
      <3>1. sent = total /\ sent > 0 /\ call.arg = total /\ writes = 0 /\ apparent_size = 0
        BY <1>4 DEF FPInv, OneWrite
      <3>2. total <= len
        BY <1>4, <1>5, <2>1, <3>1
      <3>3. \A i \in 1 .. total : bytes'[i] = 1
        BY <1>4, <2>1, <3>1, <3>2
      <3> QED BY <1>3, <1>4, <2>1, <3>1, <3>3 DEF OneWrite
    <2>4. ShortFingerprintIsWhole'
      BY <1>3 DEF FPInv, ShortFingerprintIsWhole, Muxed
    <2> QED BY <1>2, <2>2, <2>3, <2>4 DEF FPInv
  <1> QED BY <1>1, <1>6, <1>7, <1>8

\* All bytes of a short fingerprint are alike, so that it has no end before its own.
LEMMA ShortCopy ==
  ASSUME IInv, total \in Nat, total <= BufSize, total = apparent_size, total <= len,
         \A i \in 1 .. total : bytes[i] = 1,
         NEW s \in Strncpy
  PROVE  s = Muxed
  <1>1. PICK k \in 0 .. total :
          /\ s = SubSeq(bytes, 1, k)
          /\ k = total \/ ByteAt(k + 1) \in {Zero, Garbage}
    BY DEF Strncpy
  <1>2. len \in Nat /\ BufSize \in Nat \ {0}
    BY BufAssumption, MarksAssumption DEF IInv, TypeOK
  <1>3. k = total
    <2>1. ASSUME k < total PROVE ByteAt(k + 1) = 1
      BY <1>2, <2>1 DEF ByteAt
    <2> QED BY <1>1, <2>1 DEF Zero, Garbage
  <1>4. s \in Seq(Nat) /\ Len(s) = total /\ \A i \in 1 .. total : s[i] = 1
    <2>1. \A i \in 1 .. total : bytes[i] \in Nat
      OBVIOUS
    <2> QED BY <1>1, <1>3, <2>1, SubSeqProperties
  <1>5. Muxed \in [1 .. total -> Nat] /\ \A i \in 1 .. total : Muxed[i] = 1
    <2>1. \A i \in 1 .. total : (i - 1) \div BufSize = 0
      <3> SUFFICES ASSUME NEW i \in 1 .. total PROVE (i - 1) \div BufSize = 0
        OBVIOUS
      <3>1. i - 1 \in Nat /\ i - 1 < BufSize
        BY <1>2
      <3> QED BY <1>2, <3>1
    <2> QED BY <2>1 DEF Muxed
  <1>6. Muxed \in Seq(Nat) /\ Len(Muxed) = total
    BY <1>5, FunctionIsSeq
  <1> QED BY <1>4, <1>5, <1>6, SeqEqual

LEMMA TakeStep ==
  ASSUME FPInv, Take
  PROVE  FPInv'
  <1>1. IInv'
    BY CloseStep DEF Take, FPInv
  <1>2. /\ UNCHANGED <<total, sent, len, bytes, apparent_size, position, call, writes>>
        /\ stage' = "done" /\ kind' = "closed" /\ call = Idle /\ sent = total
        /\ chromaprint' \in IF apparent_size <= 0 THEN {NoString} ELSE Strncpy
    BY DEF Take, Close, Ready, memory
  <1>3. ClientInv' /\ SizeInv' /\ OneWrite'
    BY <1>2 DEF FPInv, ClientInv, SizeInv, OneWrite
  <1>4. ShortFingerprintIsWhole'
    <2> SUFFICES ASSUME total <= BufSize PROVE chromaprint' \in {NoString, Muxed}
      BY <1>2 DEF ShortFingerprintIsWhole, Muxed
    <2>1. total \in Nat /\ apparent_size \in Nat /\ apparent_size <= len
      BY DEF FPInv, ClientInv, SizeInv, IInv, TypeOK
    <2>2. CASE apparent_size = 0
      BY <1>2, <2>2
    <2>3. CASE apparent_size # 0
      <3>1. apparent_size = total /\ \A i \in 1 .. total : bytes[i] = 1
        BY <1>2, <2>1, <2>3 DEF FPInv, OneWrite
      <3>2. chromaprint' \in Strncpy
        BY <1>2, <2>1, <2>3
      <3> QED BY <2>1, <3>1, <3>2, ShortCopy DEF FPInv
    <2> QED BY <2>2, <2>3
  <1> QED BY <1>1, <1>3, <1>4 DEF FPInv

LEMMA TakeFailsStep ==
  ASSUME FPInv, TakeFails
  PROVE  FPInv'
  <1>1. /\ UNCHANGED <<kind, live, memory, disk, call, ret, got, writes, client>>
        /\ crashed' = TRUE
    BY DEF TakeFails
  <1>2. TypeOK'
    BY <1>1 DEF FPInv, IInv, TypeOK, memory, disk
  <1>3. CallInv' /\ LenInv' /\ FreshInv'
    BY <1>1 DEF FPInv, IInv, CallInv, LenInv, FreshInv, memory
  <1>4. ClientInv' /\ SizeInv' /\ OneWrite' /\ ShortFingerprintIsWhole'
    BY <1>1 DEF FPInv, ClientInv, SizeInv, OneWrite, ShortFingerprintIsWhole, Muxed,
                memory, client
  <1> QED BY <1>2, <1>3, <1>4 DEF FPInv, IInv

LEMMA FPInvStep == FPInv /\ [FPNext]_allVars => FPInv'
  <1> SUFFICES ASSUME FPInv, [FPNext]_allVars PROVE FPInv'
    OBVIOUS
  <1>1. CASE UNCHANGED allVars
    <2>1. IInv'
      BY <1>1, IInvStep DEF allVars, FPInv
    <2>2. ClientInv' /\ SizeInv' /\ OneWrite' /\ ShortFingerprintIsWhole'
      BY <1>1 DEF allVars, vars, memory, client, FPInv, ClientInv, SizeInv, OneWrite,
                  ShortFingerprintIsWhole, Muxed
    <2> QED BY <2>1, <2>2 DEF FPInv
  <1> QED
    BY <1>1, ClientOpenStep, FlushStep, WriteStep, TakeStep, TakeFailsStep DEF FPNext

\* For a caller that never seeks the size of the file is the position, and inside
\* the buffer, whatever the marks and lengths and wherever a write failed.
THEOREM CopyStaysInside == FPSpec => []SizeWithinBuffer
  <1>1. FPInv => SizeWithinBuffer
    BY DEF FPInv, SizeInv, SizeWithinBuffer
  <1> QED BY <1>1, InitFPInv, FPInvStep, PTL DEF FPSpec

\* A fingerprint of up to BufSize bytes arrives whole, or not at all.
THEOREM ShortIsWhole == FPSpec => []ShortFingerprintIsWhole
  <1>1. FPInv => ShortFingerprintIsWhole
    BY DEF FPInv
  <1> QED BY <1>1, InitFPInv, FPInvStep, PTL DEF FPSpec

-----------------------------------------------------------------------------
(* A long fingerprint *)

\* Every write starts at the first byte of the buffer, so that this byte tells how many
\* there were.  One write alone holds no more than the AVIOContext does.
LastWrite ==
  /\ call # Idle => call.arg \in 1 .. BufSize
  /\ writes = 0 => apparent_size = 0
  /\ writes = 1 => apparent_size <= BufSize
  /\ writes > 0 => len > 0 /\ bytes[1] = writes

NeverWhole == total > BufSize => chromaprint # Muxed

LongInv == FPInv /\ LastWrite /\ NeverWhole

LEMMA MuxedIsLong ==
  ASSUME total \in Nat, total > BufSize
  PROVE  Len(Muxed) = total /\ Muxed # <<>> /\ Muxed[1] = 1
  <1>1. BufSize \in Nat \ {0}
    BY BufAssumption, MarksAssumption
  <1>2. Muxed \in [1 .. total -> Int]
    BY <1>1 DEF Muxed
  <1>3. Muxed \in Seq(Int) /\ Len(Muxed) = total
    BY <1>2, FunctionIsSeq
  <1>4. Muxed[1] = (0 \div BufSize) + 1
    BY <1>1 DEF Muxed
  <1>5. 0 \div BufSize = 0
    BY <1>1
  <1> QED BY <1>1, <1>3, <1>4, <1>5

LEMMA LongTake ==
  ASSUME FPInv, LastWrite, total > BufSize, NEW s \in Strncpy
  PROVE  s # Muxed
  <1>1. /\ total \in Nat /\ apparent_size \in Nat /\ len \in Nat /\ writes \in Nat
        /\ BufSize \in Nat \ {0} /\ apparent_size <= len /\ bytes \in [1 .. len -> Byte]
    BY BufAssumption, MarksAssumption DEF FPInv, IInv, TypeOK, ClientInv, SizeInv
  <1>2. PICK k \in 0 .. apparent_size : s = SubSeq(bytes, 1, k)
    BY DEF Strncpy
  <1>3. s \in Seq(Byte) /\ Len(s) = k /\ (k > 0 => s[1] = bytes[1])
    <2>1. \A i \in 1 .. k : bytes[i] \in Byte
      BY <1>1
    <2> QED BY <1>1, <1>2, <2>1, SubSeqProperties
  <1> SUFFICES ASSUME s = Muxed PROVE FALSE
    OBVIOUS
  <1>4. k = total /\ bytes[1] = 1
    BY <1>1, <1>3, MuxedIsLong
  <1>5. writes = 1
    BY <1>1, <1>2, <1>4 DEF LastWrite
  <1> QED BY <1>1, <1>2, <1>4, <1>5 DEF LastWrite

LEMMA LastWriteStep == FPInv /\ LastWrite /\ [FPNext]_allVars => LastWrite'
  <1> SUFFICES ASSUME FPInv, LastWrite, [FPNext]_allVars PROVE LastWrite'
    OBVIOUS
  <1>0. /\ writes \in Nat /\ len \in Nat /\ apparent_size \in Nat /\ BufSize \in Nat \ {0}
    BY BufAssumption, MarksAssumption DEF FPInv, IInv, TypeOK
  <1>1. CASE UNCHANGED <<len, bytes, apparent_size, call, writes>>
    BY <1>1 DEF LastWrite
  <1>2. CASE Open
    <2>1. writes = 0 /\ UNCHANGED <<apparent_size, call, writes>>
      BY <1>2 DEF Open, OpenMemory, OpenFails, memory, FPInv, ClientInv
    <2> QED BY <2>1 DEF LastWrite
  <1>3. CASE Flush /\ ~UNCHANGED vars
    <2>1. Chunk \in 1 .. BufSize
      BY <1>0, <1>3 DEF Flush, Chunk, FPInv, ClientInv
    <2>2. /\ call' \in {call, [fn |-> "write", arg |-> Chunk, need |-> position + Chunk]}
          /\ UNCHANGED <<len, bytes, apparent_size, writes>>
      BY <1>3 DEF Flush, WriteCall, NullBuffer, memory, vars
    <2> QED BY <2>1, <2>2 DEF LastWrite
  <1>4. CASE Resize
    <2>1. /\ len' \in Nat /\ len' > len /\ (len > 0 => bytes'[1] = bytes[1])
          /\ UNCHANGED <<apparent_size, call, writes>>
      BY <1>0, <1>4, NewSizeGrows DEF Resize, ByteAt
    <2> QED BY <1>0, <2>1 DEF LastWrite
  <1>5. CASE ResizeFails
    BY <1>5 DEF ResizeFails, memory, LastWrite, Idle
  <1>6. CASE WriteCopy
    <2>1. call \in Calls /\ call # Idle /\ call.arg \in 1 .. BufSize /\ len >= call.need
          /\ call.need = position + call.arg /\ position \in Nat
      BY <1>6 DEF WriteCopy, FPInv, IInv, TypeOK, SizeInv, LastWrite, Idle
    <2>2. /\ call' = Idle /\ len' = len /\ len > 0 /\ writes' = writes + 1
          /\ apparent_size' = apparent_size + call.arg /\ bytes'[1] = writes + 1
      BY <1>0, <1>6, <2>1 DEF WriteCopy
    <2> QED BY <1>0, <2>1, <2>2 DEF LastWrite
  <1>7. CASE Take \/ TakeFails
    BY <1>1, <1>7 DEF Take, TakeFails, Close, memory
  <1> QED
    BY <1>1, <1>2, <1>3, <1>4, <1>5, <1>6, <1>7
    DEF FPNext, Write, Flush, allVars, vars, memory

\* Where "writes up to buf_size bytes ... to the file" (custom_avio.h:38) fails: no
\* fingerprint that is longer than the buffer of the AVIOContext ever arrives as it was
\* muxed, at whatever length and however the buffer grew.
THEOREM LongIsNeverWhole == FPSpec => []NeverWhole
  <1>1. LongInv => NeverWhole
    BY DEF LongInv
  <1>2. FPInit => LongInv
    <2> SUFFICES ASSUME FPInit PROVE LastWrite /\ NeverWhole
      BY InitFPInv DEF LongInv
    <2>1. LastWrite
      BY DEF FPInit, Init, LastWrite
    <2>2. total \in Nat /\ chromaprint = <<>>
      BY BufAssumption DEF FPInit, NoString
    <2> QED BY <2>1, <2>2, MuxedIsLong DEF NeverWhole
  <1>3. LongInv /\ [FPNext]_allVars => LongInv'
    <2> SUFFICES ASSUME LongInv, [FPNext]_allVars, total' > BufSize
                 PROVE  chromaprint' # Muxed'
      BY FPInvStep, LastWriteStep DEF LongInv, NeverWhole
    <2>1. total' = total /\ Muxed' = Muxed
      <3>1. total' = total
        BY DEF FPNext, Open, Flush, Write, Take, TakeFails, client, allVars
      <3> QED BY <3>1 DEF Muxed
    <2>2. CASE UNCHANGED chromaprint
      BY <2>1, <2>2 DEF LongInv, NeverWhole
    <2>3. CASE Take
      <3>1. chromaprint' = <<>> \/ chromaprint' \in Strncpy
        BY <2>3 DEF Take, NoString
      <3> QED BY <2>1, <3>1, LongTake, MuxedIsLong DEF LongInv, FPInv, ClientInv
    <2> QED BY <2>2, <2>3 DEF FPNext, Open, Flush, Write, TakeFails, client, allVars
  <1> QED BY <1>1, <1>2, <1>3, PTL DEF FPSpec
=============================================================================
