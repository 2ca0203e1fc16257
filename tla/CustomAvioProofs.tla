-------------------------- MODULE CustomAvioProofs --------------------------
(***************************************************************************)
(* For any marks, limits, sizes and offsets: the types of a handle, that a *)
(* call which fails moves nothing, that the buffer never shrinks, that the *)
(* rounds of its growth come to an end, and that a disk handle implements  *)
(* the abstract file of ByteFile.                                          *)
(***************************************************************************)
EXTENDS CustomAvio, SequenceTheorems, TLAPS

\* Where a seek cannot end up: a negative target asks for more than any buffer has.
CallInv ==
  /\ call # Idle => kind = "memory" /\ "buffer" \in live
  /\ call.fn = "write" => call.arg \in Nat
  /\ call.fn = "seek" /\ call.arg < 0 => call.need > MaxInt64

\* A handle has a buffer of its own if it is a memory file's, and else has none.
LenInv ==
  /\ len <= MemLimit
  /\ kind \in {"unopened", "failed", "disk"} => len = 0
  /\ "buffer" \in live => len > 0

\* Before the open there was no call.
FreshInv == kind = "unopened" => live = {} /\ ret = 0 /\ got = <<>>

IInv == TypeOK /\ CallInv /\ LenInv /\ FreshInv

-----------------------------------------------------------------------------
(* What the operators return *)

\* A count is left as it is, and a failure turned into the largest int.
LEMMA INT32Returns ==
  /\ \A x \in Nat : INT32(x) = x
  /\ INT32(EIO) = MaxInt32
  /\ MaxInt32 \in Nat
  BY MarksAssumption DEF INT32, EIO

LEMMA FunctionIsSeq ==
  ASSUME NEW S, NEW n \in Nat, NEW f \in [1 .. n -> S]
  PROVE  f \in Seq(S) /\ Len(f) = n
  <1>1. f \in Seq(S)
    BY SeqDef
  <1>2. DOMAIN f = 1 .. n
    OBVIOUS
  <1>3. DOMAIN f = 1 .. Len(f) /\ Len(f) \in Nat
    BY <1>1, LenProperties
  <1> QED BY <1>1, <1>2, <1>3

LEMMA ByteAtType ==
  ASSUME len \in Nat, bytes \in [1 .. len -> Byte], NEW i \in Int
  PROVE  ByteAt(i) \in Byte
  BY DEF ByteAt, Byte

\* Each round makes the buffer longer.
LEMMA NewSizeGrows ==
  ASSUME NEW l \in Nat
  PROVE  NewSize(l) \in Nat /\ NewSize(l) > l
  BY MarksAssumption DEF NewSize

\* The unsigned reading of the signed one is the sum itself.
LEMMA TargetReadings ==
  ASSUME TypeOK, NEW off \in Nat, NEW whence \in Whences
  PROVE  /\ Target(off, whence) \in Int
         /\ Unsigned(Target(off, whence)) \in Nat
         /\ Target(off, whence) < 0 => Unsigned(Target(off, whence)) > MaxInt64
  <1> DEFINE sum == off + CASE whence = "cur" -> position
                            [] whence = "end" -> apparent_size
                            [] OTHER -> 0
  <1>1. sum \in Nat
    BY DEF TypeOK, Whences
  <1>2. Target(off, whence) = Signed(sum)
    BY DEF Target
  <1>3. MaxInt64 \in Nat
    BY MarksAssumption
  <1> HIDE DEF sum
  <1> QED BY <1>1, <1>2, <1>3 DEF Signed, Unsigned

-----------------------------------------------------------------------------
(* The invariant *)

LEMMA InitIInv == Init => IInv
  <1> SUFFICES ASSUME Init PROVE IInv
    OBVIOUS
  <1>1. TypeOK
    <2>1. <<>> \in [1 .. 0 -> Byte]
      OBVIOUS
    <2>2. bytes \in [1 .. len -> Byte]
      BY <2>1 DEF Init
    <2>3. file \in Seq(Byte) /\ got \in Seq(Byte)
      BY EmptySeq DEF Init
    <2>4. call \in Calls
      BY DEF Init, Calls
    <2>5. /\ kind \in {"unopened", "failed", "memory", "disk", "closed"}
          /\ live \subseteq {"handle", "buffer", "data", "descriptor"}
          /\ len \in Nat /\ apparent_size \in Nat /\ position \in Nat /\ fpos \in Nat
          /\ ret \in Int /\ writes \in Nat
      BY DEF Init
    <2>6. crashed \in BOOLEAN
      BY DEF Init
    <2> QED BY <2>2, <2>3, <2>4, <2>5, <2>6 DEF TypeOK
  <1>2. CallInv /\ LenInv /\ FreshInv
    BY MarksAssumption DEF Init, CallInv, LenInv, FreshInv, Idle
  <1> QED BY <1>1, <1>2 DEF IInv

LEMMA OpenStep ==
  ASSUME IInv, NEW name \in Names, OpenMemory(name) \/ OpenDisk(name) \/ OpenFails(name)
  PROVE  IInv'
  <1> USE DEF IInv
  <1>1. CASE OpenMemory(name)
    <2>1. call = Idle
      BY <1>1 DEF OpenMemory, CallInv
    <2>2. TypeOK'
      BY <1>1, MarksAssumption DEF OpenMemory, TypeOK, disk, Byte, Zero, Garbage
    <2>3. CallInv' /\ LenInv' /\ FreshInv'
      BY <1>1, <2>1, MarksAssumption
      DEF OpenMemory, CallInv, LenInv, FreshInv, TypeOK, Idle, disk
    <2> QED BY <2>2, <2>3
  <1>2. CASE OpenDisk(name) \/ OpenFails(name)
    <2>1. call = Idle /\ kind = "unopened"
      BY <1>2 DEF OpenDisk, OpenFails, CallInv
    <2>2. TypeOK'
      <3>1. /\ UNCHANGED <<memory, disk, call, got, writes, crashed>>
            /\ kind' \in {"disk", "failed"}
            /\ live' \in {live, {"handle"}, {"handle", "descriptor"}}
            /\ ret' \in {0, -1}
        BY <1>2 DEF OpenDisk, OpenFails, EIO
      <3> QED BY <3>1 DEF TypeOK, memory, disk
    <2>3. CallInv' /\ LenInv' /\ FreshInv'
      BY <1>2, <2>1 DEF OpenDisk, OpenFails, CallInv, LenInv, FreshInv, Idle, memory
    <2> QED BY <2>2, <2>3
  <1> QED BY <1>1, <1>2

LEMMA CloseStep ==
  ASSUME IInv, Close \/ NullBuffer
  PROVE  IInv'
  <1>1. TypeOK'
    BY DEF IInv, Close, NullBuffer, TypeOK, Ready, memory, disk
  <1>2. CallInv' /\ LenInv' /\ FreshInv'
    BY DEF IInv, Close, NullBuffer, CallInv, LenInv, FreshInv, Ready, Idle, memory, disk
  <1> QED BY <1>1, <1>2 DEF IInv

LEMMA ReadStep ==
  ASSUME IInv, NEW n \in ReadSizes, Read(n)
  PROVE  IInv'
  <1>1. n \in Nat /\ position \in Nat /\ apparent_size \in Nat
    BY ArgsAssumption DEF IInv, TypeOK
  <1>2. position' \in Nat /\ ret' \in Int /\ got' \in Seq(Byte) /\ crashed' \in BOOLEAN
    <2>1. CASE position > apparent_size
      BY <2>1 DEF Read, IInv, TypeOK
    <2>2. CASE ~(position > apparent_size)
      <3> DEFINE end == IF position + n < apparent_size THEN position + n ELSE apparent_size
      <3>1. end \in Nat /\ end - position \in Nat
        BY <1>1, <2>2
      <3>2. /\ got' = [i \in 1 .. end - position |-> ByteAt(i)]
            /\ position' = end /\ ret' = end - position /\ crashed' = crashed
        BY <2>2, <3>1, INT32Returns DEF Read
      <3>3. got' \in [1 .. end - position -> Byte]
        BY <3>1, <3>2, ByteAtType DEF IInv, TypeOK
      <3>4. got' \in Seq(Byte)
        BY <3>1, <3>3, FunctionIsSeq
      <3> QED BY <3>1, <3>2, <3>4 DEF IInv, TypeOK
    <2> QED BY <2>1, <2>2
  <1>3. TypeOK'
    BY <1>2 DEF Read, IInv, TypeOK, disk
  <1>4. CallInv' /\ LenInv' /\ FreshInv'
    BY DEF Read, IInv, CallInv, LenInv, FreshInv, InMemory, Ready, Idle, disk
  <1> QED BY <1>3, <1>4 DEF IInv

LEMMA WriteCallStep ==
  ASSUME IInv, NEW n \in Nat, WriteCall(n)
  PROVE  IInv'
  <1>1. call' \in Calls /\ call'.fn = "write" /\ call'.arg = n
    BY DEF WriteCall, IInv, TypeOK, Calls
  <1>2. TypeOK'
    BY <1>1 DEF WriteCall, IInv, TypeOK, memory, disk
  <1>3. CallInv' /\ LenInv' /\ FreshInv'
    BY <1>1 DEF WriteCall, IInv, CallInv, LenInv, FreshInv, InMemory, Ready, memory
  <1> QED BY <1>2, <1>3 DEF IInv

LEMMA SeekCallStep ==
  ASSUME IInv, NEW off \in MemOffsets, NEW whence \in Whences,
         SeekRefused(off, whence) \/ SeekCall(off, whence)
  PROVE  IInv'
  <1>1. CASE SeekRefused(off, whence)
    <2>1. TypeOK'
      BY <1>1 DEF SeekRefused, IInv, TypeOK, memory, disk, EIO, EINVAL
    <2>2. CallInv' /\ LenInv' /\ FreshInv'
      BY <1>1 DEF SeekRefused, IInv, CallInv, LenInv, FreshInv, Ready, Idle, memory
    <2> QED BY <2>1, <2>2 DEF IInv
  <1>2. CASE SeekCall(off, whence)
    <2> DEFINE t == Target(off, whence)
    <2>1. off \in Nat
      BY <1>2, ArgsAssumption DEF SeekCall
    <2>2. t \in Int /\ Unsigned(t) \in Nat /\ (t < 0 => Unsigned(t) > MaxInt64)
      BY <2>1, TargetReadings DEF IInv
    <2>3. \/ t > 0 /\ position' = t /\ ret' = t /\ call' = call
          \/ /\ call' = [fn |-> "seek", arg |-> t, need |-> Unsigned(t)]
             /\ position' = position /\ ret' = ret
      BY <1>2 DEF SeekCall, WithinBounds
    <2> HIDE DEF t
    <2>4. TypeOK'
      BY <1>2, <2>2, <2>3 DEF SeekCall, IInv, TypeOK, Calls, disk
    <2>5. CallInv' /\ LenInv' /\ FreshInv'
      BY <1>2, <2>2, <2>3
      DEF SeekCall, IInv, CallInv, LenInv, FreshInv, InMemory, Ready, Idle
    <2> QED BY <2>4, <2>5 DEF IInv
  <1> QED BY <1>1, <1>2

LEMMA GrowStep ==
  ASSUME IInv, Grow
  PROVE  IInv'
  <1>1. CASE Resize
    <2>1. len' \in Nat /\ len' > len /\ len' <= MemLimit
      BY <1>1, NewSizeGrows DEF Resize, IInv, TypeOK
    <2>2. bytes' \in [1 .. len' -> Byte]
      BY <1>1, <2>1, ByteAtType DEF Resize, IInv, TypeOK
    <2>3. TypeOK'
      BY <1>1, <2>1, <2>2 DEF Resize, IInv, TypeOK, disk
    <2>4. CallInv' /\ LenInv' /\ FreshInv'
      BY <1>1, <2>1 DEF Resize, IInv, TypeOK, CallInv, LenInv, FreshInv, Idle
    <2> QED BY <2>3, <2>4 DEF IInv
  <1>2. CASE ResizeFails
    <2>1. TypeOK'
      BY <1>2 DEF ResizeFails, IInv, TypeOK, Calls, memory, disk, EIO, ENOMEM
    <2>2. CallInv' /\ LenInv' /\ FreshInv'
      BY <1>2 DEF ResizeFails, IInv, CallInv, LenInv, FreshInv, Idle, memory
    <2> QED BY <2>1, <2>2 DEF IInv
  <1>3. CASE WriteCopy
    <2>1. call.arg \in Nat /\ call # Idle
      BY <1>3 DEF WriteCopy, IInv, CallInv, Idle
    <2>2. bytes' \in [1 .. len' -> Byte]
      BY <1>3 DEF WriteCopy, IInv, TypeOK, Byte
    <2>3. TypeOK'
      BY <1>3, <2>1, <2>2, INT32Returns DEF WriteCopy, IInv, TypeOK, Calls, disk
    <2>4. CallInv' /\ LenInv' /\ FreshInv'
      BY <1>3, <2>1 DEF WriteCopy, IInv, CallInv, LenInv, FreshInv, Idle
    <2> QED BY <2>3, <2>4 DEF IInv
  <1>4. CASE SeekDone
    <2>1. call.arg \in Int /\ call # Idle
      BY <1>4 DEF SeekDone, IInv, TypeOK, Calls, Idle
    <2>2. ~(call.need > MaxInt64)
      <3>1. len \in Nat /\ len <= MemLimit /\ call.need <= len /\ call.need \in Nat
        BY <1>4, <2>1 DEF SeekDone, IInv, TypeOK, LenInv, Calls
      <3> QED BY <3>1, MarksAssumption
    <2>3. call.arg \in Nat
      BY <1>4, <2>1, <2>2 DEF SeekDone, IInv, CallInv
    <2>4. TypeOK'
      BY <1>4, <2>3 DEF SeekDone, IInv, TypeOK, Calls, disk
    <2>5. CallInv' /\ LenInv' /\ FreshInv'
      BY <1>4, <2>1 DEF SeekDone, IInv, CallInv, LenInv, FreshInv, Idle
    <2> QED BY <2>4, <2>5 DEF IInv
  <1> QED BY <1>1, <1>2, <1>3, <1>4 DEF Grow

\* A call on a disk file touches no memory file's state.
LEMMA DiskLeaves ==
  ASSUME IInv, Ready("disk"), UNCHANGED <<kind, live, memory, call, crashed>>,
         file' \in Seq(Byte), fpos' \in Nat, got' \in Seq(Byte), ret' \in Int, writes' \in Nat
  PROVE  IInv'
  <1>1. TypeOK'
    BY DEF IInv, TypeOK, memory
  <1>2. CallInv' /\ LenInv' /\ FreshInv'
    BY DEF IInv, CallInv, LenInv, FreshInv, Ready, memory
  <1> QED BY <1>1, <1>2 DEF IInv

\* What a write(2) of k bytes makes of the file.
Written(k) ==
  [i \in 1 .. (IF Len(file) > fpos + k THEN Len(file) ELSE fpos + k) |->
     IF i \in fpos + 1 .. fpos + k THEN writes + 1
     ELSE IF i <= Len(file) THEN file[i] ELSE Zero]

LEMMA WrittenType ==
  ASSUME TypeOK, NEW k \in Nat
  PROVE  Written(k) \in Seq(Byte)
  <1>1. Len(file) \in Nat /\ \A i \in 1 .. Len(file) : file[i] \in Byte
    BY LenProperties, ElementOfSeq DEF TypeOK
  <1>2. DEFINE n == IF Len(file) > fpos + k THEN Len(file) ELSE fpos + k
  <1>3. n \in Nat
    BY <1>1 DEF TypeOK
  <1>4. \A i \in 1 .. n : (IF i \in fpos + 1 .. fpos + k THEN writes + 1
                           ELSE IF i <= Len(file) THEN file[i] ELSE Zero) \in Byte
    <2> HIDE DEF n
    <2> QED BY <1>1, <1>3 DEF TypeOK, Byte, Zero, Garbage
  <1>5. Written(k) \in [1 .. n -> Byte]
    BY <1>4 DEF Written
  <1> HIDE DEF n
  <1> QED BY <1>3, <1>5, FunctionIsSeq

LEMMA DiskWriteStep ==
  ASSUME IInv, NEW n \in DiskSizes, DiskWrite(n)
  PROVE  IInv'
  <1>0. n \in Nat
    BY ArgsAssumption
  <1>1. CASE ret' = INT32(EIO) /\ UNCHANGED <<disk, writes>>
    BY <1>1, INT32Returns, DiskLeaves DEF DiskWrite, IInv, TypeOK, disk
  <1>2. ASSUME NEW k \in 1 .. n,
               file' = Written(k) /\ fpos' = fpos + k /\ ret' = INT32(k) /\ writes' = writes + 1
        PROVE  IInv'
    <2>1. k \in Nat /\ file' \in Seq(Byte)
      BY <1>0, <1>2, WrittenType DEF IInv
    <2>2. fpos' \in Nat /\ ret' \in Int /\ writes' \in Nat
      BY <2>1, <1>2, INT32Returns DEF IInv, TypeOK
    <2> QED BY <2>1, <2>2, DiskLeaves DEF DiskWrite, IInv, TypeOK
  <1> QED BY <1>1, <1>2 DEF DiskWrite, Written

LEMMA DiskReadStep ==
  ASSUME IInv, NEW n \in ReadSizes, DiskRead(n)
  PROVE  IInv'
  <1>0. n \in Nat /\ Len(file) \in Nat /\ fpos \in Nat /\ file \in Seq(Byte)
    BY ArgsAssumption, LenProperties DEF IInv, TypeOK
  <1>1. CASE ret' = INT32(EIO) /\ UNCHANGED <<fpos, got>>
    BY <1>1, INT32Returns, DiskLeaves DEF DiskRead, IInv, TypeOK
  <1>2. CASE /\ got' = SubSeq(file, fpos + 1, IF fpos + n < Len(file) THEN fpos + n ELSE Len(file))
             /\ fpos' = fpos + Len(got')
             /\ ret' = INT32(Len(got'))
    <2>1. got' \in Seq(Byte)
      BY <1>0, <1>2, SubSeqProperties
    <2>2. fpos' \in Nat /\ ret' \in Int
      BY <1>0, <1>2, <2>1, LenProperties, INT32Returns
    <2> QED BY <2>1, <2>2, DiskLeaves DEF DiskRead, IInv, TypeOK
  <1> QED BY <1>1, <1>2 DEF DiskRead

LEMMA DiskSeekTo ==
  ASSUME IInv, NEW off \in DiskOffsets, NEW whence \in Whences, DiskSeek(off, whence)
  PROVE  \/ ret' = EIO /\ fpos' = fpos
         \/ ret' = fpos' /\ fpos' \in 0 .. MaxInt64
  <1> DEFINE t == off + CASE whence = "cur" -> fpos
                          [] whence = "end" -> Len(file)
                          [] OTHER -> 0
  <1>1. off \in Int /\ fpos \in Nat /\ Len(file) \in Nat /\ MaxInt64 \in Nat
    BY ArgsAssumption, MarksAssumption, LenProperties DEF IInv, TypeOK
  <1>2. off >= 0 => t \in Nat
    BY <1>1 DEF Whences
  <1>3. \/ ret' = EIO /\ fpos' = fpos
        \/ ~(off < 0) /\ ~(t > MaxInt64) /\ ret' = t /\ fpos' = t
    BY DEF DiskSeek
  <1> HIDE DEF t
  <1> QED BY <1>1, <1>2, <1>3

LEMMA DiskSeekStep ==
  ASSUME IInv, NEW off \in DiskOffsets, NEW whence \in Whences, DiskSeek(off, whence)
  PROVE  IInv'
  <1>1. fpos' \in Nat /\ ret' \in Int
    BY DiskSeekTo, MarksAssumption DEF IInv, TypeOK, EIO
  <1> QED BY <1>1, DiskLeaves DEF DiskSeek, IInv, TypeOK

LEMMA IInvStep == IInv /\ [Next]_vars => IInv'
  <1> SUFFICES ASSUME IInv, [Next]_vars PROVE IInv'
    OBVIOUS
  <1>1. CASE UNCHANGED vars
    BY <1>1 DEF vars, memory, disk, IInv, TypeOK, CallInv, LenInv, FreshInv
  <1> QED
    BY <1>1, ArgsAssumption, OpenStep, CloseStep, ReadStep, WriteCallStep, SeekCallStep,
       GrowStep, DiskWriteStep, DiskReadStep, DiskSeekStep DEF Next

\* Every reachable state of a handle has its type.
THEOREM TypeCorrect == Spec => []TypeOK
  BY InitIInv, IInvStep, PTL DEF Spec, IInv

-----------------------------------------------------------------------------
(* Steps *)

\* A call that fails moves neither position nor size, whatever the limit of memory
\* and wherever in the growth of the buffer it fails.
THEOREM FailureMovesNothing == Spec => MovesOnlyOnSuccess
  <1>1. ASSUME IInv, [Next]_vars
        PROVE  [<<position, apparent_size>>' # <<position, apparent_size>>
                  => call' = Idle /\ ret' >= 0]_vars
    <2> SUFFICES ASSUME <<position, apparent_size>>' # <<position, apparent_size>>
                 PROVE  call' = Idle /\ ret' >= 0
      OBVIOUS
    <2>1. ASSUME NEW n \in ReadSizes, Read(n) PROVE call' = Idle /\ ret' >= 0
      <3>1. n \in Nat /\ position \in Nat /\ apparent_size \in Nat
        BY <1>1, ArgsAssumption DEF IInv, TypeOK
      <3>2. ~(position > apparent_size)
        BY <2>1 DEF Read
      <3>3. call' = Idle /\ ret' \in {position + n - position, apparent_size - position}
        BY <2>1, <3>1, <3>2, INT32Returns DEF Read, InMemory, Ready
      <3> QED BY <3>1, <3>2, <3>3
    <2>2. ASSUME NEW off \in MemOffsets, NEW whence \in Whences, SeekCall(off, whence)
          PROVE  call' = Idle /\ ret' >= 0
      <3> DEFINE t == Target(off, whence)
      <3>1. off \in Nat
        BY <2>2, ArgsAssumption DEF SeekCall
      <3>2. t \in Int
        BY <1>1, <3>1, TargetReadings DEF IInv
      <3>3. t > 0 /\ ret' = t /\ call' = Idle
        BY <2>2 DEF SeekCall, WithinBounds, InMemory, Ready
      <3> HIDE DEF t
      <3> QED BY <3>2, <3>3
    <2>3. CASE WriteCopy
      BY <1>1, <2>3, INT32Returns DEF WriteCopy, IInv, CallInv
    <2>4. CASE SeekDone
      <3>1. call' = Idle /\ ret' = position' /\ position' \in Nat
        BY <1>1, <2>4, GrowStep DEF SeekDone, Grow, IInv, TypeOK
      <3> QED BY <3>1
    <2>5. ~(Resize \/ ResizeFails \/ Close \/ NullBuffer)
      BY DEF Resize, ResizeFails, Close, NullBuffer, memory
    <2>6. \A name \in Names : ~(OpenMemory(name) \/ OpenDisk(name) \/ OpenFails(name))
      BY DEF OpenMemory, OpenDisk, OpenFails, memory
    <2>7. /\ \A n \in ReadSizes : ~DiskRead(n)
          /\ \A n \in WriteSizes : ~WriteCall(n)
          /\ \A n \in DiskSizes : ~DiskWrite(n)
      BY DEF DiskRead, WriteCall, DiskWrite, memory
    <2>8. /\ \A off \in MemOffsets, whence \in Whences : ~SeekRefused(off, whence)
          /\ \A off \in DiskOffsets, whence \in Whences : ~DiskSeek(off, whence)
      BY DEF SeekRefused, DiskSeek, memory
    <2>9. ~UNCHANGED vars
      BY DEF vars, memory
    <2> QED
      BY <1>1, <2>1, <2>2, <2>3, <2>4, <2>5, <2>6, <2>7, <2>8, <2>9 DEF Next, Grow
  <1> QED BY <1>1, InitIInv, IInvStep, PTL DEF Spec, MovesOnlyOnSuccess

\* audiofs_buffer_realloc is asked to grow the buffer of a handle, never to shrink it.
THEOREM BufferNeverShrinks == Spec => NeverShrinks
  <1>1. ASSUME IInv, [Next]_vars PROVE [len' >= len]_vars
    <2>1. len \in Nat
      BY <1>1 DEF IInv, TypeOK
    <2>2. ASSUME Resize PROVE len' >= len
      BY <2>1, <2>2, NewSizeGrows DEF Resize
    <2>3. ASSUME NEW name \in Names, OpenMemory(name) PROVE len' >= len
      BY <2>1, <2>3, MarksAssumption, <1>1 DEF OpenMemory, IInv, LenInv
    <2>4. ASSUME ~Resize, \A name \in Names : ~OpenMemory(name) PROVE len' = len
      BY <1>1, <2>4
      DEF Next, OpenDisk, OpenFails, Close, NullBuffer, Read, DiskRead, WriteCall, DiskWrite,
          SeekRefused, SeekCall, DiskSeek, Grow, ResizeFails, WriteCopy, SeekDone, vars, memory
    <2> QED BY <2>1, <2>2, <2>3, <2>4
  <1> QED BY <1>1, InitIInv, IInvStep, PTL DEF Spec, NeverShrinks

-----------------------------------------------------------------------------
(* The return of a call *)

Room == MemLimit - len

\* The half of CallReturns that needs no fairness: whatever happens while a write or a
\* seek is growing its buffer ends that call, or takes a round of the loop, and the
\* loop has only so many rounds, for each leaves less room below what realloc can find.
THEOREM ReturnComesNearer ==
  Spec => [][call # Idle =>
               \/ call' = Idle
               \/ call' = call /\ Room' \in Nat /\ Room' < Room]_vars
  <1>1. ASSUME IInv, [Next]_vars
        PROVE  [call # Idle =>
                  \/ call' = Idle
                  \/ call' = call /\ Room' \in Nat /\ Room' < Room]_vars
    <2> SUFFICES ASSUME call # Idle, Next
                 PROVE  \/ call' = Idle
                        \/ call' = call /\ Room' \in Nat /\ Room' < Room
      BY <1>1
    <2>1. kind = "memory" /\ "buffer" \in live
      BY <1>1 DEF IInv, CallInv
    <2>2. Grow
      BY <2>1
      DEF Next, OpenMemory, OpenDisk, OpenFails, Close, NullBuffer, Read, DiskRead, WriteCall,
          DiskWrite, SeekRefused, SeekCall, DiskSeek, InMemory, Ready
    <2>3. CASE Resize
      <3>1. len \in Nat /\ MemLimit \in Nat
        BY <1>1, MarksAssumption DEF IInv, TypeOK
      <3>2. len' = NewSize(len) /\ len' <= MemLimit /\ call' = call
        BY <2>3 DEF Resize
      <3>3. len' \in Nat /\ len' > len
        BY <3>1, <3>2, NewSizeGrows
      <3> QED BY <3>1, <3>2, <3>3 DEF Room
    <2>4. CASE ResizeFails \/ WriteCopy \/ SeekDone
      BY <2>4 DEF ResizeFails, WriteCopy, SeekDone
    <2> QED BY <2>2, <2>3, <2>4 DEF Grow
  <1> QED BY <1>1, InitIInv, IInvStep, PTL DEF Spec

-----------------------------------------------------------------------------
(* The refinement *)

\* What a memory file's calls do is not seen: it has a buffer from the start.
LEMMA MemoryUnseen ==
  ASSUME len # 0, len' # 0, UNCHANGED disk
  PROVE  UNCHANGED Disk!fileVars
  BY DEF disk, Disk!fileVars

\* A call that fails, or does nothing, with no buffer.
LEMMA FailureIsFail ==
  ASSUME len = 0, len' = 0, UNCHANGED disk, got' = got, ret' \in {ret, EIO, EINVAL, INT32(EIO)}
  PROVE  [Disk!Next]_(Disk!fileVars)
  BY DEF disk, Disk!fileVars, Disk!Next, Disk!Fail

LEMMA DiskWriteIsWrite ==
  ASSUME IInv, NEW n \in DiskSizes, DiskWrite(n)
  PROVE  Disk!Next
  <1>0. n \in Nat /\ len = 0 /\ len' = 0
    BY ArgsAssumption DEF IInv, LenInv, DiskWrite, Ready, memory
  <1>1. CASE ret' = INT32(EIO) /\ UNCHANGED <<disk, writes>>
    BY <1>0, <1>1 DEF DiskWrite, disk, Disk!Next, Disk!Fail
  <1>2. ASSUME NEW k \in 1 .. n,
               file' = Written(k) /\ fpos' = fpos + k /\ ret' = INT32(k)
        PROVE  Disk!Next
    <2> DEFINE b == [i \in 1 .. k |-> writes + 1]
    <2>1. k \in Nat /\ writes + 1 \in 1 .. MaxWrites /\ fpos \in Nat
      BY <1>0, <1>2, MarksAssumption DEF DiskWrite, IInv, TypeOK
    <2>2. b \in [1 .. k -> {writes + 1}] /\ Len(b) = k
      BY <2>1, FunctionIsSeq
    <2>3. b \in DiskChunks
      <3> DEFINE counts == UNION {1 .. m : m \in DiskSizes}
                 sets == {[1 .. j -> {w}] : j \in counts, w \in 1 .. MaxWrites}
      <3>1. k \in counts
        BY <1>2
      <3> HIDE DEF b, counts
      <3>2. [1 .. k -> {writes + 1}] \in sets
        BY <2>1, <3>1
      <3> HIDE DEF sets
      <3>3. b \in UNION sets
        BY <2>2, <3>2
      <3> QED BY <3>3 DEF DiskChunks, counts, sets
    <2>4. \A i \in fpos + 1 .. fpos + k : b[i - fpos] = writes + 1
      BY <2>1
    <2>5. file' = Disk!Overlay(file, fpos, b)
      <3> HIDE DEF b
      <3> QED BY <1>2, <2>2, <2>4 DEF Written, Disk!Overlay
    <2> HIDE DEF b
    <2>6. Disk!Write
      BY <1>0, <1>2, <2>1, <2>2, <2>3, <2>5, INT32Returns DEF Disk!Write, DiskWrite
    <2> QED BY <2>6 DEF Disk!Next
  <1> QED BY <1>1, <1>2 DEF DiskWrite, Written

LEMMA DiskReadIsRead ==
  ASSUME IInv, NEW n \in ReadSizes, DiskRead(n)
  PROVE  Disk!Next
  <1>0. len = 0 /\ len' = 0 /\ file' = file
    BY DEF IInv, LenInv, DiskRead, Ready, memory
  <1>1. CASE ret' = INT32(EIO) /\ UNCHANGED <<fpos, got>>
    BY <1>0, <1>1 DEF Disk!Next, Disk!Fail
  <1>2. CASE /\ got' = SubSeq(file, fpos + 1, IF fpos + n < Len(file) THEN fpos + n ELSE Len(file))
             /\ fpos' = fpos + Len(got')
             /\ ret' = INT32(Len(got'))
    <2>1. Len(got') \in Nat
      BY <1>2, ArgsAssumption, LenProperties, SubSeqProperties DEF IInv, TypeOK
    <2> QED BY <1>0, <1>2, <2>1, INT32Returns DEF Disk!Next, Disk!Read, Disk!From
  <1> QED BY <1>1, <1>2 DEF DiskRead

LEMMA DiskSeekIsSeek ==
  ASSUME IInv, NEW off \in DiskOffsets, NEW whence \in Whences, DiskSeek(off, whence)
  PROVE  Disk!Next
  <1>0. len = 0 /\ len' = 0 /\ file' = file /\ got' = got
    BY DEF IInv, LenInv, DiskSeek, Ready, memory
  <1>1. CASE ret' = EIO /\ fpos' = fpos
    BY <1>0, <1>1 DEF Disk!Next, Disk!Fail
  <1>2. CASE ret' = fpos' /\ fpos' \in 0 .. MaxInt64
    BY <1>0, <1>2 DEF Disk!Next, Disk!Seek
  <1> QED BY <1>1, <1>2, DiskSeekTo

\* Every step of a handle is one of the file or leaves it alone.
LEMMA StepIsFileStep == IInv /\ [Next]_vars => [Disk!Next]_(Disk!fileVars)
  <1> SUFFICES ASSUME IInv, [Next]_vars PROVE [Disk!Next]_(Disk!fileVars)
    OBVIOUS
  <1>0. IInv' /\ len \in Nat
    BY IInvStep DEF IInv, TypeOK
  <1>1. CASE UNCHANGED vars
    BY <1>1 DEF vars, memory, disk, Disk!fileVars
  <1>2. ASSUME NEW name \in Names, OpenMemory(name) \/ OpenDisk(name) \/ OpenFails(name)
        PROVE  [Disk!Next]_(Disk!fileVars)
    <2>1. kind = "unopened" /\ len = 0 /\ ret = 0 /\ got = <<>> /\ got' = got /\ UNCHANGED disk
      BY <1>2 DEF OpenMemory, OpenDisk, OpenFails, IInv, LenInv, FreshInv
    <2>2. CASE len' = 0
      <3>1. ret' \in {ret, EIO}
        BY <1>2, <2>1 DEF OpenMemory, OpenDisk, OpenFails
      <3> QED BY <2>1, <2>2, <3>1, FailureIsFail
    <2>3. CASE len' # 0
      BY <2>1, <2>3 DEF disk, Disk!fileVars
    <2> QED BY <2>2, <2>3
  <1>3. ASSUME Close \/ NullBuffer
        PROVE  [Disk!Next]_(Disk!fileVars)
    BY <1>3 DEF Close, NullBuffer, memory, disk, Disk!fileVars
  <1>4. ASSUME NEW off \in MemOffsets, NEW whence \in Whences, SeekRefused(off, whence)
        PROVE  [Disk!Next]_(Disk!fileVars)
    <2>1. UNCHANGED disk /\ len' = len /\ got' = got /\ ret' \in {EIO, EINVAL}
      BY <1>4 DEF SeekRefused, memory
    <2> QED BY <2>1, FailureIsFail, MemoryUnseen
  <1>5. ASSUME \/ Grow
               \/ \E n \in ReadSizes : Read(n)
               \/ \E n \in WriteSizes : WriteCall(n)
               \/ \E off \in MemOffsets, whence \in Whences : SeekCall(off, whence)
        PROVE  [Disk!Next]_(Disk!fileVars)
    <2>1. "buffer" \in live /\ live' = live /\ UNCHANGED disk
      BY <1>5 DEF Grow, Resize, ResizeFails, WriteCopy, SeekDone, Read, WriteCall, SeekCall,
                  InMemory, IInv, CallInv, Idle
    <2>2. len # 0 /\ len' # 0
      BY <1>0, <2>1 DEF IInv, LenInv, TypeOK
    <2> QED BY <2>1, <2>2, MemoryUnseen
  <1> QED
    BY <1>1, <1>2, <1>3, <1>4, <1>5, DiskWriteIsWrite, DiskReadIsRead, DiskSeekIsSeek DEF Next

\* A disk handle implements read(2), write(2) and lseek(2) on its file, for any sizes
\* and offsets and however much each write takes.  A read or write that fails does
\* nothing, and is reported as INT32_MAX bytes (custom_avio.c:29, 87).
THEOREM DiskHandleIsFile == Spec => DiskIsFile
  <1>1. Init => Disk!Init
    BY DEF Init, Disk!Init
  <1> QED BY <1>1, InitIInv, IInvStep, StepIsFileStep, PTL DEF Spec, DiskIsFile, Disk!Spec
=============================================================================
