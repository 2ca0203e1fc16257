----------------------------- MODULE CustomAvio -----------------------------
(***************************************************************************)
(* One handle of native/custom_avio.c, the callbacks through which FFmpeg  *)
(* writes (and may read and seek) the output of a transcode: a file kept   *)
(* in an audiofs_buffer when the name asks for one, else a file on disk,   *)
(* where each call is passed on to the operating system.                   *)
(*                                                                         *)
(* A handle is used by one thread.  A call that has to grow the buffer is  *)
(* several steps, one per round of the loop of audiofs_avio_resize_to; all *)
(* other calls are one.  Sizes are scaled down: only their order and the   *)
(* distance to MaxInt64 matter.                                            *)
(***************************************************************************)
EXTENDS Integers, Sequences

CONSTANTS
  Names,       \* file names handed to audiofs_avio_open
  Prefixes,    \* those of them that are a prefix of "memory"
  InitialLen,  \* 1024, the length a memory file's buffer starts with
  K64, M1, M16, \* 64 KiB, 1 MiB and 16 MiB, the marks it grows by
  MaxInt32,    \* INT32_MAX
  MaxInt64,    \* INT64_MAX
  MemLimit,    \* the largest block realloc can find
  MaxWrites,   \* bound: successful writes through the handle
  WriteSizes,  \* buf_size of a write to memory; FFmpeg never flushes 0 bytes
  DiskSizes,   \* buf_size of a write to disk
  ReadSizes,   \* buf_size of a read
  MemOffsets,  \* offsets handed to seek on a memory file, {} if there is no seek
  DiskOffsets  \* and on a disk file

ASSUME MarksAssumption ==
  /\ {InitialLen, K64, M1, M16, MaxInt32, MaxInt64, MemLimit, MaxWrites} \subseteq Nat
  /\ 0 < InitialLen /\ InitialLen < K64 /\ K64 < M1 /\ M1 < M16 /\ M16 < MaxInt32
  /\ MaxInt32 < MaxInt64
  /\ InitialLen <= MemLimit /\ MemLimit <= MaxInt64

ASSUME ArgsAssumption ==
  /\ Prefixes \subseteq Names
  /\ WriteSizes \cup DiskSizes \subseteq 1 .. MaxInt32
  /\ ReadSizes \subseteq 0 .. MaxInt32
  /\ MemOffsets \cup DiskOffsets \subseteq Int

ENOMEM == -12
EINVAL == -22
EIO    == -1  \* what the code returns for every other failure

\* INT32(X), that is X & INT32_MAX: the count of a call, which is an int, is left as
\* it is, but -1 loses its sign and becomes INT32_MAX.
INT32(x) == IF x < 0 THEN x + MaxInt32 + 1 ELSE x

Zero    == 0   \* what calloc, or a hole in a file, leaves in a byte
Garbage == -1  \* what realloc leaves in the bytes it adds

VARIABLES
  kind,           \* what became of audiofs_avio_open
  live,           \* the resources that exist: allocations and descriptors
  len, bytes,     \* buffer->len and buffer->data
  apparent_size,  \* handle->apparent_size
  position,       \* handle->position
  file, fpos,     \* the disk file and the offset of its descriptor
  call,           \* the call that is growing the buffer, or Idle
  ret,            \* what the last call returned
  got,            \* the bytes the last read returned
  writes,         \* successful writes so far; each writes bytes of its own
  crashed         \* the process died of an invalid access

memory == <<len, bytes, apparent_size, position>>
disk == <<file, fpos>>
vars == <<kind, live, memory, disk, call, ret, got, writes, crashed>>

Idle == [fn |-> "none", arg |-> 0, need |-> 0]

Calls == {Idle} \cup [fn : {"write", "seek"}, arg : Int, need : Nat]

Byte == Nat \cup {Garbage}

TypeOK ==
  /\ kind \in {"unopened", "failed", "memory", "disk", "closed"}
  /\ live \subseteq {"handle", "buffer", "data", "descriptor"}
  /\ len \in Nat /\ apparent_size \in Nat /\ position \in Nat /\ fpos \in Nat
  /\ bytes \in [1 .. len -> Byte]
  /\ file \in Seq(Byte) /\ got \in Seq(Byte)
  /\ call \in Calls
  /\ ret \in Int
  /\ writes \in Nat
  /\ crashed \in BOOLEAN

Init ==
  /\ kind = "unopened"
  /\ live = {}
  /\ len = 0 /\ bytes = <<>> /\ apparent_size = 0 /\ position = 0
  /\ file = <<>> /\ fpos = 0
  /\ call = Idle
  /\ ret = 0
  /\ got = <<>>
  /\ writes = 0
  /\ crashed = FALSE

-----------------------------------------------------------------------------
(* audiofs_avio_open and audiofs_avio_close *)

\* The name is compared over its own length (line 150).  A buffer that cannot
\* be allocated is NULL, which line 154 does not see: in a release build the
\* call succeeds, in others the next debugf reads buffer->len.
OpenMemory(name) ==
  /\ kind = "unopened"
  /\ name \in Prefixes
  /\ kind' = "memory"
  /\ ret' = 0
  /\ \/ /\ live' = {"handle", "buffer", "data"}
        /\ len' = InitialLen
        /\ bytes' = [i \in 1 .. InitialLen |-> Zero]
        /\ UNCHANGED crashed
     \/ /\ live' = {"handle"}
        /\ crashed' \in BOOLEAN
        /\ UNCHANGED <<len, bytes>>
  /\ UNCHANGED <<apparent_size, position, disk, call, got, writes>>

\* A file that cannot be opened returns past the free of line 179.
OpenDisk(name) ==
  /\ kind = "unopened"
  /\ name \notin Prefixes
  /\ \/ kind' = "disk" /\ live' = {"handle", "descriptor"} /\ ret' = 0
     \/ kind' = "failed" /\ live' = {"handle"} /\ ret' = EIO
  /\ UNCHANGED <<memory, disk, call, got, writes, crashed>>

\* No memory for the handle: NULL is returned and nothing is left behind.
OpenFails(name) ==
  /\ kind = "unopened"
  /\ name \in Names
  /\ kind' = "failed"
  /\ ret' = EIO
  /\ UNCHANGED <<live, memory, disk, call, got, writes, crashed>>

Ready(k) == kind = k /\ call = Idle /\ ~crashed

\* Frees the struct audiofs_buffer, not the block its data points to.
Close ==
  /\ \/ Ready("memory") /\ live' = live \ {"buffer", "handle"}
     \/ Ready("disk") /\ live' = live \ {"descriptor", "handle"}
  /\ kind' = "closed"
  /\ UNCHANGED <<memory, disk, call, ret, got, writes, crashed>>

-----------------------------------------------------------------------------
(* The calls on a memory file *)

\* A call that reads through a buffer pointer that is NULL.
NullBuffer ==
  /\ Ready("memory") /\ "buffer" \notin live
  /\ crashed' = TRUE
  /\ UNCHANGED <<kind, live, memory, disk, call, ret, got, writes>>

InMemory == Ready("memory") /\ "buffer" \in live

\* What memcpy finds at byte i of the block: past its end, anything.
ByteAt(i) == IF i \in 1 .. len THEN bytes[i] ELSE Garbage

\* The count is unsigned: a position past the end wraps it to almost 2^64, and
\* memcpy runs off the address space.  The copy starts at the first byte of the
\* buffer, wherever position is.
Read(n) ==
  /\ InMemory
  /\ IF position > apparent_size
     THEN crashed' = TRUE /\ UNCHANGED <<position, ret, got>>
     ELSE LET end == IF position + n < apparent_size THEN position + n
                                                     ELSE apparent_size
          IN /\ got' = [i \in 1 .. end - position |-> ByteAt(i)]
             /\ position' = end
             /\ ret' = INT32(end - position)
             /\ UNCHANGED crashed
  /\ UNCHANGED <<kind, live, len, bytes, apparent_size, disk, call, writes>>

\* Mutant: position moves before the buffer is known to be large enough.
WriteCallEarly(n) ==
  /\ InMemory
  /\ writes < MaxWrites
  /\ call' = [fn |-> "write", arg |-> n, need |-> position + n]
  /\ position' = position + n
  /\ UNCHANGED <<kind, live, len, bytes, apparent_size, disk, ret, got, writes, crashed>>

\* Mutant: asks for the bytes of this write alone.
WriteCallShort(n) ==
  /\ InMemory
  /\ writes < MaxWrites
  /\ call' = [fn |-> "write", arg |-> n, need |-> n]
  /\ UNCHANGED <<kind, live, memory, disk, ret, got, writes, crashed>>

WriteCall(n) ==
  /\ InMemory
  /\ writes < MaxWrites
  /\ call' = [fn |-> "write", arg |-> n, need |-> position + n]
  /\ UNCHANGED <<kind, live, memory, disk, ret, got, writes, crashed>>

\* Mutant: a buffer of exactly 16 MiB grows to 16 MiB.
NewSizeStuck(l) ==
  IF l < K64 THEN K64 ELSE IF l < M1 THEN M1 ELSE IF l <= M16 THEN M16 ELSE l + M16

\* The last of the four ifs that applies wins (lines 43-46).
NewSize(l) ==
  IF l < K64 THEN K64 ELSE IF l < M1 THEN M1 ELSE IF l < M16 THEN M16 ELSE l + M16

\* Mutant: resizes to what is asked for, be it less.
ResizeExact ==
  /\ call # Idle /\ call.need <= MemLimit
  /\ len' = call.need
  /\ bytes' = [i \in 1 .. len' |-> ByteAt(i)]
  /\ UNCHANGED <<kind, live, apparent_size, position, disk, call, ret, got,
                 writes, crashed>>

\* One round of audiofs_avio_resize_to.  audiofs_buffer_realloc makes the buffer
\* exactly the new size, keeping its bytes, and leaves the new ones undefined.
Resize ==
  /\ call # Idle /\ len < call.need /\ call.need <= MaxInt64
  /\ NewSize(len) <= MemLimit
  /\ len' = NewSize(len)
  /\ bytes' = [i \in 1 .. len' |-> ByteAt(i)]
  /\ UNCHANGED <<kind, live, apparent_size, position, disk, call, ret, got,
                 writes, crashed>>

\* The size asked for is no int64_t, or realloc failed: what earlier rounds
\* gained stays.
ResizeFails ==
  /\ call # Idle /\ len < call.need
  /\ ret' = IF call.fn = "write" THEN EIO ELSE ENOMEM
  /\ call' = Idle
  /\ UNCHANGED <<kind, live, memory, disk, got, writes, crashed>>

\* The copy goes to the first byte of the buffer, wherever position is, and the
\* size counts every byte ever written.
WriteCopy ==
  /\ call.fn = "write" /\ len >= call.need
  /\ bytes' = [i \in 1 .. len |-> IF i <= call.arg THEN writes + 1 ELSE bytes[i]]
  /\ position' = position + call.arg
  /\ apparent_size' = apparent_size + call.arg
  /\ ret' = INT32(call.arg)
  /\ writes' = writes + 1
  /\ call' = Idle
  /\ UNCHANGED <<kind, live, len, disk, got, crashed>>

Whences == {"set", "cur", "end", "other"}

\* int64_t and uint64_t readings of a sum of two numbers below 2^63.
Signed(x) == IF x > MaxInt64 THEN x - 2 * (MaxInt64 + 1) ELSE x
Unsigned(x) == IF x < 0 THEN x + 2 * (MaxInt64 + 1) ELSE x

Target(off, whence) ==
  Signed(off + CASE whence = "cur" -> position
                 [] whence = "end" -> apparent_size
                 [] OTHER -> 0)

\* WITHIN_BOUNDS(0, t, apparent_size) is a clamp, not a test: it is false when
\* the offset is clamped to 0.
WithinBounds(t) == t > 0 /\ apparent_size > 0

\* Negative offsets are refused before whence is looked at.
SeekRefused(off, whence) ==
  /\ Ready("memory")
  /\ \/ off < 0 /\ ret' = EIO
     \/ off >= 0 /\ whence = "other" /\ ret' = EINVAL
     \/ off >= 0 /\ whence = "end" /\ Target(off, whence) < 0 /\ ret' = EINVAL
  /\ UNCHANGED <<kind, live, memory, disk, call, got, writes, crashed>>

\* Mutant: the sum of position and offset is not checked.
SeekCallUnchecked(off, whence) ==
  /\ InMemory
  /\ off >= 0 /\ whence # "other"
  /\ LET t == Target(off, whence)
     IN /\ ~(whence = "end" /\ t < 0)
        /\ position' = t
        /\ ret' = t
  /\ UNCHANGED <<kind, live, len, bytes, apparent_size, disk, call, got, writes, crashed>>

\* A target that WITHIN_BOUNDS lets through is taken without growing anything.
SeekCall(off, whence) ==
  /\ InMemory
  /\ off >= 0 /\ whence # "other"
  /\ LET t == Target(off, whence)
     IN /\ ~(whence = "end" /\ t < 0)
        /\ \/ WithinBounds(t) /\ position' = t /\ ret' = t /\ UNCHANGED call
           \/ /\ ~WithinBounds(t)
              /\ call' = [fn |-> "seek", arg |-> t, need |-> Unsigned(t)]
              /\ UNCHANGED <<position, ret>>
  /\ UNCHANGED <<kind, live, len, bytes, apparent_size, disk, got, writes, crashed>>

SeekDone ==
  /\ call.fn = "seek" /\ len >= call.need
  /\ position' = call.arg
  /\ ret' = call.arg
  /\ call' = Idle
  /\ UNCHANGED <<kind, live, len, bytes, apparent_size, disk, got, writes, crashed>>

-----------------------------------------------------------------------------
(* The calls on a disk file: read(2), write(2) and lseek(2) on its descriptor. *)

\* write(2) may take a part of what it is given, or fail, which the caller is told
\* through INT32.
DiskWrite(n) ==
  /\ Ready("disk")
  /\ writes < MaxWrites
  /\ \/ \E k \in 1 .. n :
          /\ fpos + k <= MaxInt64
          /\ file' = [i \in 1 .. (IF Len(file) > fpos + k THEN Len(file) ELSE fpos + k) |->
                        IF i \in fpos + 1 .. fpos + k THEN writes + 1
                        ELSE IF i <= Len(file) THEN file[i] ELSE Zero]
          /\ fpos' = fpos + k
          /\ ret' = INT32(k)
          /\ writes' = writes + 1
     \/ ret' = INT32(EIO) /\ UNCHANGED <<disk, writes>>
  /\ UNCHANGED <<kind, live, memory, call, got, crashed>>

\* read(2) on a regular file stores what there is, or fails, reported likewise.
DiskRead(n) ==
  /\ Ready("disk")
  /\ \/ /\ got' = SubSeq(file, fpos + 1, IF fpos + n < Len(file) THEN fpos + n ELSE Len(file))
        /\ fpos' = fpos + Len(got')
        /\ ret' = INT32(Len(got'))
     \/ ret' = INT32(EIO) /\ UNCHANGED <<fpos, got>>
  /\ UNCHANGED <<kind, live, memory, file, call, writes, crashed>>

\* Mutant: answers with the offset it was given.
DiskSeekEchoes(off, whence) ==
  /\ Ready("disk")
  /\ LET t == off + CASE whence = "cur" -> fpos
                      [] whence = "end" -> Len(file)
                      [] OTHER -> 0
     IN IF off < 0 \/ whence = "other" \/ t > MaxInt64
        THEN ret' = EIO /\ UNCHANGED fpos
        ELSE ret' = off /\ fpos' = t
  /\ UNCHANGED <<kind, live, memory, file, call, got, writes, crashed>>

DiskSeek(off, whence) ==
  /\ Ready("disk")
  /\ LET t == off + CASE whence = "cur" -> fpos
                      [] whence = "end" -> Len(file)
                      [] OTHER -> 0
     IN IF off < 0 \/ whence = "other" \/ t > MaxInt64
        THEN ret' = EIO /\ UNCHANGED fpos
        ELSE ret' = t /\ fpos' = t
  /\ UNCHANGED <<kind, live, memory, file, call, got, writes, crashed>>

-----------------------------------------------------------------------------
Grow == Resize \/ ResizeFails \/ WriteCopy \/ SeekDone

Next ==
  \/ \E name \in Names : OpenMemory(name) \/ OpenDisk(name) \/ OpenFails(name)
  \/ Close
  \/ NullBuffer
  \/ \E n \in ReadSizes : Read(n) \/ DiskRead(n)
  \/ \E n \in WriteSizes : WriteCall(n)
  \/ \E n \in DiskSizes : DiskWrite(n)
  \/ \E off \in MemOffsets, whence \in Whences :
       SeekRefused(off, whence) \/ SeekCall(off, whence)
  \/ \E off \in DiskOffsets, whence \in Whences : DiskSeek(off, whence)
  \/ Grow

Spec == Init /\ [][Next]_vars

\* A resize that cannot but fail.
MustFail == call.need > MaxInt64 \/ NewSize(len) > MemLimit

\* A call that has started runs on, without counting on realloc to fail; that
\* another call follows is up to the caller.
FairSpec ==
  Spec /\ WF_vars(Resize \/ (MustFail /\ ResizeFails) \/ WriteCopy \/ SeekDone)

-----------------------------------------------------------------------------
(* Properties *)

\* A call that fails leaves the file as it was: position and size move only in
\* the step in which a call succeeds, so a write whose buffer could not grow, or
\* grew only in part, can be repeated.
MovesOnlyOnSuccess ==
  [][<<position, apparent_size>>' # <<position, apparent_size>>
       => call' = Idle /\ ret' >= 0]_vars

\* The buffer of an open file never shrinks: audiofs_buffer_realloc, whose
\* memset overruns a block that shrinks (util.h:130), is only asked to grow.
NeverShrinks == [][len' >= len]_vars

\* The loop of audiofs_avio_resize_to ends, so every write and seek returns.
CallReturns == call # Idle ~> call = Idle

\* What a write(2) that takes k bytes can have put into the file.
DiskChunks ==
  UNION {[1 .. k -> {w}] : k \in UNION {1 .. n : n \in DiskSizes}, w \in 1 .. MaxWrites}

\* A memory handle has no file: nothing of its calls is seen.
Disk == INSTANCE ByteFile
          WITH Chunks <- DiskChunks, MaxOffset <- MaxInt64,
               Failures <- {EIO, EINVAL, INT32(EIO)},
               content <- file, offset <- fpos,
               got <- IF len = 0 THEN got ELSE <<>>, result <- IF len = 0 THEN ret ELSE 0

\* A disk handle is the file behind its descriptor: each call does to its bytes
\* and its offset what read, write and lseek do, and returns what they return
\* (custom_avio.h:24-52), and one that fails does nothing.  What a failed one
\* returns is not what the header says: INT32 makes INT32_MAX of the -1 of lines 31
\* and 44, so that Failures, the returns of a call that did nothing, has both.
DiskIsFile == Disk!Spec
=============================================================================
