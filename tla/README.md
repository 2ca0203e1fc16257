# A verification of AudioFS

AudioFS keeps a collection of audio files free of duplicates by comparing
Chromaprint fingerprints. At this commit the part of it that works is the path
from a file to its metadata: `audiofs-cli analyze` walks a directory, runs the
helper process `native` for every FLAC file, and the helper, written in C on top
of FFmpeg, prints a JSON document with a fingerprint for every audio stream. To
get the fingerprint it transcodes the audio through a filter graph into
Chromaprint's muxer, whose output goes to a file in memory. The same C code can
be linked into a Go program, where its threads share buffers with goroutines.

These TLA+ modules model that path, the resampler settings and the log bridge
beside it, and the configuration every start rewrites. Paths below are relative to `src/`.

## Inventory

| Part | State | Operations | What makes it correct |
| --- | --- | --- | --- |
| Shared buffer (`native/util.h`, `types.h`, `golang_glue.go`) | `len`, `data`, the mutexes `lock` and `used_outside_audiofs`, the heap | `audiofs_buffer_alloc`, `audiofs_buffer_realloc`, `COnwedByteSliceFromAudioFSBuffer` | The lock excludes threads of both languages; the struct describes the heap whenever the lock is free; a resize is exact; a slice in use stays valid; every resize returns |
| AVIO handle (`native/custom_avio.c`) | the buffer, `apparent_size`, `position`, or a descriptor | open, close, read, write, seek, get_size | The handle is a file; a failed call moves nothing; the buffer only grows; the growth loop ends; what is copied out is what was written |
| Transcoding (`native/transcode.c`) | four static pointers, FFmpeg objects, frames in flight | `do_transcode` | One cleanup is right for every exit and for the next call; frames arrive complete and in order; the input stays with its owner; a handle that is returned has data |
| Metadata (`native/libav.c`, `util/InvokeNative.go`) | demuxer, JSON values and their reference counts, the AVIO handle, the helper's exit | `get_metadate_from_file`, `main`, `GetMetadataFromFile` | No answer holds half a document but for what jansson refused unseen; inputs and handles are closed; each reference is dropped once; every file is answered for |
| Target format (`native/libav.c`, `native/resampler.c`) | `decoder_context` with its overrides and `swrContext` | `change_target_format`, `fix_depth`, `detect_dsd`, `setup_swr` ... | Every request is honoured by itself; a resampler that was set up converts to the present target; no SwrContext and no log level is lost |
| Log bridge (`native/macros.h`, `native/logbuffer.c`, `go_print`) | `go_log_buffer`, its length, a mutex, the level | `audiofs_log` | A message is passed on whole, whoever else logs; the buffer has room for it; a failed allocation costs that message alone |
| File metadata in Go (`lib/types`, `util/CompressedJSON.go`) | none | unmarshal with `filltimeBase`, compress, decompress | The round trip loses nothing; the three forms of a time base agree |
| Configuration (`config/viper_wrapper.go`, `cmd/audiofs-cli.go`) | `audiofs.yaml`, defaults, environment | read at start, `Store` | What was stored is what is read; no crash makes a file that ends every later start |
| Command line (`cmd/audiofs-cli.go`) | the walk | `analyze`; the other commands print | Every file with an answer gets a line with its own fingerprint; the walk ends |
| Library, C API, `serve` | none | stubs that answer `ERR_NOTIMPLEMENTED` | nothing yet |

How the parts interact. The command line runs one helper process at a time and
waits for it. In the helper one thread calls `get_metadate_from_file`, which opens
the demuxer and passes it to `do_transcode`; that opens an AVIO handle and hands
FFmpeg its read, write and seek callbacks; the write callback grows a shared
buffer. The handle comes back to `get_metadate_from_file`, which copies the
fingerprint out of the buffer and closes it. Linked into a Go program the same
code runs on several threads at once, and goroutines take the bytes of a buffer
through `golang_glue.go`; whatever its threads log goes through one buffer to
`go_print`. Every process of the command line reads `audiofs.yaml`, writes it back
and only then runs its command, so that processes share that file and nothing
else; `analyze` takes the name of its compression from it.

What is hard in it:

- the handover of a buffer between C threads and goroutines, with two mutexes of
  which one is never given back;
- growth by `realloc` in several rounds, any of which can fail;
- one cleanup for all exits of `do_transcode`, over static pointers that outlive
  the call and memory that was not initialised;
- frames that decoder and filter hold back until they are flushed;
- reference counts that change hands in some calls and not in others;
- a helper process that can die in the middle;
- one log buffer for all threads, moved for every message;
- settings of a resampler that are applied one by one to a context that may have
  served other targets before, and a log level that is global;
- a configuration file that is truncated and rewritten at every start, by
  processes that do not know of each other.

`PROJECT.json` lists every hazard at its line, with the properties that would
catch it.

## Modules

| Module | Models |
| --- | --- |
| `AudioFSBuffer` | The shared buffer with C threads and goroutines |
| `AudioFSBufferProofs` | Theorems about it |
| `ByteFile` | The abstract file a handle is documented to be: read(2), write(2), lseek(2) |
| `CustomAvio` | One AVIO handle, memory or disk; shown against `ByteFile` |
| `CustomAvioProofs` | Theorems about it, the refinement among them |
| `Transcode` | `do_transcode`, called repeatedly by one process |
| `TranscodeProofs` | Theorems about it |
| `Fingerprint` | A memory handle of `CustomAvio`, FFmpeg's `AVIOContext` that writes to it, and the caller that copies the fingerprint out |
| `FingerprintProofs` | Theorems about it, on top of those about the handle |
| `Metadata` | One file through the helper process and the Go function that runs it |
| `MetadataProofs` | Theorems about it |
| `LogBuffer` | `audiofs_log` on several threads, with the heap |
| `LogBufferProofs` | Theorems about it |
| `TargetFormat` | A `decoder_context` and its `SwrContext` through any sequence of calls |
| `TargetFormatProofs` | Theorems about it |
| `ConfigStore` | `audiofs.yaml` between processes, crashes and the user |
| `Analyze` | The walk, the JSON round trip and the lines printed |
| `Cli` | A process that starts (`ConfigStore`) and then analyses (`Analyze`) |
| `CliProofs` | Theorems about its configuration, its lines and the round trip of its metadata |
| `MCCustomAvio`, `MCFingerprint`, `MCTranscode`, `MCMetadata`, `MCTargetFormat`, `MCCli` | Instances for TLC (`AudioFSBuffer` and `LogBuffer` need none) |

### AudioFSBuffer

`len`, `data`, `lock` and `outside` are fields of `struct audiofs_buffer`. `blk`
is the heap as far as the buffer is concerned: the size of the block at every
address, 0 for a free one, so that a leaked block, a dangling pointer and a block
of the wrong size can be told apart. A call is cut into steps wherever a goroutine that reads
`data` and `len` without the lock could see the difference: the moved block, the
new length and the new pointer are three steps (`ReallocMove`, `ReallocSetLen`,
`ReallocSetData`), and the goroutine's reads of the pointer and the length are
two. Unlocking a mutex another thread holds is undefined in POSIX; the model does
what Linux's default mutex does, and frees it. A shrink overruns the new block
(`smashed`), after which the process may be killed at any point (`Abort`).

### CustomAvio and ByteFile

`NewSize` is the choice of the next size, `Resize` one round of the loop,
`WriteCall` and `SeekCall` the start of a call that may need it, `WriteCopy` and
`SeekDone` its end. All other calls are one step: a handle is used by one thread.
`Resize` takes `audiofs_buffer_realloc` to make the buffer exactly the size that
was asked for, or to leave it alone; that is what `AudioFSBufferProofs` proves of
it (`ReallocIsExact`, `HeapConsistent`). In return `NeverShrinks` shows that no
handle ever runs into the memset that overruns a block that shrinks. Every
successful write writes bytes of its own (the number of the write), so that lost
or misplaced bytes show. `DiskIsFile` is the specification of `ByteFile`,
instantiated with the bytes and the offset a caller of a disk handle can observe.
Its `Failures` are what a call that did nothing may report: of a disk handle these are
the -1 of a seek, EINVAL, and `INT32(-1)`, the largest 32-bit number (`MaxInt32`), which is
what the code makes of a failed read or write.
That a memory handle is no such file is the subject of `Fingerprint`.

Sizes are scaled down: the marks 1024 bytes, 64 KiB, 1 MiB and 16 MiB become
2, 4, 6 and 8, INT64_MAX becomes 31 and the largest block 24. What matters is their
order, that a sum of two offsets can exceed the largest, and that the buffer can
take the step by 16 MiB twice. INT32_MAX becomes 15.

### Fingerprint

The state of `CustomAvio` and that of its client: `sent` counts what the
`AVIOContext` has passed on, in pieces of its buffer (`BufSize`, 4096 bytes in the
code, scaled to 3), `error` that one of its writes has failed, after which it passes on
nothing more and nobody asks. `Take` is the end of the way in
`get_metadate_from_file`: the size is `apparent_size`, the bytes are copied by
`strncpy` (which stops at a zero) and the handle is closed. Undefined bytes may
be zeros, so `Strncpy` is a choice.

### Transcode

`ptr` says of each pointer the cleanup follows whether it is NULL, live, or wild:
freed, or never initialised. `heap` counts the objects of each sort, so an object
that no pointer holds any more is still counted. What `av_malloc` leaves in a
field is a choice between NULL and wild. Each function of the file is one action
with an alternative for each of its ways to fail, in the phases `Faults` allows.
Frames are numbered in the order in which they are decoded. `Available` stands for
the filter graph, which holds back up to `FilterDelay` frames until it is flushed;
`pcm_s16be` holds nothing back, and neither does a FLAC decoder, so
`flush_encoder` does nothing and a decoder that is not drained (no NULL packet is ever
sent to it) loses nothing.

Four variables are history, which the code does not keep, for the exceptions the
properties make: `surplus` (audio streams beyond the first of each input), `aborted` (calls
that failed before they had a packet) and `skipped` (packets of other streams) count over
all calls; `unread` says of the last call that it got no packet and did not fail.
`NothingLeftBehind` bounds what is left of each sort of object by these counts, so that a
process with such a call in it is held to account for everything else:

- a payload for each skipped packet, exactly (`transcode.c:561`);
- decoder contexts, encoder contexts and frames: one for each surplus audio stream
  (lines 109-111 and 238 overwrite those of the stream before) and for each aborted call
  (lines 88-106 and 195-234 return before the context is stored);
- a filter graph for each aborted call (line 424).

### Metadata

`refs` counts the references to the JSON values that have members, `todo` lists
those about to be dropped, in order, and `Decref` drops one, freeing the value and
queueing what it held when it was the last. `do_transcode` appears by its
outcomes: a handle with data, an empty one, or NULL, which the next line follows
(`crashed`). No result of jansson's is looked at: `null` are the values there was no memory
for, `unheld` those that what should hold them does not hold, because the call that
should have put them there failed or met a NULL, and `unstored` the streams whose fingerprint
made no string, for want of memory or because its bytes are no UTF-8 (fault "bytes"; a
long fingerprint holds undefined bytes, see `Fingerprint`). A value that `json_object_set_new` drops
when it fails is written to all the same (`dangling`). `MaxShort` bounds how many values one
step has no memory for. `Main` and `Collect` are the two ends of the pipe.

### LogBuffer

`blk` is the heap around the buffer, as in `AudioFSBuffer`; `text` the message the
buffer holds; `pc` and `msg` where each thread is and what it logs. The steps of
`audiofs_log` are those between which another thread could interfere if the mutex
did not hold it off: the test of the level, the lock, the allocation, the second
`snprintf`, `go_print`, the unlock. The level is read and written without the
mutex. `go_log_buffer_len` is never assigned, so every message reallocates. When
realloc fails, its NULL overwrites the only pointer to the old block; `lost` counts
those.

### TargetFormat

One action per function, in any order, on one context: no code calls them yet.
`override` is what `change_target_format` computes, `request` what it was asked
for last, and `since` the calls after it, so that a property can say for which
sequences it speaks. Options are set one by one, so a call that fails has set some
(`done`). `swr.opt` is what was asked of the SwrContext, `swr.active` what
`swr_init` took over. `get_supported_resampler` runs on other threads; its log
level is the one thing they share, in three steps: saved, silenced, restored.
A format is a base and whether it is planar; layouts are the stream's or the
downmix.

### ConfigStore, Analyze and Cli

`file` is missing, a document, or torn, which is a document with the end of a
longer one behind it, or the beginning of one. `Start` is the package's `init`,
`Open` and `Write` the two halves of `Store`: between them the file is empty, and a
process can be killed there. Viper answers from the environment, the file and the
defaults in that order (`Effective`), and writes what it answers. `ought` and
`events` are history: what a start should find, and what went wrong before.

In `Analyze` a walk is a sequence of entries, a fingerprint is the number of the
file it came from, and a stream is its time base in three forms. `Unmarshalled`,
`Filled`, `Marshalled` and the two operators of `CompressedJSON.go` are what the Go
code computes; a visit is `Visit` (the helper's answer, unmarshalled) and `Export`
(the round trip and the line). `Cli` puts the two together: the walker analyses
with the algorithm it found configured, and any process may be killed.

## Runs

| Run | Checks | Shows | Bounds |
| --- | --- | --- | --- |
| `AudioFSBuffer_threads` | `TypeOK` `LockOwned` `QuiescentHeap` `ReallocExact` `LockReleased` | The lock works across both languages and is always given back; no interleaving or failure leaves struct and heap at odds | 2 C threads, 1 goroutine, 2 addresses (a move needs two), sizes 0, 1, 2 (free, shrink, grow) |
| `CustomAvio_seek` | `TypeOK` `MovesOnlyOnSuccess` `NeverShrinks` `CallReturns` `DiskIsFile` | A failed call moves nothing, no sum wraps into the position, the buffer only grows, the growth loop ends, a disk handle is a file, whose failed calls do nothing | 2 writes of 3 or 12 (disk: 2), memory offsets -1, 0, 5 and the largest, disk offsets -1, 0, 16 |
| `Fingerprint_short` | `ShortFingerprintIsWhole` `SizeWithinBuffer` | A fingerprint that fits FFmpeg's buffer arrives whole or not at all; the bytes copied exist, at any length | lengths 0 to 14, buffer of 3: up to five writes, past each mark of the growth |
| `Transcode_faults` | `TypeOK` `InputOwnership` `MuxedInOrder` `HandleIsComplete` `CleanupDefinedOnceSetUp` `NothingLeftBehind` `CallReturns` | The input is closed by the side that opened it, held back frames arrive, in order and before the trailer, the cleanup of a call that was set up is defined, after any earlier call, nothing is left but what each named cause accounts for, and every call comes back | 2 calls, every phase failing, five containers, 2 packets of 1 or 2 frames, 1 held back |
| `Metadata_files` | `TypeOK` `AnswerIsComplete` `InputAndHandlesClosed` `Answered` | Metadata is answered only of streams that were all described and transcoded, and lacks only what jansson refused; nothing left open, every file is answered for | all files of up to two streams, every failure, one value short of memory before the file is opened and one after (`MaxShort`) |
| `LogBuffer_threads` | `PrintedWhole` `RoomForMessage` `OneBlockUnlessLost` `EveryMessageAccounted` `MutexReleased` | Lines are whole, nothing is written past the block, a failed allocation costs its own message and one block, the mutex is given back | 2 threads, 3 messages of 0 or 2 bytes, 3 addresses, 2 levels |
| `TargetFormat_calls` | `TypeOK` `RequestHonoured` `SetupMeetsTarget` `OneContext` `LevelRestored` | Requests are honoured one by one, a resampler converts to the present target, no context is lost, a thread that asks alone leaves the log level alone | 5 calls, 6 streams, 7 requests, 2 asking threads |
| `Cli_analyze` | `TypeOK` `PanicHasCause` `LinesAreOwn` `RoundTrip` `AnswersPrinted` `ReadsLastStore` `CommandEnds` | A crash never makes an unreadable file, a start reads the last store, every line is the file's own, answers are printed, the walk ends | 2 processes, 3 starts, 1 edit, 1 setting of 2 values, walks of 3 entries, 1 stream a file |

Why these bounds are enough: two C threads are what one resize needs to run into
another, and the goroutine reads the fields between their steps. Two goroutines
cannot be in the run of `LockReleased`, which they break (next table); the proofs
cover any number for the safety properties. The marks of the AVIO buffer
are met from both sides by the write sizes and offsets. Two calls of
`do_transcode` are what it takes to find what the first left in the static
pointers; a second packet and one held back frame are what it takes to reorder or
lose one. `get_metadate_from_file` treats streams alike but for the first audio
stream, so two, in every order of the two sorts, hold a stream before and one after any other; the
proofs cover any number. The log buffer has
to grow, shrink, fail and be found by a second thread, which three messages of two
lengths on two threads do, and its proofs cover the rest. Two requests with a
`set_dither_settings` and a `setup_swr` between them are what it takes to leave
something of the first behind in the context: five calls. A third start can find
what two earlier ones did to the file together; viper treats settings alike, so one
stands for all. Three entries in a walk hold a FLAC file before and after one that is passed
over, fails or cannot be read.

Runs that show where the code and what it says of itself part ways (each finding
in `PROJECT.json` quotes the line):

| Run | Property | What happens |
| --- | --- | --- |
| `AudioFSBuffer_wedge` | `ReallocReturns` | A second goroutine waits for `used_outside_audiofs` with the lock held, for ever |
| `AudioFSBuffer_outside` | `SliceValid` | A buffer in use by Go code is resized under it |
| `Fingerprint_long` | `FingerprintIsMuxed` | The second write of a long fingerprint overwrites the first |
| `Metadata_json` | `JsonReleased` | References that were given away are dropped again |

Deadlock is not checked: a handle that is closed, a file that is answered for,
a goroutine that keeps its slice and a program that makes no more calls are ends
the system really reaches.

Other divergences, which the modules contain as the code has them but no run
singles out:

- a buffer that grows keeps undefined bytes, since the memset of `native/util.h:130`
  runs when it shrinks, where line 122 says "New memory will be 0-initialized"
  (`Resize` leaves `Garbage`, `ReallocMove` overruns);
- `audiofs_avio_close` frees the struct of a memory file's buffer but not its block
  (`custom_avio.c:185`), where `custom_avio.h:82` says "any memory" (`Close`);
- `custom_avio.c:154` tests the buffer with `< 0` and so never sees the NULL of a
  failed allocation, where `custom_avio.h:72` promises NULL on error
  (`OpenMemory`, `NullBuffer`);
- a read past the end underflows its count (`custom_avio.c:24`), where
  `custom_avio.h:26` says "up to `buf_size`" (`Read`);
- a read or write of a disk handle that fails returns `INT32(-1)`, which is -1 masked by
  INT32_MAX and so 2147483647 (`custom_avio.c:29` and `:87`, `macros.h:120`), where
  `custom_avio.h:31` and `:44` say "-1 on error" (`INT32`; `DiskIsFile` shows that such a call
  does nothing, and that this is what it reports);
- a relative seek backwards is refused (`custom_avio.c:96`), where
  `custom_avio.h:51` describes lseek(2) (`SeekRefused`; the disk handle refuses
  it too);
- a failure after the handle was opened drops the handle without closing it
  (`transcode.c:651`), which `custom_avio.h:72` asks for (`NothingLeftBehind`
  excepts it);
- `transcode.c:72` allocates `stream_ctx` with `av_malloc`, which leaves its fields
  undefined, and the cleanup frees them (lines 621, 622, 629) also when the
  decoders could not be opened, where `macros.h:131` says "Use zero-initialized
  calloc rather than malloc" (`Uninitialised`, `FollowsWild`; the reason
  `CleanupDefinedOnceSetUp` speaks of calls that were set up; the exits before that
  follow wild pointers in the model as in the code);
- a packet of another stream is skipped without `av_packet_unref` (`transcode.c:561`), and
  what the first streams or the early exits allocated is lost (lines 88-111, 195-238, 424;
  `NothingLeftBehind` says how much of it);
- a damaged file looks like one that ends there: a packet that cannot be read or decoded
  ends the loop without an error (`transcode.c:559`, `:574`; `HandleIsComplete` is about the
  frames that were decoded);
- when `av_packet_alloc` fails `ret` still holds a stream's number
  (`transcode.c:555`), so that a handle without data is returned as one "the caller
  can read the transcoded data" from (line 640; `AllocPacket`, and the exception of
  `HandleIsComplete`, for that call alone);
- `libav.c:204` compares the layouts for equality, so that every target sets up a
  resampler, where line 105 says "if required" (`Differs`, which is true for every
  target, and the branch of `ChangeSwr` that frees, which is never taken);
- `setup_swr` uses neither its dither nor its engine, and dithers to whatever
  `set_dither_settings` left (`setup_swr`; `SetupMeetsTarget` asks for the bits only
  if the dither was set for the target);
- `get_supported_resampler` of two threads at once can leave FFmpeg quiet for good
  (`Ask`, `Restore`; `LevelRestored` excepts it);
- the in-process caller frees the string literal it gets for an empty fingerprint
  (`golang_glue.go:76`; it is not used by the command line, and not modelled);
- `fix_depth` changes the target's format and not its depth (`libav.c:96`;
  `RequestHonoured` excepts it), and integers of 64 bits have a depth of 0
  (`util.h:176`; `SampleBits`);
- `Store` writes a value of the environment into the file, where it outlives the
  process that had it (`Stored`), and nobody hears when it fails
  (`audiofs-cli.go:157`);
- a compression that is not supported is an error per file in the log, and no line
  is ever printed (`Supported`, `AnswersPrinted`);
- `libav.c:241` sizes the arrays for the streams before the file is opened at line
  249 (`SetupJson`, whose crash under "memory" covers the overrun);
- `libav.c` looks at no result of jansson's: a fingerprint that is no UTF-8 (line 327), an
  entry, or the array of all (lines 240, 263-271) can be missing from a document that is
  printed with exit status 0 (`StoreFingerprint`, `SetupJson`; `AnswerIsComplete` says what
  may be missing and when). The members of an entry other than its fingerprint can be
  missing in the same way; they are data here;
- the early exits of `get_metadate_from_file` (lines 250, 256, 312) leak the JSON values and
  the arrays (`refs` keeps them; `InputAndHandlesClosed` is about the input and the handles).

### Fairness

A thread that is inside a call keeps running, so each call's own steps are weakly
fair; that a call is made is never assumed. For the buffer this is one condition
per thread, and weak, because a pthread mutex promises no turn to a waiter that
others keep overtaking: what holds is `LockReleased`, that who has the lock gets
to the unlock, whereas that a waiter gets it (`ReallocReturns`) is only refuted
for the reason above. In `CustomAvio` the choice that `realloc` fails is left out
of the fair steps, unless the size is out of reach: the loop has to end by itself.
The helper is one thread, and `exec.Command` waits for it, so all of `Metadata` is
one fair sequence. A thread that logs has one condition for all its steps, weak for
the reason given above; what is shown is that the mutex is given back
(`MutexReleased`). A process of the command line runs on until it ends or is
killed, which is never fair, nor is a start or an edit: `CommandEnds` rests on the
condition of the walker alone. `TargetFormat` and `Fingerprint` state no fairness,
having no liveness property. The input of a transcode is finite, and so is what one packet
decodes to.

## Proofs

`AudioFSBufferProofs` proves for every set of threads, addresses and sizes, from
the two assumptions on constants in `AudioFSBuffer` (goroutines and C threads are
disjoint and `NoOne` is neither; NULL is no address and sizes are naturals):

- `TypeCorrect`: `Spec => []TypeOK`;
- `MutualExclusion`: `Spec => []LockOwned`;
- `HeapConsistent`: `Spec => []QuiescentHeap`;
- `ReallocIsExact`: `Spec => ReallocExact`;
- `ReleaseComesNearer`: the thread that has the lock comes nearer to the unlock;
- `WedgeIsForever`: once a goroutine waits with the lock held for the mark of another,
  a resize that waits for the lock waits for ever.

`LockOwned` is inductive with `TypeOK` alone (`LockStep`): a thread enters the
critical section only by taking a free lock. `QuiescentHeap` is not inductive: it
says nothing while the lock is held, and the lock is given back in a state that
depends on how it was held. `IInv` adds what is true in between: while some thread
is inside, `Resizing(t)` says how far its resize has come and what struct and heap
look like at that point, and unless a thread is midway through a move the struct
describes the heap. The lemma `Alone` (at most one thread is inside) keeps one
thread's step from disturbing another's `Resizing`; `OthersOutside` and
`IInvInside` lift it to a state in which one thread has the lock; `IInvStep` has one case per action.
`ReallocExact` follows from `IInv` at the step that unlocks.

`ReleaseComesNearer` is the half of `LockReleased` that is about steps. `OwnerInside` is the
converse of `LockOwned`; from both, each step of the owner gives the lock back or lowers
`Distance`, and no other thread's step moves the owner or takes its lock. The other half,
that the owner has a step to take, is where the wedge sits: a goroutine at `gomark` has
none while another has the mark. `WedgeStep` shows that this state keeps itself: who could
clear the mark needs the lock for it, and who has the lock waits for the mark. It is the
finding `ReallocReturns`, for any number of threads and whatever the schedule.

`LogBufferProofs` proves for every set of threads, addresses, lengths and levels, from
the two assumptions in `LogBuffer` (`NoOne` is no thread; NULL is no address, and
lengths and levels are naturals):

- `TypeCorrect`: `Spec => []TypeOK`;
- `LinesAreWhole`: `Spec => []PrintedWhole`;
- `BufferHasRoom`: `Spec => []RoomForMessage`;
- `MessagesAreAccounted`: `Spec => []EveryMessageAccounted`;
- `BlocksAreAccounted`: `Spec => []OneBlockUnlessLost`;
- `ReleaseComesNearer`: the thread that has the mutex comes nearer to giving it back, and
  nobody else takes it away.

`PrintedWhole` and `RoomForMessage` say nothing of the time between lock and unlock
in which they could be spoilt. `IInv` adds `MutexOwned` (the thread past the lock
owns the mutex, and no other is past it) and `Formatted` (before `go_print` the buffer holds the
thread's message). `OthersOut` turns the first into what each step needs: while one
thread moves or fills the buffer no other is about to use it. `FitsType` says
what an allocation leaves behind. The last two rest on `Counts`: the threads inside a call
and the blocks that nobody points to any more (`Orphans`) are finite sets at any time, because
each step adds or takes one member at most; the sets of threads and of addresses
themselves need not be finite.

`CustomAvioProofs` proves for all marks, limits, sizes and offsets, from
`MarksAssumption` (the marks are naturals in their order, below INT32_MAX and that below
INT64_MAX, and no block is larger than that) and `ArgsAssumption` (sizes fit an int, and a
write is not empty):

- `TypeCorrect`: `Spec => []TypeOK`;
- `FailureMovesNothing`: `Spec => MovesOnlyOnSuccess`;
- `BufferNeverShrinks`: `Spec => NeverShrinks`;
- `DiskHandleIsFile`: `Spec => DiskIsFile`, the refinement of `ByteFile`;
- `ReturnComesNearer`: a call that grows the buffer ends, or leaves less room to grow.

`IInv` adds to the types what a call in its growth loop relies on: it is a memory
handle's, a seek that asks for a negative target needs more than any buffer has, so that
it can only fail (`CallInv`, from `TargetReadings`: the unsigned reading of a sum that
wrapped is larger than INT64_MAX), and a live buffer is neither empty nor larger than
memory (`LenInv`). The growth is strict (`NewSizeGrows`), which is what `NeverShrinks`
takes. For the refinement `StepIsFileStep` has a case for each action: the read, write
and seek of a disk handle are those of the file, and what a memory handle does
leaves the mapped variables alone (`MemoryUnseen`). `ReturnComesNearer` takes `CallInv` to
show that nothing but the loop runs while a call is growing the buffer, and `NewSizeGrows`
with `LenInv` for each round: `Room`, what is left below the largest block, is a natural
number and gets smaller.

`FingerprintProofs` extends that module, and from the same assumptions and
`BufAssumption` (the buffer of an `AVIOContext` is larger than the first block and no
larger than 64 KiB) proves:

- `CopyStaysInside`: `FPSpec => []SizeWithinBuffer`;
- `ShortIsWhole`: `FPSpec => []ShortFingerprintIsWhole`;
- `LongIsNeverWhole`: a fingerprint longer than the buffer never arrives as it was muxed.

`FPInv` is the `IInv` of the handle with `SizeInv` (the client never seeks, so the size is
the position, and room is made before either moves) and `OneWrite` (a fingerprint that
fits the buffer is one write: under way, failed, or at the front of the file). For a long
one `LastWrite` says that the first byte of the block is always the last write's, while one
write alone cannot make the file longer than the buffer: what is copied out begins with the
wrong write, or is too short. That is the finding `FingerprintIsMuxed`, for every length.

`TranscodeProofs` proves for any inputs, faults, delay of the filter and number of
calls, from `InputsAssumption` (streams are of two types; bounds and counts
are naturals):

- `TypeCorrect`: `Spec => []TypeOK`;
- `FramesInOrder`: `Spec => []MuxedInOrder`;
- `ReturnedIsComplete`: `Spec => []HandleIsComplete`;
- `InputIsItsOwners`: `Spec => []InputOwnership`;
- `CleanupDefined`: `Spec => []CleanupDefinedOnceSetUp`;
- `NothingLeft`: `Spec => []NothingLeftBehind`;
- `ReturnComesNearer`: each step of a call brings its return nearer.

None of the five invariants is inductive: each speaks of the end of a call, and holds because of
what was true on the way. `Flow` says that muxed, filter and decoder together are the
frames 1 to `frames` without a gap (`InOrder`), and where the pump stands (`Pump_State`,
`Ends`: the decoder is empty when a packet is read and when the graph is flushed, so
that nothing is left when the end is reached without an error). `Memory` says what each
phase has acquired (`Acquired`, `AcquiredIsLive`), that live pointers and what a
call has yet to give back are backed by an object (`Backed`), who opened the demuxer
(`Owner`), that a pointer is live only if the call has come to it (`LiveIsAcquired`), and how
many objects of each sort there are (`Counted`): no more than live pointers account for
(`Live`) and the history excuses (`Excused`, which leaves out the streams of this call that
are still `Ahead`). Each function that opens something has a lemma that ends
in `OpenMemory`; `Grown` says what allocating and setting pointers together do. At `end:`
a live packet implies that everything is live (`NothingWild`), which is the
invariant the one cleanup for all exits relies on. Where the packet is not there
the cleanup does follow wild pointers, and the properties say so.

For `ReturnComesNearer` the call has a `Stage`, and its two loops (over the packets, and over
what the filter still holds when it is flushed) stay in one: there each step reads one more of the
`MaxPackets` packets, decodes the one it has, or lowers `Steps`, in which a frame in the
decoder weighs more than one in the filter. That no loop hands its frames back is
`Pump_State`: the filter has a frame whenever one is encoded.

`MetadataProofs` proves, from `FilesAssumption` (streams are of two types, and there is a
file with the most streams, since FFmpeg limits them):

- `TypeCorrect`: `Spec => []TypeOK`;
- `AnswersAreComplete`: `Spec => []AnswerIsComplete`;
- `NothingStaysOpen`: `Spec => []InputAndHandlesClosed`;
- `FreedIsUsed`: unless memory was short for some JSON value, a document is never returned
  but after a freed value was dropped again;
- `AnswerComesNearer`: each step brings the answer nearer.

`Position` and `Progress` say that the streams before `cur` have been described, and
that no call gets to the dump before `cur` is past the last; `PassedOn` ties
the helper's output and the answer to what was returned; `Stored` says that a fingerprint
that was taken is in its entry, was refused, or has no entry to be in; `HandleInUse` says that a
handle is open in one step only. `TypeInv` adds that the document has at most two references
to each value and only drops its own, or NULL.

`FreedIsUsed` is the finding `JsonReleased` for every file: with every value made and held, once the drops have
begun, `Overdrawn` says in which of four ways more references to `json_file_metadata` are
about to be dropped than there are, and each drop keeps one of them true or meets the freed
value. In `AnswerComesNearer` the streams are counted down by `Work`; the list of drops can
grow, but only when a reference is gone for good (`Dropped`).

`TargetFormatProofs` proves for any streams, requests and dithers and for every finite
set of asking threads:

- `TypeCorrect`: `Spec => []TypeOK`;
- `RequestsAreHonoured`: `Spec => []RequestHonoured`;
- `SetupIsCurrent`: `Spec => []SetupMeetsTarget`;
- `ContextsAccounted`: `Spec => []OneContext`;
- `LoneAskerRestores`: `Spec => []LevelRestored`.

It uses what the parameters are (`NativeAssumption`, `RequestAssumption`,
`DitherAssumption`: rates and channels are positive, depths fit a byte, the default is one of
the dithers), that the set of threads is finite, and that NULL is no SwrContext
(`NullAssumption`). `OneContext` needs the types only. `ContextInv` keeps, between the
calls, what the last request made of the target (`RequestMet`) and that the bits a dither
was set for are the target's (`DitherSet`), from which `SetupMeetsTarget` follows at each `setup_swr`;
`LevelInv` says what the saved levels are while threads are asking, as long as two have never
asked at once. The arithmetic of the target is in `TargetHonours` and `DsdRateType`.

`CliProofs` proves for any processes, settings, environments, edits and walks, from
`ConfigAssumption` (a default is a value of its setting, and `Unset` is none),
`WalkerAssumption` (the walker is one of the processes, and the compression a setting) and
`WalkAssumption` (entries are of three kinds, a time base is an integer over a natural
number, and nil is no document):

- `TypeCorrect`: `Spec => []TypeOK`;
- `PanicIsExcused`: `Spec => []PanicHasCause`;
- `StartReadsLastStore`: `Spec => ReadsLastStore`;
- `LinesBelong`: `Spec => []LinesAreOwn`;
- `TripsAreExact`: `Spec => []RoundTrip`;
- `FoundArePrinted`: `Spec => []AnswersPrinted`;
- `CommandComesNearer`: each step of the walker brings its end nearer, and nobody else's
  takes it back.

For the panic, `IInv` says that two processes between start and end of their store are on
record (`OverlapSeen`), so that without such a record a file that was truncated is still
empty when it is written (`EmptyUntilWritten`) and is never torn (`TornHasCause`).
`ReadInv` adds that every setting in the file is what it ought to be, or, after a crash, its
default or unset (`Read`), also for what a process has read and not yet stored.

The walk has an invariant of its own, `WalkInv`: the printed lines are of files the walk
has passed, what is about to be printed was read of the last of them (`ReadOf`), and
all metadata in memory has its time base in forms that agree (`Whole`). `NewRatProperties`
is the arithmetic behind the last: the greatest common divisor that `NewRat` chooses exists
(`GreatestDivisor`, by the least element that a set of naturals has, `SmallestIn`), and to
divide by it keeps the fraction. `FilledIsWhole` and
`FilledOnce` say that `filltimeBase` makes the forms agree and changes nothing the second
time; from these `TripIsExact`: marshalling, compressing and reading back is the identity on
what the walk has in memory, and yields nothing with a compression there is none of.
`PrintInv` counts the lines against what the helper found. It needs that nobody changes the
compression under the walker: a process reads its settings once (`AlgoStays`), whatever is
stored or edited meanwhile. `CommandComesNearer` takes the stages from the start to the exit, and
inside the walk the entries that are left (`EntriesLeft`).

Only model-checked, for good: that each process does take the steps that it can, since
liveness under fairness and ENABLED are out of the prover's reach. For all seven liveness
properties but the one that is refuted, the theorems named ...`ComesNearer` prove the rest of
the argument for every value of the constants: the steps that are taken lead to the end
in a well-founded order. The four findings are counterexamples; three of them are theorems as
well (`WedgeIsForever`, `LongIsNeverWhole`, `FreedIsUsed`), and `SliceValid`, which fails
in some runs and not in others, is left to TLC.

## Plan

In this order, the most important behaviour first:

1. done: the buffer with its proofs, the AVIO handle, the transcoder, the metadata
   pipeline;
2. done: `Fingerprint`, the composition of what FFmpeg writes, the memory handle and
   the consumer;
3. done: `LogBuffer` with its proofs;
4. done: `TargetFormat`;
5. done: `ConfigStore`, `Analyze` and `Cli`, which composes them;
6. done: proofs for all of them, the refinement of `ByteFile` included;
7. done: `RoundTrip`, `AnswersPrinted` and the remaining types for all constants; the
   findings that hold in every run as theorems; the descent behind each liveness property;
8. left: `serve`, the library and `chromaprint_from_file` once they do something.

The set of runs stays small: one for each component or composition that asks a
question of its own, and a divergence that another run meets as well is listed
above instead of having one.

## Not modelled

The library, the C API and `serve` are stubs without state. `chromaprint_from_file`
returns NULL. `generate_random_string` has no caller. FFmpeg, jansson, malloc and
the operating system, viper, zstd and Go's `encoding/json` are modelled by the
calls the code makes of them. The form of
`audiofs_log` without Go prints to stderr and keeps nothing. An `audiofs.yaml` that a user
made unreadable or no YAML ends every start too; edits here are documents that can be
read. The values of the JSON members, the parameters of codecs and filters, and all wording are
data no property is about. Build scripts are not behaviour of the program.
