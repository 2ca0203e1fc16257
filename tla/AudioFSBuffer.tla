--------------------------- MODULE AudioFSBuffer ---------------------------
(***************************************************************************)
(* The shared buffer of the native library, struct audiofs_buffer          *)
(* (native/types.h): C threads allocate and resize it (native/util.h) and  *)
(* goroutines take its bytes as a Go slice (native/golang_glue.go).        *)
(*                                                                         *)
(* The struct carries two mutexes: `lock' guards len and data,             *)
(* `used_outside_audiofs' is held by Go code for as long as it uses the    *)
(* bytes.  A step of a thread is a stretch of its code in which no other   *)
(* thread can see the difference: the code of audiofs_buffer_realloc is    *)
(* cut wherever a goroutine that reads len and data WITHOUT the lock       *)
(* (golang_glue.go:109) may run in between.                                *)
(***************************************************************************)
EXTENDS Naturals

CONSTANTS
  CThreads,    \* C threads, callers of audiofs_buffer_realloc
  GoThreads,   \* goroutines, each calls COnwedByteSliceFromAudioFSBuffer once
  NoOne,       \* the owner of a mutex nobody holds
  Blocks,      \* addresses malloc can return, reused after free
  NULL,        \* the null pointer
  AllocSizes,  \* sizes handed to audiofs_buffer_alloc
  Requests     \* sizes handed to audiofs_buffer_realloc

Threads == CThreads \cup GoThreads

ASSUME ThreadAssumption ==
  /\ CThreads \cap GoThreads = {}
  /\ NoOne \notin Threads

ASSUME MemoryAssumption ==
  /\ NULL \notin Blocks
  /\ AllocSizes \subseteq Nat
  /\ Requests \subseteq Nat

VARIABLES
  allocated,  \* audiofs_buffer_alloc returned a buffer
  len, data,  \* the fields of the struct
  lock,       \* owner of buffer->lock
  outside,    \* owner of buffer->used_outside_audiofs
  blk,        \* heap: size of the block at an address, 0 if free
  smashed,    \* a memset ran past the end of its block
  aborted,    \* the process was killed for it
  pc,         \* where each thread is
  req,        \* size asked for by the realloc in progress
  newPtr,     \* new_ptr of the realloc in progress
  slice       \* the Go slice a goroutine has built

bufVars == <<allocated, len, data>>
memVars == <<blk, smashed, aborted>>
vars == <<bufVars, memVars, lock, outside, pc, req, newPtr, slice>>

Address == Blocks \cup {NULL}

\* The points where a C thread, or a goroutine, can be.
CPoints  == {"idle", "lock", "resize", "setlen", "setdata", "clearlen", "unlock"}
GoPoints == {"idle", "golock", "gomark", "godata", "golen", "holding"}

\* C code between pthread_mutex_lock and pthread_mutex_unlock of buffer->lock.
Critical == {"resize", "setlen", "setdata", "clearlen", "unlock", "gomark"}

TypeOK ==
  /\ allocated \in BOOLEAN
  /\ len \in Nat
  /\ data \in Address
  /\ lock \in Threads \cup {NoOne}
  /\ outside \in GoThreads \cup {NoOne}
  /\ blk \in [Blocks -> Nat]
  /\ smashed \in BOOLEAN
  /\ aborted \in BOOLEAN
  /\ pc \in [Threads -> CPoints \cup GoPoints]
  /\ \A t \in CThreads : pc[t] \in CPoints
  /\ \A t \in GoThreads : pc[t] \in GoPoints
  /\ req \in [CThreads -> Nat]
  /\ newPtr \in [CThreads -> Address]
  /\ slice \in [GoThreads -> [data : Address, len : Nat]]

Init ==
  /\ allocated = FALSE
  /\ len = 0
  /\ data = NULL
  /\ lock = NoOne
  /\ outside = NoOne
  /\ blk = [b \in Blocks |-> 0]
  /\ smashed = FALSE
  /\ aborted = FALSE
  /\ pc = [t \in Threads |-> "idle"]
  /\ req = [t \in CThreads |-> 0]
  /\ newPtr = [t \in CThreads |-> NULL]
  /\ slice = [t \in GoThreads |-> [data |-> NULL, len |-> 0]]

Free(b) == blk[b] = 0

\* Thread t of a process that still runs goes from one point to the next.
Step(t, from, to) ==
  /\ ~aborted
  /\ pc[t] = from
  /\ pc' = [pc EXCEPT ![t] = to]

-----------------------------------------------------------------------------
(* audiofs_buffer_alloc *)

\* A failed allocation frees what it got and returns NULL: no change of state.
\* Size 0 allocates the struct alone.  The two unlocks of line 28 find mutexes
\* that calloc left unlocked.
Alloc(size) ==
  /\ ~allocated
  /\ allocated' = TRUE
  /\ len' = size
  /\ \/ size = 0 /\ data' = NULL /\ UNCHANGED blk
     \/ size # 0 /\ \E b \in Blocks : /\ Free(b)
                                      /\ data' = b
                                      /\ blk' = [blk EXCEPT ![b] = size]
  /\ UNCHANGED <<smashed, aborted, lock, outside, pc, req, newPtr, slice>>

-----------------------------------------------------------------------------
(* audiofs_buffer_realloc *)

\* audiofs_buffer_ok fails on the NULL that a failed alloc left: the call
\* returns false without a trace, so only calls on a buffer are steps.
ReallocCall(t, size) ==
  /\ allocated
  /\ Step(t, "idle", "lock")
  /\ req' = [req EXCEPT ![t] = size]
  /\ UNCHANGED <<bufVars, memVars, lock, outside, newPtr, slice>>

\* Mutant: marks the buffer as its own instead of clearing the mark.
ReallocLockMarks(t) ==
  /\ Step(t, "lock", "resize")
  /\ lock = NoOne
  /\ lock' = t
  /\ outside' = t
  /\ UNCHANGED <<bufVars, memVars, req, newPtr, slice>>

\* Mutant: trusts the caller to hold the lock already.
ReallocLockTrusting(t) ==
  /\ Step(t, "lock", "resize")
  /\ lock' = t
  /\ outside' = NoOne
  /\ UNCHANGED <<bufVars, memVars, req, newPtr, slice>>

\* Takes the lock, then unlocks used_outside_audiofs whoever holds it: the
\* trylock that would have denied the call is commented out (lines 104-113).
\* Unlocking a default mutex of another thread frees it.
ReallocLock(t) ==
  /\ Step(t, "lock", "resize")
  /\ lock = NoOne
  /\ lock' = t
  /\ outside' = NoOne
  /\ UNCHANGED <<bufVars, memVars, req, newPtr, slice>>

\* size == 0: free the block and clear the pointer, then (next step) the length.
ReallocZero(t) ==
  /\ Step(t, "resize", "clearlen")
  /\ req[t] = 0
  /\ blk' = [b \in Blocks |-> IF b = data THEN 0 ELSE blk[b]]
  /\ data' = NULL
  /\ UNCHANGED <<allocated, len, smashed, aborted, lock, outside, req, newPtr, slice>>

ReallocClearLen(t) ==
  /\ Step(t, "clearlen", "unlock")
  /\ len' = 0
  /\ UNCHANGED <<allocated, data, memVars, lock, outside, req, newPtr, slice>>

\* size == len: nothing to do.
ReallocSame(t) ==
  /\ Step(t, "resize", "unlock")
  /\ req[t] # 0 /\ req[t] = len
  /\ UNCHANGED <<bufVars, memVars, lock, outside, req, newPtr, slice>>

\* The call of realloc(3) succeeds, in place or at a new address; the old block
\* is gone before the struct says so.  The memset of line 130 runs when the
\* buffer SHRINKS, and writes from old len on: past the end of the new block.
ReallocMove(t) ==
  /\ Step(t, "resize", "setlen")
  /\ req[t] # 0 /\ req[t] # len
  /\ \E b \in Blocks :
       /\ Free(b) \/ b = data
       /\ newPtr' = [newPtr EXCEPT ![t] = b]
       /\ blk' = [c \in Blocks |-> IF c = b THEN req[t]
                                   ELSE IF c = data THEN 0 ELSE blk[c]]
  /\ smashed' = (smashed \/ len > req[t])
  /\ UNCHANGED <<allocated, len, data, aborted, lock, outside, req, slice>>

\* Mutant: buffer->data = realloc(buffer->data, size).
ReallocFailLoses(t) ==
  /\ Step(t, "resize", "idle")
  /\ req[t] # 0 /\ req[t] # len
  /\ data' = NULL
  /\ lock' = NoOne
  /\ UNCHANGED <<allocated, len, memVars, outside, req, newPtr, slice>>

\* Mutant: returns without the unlock.
ReallocFailLocked(t) ==
  /\ Step(t, "resize", "idle")
  /\ req[t] # 0 /\ req[t] # len
  /\ UNCHANGED <<bufVars, memVars, lock, outside, req, newPtr, slice>>

\* realloc(3) returns NULL: the buffer is as before, the call returns false.
ReallocFail(t) ==
  /\ Step(t, "resize", "idle")
  /\ req[t] # 0 /\ req[t] # len
  /\ lock' = NoOne
  /\ UNCHANGED <<bufVars, memVars, outside, req, newPtr, slice>>

\* Mutant: the length only ever grows.
ReallocSetLenMax(t) ==
  /\ Step(t, "setlen", "setdata")
  /\ len' = IF len > req[t] THEN len ELSE req[t]
  /\ UNCHANGED <<allocated, data, memVars, lock, outside, req, newPtr, slice>>

ReallocSetLen(t) ==
  /\ Step(t, "setlen", "setdata")
  /\ len' = req[t]
  /\ UNCHANGED <<allocated, data, memVars, lock, outside, req, newPtr, slice>>

ReallocSetData(t) ==
  /\ Step(t, "setdata", "unlock")
  /\ data' = newPtr[t]
  /\ UNCHANGED <<allocated, len, memVars, lock, outside, req, newPtr, slice>>

\* The emergency malloc of lines 138-141, which may fail, then the unlock.
ReallocUnlock(t) ==
  /\ Step(t, "unlock", "idle")
  /\ \E d \in IF len # 0 /\ data = NULL
                THEN {NULL} \cup {b \in Blocks : Free(b)} ELSE {data} :
       /\ data' = d
       /\ blk' = [b \in Blocks |-> IF b = d THEN len ELSE blk[b]]
  /\ lock' = NoOne
  /\ UNCHANGED <<allocated, len, smashed, aborted, outside, req, newPtr, slice>>

\* A process whose heap was overrun may be killed at any later point.
Abort ==
  /\ smashed /\ ~aborted
  /\ aborted' = TRUE
  /\ UNCHANGED <<bufVars, blk, smashed, lock, outside, pc, req, newPtr, slice>>

-----------------------------------------------------------------------------
(* COnwedByteSliceFromAudioFSBuffer.  Nothing in the code ever gives          *)
(* used_outside_audiofs back, so a goroutine that holds a slice stays there.  *)

GoCall(t) ==
  /\ allocated
  /\ Step(t, "idle", "golock")
  /\ UNCHANGED <<bufVars, memVars, lock, outside, req, newPtr, slice>>

GoLock(t) ==
  /\ Step(t, "golock", "gomark")
  /\ lock = NoOne
  /\ lock' = t
  /\ UNCHANGED <<bufVars, memVars, outside, req, newPtr, slice>>

\* Waits for used_outside_audiofs with the lock held, then drops the lock.
GoMark(t) ==
  /\ Step(t, "gomark", "godata")
  /\ outside = NoOne
  /\ outside' = t
  /\ lock' = NoOne
  /\ UNCHANGED <<bufVars, memVars, req, newPtr, slice>>

\* unsafe.Slice reads the two fields one after the other, without the lock.
GoReadData(t) ==
  /\ Step(t, "godata", "golen")
  /\ slice' = [slice EXCEPT ![t].data = data]
  /\ UNCHANGED <<bufVars, memVars, lock, outside, req, newPtr>>

GoReadLen(t) ==
  /\ Step(t, "golen", "holding")
  /\ slice' = [slice EXCEPT ![t].len = len]
  /\ UNCHANGED <<bufVars, memVars, lock, outside, req, newPtr>>

-----------------------------------------------------------------------------
Realloc(t) ==
  \/ ReallocLock(t) \/ ReallocZero(t) \/ ReallocClearLen(t) \/ ReallocSame(t)
  \/ ReallocMove(t) \/ ReallocFail(t) \/ ReallocSetLen(t)
  \/ ReallocSetData(t) \/ ReallocUnlock(t)

Acquire(t) == GoLock(t) \/ GoMark(t) \/ GoReadData(t) \/ GoReadLen(t)

Next ==
  \/ \E size \in AllocSizes : Alloc(size)
  \/ \E t \in CThreads, size \in Requests : ReallocCall(t, size)
  \/ \E t \in CThreads : Realloc(t)
  \/ \E t \in GoThreads : GoCall(t) \/ Acquire(t)
  \/ Abort

Spec == Init /\ [][Next]_vars

\* A thread inside a call keeps running; making a call is the caller's choice.
\* A pthread mutex promises no turn to a waiter that others keep overtaking, so
\* the lock steps are only weakly fair.
Fairness ==
  /\ \A t \in CThreads : WF_vars(Realloc(t))
  /\ \A t \in GoThreads : WF_vars(Acquire(t))

FairSpec == Spec /\ Fairness

-----------------------------------------------------------------------------
(* Properties *)

\* buffer->lock does its work across both languages: a thread between lock and
\* unlock is the one that owns the lock, so two are never there at once.
LockOwned == \A t \in Threads : pc[t] \in Critical => lock = t

\* Whenever nobody holds the lock, the struct tells the truth about the heap:
\* the one live block is data, it is len bytes long, and there is none exactly
\* when len is 0.  No failed, repeated or interleaved audiofs_buffer_realloc
\* leaks a block, keeps a freed one or leaves len and data of different calls.
QuiescentHeap ==
  lock = NoOne =>
    /\ \A b \in Blocks : blk[b] = (IF b = data THEN len ELSE 0)
    /\ data = NULL <=> len = 0

\* "ensures, the passed buffer is exactly the passed size" (util.h:88), and
\* "realloc with 0 size will free the underlying data buffer" (util.h:90): at
\* the unlock of a call that returns true both are so, whatever other threads
\* asked for meanwhile.
ReallocExact ==
  [][\A t \in CThreads :
       pc[t] = "unlock" /\ pc'[t] = "idle"
         => /\ len' = req[t]
            /\ data' = NULL <=> req[t] = 0]_vars

\* The lock is not kept: whoever holds it, in C or in Go, gets to the unlock, on
\* the early return of a failed realloc too.
LockReleased == \A t \in Threads : lock = t ~> lock # t \/ aborted

\* Every call of audiofs_buffer_realloc comes back with an answer, "whether the
\* buffer was resized" (util.h:96).
ReallocReturns ==
  \A t \in CThreads : pc[t] = "lock" ~> (pc[t] = "idle" \/ aborted)

\* "If the passed buffer is marked as being used outside C, it will do nothing
\* and return false" (util.h:93): while a goroutine uses the bytes, the block
\* its slice points into stays alive and as long as the slice.
SliceValid ==
  \A t \in GoThreads :
    pc[t] = "holding" /\ slice[t].data # NULL
      => blk[slice[t].data] >= slice[t].len
=============================================================================
