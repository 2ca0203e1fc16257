----------------------------- MODULE LogBuffer -----------------------------
(***************************************************************************)
(* The log bridge of the library that is linked into Go: audiofs_log       *)
(* (native/macros.h) formats a message into the one buffer of the process  *)
(* (native/logbuffer.c) and hands it to go_print (native/golang_glue.go),  *)
(* which copies it.  Any thread may log; go_log_mutex guards the buffer.   *)
(*                                                                         *)
(* Nothing ever assigns go_log_buffer_len, so the buffer is reallocated    *)
(* for every message, to a shorter one as well as to a longer one.         *)
(***************************************************************************)
EXTENDS Naturals, FiniteSets, Sequences

CONSTANTS
  Threads,  \* threads that log
  NoOne,    \* the owner of a mutex nobody holds
  Blocks,   \* addresses malloc can return, reused after free
  NULL,     \* the null pointer
  Lengths,  \* lengths of the messages, as snprintf counts them
  Levels,   \* levels of the messages, and of go_log_level
  MaxCalls  \* bound: calls of audiofs_log that pass the level

ASSUME ThreadAssumption == NoOne \notin Threads

ASSUME MessageAssumption ==
  /\ NULL \notin Blocks
  /\ Lengths \cup Levels \cup {MaxCalls} \subseteq Nat

VARIABLES
  go_log_level,
  go_log_mutex,   \* its owner
  go_log_buffer,  \* the address of the buffer
  blk,            \* heap: size of the block at an address, 0 if free
  text,           \* the message the buffer holds
  pc,             \* where each thread is
  msg,            \* what each thread logs, or logged last
  calls,          \* calls that passed the level
  printed,        \* what go_print was called with, and what it was to print
  dropped,        \* messages that found no memory
  lost            \* blocks whose only pointer a failed realloc has overwritten

heap == <<go_log_buffer, blk, text>>
history == <<calls, printed, dropped, lost>>
vars == <<go_log_level, go_log_mutex, heap, pc, msg, history>>

\* A thread that logs the same again prints the same: messages need no number.
Message == [by : Threads, len : Nat, level : Nat]

Points == {"idle", "lock", "fit", "format", "print", "unlock"}

\* Between pthread_mutex_lock and pthread_mutex_unlock.
Critical == {"fit", "format", "print", "unlock"}

\* What a buffer holds that has just been allocated.
NoText == [by |-> NoOne, len |-> 0, level |-> 0]

TypeOK ==
  /\ go_log_level \in Nat
  /\ go_log_mutex \in Threads \cup {NoOne}
  /\ blk \in [Blocks -> Nat]
  /\ go_log_buffer \in {b \in Blocks : blk[b] # 0} \cup {NULL}
  /\ text \in Message \cup {NoText}
  /\ pc \in [Threads -> Points]
  /\ msg \in [Threads -> Message \cup {NoText}]
  /\ calls \in Nat /\ dropped \in Nat /\ lost \in Nat
  /\ printed \in Seq([text : Message \cup {NoText}, msg : Message \cup {NoText}])

Init ==
  /\ go_log_level = 0
  /\ go_log_mutex = NoOne
  /\ go_log_buffer = NULL
  /\ blk = [b \in Blocks |-> 0]
  /\ text = NoText
  /\ pc = [t \in Threads |-> "idle"]
  /\ msg = [t \in Threads |-> NoText]
  /\ calls = 0 /\ printed = <<>> /\ dropped = 0 /\ lost = 0

Step(t, from, to) == pc[t] = from /\ pc' = [pc EXCEPT ![t] = to]

-----------------------------------------------------------------------------
\* ApplyLogrusLevel: the level is written, and read, without the mutex.
audiofs_log_level_set(level) ==
  /\ go_log_level' = level
  /\ UNCHANGED <<go_log_mutex, heap, pc, msg, history>>

\* A message above the level is nothing: only the others are steps.
audiofs_log(t, len, level) ==
  /\ calls < MaxCalls
  /\ level <= go_log_level
  /\ Step(t, "idle", "lock")
  /\ msg' = [msg EXCEPT ![t] = [by |-> t, len |-> len, level |-> level]]
  /\ calls' = calls + 1
  /\ UNCHANGED <<go_log_level, go_log_mutex, heap, printed, dropped, lost>>

\* Mutant: the buffer is fitted without the mutex.
LockNothing(t) ==
  /\ Step(t, "lock", "fit")
  /\ UNCHANGED <<go_log_level, go_log_mutex, heap, msg, history>>

Lock(t) ==
  /\ Step(t, "lock", "fit")
  /\ go_log_mutex = NoOne
  /\ go_log_mutex' = t
  /\ UNCHANGED <<go_log_level, heap, msg, history>>

\* The block that malloc or realloc found: the old one, or one that was free,
\* which gets a byte for the end of the string.
Fits(len, b) ==
  /\ blk[b] = 0 \/ b = go_log_buffer
  /\ go_log_buffer' = b
  /\ blk' = [c \in Blocks |-> IF c = b THEN len + 1
                              ELSE IF c = go_log_buffer THEN 0 ELSE blk[c]]
  /\ text' \in IF b = go_log_buffer THEN {text, NoText} ELSE {NoText}

\* Mutant: allocated once, for the first message.
FitOnce(t) ==
  /\ Step(t, "fit", "format")
  /\ IF go_log_buffer = NULL THEN \E b \in Blocks : Fits(msg[t].len, b)
                             ELSE UNCHANGED heap
  /\ UNCHANGED <<go_log_level, go_log_mutex, msg, history>>

\* Mutant: malloc where realloc belongs.
FitLeaks(t) ==
  /\ Step(t, "fit", "format")
  /\ \E b \in Blocks :
       /\ blk[b] = 0
       /\ go_log_buffer' = b
       /\ blk' = [blk EXCEPT ![b] = msg[t].len + 1]
  /\ text' = NoText
  /\ UNCHANGED <<go_log_level, go_log_mutex, msg, history>>

\* The first snprintf counts; malloc, the first time and after a failure, else
\* realloc, since go_log_buffer_len, which is 0, is below len + 1.
Fit(t) ==
  /\ Step(t, "fit", "format")
  /\ \E b \in Blocks : Fits(msg[t].len, b)
  /\ UNCHANGED <<go_log_level, go_log_mutex, msg, history>>

\* Mutant: the message counts as printed.
FitFailsSilently(t) ==
  /\ Step(t, "fit", "unlock")
  /\ go_log_buffer' = NULL
  /\ lost' = IF go_log_buffer = NULL THEN lost ELSE lost + 1
  /\ UNCHANGED <<go_log_level, go_log_mutex, blk, text, msg, calls, printed, dropped>>

\* There is no memory: realloc's NULL replaces the pointer to the block that
\* realloc has left alone, and a line on stderr the message.
FitFails(t) ==
  /\ Step(t, "fit", "unlock")
  /\ go_log_buffer' = NULL
  /\ lost' = IF go_log_buffer = NULL THEN lost ELSE lost + 1
  /\ dropped' = dropped + 1
  /\ UNCHANGED <<go_log_level, go_log_mutex, blk, text, msg, calls, printed>>

\* The second snprintf.
Format(t) ==
  /\ Step(t, "format", "print")
  /\ text' = msg[t]
  /\ UNCHANGED <<go_log_level, go_log_mutex, go_log_buffer, blk, msg, history>>

\* go_print copies len bytes; a message for panic or fatal is an error there,
\* and ends nothing.
go_print(t) ==
  /\ Step(t, "print", "unlock")
  /\ printed' = Append(printed, [text |-> text, msg |-> msg[t]])
  /\ UNCHANGED <<go_log_level, go_log_mutex, heap, msg, calls, dropped, lost>>

\* Mutant: only a message that was printed gives the mutex back.
UnlockPrinted(t) ==
  /\ Step(t, "unlock", "idle")
  /\ go_log_mutex' = IF go_log_buffer = NULL THEN go_log_mutex ELSE NoOne
  /\ UNCHANGED <<go_log_level, heap, msg, history>>

Unlock(t) ==
  /\ Step(t, "unlock", "idle")
  /\ go_log_mutex' = NoOne
  /\ UNCHANGED <<go_log_level, heap, msg, history>>

-----------------------------------------------------------------------------
\* A thread inside audiofs_log.
Logging(t) == Lock(t) \/ Fit(t) \/ FitFails(t) \/ Format(t) \/ go_print(t) \/ Unlock(t)

Next ==
  \/ \E level \in Levels : audiofs_log_level_set(level)
  \/ \E t \in Threads, len \in Lengths, level \in Levels : audiofs_log(t, len, level)
  \/ \E t \in Threads : Logging(t)

Spec == Init /\ [][Next]_vars

\* A thread that has called runs on; a mutex promises no turn to a waiter.
FairSpec == Spec /\ \A t \in Threads : WF_vars(Logging(t))

-----------------------------------------------------------------------------
(* Properties *)

\* Every line in the log is the message of the thread that logged it, whole:
\* no other thread writes, moves or frees the buffer between the snprintf and
\* the end of go_print, whatever the order of the calls.
PrintedWhole == \A i \in DOMAIN printed : printed[i].text = printed[i].msg

\* "we check this afterward" (macros.h:65): snprintf and go_print are reached
\* only with a block that has room for the message and its end, after any
\* sequence of longer and shorter messages and of failed allocations.
RoomForMessage ==
  \A t \in Threads : pc[t] \in {"format", "print"} =>
    go_log_buffer # NULL /\ blk[go_log_buffer] > msg[t].len

\* However often the buffer was moved, there is one block, the buffer; any other
\* was lost by an allocation that failed, which the comment at macros.h:63 knows.
OneBlockUnlessLost ==
  Cardinality({b \in Blocks : blk[b] # 0 /\ b # go_log_buffer}) = lost

Inside == {t \in Threads : pc[t] \in {"lock", "fit", "format", "print"}}

\* A message is printed, or dropped with a line on stderr, or still on its way:
\* no message is lost to the failure of another one.
EveryMessageAccounted ==
  calls = Len(printed) + dropped + Cardinality(Inside)

\* A thread that has the mutex gives it back, on the failing path as well.
MutexReleased == \A t \in Threads : go_log_mutex = t ~> go_log_mutex # t
=============================================================================
