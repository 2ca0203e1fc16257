-------------------------- MODULE LogBufferProofs --------------------------
(***************************************************************************)
(* For any number of threads, blocks, lengths and levels: the log buffer   *)
(* is used by one thread at a time, has room for what is written to it,    *)
(* every line is the whole message of the thread that logged it, and who   *)
(* has the mutex comes to give it back.                                    *)
(***************************************************************************)
EXTENDS LogBuffer, FiniteSetTheorems, TLAPS

\* The mutex is with the thread that is past it.
MutexOwned == \A t \in Threads : pc[t] \in Critical <=> go_log_mutex = t

\* Between the snprintf and the end of go_print the buffer holds the message.
Formatted == \A t \in Threads : pc[t] = "print" => text = msg[t]

IInv == TypeOK /\ MutexOwned /\ RoomForMessage /\ Formatted /\ PrintedWhole

\* A thread's steps past the mutex, in which the buffer is touched.
Holding(t) == Fit(t) \/ FitFails(t) \/ Format(t) \/ go_print(t) \/ Unlock(t)

-----------------------------------------------------------------------------
\* At most one thread is between lock and unlock.
LEMMA Alone ==
  ASSUME MutexOwned, NEW t \in Threads, NEW u \in Threads,
         pc[t] \in Critical, pc[u] \in Critical
  PROVE  t = u
  BY DEF MutexOwned

LEMMA TypeInit == Init => TypeOK
  BY ThreadAssumption, MessageAssumption DEF Init, TypeOK, Points, NoText

\* The block that Fits takes is live, and NULL is none.
LEMMA FitsType ==
  ASSUME TypeOK, NEW n \in Nat, NEW b \in Blocks, Fits(n, b)
  PROVE  /\ blk' \in [Blocks -> Nat]
         /\ go_log_buffer' = b /\ blk'[b] = n + 1
         /\ text' \in Message \cup {NoText}
  <1>1. blk' = [c \in Blocks |-> IF c = b THEN n + 1
                                 ELSE IF c = go_log_buffer THEN 0 ELSE blk[c]]
    BY DEF Fits
  <1>2. blk \in [Blocks -> Nat]
    BY DEF TypeOK
  <1>3. blk' \in [Blocks -> Nat] /\ blk'[b] = n + 1
    BY <1>1, <1>2
  <1>4. text' \in Message \cup {NoText}
    BY DEF Fits, TypeOK
  <1> QED BY <1>3, <1>4 DEF Fits

LEMMA MsgType ==
  ASSUME TypeOK, NEW t \in Threads
  PROVE  msg[t] \in Message \cup {NoText} /\ msg[t].len \in Nat
  BY DEF TypeOK, Message, NoText

\* Every step keeps the types.
LEMMA TypeStep == TypeOK /\ [Next]_vars => TypeOK'
  <1> SUFFICES ASSUME TypeOK, [Next]_vars PROVE TypeOK'
    OBVIOUS
  <1> USE DEF TypeOK
  <1>1. ASSUME NEW level \in Levels, audiofs_log_level_set(level) PROVE TypeOK'
    BY <1>1, MessageAssumption DEF audiofs_log_level_set, heap, history
  <1>2. ASSUME NEW t \in Threads, NEW len \in Lengths, NEW level \in Levels,
               audiofs_log(t, len, level)
        PROVE TypeOK'
    <2>1. [by |-> t, len |-> len, level |-> level] \in Message
      BY MessageAssumption DEF Message
    <2>2. msg' \in [Threads -> Message \cup {NoText}]
      BY <1>2, <2>1 DEF audiofs_log
    <2>3. pc' \in [Threads -> Points]
      BY <1>2 DEF audiofs_log, Step, Points
    <2> QED BY <1>2, <2>2, <2>3 DEF audiofs_log, heap
  <1>3. ASSUME NEW t \in Threads, Lock(t) PROVE TypeOK'
    BY <1>3 DEF Lock, Step, Points, heap, history
  <1>4. ASSUME NEW t \in Threads, Fit(t) PROVE TypeOK'
    <2>1. PICK b \in Blocks : Fits(msg[t].len, b)
      BY <1>4 DEF Fit
    <2>2. /\ blk' \in [Blocks -> Nat]
          /\ go_log_buffer' = b /\ blk'[b] = msg[t].len + 1
          /\ text' \in Message \cup {NoText}
      BY <2>1, FitsType, MsgType
    <2>3. go_log_buffer' \in {c \in Blocks : blk'[c] # 0}
      BY <2>2, MsgType
    <2>4. pc' \in [Threads -> Points]
      BY <1>4 DEF Fit, Step, Points
    <2> QED BY <1>4, <2>2, <2>3, <2>4 DEF Fit, history
  <1>5. ASSUME NEW t \in Threads, FitFails(t) PROVE TypeOK'
    BY <1>5 DEF FitFails, Step, Points
  <1>6. ASSUME NEW t \in Threads, Format(t) PROVE TypeOK'
    BY <1>6, MsgType DEF Format, Step, Points, history
  <1>7. ASSUME NEW t \in Threads, go_print(t) PROVE TypeOK'
    BY <1>7, MsgType DEF go_print, Step, Points, heap
  <1>8. ASSUME NEW t \in Threads, Unlock(t) PROVE TypeOK'
    BY <1>8 DEF Unlock, Step, Points, heap, history
  <1>9. CASE UNCHANGED vars
    BY <1>9 DEF vars, heap, history
  <1> QED
    BY <1>1, <1>2, <1>3, <1>4, <1>5, <1>6, <1>7, <1>8, <1>9 DEF Next, Logging

\* The types of the log bridge's state.
THEOREM TypeCorrect == Spec => []TypeOK
  BY TypeInit, TypeStep, PTL DEF Spec

-----------------------------------------------------------------------------
\* The mutex changes hands at lock and unlock alone.
LEMMA OwnedStep == TypeOK /\ MutexOwned /\ [Next]_vars => MutexOwned'
  <1> SUFFICES ASSUME TypeOK, MutexOwned, [Next]_vars PROVE MutexOwned'
    OBVIOUS
  <1> USE ThreadAssumption DEF TypeOK, MutexOwned, Critical
  <1>1. ASSUME NEW level \in Levels, audiofs_log_level_set(level) PROVE MutexOwned'
    BY <1>1 DEF audiofs_log_level_set
  <1>2. ASSUME NEW t \in Threads, NEW len \in Lengths, NEW level \in Levels,
               audiofs_log(t, len, level)
        PROVE MutexOwned'
    BY <1>2 DEF audiofs_log, Step
  <1>3. ASSUME NEW t \in Threads, Lock(t) PROVE MutexOwned'
    BY <1>3 DEF Lock, Step
  <1>4. ASSUME NEW t \in Threads, Fit(t) \/ FitFails(t) \/ Format(t) \/ go_print(t)
        PROVE MutexOwned'
    BY <1>4 DEF Fit, FitFails, Format, go_print, Step
  <1>5. ASSUME NEW t \in Threads, Unlock(t) PROVE MutexOwned'
    BY <1>5 DEF Unlock, Step
  <1>6. CASE UNCHANGED vars
    BY <1>6 DEF vars
  <1> QED BY <1>1, <1>2, <1>3, <1>4, <1>5, <1>6 DEF Next, Logging

\* A thread past the mutex is alone there before and after its step.
LEMMA OthersOut ==
  ASSUME TypeOK, MutexOwned, NEW t \in Threads, Holding(t)
  PROVE  \A u \in Threads \ {t} : pc'[u] = pc[u] /\ pc[u] \notin Critical
  <1>1. pc[t] \in Critical /\ \A u \in Threads \ {t} : pc'[u] = pc[u]
    BY DEF Holding, Fit, FitFails, Format, go_print, Unlock, Step, Critical, TypeOK
  <1> QED BY <1>1, Alone

\* Every step keeps the invariant: only the thread with the mutex touches the
\* buffer, so that no other is about to use it.
LEMMA IInvStep == IInv /\ [Next]_vars => IInv'
  <1> SUFFICES ASSUME IInv, [Next]_vars PROVE IInv'
    OBVIOUS
  <1>0. TypeOK' /\ MutexOwned'
    BY TypeStep, OwnedStep DEF IInv
  <1> SUFFICES RoomForMessage' /\ Formatted' /\ PrintedWhole'
    BY <1>0 DEF IInv
  <1> USE DEF IInv, RoomForMessage, Formatted, PrintedWhole
  <1>1. ASSUME NEW level \in Levels, audiofs_log_level_set(level)
        PROVE RoomForMessage' /\ Formatted' /\ PrintedWhole'
    BY <1>1 DEF audiofs_log_level_set, heap, history
  <1>2. ASSUME NEW t \in Threads, NEW len \in Lengths, NEW level \in Levels,
               audiofs_log(t, len, level)
        PROVE RoomForMessage' /\ Formatted' /\ PrintedWhole'
    BY <1>2 DEF audiofs_log, Step, TypeOK, heap
  <1>3. ASSUME NEW t \in Threads, Lock(t)
        PROVE RoomForMessage' /\ Formatted' /\ PrintedWhole'
    BY <1>3 DEF Lock, Step, TypeOK, heap, history
  <1>4. ASSUME NEW t \in Threads, Fit(t)
        PROVE RoomForMessage' /\ Formatted' /\ PrintedWhole'
    <2>1. \A u \in Threads \ {t} : pc'[u] = pc[u] /\ pc[u] \notin Critical
      BY <1>4, OthersOut DEF Holding
    <2>2. pc'[t] = "format"
      BY <1>4 DEF Fit, Step, TypeOK
    <2>3. PICK b \in Blocks : Fits(msg[t].len, b)
      BY <1>4 DEF Fit
    <2>4. /\ go_log_buffer' = b /\ blk'[b] = msg[t].len + 1
          /\ msg' = msg /\ printed' = printed
      BY <1>4, <2>3, FitsType, MsgType DEF Fit, history
    <2>5. RoomForMessage'
      <3> SUFFICES ASSUME NEW u \in Threads, pc'[u] \in {"format", "print"}
                   PROVE go_log_buffer' # NULL /\ blk'[go_log_buffer'] > msg'[u].len
        OBVIOUS
      <3>1. u = t
        BY <2>1 DEF Critical
      <3> QED BY <3>1, <2>4, MsgType, MessageAssumption
    <2> QED BY <2>1, <2>2, <2>4, <2>5 DEF Critical
  <1>5. ASSUME NEW t \in Threads, FitFails(t)
        PROVE RoomForMessage' /\ Formatted' /\ PrintedWhole'
    <2>1. \A u \in Threads \ {t} : pc'[u] = pc[u] /\ pc[u] \notin Critical
      BY <1>5, OthersOut DEF Holding
    <2>2. pc'[t] = "unlock" /\ printed' = printed
      BY <1>5 DEF FitFails, Step, TypeOK
    <2> QED BY <2>1, <2>2 DEF Critical
  <1>6. ASSUME NEW t \in Threads, Format(t)
        PROVE RoomForMessage' /\ Formatted' /\ PrintedWhole'
    <2>1. \A u \in Threads \ {t} : pc'[u] = pc[u] /\ pc[u] \notin Critical
      BY <1>6, OthersOut DEF Holding
    <2>2. /\ pc[t] = "format" /\ pc'[t] = "print"
          /\ text' = msg[t]
          /\ UNCHANGED <<go_log_buffer, blk, msg, printed>>
      BY <1>6 DEF Format, Step, TypeOK, history
    <2> QED BY <2>1, <2>2 DEF Critical
  <1>7. ASSUME NEW t \in Threads, go_print(t)
        PROVE RoomForMessage' /\ Formatted' /\ PrintedWhole'
    <2>1. \A u \in Threads \ {t} : pc'[u] = pc[u] /\ pc[u] \notin Critical
      BY <1>7, OthersOut DEF Holding
    <2>2. /\ pc[t] = "print" /\ pc'[t] = "unlock"
          /\ printed' = Append(printed, [text |-> text, msg |-> msg[t]])
      BY <1>7 DEF go_print, Step, TypeOK
    <2>3. PrintedWhole'
      <3>1. text = msg[t]
        BY <2>2
      <3>2. printed \in Seq([text : Message \cup {NoText}, msg : Message \cup {NoText}])
        BY DEF TypeOK
      <3>3. [text |-> text, msg |-> msg[t]]
              \in [text : Message \cup {NoText}, msg : Message \cup {NoText}]
        BY MsgType DEF TypeOK
      <3> QED BY <2>2, <3>1, <3>2, <3>3
    <2> QED BY <2>1, <2>2, <2>3 DEF Critical
  <1>8. ASSUME NEW t \in Threads, Unlock(t)
        PROVE RoomForMessage' /\ Formatted' /\ PrintedWhole'
    BY <1>8 DEF Unlock, Step, TypeOK, heap, history
  <1>9. CASE UNCHANGED vars
    BY <1>9 DEF vars, heap, history
  <1> QED
    BY <1>1, <1>2, <1>3, <1>4, <1>5, <1>6, <1>7, <1>8, <1>9 DEF Next, Logging

LEMMA IInvInit == Init => IInv
  BY TypeInit, ThreadAssumption
  DEF Init, IInv, MutexOwned, Critical, RoomForMessage, Formatted, PrintedWhole

\* The inductive invariant holds.
LEMMA IInvAlways == Spec => []IInv
  BY IInvInit, IInvStep, PTL DEF Spec

\* Whatever threads log whatever, and wherever an allocation fails: every line is
\* the message of the thread that logged it, whole.
THEOREM LinesAreWhole == Spec => []PrintedWhole
  <1>1. IInv => PrintedWhole
    BY DEF IInv
  <1> QED BY <1>1, IInvAlways, PTL

\* snprintf and go_print find a block with room for the message.
THEOREM BufferHasRoom == Spec => []RoomForMessage
  <1>1. IInv => RoomForMessage
    BY DEF IInv
  <1> QED BY <1>1, IInvAlways, PTL

-----------------------------------------------------------------------------
(* Messages and blocks, counted *)

\* The blocks that no pointer holds.
Orphans == {b \in Blocks : blk[b] # 0 /\ b # go_log_buffer}

\* At any time finitely many threads have called, whatever the number of threads, and
\* finitely many blocks are lost.
Counts ==
  /\ IsFiniteSet(Inside) /\ EveryMessageAccounted
  /\ IsFiniteSet(Orphans) /\ OneBlockUnlessLost

LEMMA CountsInit == Init => Counts
  <1> SUFFICES ASSUME Init PROVE Counts
    OBVIOUS
  <1>1. Inside = {} /\ Orphans = {} /\ Len(printed) = 0 /\ calls = 0 /\ dropped = 0 /\ lost = 0
    BY DEF Init, Inside, Orphans
  <1> QED BY <1>1, FS_EmptySet DEF Counts, EveryMessageAccounted, OneBlockUnlessLost, Orphans

\* A call adds itself, and is counted.
LEMMA CallCounts ==
  ASSUME TypeOK, Counts, NEW t \in Threads, NEW len \in Lengths, NEW level \in Levels,
         audiofs_log(t, len, level)
  PROVE  Counts'
  <1>1. Inside' = Inside \cup {t} /\ t \notin Inside
    BY DEF audiofs_log, Step, Inside, TypeOK
  <1>2. IsFiniteSet(Inside') /\ Cardinality(Inside') = Cardinality(Inside) + 1
    BY <1>1, FS_AddElement DEF Counts
  <1>3. /\ calls' = calls + 1 /\ UNCHANGED <<printed, dropped, lost, go_log_buffer, blk>>
    BY DEF audiofs_log, heap
  <1>4. EveryMessageAccounted'
    <2>1. Len(printed) \in Nat /\ dropped \in Nat /\ Cardinality(Inside) \in Nat
      BY FS_CardinalityType DEF TypeOK, Counts
    <2> QED BY <1>2, <1>3, <2>1 DEF Counts, EveryMessageAccounted
  <1>5. Orphans' = Orphans
    BY <1>3 DEF Orphans
  <1> QED BY <1>2, <1>3, <1>4, <1>5 DEF Counts, OneBlockUnlessLost, Orphans

\* A message leaves the call when it is printed or dropped.
LEMMA LeaveCounts ==
  ASSUME TypeOK, Counts, NEW t \in Threads, FitFails(t) \/ go_print(t)
  PROVE  IsFiniteSet(Inside') /\ EveryMessageAccounted'
  <1>1. Inside' = Inside \ {t} /\ t \in Inside
    BY DEF FitFails, go_print, Step, Inside, TypeOK
  <1>2. IsFiniteSet(Inside') /\ Cardinality(Inside') = Cardinality(Inside) - 1
    BY <1>1, FS_RemoveElement DEF Counts
  <1>3. Len(printed) \in Nat /\ dropped \in Nat /\ calls \in Nat /\ Cardinality(Inside) \in Nat
    BY FS_CardinalityType DEF TypeOK, Counts
  <1>4. calls' = calls /\ Len(printed') + dropped' = Len(printed) + dropped + 1
    <2>1. CASE FitFails(t)
      BY <1>3, <2>1 DEF FitFails
    <2>2. CASE go_print(t)
      <3>1. Len(printed') = Len(printed) + 1 /\ dropped' = dropped /\ calls' = calls
        BY <2>2, MsgType DEF go_print, TypeOK
      <3> QED BY <1>3, <3>1
    <2> QED BY <2>1, <2>2
  <1>5. Len(printed') \in Nat /\ dropped' \in Nat
    BY <1>3, MsgType DEF FitFails, go_print, TypeOK
  <1> QED BY <1>2, <1>3, <1>4, <1>5 DEF Counts, EveryMessageAccounted

\* The block that takes the place of the buffer was free, or was the buffer.
LEMMA FitsOrphans ==
  ASSUME TypeOK, NEW n \in Nat, NEW b \in Blocks, Fits(n, b)
  PROVE  Orphans' = Orphans
  <1>1. /\ go_log_buffer' = b /\ (blk[b] = 0 \/ b = go_log_buffer)
        /\ blk' = [c \in Blocks |-> IF c = b THEN n + 1
                                    ELSE IF c = go_log_buffer THEN 0 ELSE blk[c]]
    BY DEF Fits
  <1>2. \A c \in Blocks : blk'[c] = IF c = b THEN n + 1
                                    ELSE IF c = go_log_buffer THEN 0 ELSE blk[c]
    BY <1>1
  <1> QED BY <1>1, <1>2 DEF Orphans

\* realloc's NULL loses the block it leaves alone, and no other.
LEMMA FailOrphans ==
  ASSUME TypeOK, Counts, NEW t \in Threads, FitFails(t)
  PROVE  IsFiniteSet(Orphans') /\ OneBlockUnlessLost'
  <1>1. /\ go_log_buffer' = NULL /\ blk' = blk
        /\ lost' = IF go_log_buffer = NULL THEN lost ELSE lost + 1
    BY DEF FitFails
  <1>2. CASE go_log_buffer = NULL
    <2>1. Orphans' = Orphans
      BY <1>1, <1>2 DEF Orphans
    <2> QED BY <1>1, <1>2, <2>1 DEF Counts, OneBlockUnlessLost, Orphans
  <1>3. CASE go_log_buffer # NULL
    <2>1. Orphans' = Orphans \cup {go_log_buffer} /\ go_log_buffer \notin Orphans
      BY <1>1, <1>3, MessageAssumption DEF Orphans, TypeOK
    <2>2. IsFiniteSet(Orphans') /\ Cardinality(Orphans') = Cardinality(Orphans) + 1
      BY <2>1, FS_AddElement DEF Counts
    <2> QED BY <1>1, <1>3, <2>2 DEF Counts, OneBlockUnlessLost, Orphans
  <1> QED BY <1>2, <1>3

LEMMA CountsStep == TypeOK /\ Counts /\ [Next]_vars => Counts'
  <1> SUFFICES ASSUME TypeOK, Counts, [Next]_vars PROVE Counts'
    OBVIOUS
  <1> DEFINE Messages == UNCHANGED <<calls, printed, dropped>> /\ Inside' = Inside
             Memory == lost' = lost /\ Orphans' = Orphans
  <1>1. ASSUME Messages, Memory PROVE Counts'
    BY <1>1 DEF Counts, EveryMessageAccounted, OneBlockUnlessLost, Orphans
  <1>2. ASSUME NEW level \in Levels, audiofs_log_level_set(level) PROVE Counts'
    BY <1>1, <1>2 DEF audiofs_log_level_set, history, heap, Inside, Orphans
  <1>3. ASSUME NEW t \in Threads, Lock(t) \/ Format(t) \/ Unlock(t) PROVE Counts'
    <2>1. Messages
      BY <1>3 DEF Lock, Format, Unlock, Step, history, Inside, TypeOK
    <2>2. Memory
      BY <1>3 DEF Lock, Format, Unlock, history, heap, Orphans
    <2> QED BY <1>1, <2>1, <2>2
  <1>4. ASSUME NEW t \in Threads, Fit(t) PROVE Counts'
    <2>1. Messages
      BY <1>4 DEF Fit, Step, history, Inside, TypeOK
    <2>2. Memory
      BY <1>4, FitsOrphans, MsgType DEF Fit, history
    <2> QED BY <1>1, <2>1, <2>2
  <1>5. ASSUME NEW t \in Threads, FitFails(t) PROVE Counts'
    BY <1>5, LeaveCounts, FailOrphans DEF Counts
  <1>6. ASSUME NEW t \in Threads, go_print(t) PROVE Counts'
    <2>1. Memory
      BY <1>6 DEF go_print, heap, Orphans
    <2>2. IsFiniteSet(Inside') /\ EveryMessageAccounted'
      BY <1>6, LeaveCounts
    <2> QED BY <2>1, <2>2 DEF Counts, OneBlockUnlessLost, Orphans
  <1>7. CASE UNCHANGED vars
    BY <1>1, <1>7 DEF vars, history, heap, Inside, Orphans
  <1> QED BY <1>2, <1>3, <1>4, <1>5, <1>6, <1>7, CallCounts DEF Next, Logging

\* No message is lost to the failure of another one: each is printed, or dropped for
\* itself, or on its way.
THEOREM MessagesAreAccounted == Spec => []EveryMessageAccounted
  <1>1. Counts => EveryMessageAccounted
    BY DEF Counts
  <1> QED BY <1>1, TypeInit, TypeStep, CountsInit, CountsStep, PTL DEF Spec

\* Moving the buffer loses no block; a failed allocation loses one, the buffer's.
THEOREM BlocksAreAccounted == Spec => []OneBlockUnlessLost
  <1>1. Counts => OneBlockUnlessLost
    BY DEF Counts
  <1> QED BY <1>1, TypeInit, TypeStep, CountsInit, CountsStep, PTL DEF Spec

-----------------------------------------------------------------------------
(* The release of the mutex *)

\* Steps that a thread past the mutex has before it at most.
Distance(t) ==
  CASE pc[t] = "fit" -> 4
    [] pc[t] = "format" -> 3
    [] pc[t] = "print" -> 2
    [] pc[t] = "unlock" -> 1
    [] OTHER -> 0

\* The half of MutexReleased that needs no fairness: each step of the thread that has
\* the mutex gives it back or brings the thread nearer to where it does, on the failing
\* path as well, and nobody else takes the mutex from it or moves it.
THEOREM ReleaseComesNearer ==
  Spec => [][\A t \in Threads : go_log_mutex = t =>
               /\ Logging(t) => go_log_mutex' # t \/ Distance(t)' < Distance(t)
               /\ ~Logging(t) => go_log_mutex' = t /\ pc'[t] = pc[t]]_vars
  <1> DEFINE Nearer == \A t \in Threads : go_log_mutex = t =>
                         /\ Logging(t) => go_log_mutex' # t \/ Distance(t)' < Distance(t)
                         /\ ~Logging(t) => go_log_mutex' = t /\ pc'[t] = pc[t]
  <1>1. ASSUME IInv, [Next]_vars PROVE [Nearer]_vars
    <2> SUFFICES ASSUME Next, NEW t \in Threads, go_log_mutex = t
                 PROVE  /\ Logging(t) => go_log_mutex' # t \/ Distance(t)' < Distance(t)
                        /\ ~Logging(t) => go_log_mutex' = t /\ pc'[t] = pc[t]
      BY <1>1
    <2>1. /\ pc \in [Threads -> Points] /\ pc[t] \in Critical /\ t # NoOne
          /\ \A u \in Threads \ {t} : pc[u] \notin Critical
      BY <1>1, ThreadAssumption DEF IInv, TypeOK, MutexOwned
    <2>2. ASSUME NEW from, NEW to, Step(t, from, to)
          PROVE  pc[t] = from /\ pc'[t] = to
      BY <2>1, <2>2 DEF Step
    <2>3. ~Lock(t)
      BY <2>1 DEF Lock, Step, Critical
    <2>4. CASE Unlock(t)
      BY <2>1, <2>4 DEF Unlock, Logging
    <2>5. CASE Fit(t) \/ FitFails(t) \/ Format(t) \/ go_print(t)
      <3>1. \/ pc[t] = "fit" /\ pc'[t] \in {"format", "unlock"}
            \/ pc[t] = "format" /\ pc'[t] = "print"
            \/ pc[t] = "print" /\ pc'[t] = "unlock"
        BY <2>2, <2>5 DEF Fit, FitFails, Format, go_print
      <3>2. Distance(t)' < Distance(t)
        BY <3>1 DEF Distance
      <3> QED BY <2>5, <3>2 DEF Logging
    <2>6. CASE ~Logging(t)
      <3>1. \A u \in Threads \ {t} : ~Lock(u)
        BY <2>1 DEF Lock
      <3>2. \A u \in Threads \ {t} : ~Holding(u)
        BY <2>1 DEF Holding, Fit, FitFails, Format, go_print, Unlock, Step, Critical
      <3>3. \A len \in Lengths, level \in Levels : ~audiofs_log(t, len, level)
        BY <2>1 DEF audiofs_log, Step, Critical
      <3>4. ASSUME NEW u \in Threads \ {t}, NEW len \in Lengths, NEW level \in Levels,
                   audiofs_log(u, len, level)
            PROVE  go_log_mutex' = go_log_mutex /\ pc'[t] = pc[t]
        BY <2>1, <3>4 DEF audiofs_log, Step
      <3>5. ASSUME NEW level \in Levels, audiofs_log_level_set(level)
            PROVE  go_log_mutex' = go_log_mutex /\ pc'[t] = pc[t]
        BY <3>5 DEF audiofs_log_level_set
      <3> QED BY <2>6, <3>1, <3>2, <3>3, <3>4, <3>5 DEF Next, Logging, Holding
    <2> QED BY <2>3, <2>4, <2>5, <2>6 DEF Logging
  <1> QED BY <1>1, IInvAlways, PTL DEF Spec
=============================================================================
