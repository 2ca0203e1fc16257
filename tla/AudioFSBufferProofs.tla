------------------------ MODULE AudioFSBufferProofs ------------------------
(***************************************************************************)
(* For any number of C threads and goroutines, any heap and any sizes:     *)
(* the lock is owned by the thread inside, the struct agrees with the heap *)
(* whenever nobody is inside, and a successful audiofs_buffer_realloc      *)
(* leaves exactly the size it was asked for.  Who has the lock comes to    *)
(* the unlock, but for a goroutine that waits for the mark of another.     *)
(*                                                                         *)
(* QuiescentHeap alone is not inductive: it says nothing while the lock is *)
(* held.  IInv adds what the heap is at each point of the critical section *)
(* (Resizing) and that a thread about to unlock has its length in place.   *)
(***************************************************************************)
EXTENDS AudioFSBuffer, TLAPS

\* The heap holds one block of l bytes at d, or nothing when d is NULL.
HeapIs(d, l) ==
  /\ \A b \in Blocks : blk[b] = (IF b = d THEN l ELSE 0)
  /\ d = NULL <=> l = 0

\* Points at which the struct and the heap disagree.
Midway == {"setlen", "setdata", "clearlen"}

Resizing(t) ==
  /\ pc[t] \in {"setlen", "setdata"} => HeapIs(newPtr[t], req[t]) /\ req[t] # 0
  /\ pc[t] = "setdata" => len = req[t]
  /\ pc[t] = "clearlen" => data = NULL /\ req[t] = 0 /\ \A b \in Blocks : blk[b] = 0
  /\ pc[t] = "unlock" => len = req[t]

IInv ==
  /\ TypeOK
  /\ LockOwned
  /\ ~allocated => len = 0 /\ data = NULL /\ \A t \in Threads : pc[t] = "idle"
  /\ (\A t \in CThreads : pc[t] \notin Midway) => HeapIs(data, len)
  /\ \A t \in CThreads : Resizing(t)

-----------------------------------------------------------------------------
(* Type correctness *)

LEMMA TypeInit == Init => TypeOK
  <1> SUFFICES ASSUME Init PROVE TypeOK
    OBVIOUS
  <1>1. /\ allocated \in BOOLEAN
        /\ len \in Nat
        /\ data \in Address
        /\ lock \in Threads \cup {NoOne}
        /\ outside \in GoThreads \cup {NoOne}
        /\ smashed \in BOOLEAN /\ aborted \in BOOLEAN
    BY DEF Init, Address
  <1>2. /\ pc \in [Threads -> CPoints \cup GoPoints]
        /\ \A t \in CThreads : pc[t] \in CPoints
        /\ \A t \in GoThreads : pc[t] \in GoPoints
    BY DEF Init, CPoints, GoPoints, Threads
  <1>3. /\ blk \in [Blocks -> Nat]
        /\ req \in [CThreads -> Nat]
        /\ newPtr \in [CThreads -> Address]
    BY DEF Init, Address
  <1>4. slice \in [GoThreads -> [data : Address, len : Nat]]
    BY DEF Init, Address
  <1> QED
    BY <1>1, <1>2, <1>3, <1>4 DEF TypeOK

LEMMA TypeStep == TypeOK /\ [Next]_vars => TypeOK'
  <1> SUFFICES ASSUME TypeOK, [Next]_vars PROVE TypeOK'
    OBVIOUS
  <1> USE ThreadAssumption, MemoryAssumption
      DEF TypeOK, Address, CPoints, GoPoints, Threads, Step, Free,
          bufVars, memVars
  <1>1. ASSUME NEW size \in AllocSizes, Alloc(size) PROVE TypeOK'
    BY <1>1 DEF Alloc
  <1>2. ASSUME NEW t \in CThreads, NEW size \in Requests, ReallocCall(t, size)
        PROVE TypeOK'
    BY <1>2 DEF ReallocCall
  <1>3. ASSUME NEW t \in CThreads, ReallocLock(t) PROVE TypeOK'
    BY <1>3 DEF ReallocLock
  <1>4. ASSUME NEW t \in CThreads, ReallocZero(t) PROVE TypeOK'
    BY <1>4 DEF ReallocZero
  <1>5. ASSUME NEW t \in CThreads, ReallocClearLen(t) PROVE TypeOK'
    BY <1>5 DEF ReallocClearLen
  <1>6. ASSUME NEW t \in CThreads, ReallocSame(t) PROVE TypeOK'
    BY <1>6 DEF ReallocSame
  <1>7. ASSUME NEW t \in CThreads, ReallocMove(t) PROVE TypeOK'
    BY <1>7 DEF ReallocMove
  <1>8. ASSUME NEW t \in CThreads, ReallocFail(t) PROVE TypeOK'
    BY <1>8 DEF ReallocFail
  <1>9. ASSUME NEW t \in CThreads, ReallocSetLen(t) PROVE TypeOK'
    BY <1>9 DEF ReallocSetLen
  <1>10. ASSUME NEW t \in CThreads, ReallocSetData(t) PROVE TypeOK'
    BY <1>10 DEF ReallocSetData
  <1>11. ASSUME NEW t \in CThreads, ReallocUnlock(t) PROVE TypeOK'
    BY <1>11 DEF ReallocUnlock
  <1>12. ASSUME NEW t \in GoThreads, GoCall(t) PROVE TypeOK'
    BY <1>12 DEF GoCall
  <1>13. ASSUME NEW t \in GoThreads, GoLock(t) PROVE TypeOK'
    BY <1>13 DEF GoLock
  <1>14. ASSUME NEW t \in GoThreads, GoMark(t) PROVE TypeOK'
    BY <1>14 DEF GoMark
  <1>15. ASSUME NEW t \in GoThreads, GoReadData(t) PROVE TypeOK'
    BY <1>15 DEF GoReadData
  <1>16. ASSUME NEW t \in GoThreads, GoReadLen(t) PROVE TypeOK'
    BY <1>16 DEF GoReadLen
  <1>17. CASE Abort
    BY <1>17 DEF Abort
  <1>18. CASE UNCHANGED vars
    BY <1>18 DEF vars
  <1> QED
    BY <1>1, <1>2, <1>3, <1>4, <1>5, <1>6, <1>7, <1>8, <1>9, <1>10,
       <1>11, <1>12, <1>13, <1>14, <1>15, <1>16, <1>17, <1>18
    DEF Next, Realloc, Acquire

\* The type of every reachable state: no call leaves the struct, the heap or a
\* thread's registers outside the sets that the code's types give them.
THEOREM TypeCorrect == Spec => []TypeOK
  BY TypeInit, TypeStep, PTL DEF Spec

-----------------------------------------------------------------------------
(* The inductive invariant *)

LEMMA IInvInit == Init => IInv
  <1> SUFFICES ASSUME Init PROVE IInv
    OBVIOUS
  <1>1. TypeOK
    BY TypeInit
  <1>2. LockOwned
    BY DEF Init, LockOwned, Critical
  <1>3. HeapIs(data, len)
    BY MemoryAssumption DEF Init, HeapIs
  <1>4. \A t \in CThreads : Resizing(t)
    BY DEF Init, Resizing, Threads
  <1>5. ~allocated => len = 0 /\ data = NULL /\ \A t \in Threads : pc[t] = "idle"
    BY DEF Init
  <1> QED
    BY <1>1, <1>2, <1>3, <1>4, <1>5 DEF IInv

\* While t is between lock and unlock no other thread is.
LEMMA Alone ==
  ASSUME TypeOK, LockOwned, NEW t \in Threads, pc[t] \in Critical
  PROVE  /\ lock = t
         /\ \A u \in Threads : u # t => pc[u] \notin Critical
  BY DEF LockOwned

LEMMA LockStep == TypeOK /\ LockOwned /\ [Next]_vars => LockOwned'
  <1> SUFFICES ASSUME TypeOK, LockOwned, [Next]_vars PROVE LockOwned'
    OBVIOUS
  <1> USE ThreadAssumption
      DEF TypeOK, LockOwned, Critical, Threads, CPoints, GoPoints, Step, bufVars, memVars
  <1>1. ASSUME NEW size \in AllocSizes, Alloc(size) PROVE LockOwned'
    BY <1>1 DEF Alloc
  <1>2. ASSUME NEW t \in CThreads, NEW size \in Requests, ReallocCall(t, size)
        PROVE LockOwned'
    BY <1>2 DEF ReallocCall
  <1>3. ASSUME NEW t \in CThreads, ReallocLock(t) PROVE LockOwned'
    BY <1>3 DEF ReallocLock
  <1>4. ASSUME NEW t \in CThreads, ReallocZero(t) PROVE LockOwned'
    BY <1>4 DEF ReallocZero
  <1>5. ASSUME NEW t \in CThreads, ReallocClearLen(t) PROVE LockOwned'
    BY <1>5 DEF ReallocClearLen
  <1>6. ASSUME NEW t \in CThreads, ReallocSame(t) PROVE LockOwned'
    BY <1>6 DEF ReallocSame
  <1>7. ASSUME NEW t \in CThreads, ReallocMove(t) PROVE LockOwned'
    BY <1>7 DEF ReallocMove
  <1>8. ASSUME NEW t \in CThreads, ReallocFail(t) PROVE LockOwned'
    BY <1>8 DEF ReallocFail
  <1>9. ASSUME NEW t \in CThreads, ReallocSetLen(t) PROVE LockOwned'
    BY <1>9 DEF ReallocSetLen
  <1>10. ASSUME NEW t \in CThreads, ReallocSetData(t) PROVE LockOwned'
    BY <1>10 DEF ReallocSetData
  <1>11. ASSUME NEW t \in CThreads, ReallocUnlock(t) PROVE LockOwned'
    BY <1>11 DEF ReallocUnlock
  <1>12. ASSUME NEW t \in GoThreads, GoCall(t) PROVE LockOwned'
    BY <1>12 DEF GoCall
  <1>13. ASSUME NEW t \in GoThreads, GoLock(t) PROVE LockOwned'
    BY <1>13 DEF GoLock
  <1>14. ASSUME NEW t \in GoThreads, GoMark(t) PROVE LockOwned'
    BY <1>14 DEF GoMark
  <1>15. ASSUME NEW t \in GoThreads, GoReadData(t) PROVE LockOwned'
    BY <1>15 DEF GoReadData
  <1>16. ASSUME NEW t \in GoThreads, GoReadLen(t) PROVE LockOwned'
    BY <1>16 DEF GoReadLen
  <1>17. CASE Abort
    BY <1>17 DEF Abort
  <1>18. CASE UNCHANGED vars
    BY <1>18 DEF vars
  <1> QED
    BY <1>1, <1>2, <1>3, <1>4, <1>5, <1>6, <1>7, <1>8, <1>9, <1>10,
       <1>11, <1>12, <1>13, <1>14, <1>15, <1>16, <1>17, <1>18
    DEF Next, Realloc, Acquire

\* A step of a thread inside the critical section moves that thread alone, so
\* what Resizing says of the others, who are outside, holds for nothing.
LEMMA OthersOutside ==
  ASSUME TypeOK, LockOwned, NEW t \in CThreads, pc[t] \in Critical,
         NEW to \in CPoints, pc' = [pc EXCEPT ![t] = to]
  PROVE  \A u \in CThreads : u # t => pc'[u] \notin Critical
  <1>1. t \in Threads
    BY DEF Threads
  <1>2. \A u \in Threads : u # t => pc[u] \notin Critical
    BY <1>1, Alone
  <1> QED
    BY <1>2 DEF TypeOK, Threads

\* Such a step keeps IInv when it leaves the heap right for the struct, or for
\* the struct to be, and t at a point that Resizing describes.
LEMMA IInvInside ==
  ASSUME IInv, [Next]_vars, NEW t \in CThreads, pc[t] \in Critical,
         NEW to \in CPoints, pc' = [pc EXCEPT ![t] = to],
         allocated' = allocated,
         to \notin Midway => HeapIs(data, len)',
         Resizing(t)'
  PROVE  IInv'
  <1>1. TypeOK' /\ LockOwned'
    BY TypeStep, LockStep DEF IInv
  <1>2. \A u \in CThreads : u # t => pc'[u] \notin Critical
    BY OthersOutside DEF IInv
  <1>3. pc'[t] = to
    BY DEF IInv, TypeOK, Threads
  <1>4. \A u \in CThreads : Resizing(u)'
    BY <1>2 DEF Resizing, Critical
  <1>5. (\A u \in CThreads : pc[u] \notin Midway)' => HeapIs(data, len)'
    BY <1>3
  <1>6. allocated
    BY DEF IInv, Critical, Threads
  <1> QED
    BY <1>1, <1>4, <1>5, <1>6 DEF IInv

LEMMA IInvStep == IInv /\ [Next]_vars => IInv'
  <1> SUFFICES ASSUME IInv, [Next]_vars PROVE IInv'
    OBVIOUS
  <1>typ. TypeOK' /\ LockOwned'
    BY TypeStep, LockStep DEF IInv
  \* Before a thread inside moves, the heap is right unless it is midway.
  <1>heap. ASSUME NEW t \in CThreads, pc[t] \in Critical, pc[t] \notin Midway
           PROVE  HeapIs(data, len)
    <2>1. \A u \in CThreads : pc[u] \notin Midway
      BY <1>heap, Alone DEF IInv, Threads, Critical, Midway
    <2> QED
      BY <2>1 DEF IInv
  <1>1. ASSUME NEW size \in AllocSizes, Alloc(size) PROVE IInv'
    <2>1. HeapIs(data, len)
      BY <1>1 DEF Alloc, IInv, Midway, Threads
    <2>2. HeapIs(data, len)'
      BY <1>1, <2>1, MemoryAssumption DEF Alloc, HeapIs, IInv, TypeOK
    <2>3. \A t \in CThreads : Resizing(t)'
      BY <1>1 DEF Alloc, IInv, Resizing, Threads
    <2> QED
      BY <1>1, <1>typ, <2>2, <2>3 DEF IInv, Alloc
  <1>2. ASSUME NEW t \in CThreads, NEW size \in Requests, ReallocCall(t, size)
        PROVE IInv'
    BY <1>2, <1>typ
    DEF ReallocCall, Step, IInv, TypeOK, Resizing, HeapIs, Midway, bufVars, memVars
  <1>3. ASSUME NEW t \in CThreads, ReallocLock(t) PROVE IInv'
    BY <1>3, <1>typ
    DEF ReallocLock, Step, IInv, TypeOK, Resizing, HeapIs, Midway, Threads,
        bufVars, memVars
  <1>4. ASSUME NEW t \in CThreads, ReallocZero(t) PROVE IInv'
    <2>1. /\ pc[t] \in Critical
          /\ pc' = [pc EXCEPT ![t] = "clearlen"]
          /\ allocated' = allocated
      BY <1>4 DEF ReallocZero, Step, Critical, bufVars
    <2>2. pc'[t] = "clearlen"
      BY <2>1 DEF IInv, TypeOK, Threads
    <2>0. HeapIs(data, len)
      BY <1>4, <1>heap DEF ReallocZero, Step, Critical, Midway
    <2>3. "clearlen" \notin Midway => HeapIs(data, len)'
      BY DEF Midway
    <2>4. Resizing(t)'
      BY <1>4, <2>0, <2>2 DEF ReallocZero, HeapIs, Resizing
    <2> QED
      BY <2>1, <2>3, <2>4, IInvInside DEF CPoints, Midway
  <1>5. ASSUME NEW t \in CThreads, ReallocClearLen(t) PROVE IInv'
    <2>1. /\ pc[t] \in Critical
          /\ pc' = [pc EXCEPT ![t] = "unlock"]
          /\ allocated' = allocated
      BY <1>5 DEF ReallocClearLen, Step, Critical, bufVars
    <2>2. pc'[t] = "unlock"
      BY <2>1 DEF IInv, TypeOK, Threads
    <2>0. data = NULL /\ req[t] = 0 /\ \A b \in Blocks : blk[b] = 0
      BY <1>5 DEF ReallocClearLen, Step, IInv, Resizing
    <2>3. HeapIs(data, len)'
      BY <1>5, <2>0, MemoryAssumption DEF ReallocClearLen, HeapIs, memVars
    <2>4. Resizing(t)'
      BY <1>5, <2>0, <2>2 DEF ReallocClearLen, Resizing
    <2> QED
      BY <2>1, <2>3, <2>4, IInvInside DEF CPoints, Midway
  <1>6. ASSUME NEW t \in CThreads, ReallocSame(t) PROVE IInv'
    <2>1. /\ pc[t] \in Critical
          /\ pc' = [pc EXCEPT ![t] = "unlock"]
          /\ allocated' = allocated
      BY <1>6 DEF ReallocSame, Step, Critical, bufVars
    <2>2. pc'[t] = "unlock"
      BY <2>1 DEF IInv, TypeOK, Threads
    <2>0. HeapIs(data, len)
      BY <1>6, <1>heap DEF ReallocSame, Step, Critical, Midway
    <2>3. HeapIs(data, len)'
      BY <1>6, <2>0 DEF ReallocSame, HeapIs, bufVars, memVars
    <2>4. Resizing(t)'
      BY <1>6, <2>2 DEF ReallocSame, Resizing, bufVars
    <2> QED
      BY <2>1, <2>3, <2>4, IInvInside DEF CPoints, Midway
  <1>7. ASSUME NEW t \in CThreads, ReallocMove(t) PROVE IInv'
    <2>1. /\ pc[t] \in Critical
          /\ pc' = [pc EXCEPT ![t] = "setlen"]
          /\ allocated' = allocated
      BY <1>7 DEF ReallocMove, Step, Critical, bufVars
    <2>2. pc'[t] = "setlen"
      BY <2>1 DEF IInv, TypeOK, Threads
    <2>0. HeapIs(data, len)
      BY <1>7, <1>heap DEF ReallocMove, Step, Critical, Midway
    <2>3. "setlen" \notin Midway => HeapIs(data, len)'
      BY DEF Midway
    <2>4. Resizing(t)'
      BY <1>7, <2>0, <2>2, MemoryAssumption
      DEF ReallocMove, HeapIs, Resizing, IInv, TypeOK
    <2> QED
      BY <2>1, <2>3, <2>4, IInvInside DEF CPoints, Midway
  <1>8. ASSUME NEW t \in CThreads, ReallocFail(t) PROVE IInv'
    <2>1. /\ pc[t] \in Critical
          /\ pc' = [pc EXCEPT ![t] = "idle"]
          /\ allocated' = allocated
      BY <1>8 DEF ReallocFail, Step, Critical, bufVars
    <2>2. pc'[t] = "idle"
      BY <2>1 DEF IInv, TypeOK, Threads
    <2>0. HeapIs(data, len)
      BY <1>8, <1>heap DEF ReallocFail, Step, Critical, Midway
    <2>3. HeapIs(data, len)'
      BY <1>8, <2>0 DEF ReallocFail, HeapIs, bufVars, memVars
    <2>4. Resizing(t)'
      BY <2>2 DEF Resizing
    <2> QED
      BY <2>1, <2>3, <2>4, IInvInside DEF CPoints, Midway
  <1>9. ASSUME NEW t \in CThreads, ReallocSetLen(t) PROVE IInv'
    <2>1. /\ pc[t] \in Critical
          /\ pc' = [pc EXCEPT ![t] = "setdata"]
          /\ allocated' = allocated
      BY <1>9 DEF ReallocSetLen, Step, Critical, bufVars
    <2>2. pc'[t] = "setdata"
      BY <2>1 DEF IInv, TypeOK, Threads
    <2>3. "setdata" \notin Midway => HeapIs(data, len)'
      BY DEF Midway
    <2>4. Resizing(t)'
      BY <1>9, <2>2 DEF ReallocSetLen, Step, HeapIs, Resizing, IInv, memVars
    <2> QED
      BY <2>1, <2>3, <2>4, IInvInside DEF CPoints, Midway
  <1>10. ASSUME NEW t \in CThreads, ReallocSetData(t) PROVE IInv'
    <2>1. /\ pc[t] \in Critical
          /\ pc' = [pc EXCEPT ![t] = "unlock"]
          /\ allocated' = allocated
      BY <1>10 DEF ReallocSetData, Step, Critical, bufVars
    <2>2. pc'[t] = "unlock"
      BY <2>1 DEF IInv, TypeOK, Threads
    <2>3. HeapIs(data, len)'
      BY <1>10 DEF ReallocSetData, Step, HeapIs, Resizing, IInv, memVars
    <2>4. Resizing(t)'
      BY <1>10, <2>2 DEF ReallocSetData, Step, Resizing, IInv
    <2> QED
      BY <2>1, <2>3, <2>4, IInvInside DEF CPoints, Midway
  <1>11. ASSUME NEW t \in CThreads, ReallocUnlock(t) PROVE IInv'
    <2>1. /\ pc[t] \in Critical
          /\ pc' = [pc EXCEPT ![t] = "idle"]
          /\ allocated' = allocated
      BY <1>11 DEF ReallocUnlock, Step, Critical, bufVars
    <2>2. pc'[t] = "idle"
      BY <2>1 DEF IInv, TypeOK, Threads
    <2>0. HeapIs(data, len)
      BY <1>11, <1>heap DEF ReallocUnlock, Step, Critical, Midway
    <2>3. HeapIs(data, len)'
      BY <1>11, <2>0, MemoryAssumption DEF ReallocUnlock, HeapIs, IInv, TypeOK
    <2>4. Resizing(t)'
      BY <2>2 DEF Resizing
    <2> QED
      BY <2>1, <2>3, <2>4, IInvInside DEF CPoints, Midway
  <1>12. ASSUME NEW t \in GoThreads, GoCall(t) PROVE IInv'
    BY <1>12, <1>typ, ThreadAssumption
    DEF GoCall, Step, IInv, TypeOK, Resizing, HeapIs, Midway, Threads,
        bufVars, memVars
  <1>13. ASSUME NEW t \in GoThreads, GoLock(t) PROVE IInv'
    BY <1>13, <1>typ, ThreadAssumption
    DEF GoLock, Step, IInv, TypeOK, Resizing, HeapIs, Midway, Threads,
        bufVars, memVars
  <1>14. ASSUME NEW t \in GoThreads, GoMark(t) PROVE IInv'
    BY <1>14, <1>typ, ThreadAssumption
    DEF GoMark, Step, IInv, TypeOK, Resizing, HeapIs, Midway, Threads,
        bufVars, memVars
  <1>15. ASSUME NEW t \in GoThreads, GoReadData(t) PROVE IInv'
    BY <1>15, <1>typ, ThreadAssumption
    DEF GoReadData, Step, IInv, TypeOK, Resizing, HeapIs, Midway, Threads,
        bufVars, memVars
  <1>16. ASSUME NEW t \in GoThreads, GoReadLen(t) PROVE IInv'
    BY <1>16, <1>typ, ThreadAssumption
    DEF GoReadLen, Step, IInv, TypeOK, Resizing, HeapIs, Midway, Threads,
        bufVars, memVars
  <1>17. CASE Abort
    BY <1>17, <1>typ DEF Abort, IInv, Resizing, HeapIs, bufVars
  <1>18. CASE UNCHANGED vars
    BY <1>18, <1>typ DEF vars, IInv, Resizing, HeapIs, bufVars, memVars
  <1> QED
    BY <1>1, <1>2, <1>3, <1>4, <1>5, <1>6, <1>7, <1>8, <1>9, <1>10, <1>11, <1>12,
       <1>13, <1>14, <1>15, <1>16, <1>17, <1>18
    DEF Next, Realloc, Acquire

LEMMA Inductive == Spec => []IInv
  BY IInvInit, IInvStep, PTL DEF Spec

-----------------------------------------------------------------------------
(* What follows from it *)

\* However many threads lock, resize and mark the buffer, one at a time is
\* between pthread_mutex_lock and pthread_mutex_unlock of buffer->lock.
THEOREM MutualExclusion == Spec => []LockOwned
  <1>1. IInv => LockOwned
    BY DEF IInv
  <1> QED
    BY <1>1, Inductive, PTL

\* Whatever sequence of audiofs_buffer_realloc calls, failures of malloc
\* included, went before: with the lock free the heap holds the one block of
\* len bytes at data, and none when len is 0.
THEOREM HeapConsistent == Spec => []QuiescentHeap
  <1>1. ASSUME IInv, lock = NoOne PROVE \A t \in CThreads : pc[t] \notin Midway
    BY <1>1, ThreadAssumption DEF IInv, LockOwned, Critical, Midway, Threads
  <1>2. IInv => QuiescentHeap
    BY <1>1 DEF QuiescentHeap, IInv, HeapIs
  <1> QED
    BY <1>2, Inductive, PTL

\* A call that returns true leaves exactly the size it was asked for, and a
\* data pointer unless that size is 0 (util.h:88, 90).
THEOREM ReallocIsExact == Spec => ReallocExact
  <1> DEFINE Exact == \A t \in CThreads :
               pc[t] = "unlock" /\ pc'[t] = "idle"
                 => /\ len' = req[t]
                    /\ data' = NULL <=> req[t] = 0
  <1>1. IInv /\ IInv' /\ [Next]_vars => Exact \/ UNCHANGED vars
    <2> SUFFICES ASSUME IInv, IInv', Next,
                        NEW t \in CThreads, pc[t] = "unlock", pc'[t] = "idle"
                 PROVE  len' = req[t] /\ (data' = NULL <=> req[t] = 0)
      BY DEF Exact
    <2>0. ASSUME NEW u \in Threads, NEW from, NEW to, Step(u, from, to)
          PROVE  u = t /\ from = "unlock"
      BY <2>0 DEF Step, IInv, TypeOK, Threads
    <2>1. ReallocUnlock(t)
      <3>1. ASSUME NEW size \in AllocSizes, Alloc(size) PROVE FALSE
        BY <3>1 DEF Alloc
      <3>2. ASSUME NEW u \in CThreads, NEW size \in Requests, ReallocCall(u, size)
            PROVE FALSE
        BY <3>2, <2>0 DEF ReallocCall, Threads
      <3>3. ASSUME NEW u \in CThreads, Realloc(u), ~ReallocUnlock(u) PROVE FALSE
        BY <3>3, <2>0
        DEF Realloc, ReallocLock, ReallocZero, ReallocClearLen, ReallocSame,
            ReallocMove, ReallocFail, ReallocSetLen, ReallocSetData, Threads
      <3>4. ASSUME NEW u \in CThreads, ReallocUnlock(u) PROVE u = t
        BY <3>4, <2>0 DEF ReallocUnlock, Threads
      <3>5. ASSUME NEW u \in GoThreads, GoCall(u) \/ Acquire(u) PROVE FALSE
        BY <3>5, <2>0
        DEF Acquire, GoCall, GoLock, GoMark, GoReadData, GoReadLen, Threads
      <3>6. CASE Abort
        BY <3>6 DEF Abort
      <3> QED
        BY <3>1, <3>2, <3>3, <3>4, <3>5, <3>6 DEF Next
    <2>2. len' = req[t]
      BY <2>1 DEF ReallocUnlock, IInv, Resizing
    <2>3. \A u \in CThreads : pc'[u] \notin Midway
      <3>1. lock' = NoOne
        BY <2>1 DEF ReallocUnlock
      <3> QED
        BY <3>1, ThreadAssumption DEF IInv, LockOwned, Critical, Midway, Threads
    <2>4. HeapIs(data, len)'
      BY <2>3 DEF IInv
    <2> QED
      BY <2>2, <2>4 DEF HeapIs
  <1> QED
    BY <1>1, Inductive, PTL DEF Spec, ReallocExact

-----------------------------------------------------------------------------
(* The wedge *)

\* A goroutine waits for used_outside_audiofs, which is taken, and has the lock.
Wedged ==
  \E g \in GoThreads : pc[g] = "gomark" /\ lock = g /\ outside # NoOne

\* Who could clear the mark needs the lock for it, and who could give back the lock
\* needs the mark.
LEMMA WedgeStep ==
  ASSUME IInv, [Next]_vars, NEW g \in GoThreads,
         pc[g] = "gomark", lock = g, outside # NoOne
  PROVE  /\ pc'[g] = "gomark" /\ lock' = g /\ outside' # NoOne
         /\ \A t \in CThreads : pc[t] = "lock" => pc'[t] = "lock"
  <1>1. CASE UNCHANGED vars \/ Abort \/ \E size \in AllocSizes : Alloc(size)
    BY <1>1 DEF vars, Abort, Alloc
  <1>2. g \in Threads /\ g # NoOne /\ \A u \in Threads \ {g} : pc[u] \notin Critical
    BY ThreadAssumption, Alone DEF IInv, Critical, Threads
  <1>3. ASSUME NEW u \in Threads, NEW from, NEW to, Step(u, from, to),
               from \notin Critical \cup {"lock"}, UNCHANGED <<lock, outside>>
        PROVE  /\ pc'[g] = "gomark" /\ lock' = g /\ outside' # NoOne
               /\ \A t \in CThreads : pc[t] = "lock" => pc'[t] = "lock"
    BY <1>3, <1>2 DEF Step, IInv, TypeOK, Threads, Critical
  <1>4. CASE \E t \in CThreads, size \in Requests : ReallocCall(t, size)
    BY <1>4, <1>3 DEF ReallocCall, Threads, Critical
  <1>5. \A t \in CThreads : ~Realloc(t)
    <2> SUFFICES ASSUME NEW t \in CThreads, Realloc(t) PROVE FALSE
      OBVIOUS
    <2>1. t # g /\ pc[t] \notin Critical
      BY <1>2, ThreadAssumption DEF Threads
    <2>2. ~ReallocLock(t)
      BY <1>2 DEF ReallocLock
    <2> QED
      BY <2>1, <2>2
      DEF Realloc, ReallocZero, ReallocClearLen, ReallocSame, ReallocMove, ReallocFail,
          ReallocSetLen, ReallocSetData, ReallocUnlock, Step, Critical
  <1>6. CASE \E u \in GoThreads : GoCall(u) \/ Acquire(u)
    <2>1. PICK u \in GoThreads : GoCall(u) \/ Acquire(u)
      BY <1>6
    <2>2. ~GoLock(u) /\ ~GoMark(u)
      BY <1>2 DEF GoLock, GoMark, Step, Critical, Threads
    <2>3. CASE GoCall(u)
      BY <2>3, <1>3 DEF GoCall, Threads, Critical
    <2>4. CASE GoReadData(u)
      BY <2>4, <1>3 DEF GoReadData, Threads, Critical
    <2>5. CASE GoReadLen(u)
      BY <2>5, <1>3 DEF GoReadLen, Threads, Critical
    <2> QED BY <2>1, <2>2, <2>3, <2>4, <2>5 DEF Acquire
  <1> QED BY <1>1, <1>4, <1>5, <1>6 DEF Next

\* Why audiofs_buffer_realloc need not return (util.h:96): once a goroutine waits for
\* the mark of another, a call that has not got the lock never gets it, whoever runs,
\* and however long.  No fairness helps.
THEOREM WedgeIsForever ==
  ASSUME NEW t \in CThreads
  PROVE  Spec => [](Wedged /\ pc[t] = "lock" => [](Wedged /\ pc[t] = "lock"))
  <1> DEFINE Waits == Wedged /\ pc[t] = "lock"
  <1>1. IInv /\ Waits /\ [Next]_vars => Waits'
    BY WedgeStep DEF Wedged
  <1> QED BY <1>1, Inductive, PTL DEF Spec

-----------------------------------------------------------------------------
(* The release of the lock *)

\* Who has the lock is inside; LockOwned says that who is inside has it.
OwnerInside == lock # NoOne => lock \in Threads /\ pc[lock] \in Critical

\* A step of a thread that leaves the lock alone leaves its owner inside.
LEMMA MoveInside ==
  ASSUME TypeOK, OwnerInside, NEW t \in Threads, NEW from, NEW to, Step(t, from, to),
         lock' = lock, to \in Critical \/ from \notin Critical
  PROVE  OwnerInside'
  BY DEF TypeOK, OwnerInside, Step

LEMMA OwnerInsideStep == TypeOK /\ OwnerInside /\ [Next]_vars => OwnerInside'
  <1> SUFFICES ASSUME TypeOK, OwnerInside, [Next]_vars PROVE OwnerInside'
    OBVIOUS
  <1>1. CASE UNCHANGED vars \/ Abort \/ \E size \in AllocSizes : Alloc(size)
    BY <1>1 DEF vars, Abort, Alloc, OwnerInside
  <1>2. CASE \E t \in CThreads, size \in Requests : ReallocCall(t, size)
    BY <1>2, MoveInside DEF ReallocCall, Threads, Critical
  <1>3. CASE \E t \in CThreads : Realloc(t)
    <2>1. PICK t \in CThreads : Realloc(t)
      BY <1>3
    <2>2. CASE ReallocLock(t)
      BY <2>2 DEF ReallocLock, Step, OwnerInside, TypeOK, Threads, Critical
    <2>3. CASE ReallocFail(t) \/ ReallocUnlock(t)
      BY <2>3 DEF ReallocFail, ReallocUnlock, OwnerInside
    <2>4. CASE \/ ReallocZero(t) \/ ReallocClearLen(t) \/ ReallocSame(t) \/ ReallocMove(t)
               \/ ReallocSetLen(t) \/ ReallocSetData(t)
      <3>1. t \in Threads /\ lock' = lock
            /\ \E from, to \in Critical : Step(t, from, to)
        BY <2>4 DEF ReallocZero, ReallocClearLen, ReallocSame, ReallocMove, ReallocSetLen,
                    ReallocSetData, Threads, Critical
      <3> QED BY <3>1, MoveInside
    <2> QED BY <2>1, <2>2, <2>3, <2>4 DEF Realloc
  <1>4. CASE \E t \in GoThreads : GoCall(t) \/ Acquire(t)
    <2>1. PICK t \in GoThreads : GoCall(t) \/ Acquire(t)
      BY <1>4
    <2>2. CASE GoLock(t)
      BY <2>2 DEF GoLock, Step, OwnerInside, TypeOK, Threads, Critical
    <2>3. CASE GoMark(t)
      BY <2>3 DEF GoMark, OwnerInside
    <2>4. CASE GoCall(t) \/ GoReadData(t) \/ GoReadLen(t)
      BY <2>4, MoveInside DEF GoCall, GoReadData, GoReadLen, Threads, Critical
    <2> QED BY <2>1, <2>2, <2>3, <2>4 DEF Acquire
  <1> QED BY <1>1, <1>2, <1>3, <1>4 DEF Next

\* Steps that a thread inside has before it at most.
Distance(t) ==
  CASE pc[t] = "resize" -> 4
    [] pc[t] = "setlen" -> 3
    [] pc[t] \in {"setdata", "clearlen"} -> 2
    [] pc[t] \in {"unlock", "gomark"} -> 1
    [] OTHER -> 0

Moves(t) == (t \in CThreads /\ Realloc(t)) \/ (t \in GoThreads /\ Acquire(t))

\* The half of LockReleased that needs no fairness: each step of the thread that has
\* the lock gives it back or brings the thread nearer to where it does, on the early
\* return of a failed realloc too, and nobody else takes the lock from it or moves it.
\* That there is such a step is fairness's half, and where the wedge is.
THEOREM ReleaseComesNearer ==
  Spec => [][\A t \in Threads : lock = t =>
               /\ Moves(t) => lock' # t \/ Distance(t)' < Distance(t)
               /\ ~Moves(t) => lock' = t /\ pc'[t] = pc[t]]_vars
  <1> DEFINE Nearer == \A t \in Threads : lock = t =>
                         /\ Moves(t) => lock' # t \/ Distance(t)' < Distance(t)
                         /\ ~Moves(t) => lock' = t /\ pc'[t] = pc[t]
  <1>1. ASSUME IInv, OwnerInside, [Next]_vars PROVE [Nearer]_vars
    <2> SUFFICES ASSUME Next, NEW t \in Threads, lock = t
                 PROVE  /\ Moves(t) => lock' # t \/ Distance(t)' < Distance(t)
                        /\ ~Moves(t) => lock' = t /\ pc'[t] = pc[t]
      BY <1>1
    <2>1. /\ pc[t] \in Critical /\ t # NoOne /\ TypeOK
          /\ \A u \in Threads \ {t} : pc[u] \notin Critical
      BY <1>1, ThreadAssumption, Alone DEF IInv, OwnerInside
    <2>2. ASSUME NEW u \in Threads, NEW from, NEW to, Step(u, from, to)
          PROVE  pc[u] = from /\ pc'[u] = to /\ (u # t => pc'[t] = pc[t])
      BY <2>1, <2>2 DEF Step, TypeOK
    <2>3. ASSUME NEW u \in CThreads, Realloc(u)
          PROVE  u = t /\ (lock' # t \/ Distance(t)' < Distance(t))
      <3>1. u \in Threads /\ ~ReallocLock(u)
        BY <2>1 DEF ReallocLock, Threads
      <3>2. pc[u] \in Critical
        BY <2>3, <3>1 DEF Realloc, ReallocZero, ReallocClearLen, ReallocSame, ReallocMove,
                          ReallocFail, ReallocSetLen, ReallocSetData, ReallocUnlock, Step, Critical
      <3>3. u = t
        BY <2>1, <3>1, <3>2
      <3>4. \/ lock' = NoOne
            \/ pc[t] = "resize" /\ pc'[t] \in {"clearlen", "unlock", "setlen"}
            \/ pc[t] = "setlen" /\ pc'[t] = "setdata"
            \/ pc[t] \in {"setdata", "clearlen"} /\ pc'[t] = "unlock"
        BY <2>2, <2>3, <3>1, <3>3
        DEF Realloc, ReallocZero, ReallocClearLen, ReallocSame, ReallocMove, ReallocFail,
            ReallocSetLen, ReallocSetData, ReallocUnlock
      <3>5. lock' # t \/ Distance(t)' < Distance(t)
        BY <2>1, <3>4 DEF Distance
      <3> QED BY <3>3, <3>5
    <2>4. ASSUME NEW u \in GoThreads, GoCall(u) \/ Acquire(u)
          PROVE  \/ u = t /\ Acquire(u) /\ lock' # t
                 \/ u # t /\ lock' = t /\ pc'[t] = pc[t]
      <3>1. u \in Threads /\ ~GoLock(u)
        BY <2>1 DEF GoLock, Threads
      <3>2. CASE GoMark(u)
        <4>1. u = t
          BY <2>1, <3>1, <3>2 DEF GoMark, Step, Critical
        <4> QED BY <2>1, <3>2, <4>1 DEF GoMark, Acquire
      <3>3. CASE GoCall(u) \/ GoReadData(u) \/ GoReadLen(u)
        <4>1. lock' = lock /\ pc[u] \notin Critical
          BY <3>3 DEF GoCall, GoReadData, GoReadLen, Step, Critical
        <4>2. u # t
          BY <2>1, <4>1
        <4>3. pc'[t] = pc[t]
          BY <2>2, <3>1, <3>3, <4>2 DEF GoCall, GoReadData, GoReadLen
        <4> QED BY <4>1, <4>2, <4>3
      <3> QED BY <2>4, <3>1, <3>2, <3>3 DEF Acquire
    <2>5. ASSUME NEW u \in CThreads, NEW size \in Requests, ReallocCall(u, size)
          PROVE  u # t /\ lock' = t /\ pc'[t] = pc[t]
      <3>1. u # t
        BY <2>1, <2>5 DEF ReallocCall, Step, Critical
      <3> QED BY <2>2, <2>5, <3>1 DEF ReallocCall, Threads
    <2>6. ASSUME Abort \/ \E size \in AllocSizes : Alloc(size)
          PROVE  lock' = t /\ pc'[t] = pc[t] /\ ~Moves(t)
      <3>1. UNCHANGED <<lock, pc>>
        BY <2>6 DEF Abort, Alloc
      <3>2. ~Moves(t)
        BY <2>3, <2>4, <3>1 DEF Moves, Distance
      <3> QED BY <3>1, <3>2
    <2>7. t \in CThreads => t \notin GoThreads
      BY ThreadAssumption
    <2> QED BY <2>3, <2>4, <2>5, <2>6, <2>7 DEF Next, Moves
  <1>2. Init => OwnerInside
    BY DEF Init, OwnerInside
  <1>3. IInv => TypeOK
    BY DEF IInv
  <1> QED BY <1>1, <1>2, <1>3, OwnerInsideStep, Inductive, PTL DEF Spec
=============================================================================
