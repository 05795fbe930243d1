------------------------- MODULE FrameBuffer_proofs -------------------------
(***************************************************************************)
(* Proofs about FrameBuffer for every pool size and any finite sets of     *)
(* producer and consumer threads: its frames and threads, its wakeups, and *)
(* that it implements FrameChannel.                                        *)
(***************************************************************************)
EXTENDS FrameBuffer, FiniteSetTheorems, SequenceTheorems, TLAPS

(***************************************************************************)
(* The inductive invariant.  BookOK ties the program counters, the frame   *)
(* pointers and the mutex together and keeps the ring's indices            *)
(* consistent; ExclusiveOK is FramesInOnePlace element by element; ScanOK  *)
(* says what borrow() knows of the pool while it scans.                    *)
(***************************************************************************)
BookOK ==
    /\ \A p \in Producers : frame[p] \in Slots <=> pc[p] \in {"filling", "full"}
    /\ \A c \in Consumers : frame[c] \in Slots <=> pc[c] = "reading"
    /\ \A p \in Producers : pc[p] = "scanning" <=> owner = p
    /\ owner = NoThread => probes = 0 /\ freeAtLock = {}
    /\ queueHead = IF queueTail + queueSize < Size
                   THEN queueTail + queueSize
                   ELSE queueTail + queueSize - Size
    /\ \A s \in Slots : Live(s) => queue[s] \in Slots

ExclusiveOK ==
    /\ \A t, u \in Threads : t # u /\ frame[t] # Nullptr => frame[t] # frame[u]
    /\ \A r, s \in Slots : Live(r) /\ Live(s) /\ r # s => queue[r] # queue[s]
    /\ \A t \in Threads, s \in Slots : Live(s) => frame[t] # queue[s]
    /\ \A t \in Threads : frame[t] \notin lent
    /\ \A s \in Slots : Live(s) => queue[s] \notin lent
    /\ \A f \in Slots : busy[f] <=> \/ \E t \in Threads : frame[t] = f
                                    \/ \E s \in Slots : Live(s) /\ queue[s] = f
                                    \/ f \in lent

\* The slots borrow() has probed so far lie just behind m_poolHead.
Probed(f) == \/ f \in poolHead - probes .. poolHead - 1
             \/ f - Size \in poolHead - probes .. poolHead - 1

ScanOK == \A f \in freeAtLock : ~busy[f] /\ ~Probed(f)

IInv == TypeOK /\ BookOK /\ ExclusiveOK /\ ScanOK /\ QueueNeverFull

-----------------------------------------------------------------------------
\* m_queueHead and m_poolHead stay indices, and wrap as modulo m_size does.
LEMMA SuccSlot ==
  ASSUME NEW s \in Slots
  PROVE  /\ Succ(s) \in Slots
         /\ Succ(s) = IF s = Size - 1 THEN 0 ELSE s + 1
  BY SizeAssumption DEF Succ, Slots

\* A ring whose Size slots hold different frames holds all of them.
LEMMA FullRingHoldsAll ==
  ASSUME NEW q \in [Slots -> Slots],
         \A r, s \in Slots : r # s => q[r] # q[s],
         NEW f \in Slots
  PROVE  \E s \in Slots : q[s] = f
  <1>1. IsFiniteSet(Slots)
    BY FS_Interval, SizeAssumption DEF Slots
  <1>2. q \in Injection(Slots, Slots)
    BY DEF Injection, IsInjective
  <1>3. q \in Surjection(Slots, Slots)
    BY <1>1, <1>2, FS_Injection
  <1> QED BY <1>3 DEF Surjection

\* push() finds room: were the ring full, the pushed frame would be in it.
LEMMA RoomToPush ==
  ASSUME TypeOK, BookOK, ExclusiveOK,
         NEW p \in Producers, pc[p] = "filling"
  PROVE  queueSize # Size
  <1> SUFFICES ASSUME queueSize = Size PROVE FALSE
    OBVIOUS
  <1>1. \A s \in Slots : Live(s)
    BY SizeAssumption DEF TypeOK, Slots, Live
  <1>2. queue \in [Slots -> Slots]
    BY <1>1 DEF TypeOK, BookOK
  <1>3. frame[p] \in Slots
    BY DEF BookOK
  <1>4. PICK s \in Slots : queue[s] = frame[p]
    BY <1>1, <1>2, <1>3, FullRingHoldsAll DEF ExclusiveOK
  <1> QED BY <1>1, <1>4 DEF ExclusiveOK, Threads

-----------------------------------------------------------------------------
\* The constructor of FrameBuffer establishes the invariant.
LEMMA InitIInv == Init => IInv
  <1> SUFFICES ASSUME Init PROVE IInv
    OBVIOUS
  <1> USE SizeAssumption, ThreadsAssumption
  <1>1. TypeOK
    <2>1. pc \in [Threads -> ProducerStates \cup ConsumerStates]
      BY DEF Init, ProducerStates, ConsumerStates
    <2>2. /\ \A p \in Producers : pc[p] \in ProducerStates
          /\ \A c \in Consumers : pc[c] \in ConsumerStates
      BY DEF Init, ProducerStates, ConsumerStates, Threads
    <2>3. 0 \in Slots /\ 0 \in 0 .. Size
      BY DEF Slots
    <2> QED BY <2>1, <2>2, <2>3 DEF Init, TypeOK
  <1>2. BookOK
    BY DEF Init, BookOK, Slots, Live, Threads, Nullptr
  <1>3. ExclusiveOK
    BY DEF Init, ExclusiveOK, Slots, Live, Threads, Nullptr
  <1>4. ScanOK /\ QueueNeverFull
    BY DEF Init, ScanOK, QueueNeverFull, Threads
  <1> QED BY <1>1, <1>2, <1>3, <1>4 DEF IInv

\* Every critical section, every probe and every release preserves it.
LEMMA NextIInv == IInv /\ [Next]_vars => IInv'
  <1> SUFFICES ASSUME IInv, [Next]_vars PROVE IInv'
    OBVIOUS
  <1> USE SizeAssumption, ThreadsAssumption DEF IInv
  <1>1. ASSUME NEW p \in Producers, BorrowLock(p) PROVE IInv'
    <2> USE <1>1 DEF BorrowLock, Become, BorrowUnlock, AtPredicate, MutexFree, Threads, pool, ring, caller, scan
    <2>1. TypeOK'
      BY DEF TypeOK, BookOK, Slots, Succ, ProducerStates, ConsumerStates, Nullptr
    <2>2. BookOK'
      BY DEF TypeOK, BookOK, Slots, Succ, Live, ProducerStates, ConsumerStates, Nullptr
    <2>3. ExclusiveOK'
      BY DEF TypeOK, BookOK, ExclusiveOK, Slots, Succ, Live, ProducerStates, ConsumerStates, Nullptr
    <2>4. ScanOK'
      BY DEF TypeOK, BookOK, ScanOK, Slots, Succ, Probed
    <2>5. QueueNeverFull'
      BY DEF TypeOK, QueueNeverFull
    <2> QED BY <2>1, <2>2, <2>3, <2>4, <2>5
  <1>2. ASSUME NEW p \in Producers, ProbeFree(p) PROVE IInv'
    <2> USE <1>2 DEF ProbeFree, Become, BorrowUnlock, AtPredicate, MutexFree, Threads, pool, ring, caller, scan
    <2>1. TypeOK'
      BY DEF TypeOK, BookOK, Slots, Succ, ProducerStates, ConsumerStates, Nullptr
    <2>2. BookOK'
      BY DEF TypeOK, BookOK, Slots, Succ, Live, ProducerStates, ConsumerStates, Nullptr
    <2>3. ExclusiveOK'
      <3>1. \A t, u \in Threads : t # u /\ frame'[t] # Nullptr => frame'[t] # frame'[u]
        BY DEF TypeOK, BookOK, ExclusiveOK, Slots, Succ, Live, Nullptr
      <3>2. \A r, s \in Slots : Live(r)' /\ Live(s)' /\ r # s => queue'[r] # queue'[s]
        BY DEF TypeOK, BookOK, ExclusiveOK, Slots, Succ, Live, Nullptr
      <3>3. \A t \in Threads, s \in Slots : Live(s)' => frame'[t] # queue'[s]
        BY DEF TypeOK, BookOK, ExclusiveOK, Slots, Succ, Live, Nullptr
      <3>4. \A t \in Threads : frame'[t] \notin lent'
        BY DEF TypeOK, BookOK, ExclusiveOK, Slots, Succ, Live, Nullptr
      <3>5. \A s \in Slots : Live(s)' => queue'[s] \notin lent'
        BY DEF TypeOK, BookOK, ExclusiveOK, Slots, Succ, Live, Nullptr
      <3>6. ASSUME NEW f \in Slots
            PROVE  busy'[f] <=> \/ \E t \in Threads : frame'[t] = f
                                \/ \E s \in Slots : Live(s)' /\ queue'[s] = f
                                \/ f \in lent'
        <4>1. CASE f = poolHead
          BY <4>1 DEF TypeOK, BookOK, Slots, Nullptr
        <4>2. CASE f # poolHead
          <5>1. frame[p] = Nullptr
            BY DEF TypeOK, BookOK
          <5>2. (\E t \in Threads : frame'[t] = f) <=> (\E t \in Threads : frame[t] = f)
            BY <4>2, <5>1 DEF TypeOK, Slots, Nullptr
          <5> QED BY <4>2, <5>2 DEF TypeOK, ExclusiveOK, Live
        <4> QED BY <4>1, <4>2
      <3> QED BY <3>1, <3>2, <3>3, <3>4, <3>5, <3>6 DEF ExclusiveOK
    <2>4. ScanOK'
      BY DEF TypeOK, BookOK, ScanOK, Slots, Succ, Probed
    <2>5. QueueNeverFull'
      BY DEF TypeOK, QueueNeverFull
    <2> QED BY <2>1, <2>2, <2>3, <2>4, <2>5
  <1>3. ASSUME NEW p \in Producers, ProbeBusy(p) PROVE IInv'
    <2> USE <1>3 DEF ProbeBusy, Become, BorrowUnlock, AtPredicate, MutexFree, Threads, pool, ring, caller, scan
    <2>1. TypeOK'
      BY DEF TypeOK, BookOK, Slots, Succ, ProducerStates, ConsumerStates, Nullptr
    <2>2. BookOK'
      BY DEF TypeOK, BookOK, Slots, Succ, Live, ProducerStates, ConsumerStates, Nullptr
    <2>3. ExclusiveOK'
      BY DEF TypeOK, BookOK, ExclusiveOK, Slots, Succ, Live, ProducerStates, ConsumerStates, Nullptr
    <2>4. ScanOK'
      BY DEF TypeOK, BookOK, ScanOK, Slots, Succ, Probed
    <2>5. QueueNeverFull'
      BY DEF TypeOK, QueueNeverFull
    <2> QED BY <2>1, <2>2, <2>3, <2>4, <2>5
  <1>4. ASSUME NEW p \in Producers, BorrowThrows(p) PROVE IInv'
    <2> USE <1>4 DEF BorrowThrows, Become, BorrowUnlock, AtPredicate, MutexFree, Threads, pool, ring, caller, scan
    <2>1. TypeOK'
      BY DEF TypeOK, BookOK, Slots, Succ, ProducerStates, ConsumerStates, Nullptr
    <2>2. BookOK'
      BY DEF TypeOK, BookOK, Slots, Succ, Live, ProducerStates, ConsumerStates, Nullptr
    <2>3. ExclusiveOK'
      BY DEF TypeOK, BookOK, ExclusiveOK, Slots, Succ, Live, ProducerStates, ConsumerStates, Nullptr
    <2>4. ScanOK'
      BY DEF TypeOK, BookOK, ScanOK, Slots, Succ, Probed
    <2>5. QueueNeverFull'
      BY DEF TypeOK, QueueNeverFull
    <2> QED BY <2>1, <2>2, <2>3, <2>4, <2>5
  <1>5. ASSUME NEW p \in Producers, SkipInput(p) PROVE IInv'
    <2> USE <1>5 DEF SkipInput, Become, BorrowUnlock, AtPredicate, MutexFree, Threads, pool, ring, caller, scan
    <2>1. TypeOK'
      BY DEF TypeOK, BookOK, Slots, Succ, ProducerStates, ConsumerStates, Nullptr
    <2>2. BookOK'
      BY DEF TypeOK, BookOK, Slots, Succ, Live, ProducerStates, ConsumerStates, Nullptr
    <2>3. ExclusiveOK'
      BY DEF TypeOK, BookOK, ExclusiveOK, Slots, Succ, Live, ProducerStates, ConsumerStates, Nullptr
    <2>4. ScanOK'
      BY DEF TypeOK, BookOK, ScanOK, Slots, Succ, Probed
    <2>5. QueueNeverFull'
      BY DEF TypeOK, QueueNeverFull
    <2> QED BY <2>1, <2>2, <2>3, <2>4, <2>5
  <1>6. ASSUME NEW p \in Producers, Push(p) PROVE IInv'
    <2>1. queueSize # Size
      BY <1>6, RoomToPush DEF Push
    <2>2. /\ pc[p] = "filling" /\ MutexFree
          /\ queue' = [queue EXCEPT ![queueHead] = frame[p]]
          /\ queueHead' = Succ(queueHead) /\ queueSize' = queueSize + 1
          /\ pc' = [pc EXCEPT ![p] = "notify"]
          /\ frame' = [frame EXCEPT ![p] = Nullptr]
          /\ UNCHANGED <<busy, poolHead, queueTail, forceNotify, waiting, owner,
                        probes, freeAtLock, lent>>
      BY <1>6, <2>1 DEF Push, Become, pool, scan
    <2>3. /\ frame[p] \in Slots /\ p \in Threads
          /\ queueHead \in Slots /\ ~Live(queueHead)
          /\ queueSize < Size
      BY <2>1, <2>2 DEF TypeOK, BookOK, Threads, Live, Slots
    <2>4. \A s \in Slots : Live(s)' <=> Live(s) \/ s = queueHead
      BY <2>1, <2>2, <2>3 DEF TypeOK, BookOK, Live, Slots
    <2>5. TypeOK'
      BY <2>1, <2>2, <2>3, SuccSlot DEF TypeOK, ProducerStates, ConsumerStates, Nullptr
    <2>6. BookOK'
      <3>1. \A q \in Producers : frame'[q] \in Slots <=> pc'[q] \in {"filling", "full"}
        BY <2>2, <2>3 DEF TypeOK, BookOK, Threads, Slots, Nullptr
      <3>2. \A c \in Consumers : frame'[c] \in Slots <=> pc'[c] = "reading"
        BY <2>2, <2>3 DEF TypeOK, BookOK, Threads, Slots, Nullptr
      <3>3. /\ \A q \in Producers : pc'[q] = "scanning" <=> owner' = q
            /\ owner' = NoThread => probes' = 0 /\ freeAtLock' = {}
        BY <2>2, <2>3 DEF TypeOK, BookOK, Threads
      <3>4. queueHead' = IF queueTail' + queueSize' < Size
                         THEN queueTail' + queueSize'
                         ELSE queueTail' + queueSize' - Size
        BY <2>2, <2>3 DEF TypeOK, BookOK, Slots, Succ
      <3>5. \A s \in Slots : Live(s)' => queue'[s] \in Slots
        BY <2>2, <2>3, <2>4 DEF TypeOK, BookOK
      <3> QED BY <3>1, <3>2, <3>3, <3>4, <3>5 DEF BookOK
    <2>7. ExclusiveOK'
      <3>1. \A t, u \in Threads : t # u /\ frame'[t] # Nullptr => frame'[t] # frame'[u]
        BY <2>2, <2>3 DEF TypeOK, ExclusiveOK, Slots, Nullptr
      <3>2. \A r, s \in Slots : Live(r)' /\ Live(s)' /\ r # s => queue'[r] # queue'[s]
        BY <2>2, <2>3, <2>4 DEF TypeOK, ExclusiveOK
      <3>3. \A t \in Threads, s \in Slots : Live(s)' => frame'[t] # queue'[s]
        <4> SUFFICES ASSUME NEW t \in Threads, NEW s \in Slots, Live(s)'
                     PROVE  frame'[t] # queue'[s]
          OBVIOUS
        <4>1. queue'[s] \in Slots
          BY <2>6 DEF BookOK
        <4>2. CASE t = p
          BY <2>2, <2>3, <4>1, <4>2 DEF TypeOK, Slots, Nullptr
        <4>3. CASE t # p /\ s = queueHead
          BY <2>2, <2>3, <4>3 DEF TypeOK, ExclusiveOK, Slots, Nullptr
        <4>4. CASE t # p /\ s # queueHead
          BY <2>2, <2>3, <2>4, <4>4 DEF TypeOK, ExclusiveOK
        <4> QED BY <4>2, <4>3, <4>4
      <3>4. \A t \in Threads : frame'[t] \notin lent'
        BY <2>2, <2>3 DEF TypeOK, ExclusiveOK, Slots, Nullptr
      <3>5. \A s \in Slots : Live(s)' => queue'[s] \notin lent'
        BY <2>2, <2>3, <2>4 DEF TypeOK, ExclusiveOK
      <3>6. ASSUME NEW f \in Slots
            PROVE  busy'[f] <=> \/ \E t \in Threads : frame'[t] = f
                                \/ \E s \in Slots : Live(s)' /\ queue'[s] = f
                                \/ f \in lent'
        <4>1. CASE f = frame[p]
          <5>1. busy'[f]
            BY <2>2, <2>3, <4>1 DEF ExclusiveOK
          <5>2. PICK s \in Slots : s = queueHead
            BY <2>3
          <5>3. Live(s)' /\ queue'[s] = f
            BY <2>2, <2>3, <2>4, <4>1, <5>2 DEF TypeOK
          <5> QED BY <5>1, <5>3
        <4>2. CASE f # frame[p]
          <5>1. (\E t \in Threads : frame'[t] = f) <=> (\E t \in Threads : frame[t] = f)
            BY <2>2, <2>3, <4>2 DEF TypeOK, Slots, Nullptr
          <5>2. (\E s \in Slots : Live(s)' /\ queue'[s] = f)
                  <=> (\E s \in Slots : Live(s) /\ queue[s] = f)
            BY <2>2, <2>3, <2>4, <4>2 DEF TypeOK
          <5> QED BY <2>2, <5>1, <5>2 DEF ExclusiveOK
        <4> QED BY <4>1, <4>2
      <3> QED BY <3>1, <3>2, <3>3, <3>4, <3>5, <3>6 DEF ExclusiveOK
    <2>8. ScanOK'
      BY <2>2 DEF ScanOK, Probed
    <2>9. QueueNeverFull'
      BY <2>2 DEF TypeOK, QueueNeverFull
    <2> QED BY <2>5, <2>6, <2>7, <2>8, <2>9
  <1>7. ASSUME NEW p \in Producers, NotifyOne(p) PROVE IInv'
    <2> USE <1>7 DEF NotifyOne, Become, BorrowUnlock, AtPredicate, MutexFree, Threads, pool, ring, caller, scan
    <2>1. TypeOK'
      BY DEF TypeOK, BookOK, Slots, Succ, ProducerStates, ConsumerStates, Nullptr
    <2>2. BookOK'
      BY DEF TypeOK, BookOK, Slots, Succ, Live, ProducerStates, ConsumerStates, Nullptr
    <2>3. ExclusiveOK'
      <3>1. \A t, u \in Threads : t # u /\ frame'[t] # Nullptr => frame'[t] # frame'[u]
        BY DEF TypeOK, BookOK, ExclusiveOK, Slots, Succ, Live, Nullptr
      <3>2. \A r, s \in Slots : Live(r)' /\ Live(s)' /\ r # s => queue'[r] # queue'[s]
        BY DEF TypeOK, BookOK, ExclusiveOK, Slots, Succ, Live, Nullptr
      <3>3. \A t \in Threads, s \in Slots : Live(s)' => frame'[t] # queue'[s]
        BY DEF TypeOK, BookOK, ExclusiveOK, Slots, Succ, Live, Nullptr
      <3>4. \A t \in Threads : frame'[t] \notin lent'
        BY DEF TypeOK, BookOK, ExclusiveOK, Slots, Succ, Live, Nullptr
      <3>5. \A s \in Slots : Live(s)' => queue'[s] \notin lent'
        BY DEF TypeOK, BookOK, ExclusiveOK, Slots, Succ, Live, Nullptr
      <3>6. \A f \in Slots : busy'[f] <=> \/ \E t \in Threads : frame'[t] = f
                                          \/ \E s \in Slots : Live(s)' /\ queue'[s] = f
                                          \/ f \in lent'
        BY DEF TypeOK, BookOK, ExclusiveOK, Slots, Succ, Live, Nullptr
      <3> QED BY <3>1, <3>2, <3>3, <3>4, <3>5, <3>6 DEF ExclusiveOK
    <2>4. ScanOK'
      BY DEF TypeOK, BookOK, ScanOK, Slots, Succ, Probed
    <2>5. QueueNeverFull'
      BY DEF TypeOK, QueueNeverFull
    <2> QED BY <2>1, <2>2, <2>3, <2>4, <2>5
  <1>8. ASSUME NEW p \in Producers, GiveBackUnpushed(p) PROVE IInv'
    <2> USE <1>8 DEF GiveBackUnpushed, Become, BorrowUnlock, AtPredicate, MutexFree, Threads, pool, ring, caller, scan
    <2>1. TypeOK'
      BY DEF TypeOK, BookOK, Slots, Succ, ProducerStates, ConsumerStates, Nullptr
    <2>2. BookOK'
      BY DEF TypeOK, BookOK, Slots, Succ, Live, ProducerStates, ConsumerStates, Nullptr
    <2>3. ExclusiveOK'
      BY DEF TypeOK, BookOK, ExclusiveOK, Slots, Succ, Live, ProducerStates, ConsumerStates, Nullptr
    <2>4. ScanOK'
      BY DEF TypeOK, BookOK, ScanOK, Slots, Succ, Probed
    <2>5. QueueNeverFull'
      BY DEF TypeOK, QueueNeverFull
    <2> QED BY <2>1, <2>2, <2>3, <2>4, <2>5
  <1>9. ASSUME NEW c \in Consumers, PopWaits(c) PROVE IInv'
    <2> USE <1>9 DEF PopWaits, Become, BorrowUnlock, AtPredicate, MutexFree, Threads, pool, ring, caller, scan
    <2>1. TypeOK'
      BY DEF TypeOK, BookOK, Slots, Succ, ProducerStates, ConsumerStates, Nullptr
    <2>2. BookOK'
      BY DEF TypeOK, BookOK, Slots, Succ, Live, ProducerStates, ConsumerStates, Nullptr
    <2>3. ExclusiveOK'
      BY DEF TypeOK, BookOK, ExclusiveOK, Slots, Succ, Live, ProducerStates, ConsumerStates, Nullptr
    <2>4. ScanOK'
      BY DEF TypeOK, BookOK, ScanOK, Slots, Succ, Probed
    <2>5. QueueNeverFull'
      BY DEF TypeOK, QueueNeverFull
    <2> QED BY <2>1, <2>2, <2>3, <2>4, <2>5
  <1>10. ASSUME NEW c \in Consumers, PopTakes(c) PROVE IInv'
    <2> USE <1>10 DEF PopTakes, Become, BorrowUnlock, AtPredicate, MutexFree, Threads, pool, ring, caller, scan
    <2>1. TypeOK'
      BY DEF TypeOK, BookOK, Slots, Succ, ProducerStates, ConsumerStates, Nullptr
    <2>2. BookOK'
      BY DEF TypeOK, BookOK, Slots, Succ, Live, ProducerStates, ConsumerStates, Nullptr
    <2>3. ExclusiveOK'
      <3>1. \A t, u \in Threads : t # u /\ frame'[t] # Nullptr => frame'[t] # frame'[u]
        BY DEF TypeOK, BookOK, ExclusiveOK, Slots, Succ, Live, Nullptr
      <3>2. \A r, s \in Slots : Live(r)' /\ Live(s)' /\ r # s => queue'[r] # queue'[s]
        BY DEF TypeOK, BookOK, ExclusiveOK, Slots, Succ, Live, Nullptr
      <3>3. \A t \in Threads, s \in Slots : Live(s)' => frame'[t] # queue'[s]
        BY DEF TypeOK, BookOK, ExclusiveOK, Slots, Succ, Live, Nullptr
      <3>4. \A t \in Threads : frame'[t] \notin lent'
        BY DEF TypeOK, BookOK, ExclusiveOK, Slots, Succ, Live, Nullptr
      <3>5. \A s \in Slots : Live(s)' => queue'[s] \notin lent'
        BY DEF TypeOK, BookOK, ExclusiveOK, Slots, Succ, Live, Nullptr
      <3>6. ASSUME NEW f \in Slots
            PROVE  busy'[f] <=> \/ \E t \in Threads : frame'[t] = f
                                \/ \E s \in Slots : Live(s)' /\ queue'[s] = f
                                \/ f \in lent'
        <4>1. /\ queueTail \in Slots /\ Live(queueTail) /\ frame[c] = Nullptr
              /\ \A s \in Slots : Live(s)' <=> Live(s) /\ s # queueTail
          BY DEF TypeOK, BookOK, Slots, Succ, Live, ConsumerStates
        <4>2. CASE f = queue[queueTail]
          BY <4>1, <4>2 DEF TypeOK, ExclusiveOK
        <4>3. CASE f # queue[queueTail]
          <5>1. (\E t \in Threads : frame'[t] = f) <=> (\E t \in Threads : frame[t] = f)
            BY <4>1, <4>3 DEF TypeOK, Slots, Nullptr
          <5>2. (\E s \in Slots : Live(s)' /\ queue'[s] = f)
                  <=> (\E s \in Slots : Live(s) /\ queue[s] = f)
            BY <4>1, <4>3 DEF TypeOK
          <5> QED BY <5>1, <5>2 DEF ExclusiveOK
        <4> QED BY <4>2, <4>3
      <3> QED BY <3>1, <3>2, <3>3, <3>4, <3>5, <3>6 DEF ExclusiveOK
    <2>4. ScanOK'
      BY DEF TypeOK, BookOK, ScanOK, Slots, Succ, Probed
    <2>5. QueueNeverFull'
      BY DEF TypeOK, QueueNeverFull
    <2> QED BY <2>1, <2>2, <2>3, <2>4, <2>5
  <1>11. ASSUME NEW c \in Consumers, PopThrows(c) PROVE IInv'
    <2> USE <1>11 DEF PopThrows, Become, BorrowUnlock, AtPredicate, MutexFree, Threads, pool, ring, caller, scan
    <2>1. TypeOK'
      BY DEF TypeOK, BookOK, Slots, Succ, ProducerStates, ConsumerStates, Nullptr
    <2>2. BookOK'
      BY DEF TypeOK, BookOK, Slots, Succ, Live, ProducerStates, ConsumerStates, Nullptr
    <2>3. ExclusiveOK'
      BY DEF TypeOK, BookOK, ExclusiveOK, Slots, Succ, Live, ProducerStates, ConsumerStates, Nullptr
    <2>4. ScanOK'
      BY DEF TypeOK, BookOK, ScanOK, Slots, Succ, Probed
    <2>5. QueueNeverFull'
      BY DEF TypeOK, QueueNeverFull
    <2> QED BY <2>1, <2>2, <2>3, <2>4, <2>5
  <1>12. ASSUME NEW c \in Consumers, GiveBack(c) PROVE IInv'
    <2> USE <1>12 DEF GiveBack, Become, BorrowUnlock, AtPredicate, MutexFree, Threads, pool, ring, caller, scan
    <2>1. TypeOK'
      BY DEF TypeOK, BookOK, Slots, Succ, ProducerStates, ConsumerStates, Nullptr
    <2>2. BookOK'
      BY DEF TypeOK, BookOK, Slots, Succ, Live, ProducerStates, ConsumerStates, Nullptr
    <2>3. ExclusiveOK'
      BY DEF TypeOK, BookOK, ExclusiveOK, Slots, Succ, Live, ProducerStates, ConsumerStates, Nullptr
    <2>4. ScanOK'
      BY DEF TypeOK, BookOK, ScanOK, Slots, Succ, Probed
    <2>5. QueueNeverFull'
      BY DEF TypeOK, QueueNeverFull
    <2> QED BY <2>1, <2>2, <2>3, <2>4, <2>5
  <1>13. ASSUME NEW c \in Consumers, Lend(c) PROVE IInv'
    <2> USE <1>13 DEF Lend, Become, BorrowUnlock, AtPredicate, MutexFree, Threads, pool, ring, caller, scan
    <2>1. TypeOK'
      BY DEF TypeOK, BookOK, Slots, Succ, ProducerStates, ConsumerStates, Nullptr
    <2>2. BookOK'
      BY DEF TypeOK, BookOK, Slots, Succ, Live, ProducerStates, ConsumerStates, Nullptr
    <2>3. ExclusiveOK'
      <3>1. \A t, u \in Threads : t # u /\ frame'[t] # Nullptr => frame'[t] # frame'[u]
        BY DEF TypeOK, BookOK, ExclusiveOK, Slots, Succ, Live, Nullptr
      <3>2. \A r, s \in Slots : Live(r)' /\ Live(s)' /\ r # s => queue'[r] # queue'[s]
        BY DEF TypeOK, BookOK, ExclusiveOK, Slots, Succ, Live, Nullptr
      <3>3. \A t \in Threads, s \in Slots : Live(s)' => frame'[t] # queue'[s]
        BY DEF TypeOK, BookOK, ExclusiveOK, Slots, Succ, Live, Nullptr
      <3>4. \A t \in Threads : frame'[t] \notin lent'
        BY DEF TypeOK, BookOK, ExclusiveOK, Slots, Succ, Live, Nullptr
      <3>5. \A s \in Slots : Live(s)' => queue'[s] \notin lent'
        BY DEF TypeOK, BookOK, ExclusiveOK, Slots, Succ, Live, Nullptr
      <3>6. \A f \in Slots : busy'[f] <=> \/ \E t \in Threads : frame'[t] = f
                                          \/ \E s \in Slots : Live(s)' /\ queue'[s] = f
                                          \/ f \in lent'
        BY DEF TypeOK, BookOK, ExclusiveOK, Slots, Succ, Live, Nullptr
      <3> QED BY <3>1, <3>2, <3>3, <3>4, <3>5, <3>6 DEF ExclusiveOK
    <2>4. ScanOK'
      BY DEF TypeOK, BookOK, ScanOK, Slots, Succ, Probed
    <2>5. QueueNeverFull'
      BY DEF TypeOK, QueueNeverFull
    <2> QED BY <2>1, <2>2, <2>3, <2>4, <2>5
  <1>14. ASSUME NEW c \in Consumers, SpuriousWakeup(c) PROVE IInv'
    <2> USE <1>14 DEF SpuriousWakeup, Become, BorrowUnlock, AtPredicate, MutexFree, Threads, pool, ring, caller, scan
    <2>1. TypeOK'
      BY DEF TypeOK, BookOK, Slots, Succ, ProducerStates, ConsumerStates, Nullptr
    <2>2. BookOK'
      BY DEF TypeOK, BookOK, Slots, Succ, Live, ProducerStates, ConsumerStates, Nullptr
    <2>3. ExclusiveOK'
      BY DEF TypeOK, BookOK, ExclusiveOK, Slots, Succ, Live, ProducerStates, ConsumerStates, Nullptr
    <2>4. ScanOK'
      BY DEF TypeOK, BookOK, ScanOK, Slots, Succ, Probed
    <2>5. QueueNeverFull'
      BY DEF TypeOK, QueueNeverFull
    <2> QED BY <2>1, <2>2, <2>3, <2>4, <2>5
  <1>15. ASSUME NEW f \in Slots, ReleaseLent(f) PROVE IInv'
    <2> USE <1>15 DEF ReleaseLent, Become, BorrowUnlock, AtPredicate, MutexFree, Threads, pool, ring, caller, scan
    <2>1. TypeOK'
      BY DEF TypeOK, BookOK, Slots, Succ, ProducerStates, ConsumerStates, Nullptr
    <2>2. BookOK'
      BY DEF TypeOK, BookOK, Slots, Succ, Live, ProducerStates, ConsumerStates, Nullptr
    <2>3. ExclusiveOK'
      <3>1. \A t, u \in Threads : t # u /\ frame'[t] # Nullptr => frame'[t] # frame'[u]
        BY DEF TypeOK, BookOK, ExclusiveOK, Slots, Succ, Live, Nullptr
      <3>2. \A r, s \in Slots : Live(r)' /\ Live(s)' /\ r # s => queue'[r] # queue'[s]
        BY DEF TypeOK, BookOK, ExclusiveOK, Slots, Succ, Live, Nullptr
      <3>3. \A t \in Threads, s \in Slots : Live(s)' => frame'[t] # queue'[s]
        BY DEF TypeOK, BookOK, ExclusiveOK, Slots, Succ, Live, Nullptr
      <3>4. \A t \in Threads : frame'[t] \notin lent'
        BY DEF TypeOK, BookOK, ExclusiveOK, Slots, Succ, Live, Nullptr
      <3>5. \A s \in Slots : Live(s)' => queue'[s] \notin lent'
        BY DEF TypeOK, BookOK, ExclusiveOK, Slots, Succ, Live, Nullptr
      <3>6. ASSUME NEW g \in Slots
            PROVE  busy'[g] <=> \/ \E t \in Threads : frame'[t] = g
                                \/ \E s \in Slots : Live(s)' /\ queue'[s] = g
                                \/ g \in lent'
        <4>1. (\E s \in Slots : Live(s)' /\ queue'[s] = g)
                <=> (\E s \in Slots : Live(s) /\ queue[s] = g)
          BY DEF Live
        <4>2. CASE g = f
          BY <4>1, <4>2 DEF TypeOK, ExclusiveOK
        <4>3. CASE g # f
          BY <4>1, <4>3 DEF TypeOK, ExclusiveOK
        <4> QED BY <4>2, <4>3
      <3> QED BY <3>1, <3>2, <3>3, <3>4, <3>5, <3>6 DEF ExclusiveOK
    <2>4. ScanOK'
      BY DEF TypeOK, BookOK, ScanOK, Slots, Succ, Probed
    <2>5. QueueNeverFull'
      BY DEF TypeOK, QueueNeverFull
    <2> QED BY <2>1, <2>2, <2>3, <2>4, <2>5
  <1>16. CASE ForceNotify
    <2> USE <1>16 DEF ForceNotify, Become, BorrowUnlock, AtPredicate, MutexFree, Threads, pool, ring, caller, scan
    <2>1. TypeOK'
      BY DEF TypeOK, BookOK, Slots, Succ, ProducerStates, ConsumerStates, Nullptr
    <2>2. BookOK'
      BY DEF TypeOK, BookOK, Slots, Succ, Live, ProducerStates, ConsumerStates, Nullptr
    <2>3. ExclusiveOK'
      BY DEF TypeOK, BookOK, ExclusiveOK, Slots, Succ, Live, ProducerStates, ConsumerStates, Nullptr
    <2>4. ScanOK'
      BY DEF TypeOK, BookOK, ScanOK, Slots, Succ, Probed
    <2>5. QueueNeverFull'
      BY DEF TypeOK, QueueNeverFull
    <2> QED BY <2>1, <2>2, <2>3, <2>4, <2>5
  <1>17. CASE UNCHANGED vars
    BY <1>17 DEF vars, pool, ring, caller, scan, TypeOK, BookOK, ExclusiveOK, ScanOK,
      QueueNeverFull, Live, Probed
  <1> QED
    BY <1>1, <1>2, <1>3, <1>4, <1>5, <1>6, <1>7, <1>8, <1>9, <1>10, <1>11, <1>12, <1>13, <1>14, <1>15, <1>16, <1>17
    DEF Next, ProducerStep, ConsumerStep, PopStep

-----------------------------------------------------------------------------
\* The invariant holds in every state a FrameBuffer and its callers can reach.
THEOREM Invariance == Spec => []IInv
  <1> QED BY InitIInv, NextIInv, PTL DEF Spec

\* Every variable keeps its type, for every size and any set of threads.
THEOREM TypeCorrect == Spec => []TypeOK
  <1>1. IInv => TypeOK
    BY DEF IInv
  <1> QED BY <1>1, Invariance, PTL

(***************************************************************************)
(* FrameBuffer.cpp borrow(), push(), pop(), giveBack(): no two parties     *)
(* ever hold the same frame, and no busy frame is lost by everyone.        *)
(***************************************************************************)
THEOREM FramesHaveOneOwner == Spec => []FramesInOnePlace
  <1>1. IInv => FramesInOnePlace
    <2> SUFFICES ASSUME IInv PROVE FramesInOnePlace
      OBVIOUS
    <2> USE DEF IInv
    <2>1. /\ \A t, u \in Threads : t # u /\ frame[t] # Nullptr => frame[t] # frame[u]
          /\ \A r, s \in Slots : Live(r) /\ Live(s) /\ r # s => queue[r] # queue[s]
      BY DEF ExclusiveOK
    <2>2. Held \cap Queued = {} /\ Held \cap lent = {} /\ Queued \cap lent = {}
      BY DEF ExclusiveOK, Held, Queued
    <2>3. Held \cup Queued \cup lent \subseteq Slots
      <3>1. Held \subseteq Slots
        BY DEF TypeOK, Held
      <3>2. Queued \subseteq Slots
        BY DEF BookOK, Queued
      <3> QED BY <3>1, <3>2 DEF TypeOK
    <2>4. \A f \in Slots : busy[f] <=> f \in Held \cup Queued \cup lent
      BY DEF ExclusiveOK, Held, Queued, Slots, Nullptr
    <2>5. Held \cup Queued \cup lent = {f \in Slots : busy[f]}
      BY <2>3, <2>4
    <2> QED BY <2>1, <2>2, <2>5 DEF FramesInOnePlace
  <1> QED BY <1>1, Invariance, PTL

(***************************************************************************)
(* FrameBuffer.cpp push(): ExceptionQueueFull is never thrown for a        *)
(* borrowed frame, whatever the pool size and the schedule.                *)
(***************************************************************************)
THEOREM PushAlwaysFits == Spec => []QueueNeverFull
  <1>1. IInv => QueueNeverFull
    BY DEF IInv
  <1> QED BY <1>1, Invariance, PTL

(***************************************************************************)
(* FrameBuffer.cpp borrow(): ExceptionPoolExhausted means that no frame    *)
(* was free when the scan began, although giveBack() runs beside it.       *)
(***************************************************************************)
THEOREM ExhaustionIsReal == Spec => []ExhaustedOnlyIfNoneFree
  <1>1. IInv => ExhaustedOnlyIfNoneFree
    <2> SUFFICES ASSUME IInv, probes = Size, NEW f \in freeAtLock PROVE FALSE
      BY DEF ExhaustedOnlyIfNoneFree
    <2>1. f \in 0 .. Size - 1 /\ poolHead \in 0 .. Size - 1
      BY DEF IInv, TypeOK, Slots
    <2>2. Probed(f)
      BY <2>1, SizeAssumption DEF Probed
    <2> QED BY <2>2 DEF IInv, ScanOK
  <1> QED BY <1>1, Invariance, PTL

-----------------------------------------------------------------------------
(***************************************************************************)
(* push() and pop() lose no wakeup: a proof by counting frames,            *)
(* notifications still to come and consumers already woken.                *)
(***************************************************************************)
\* Who waits on m_cv is inside pop(), and forceNotify() leaves nobody there.
SleepOK ==
    /\ \A c \in waiting : pc[c] = "asleep"
    /\ forceNotify => waiting = {}

WakeInv == SleepOK /\ NoLostWakeup

\* The sets that NoLostWakeup counts are finite before and after a step.
LEMMA CountsAreFinite ==
  /\ IsFiniteSet(Notifying) /\ IsFiniteSet(Notifying')
  /\ IsFiniteSet(Woken)     /\ IsFiniteSet(Woken')
  /\ Cardinality(Notifying) \in Nat /\ Cardinality(Notifying') \in Nat
  /\ Cardinality(Woken) \in Nat     /\ Cardinality(Woken') \in Nat
  <1>1. /\ Notifying \subseteq Producers /\ Notifying' \subseteq Producers
        /\ Woken \subseteq Consumers     /\ Woken' \subseteq Consumers
    BY DEF Notifying, Woken
  <1>2. /\ IsFiniteSet(Notifying) /\ IsFiniteSet(Notifying')
        /\ IsFiniteSet(Woken)     /\ IsFiniteSet(Woken')
    BY <1>1, FiniteAssumption, FS_Subset
  <1> QED BY <1>2, FS_CardinalityType

\* Nobody sleeps at the start.
LEMMA InitWakeInv == Init => WakeInv
  BY DEF Init, WakeInv, SleepOK, NoLostWakeup

\* A step of a producer that is not about notify_one() changes no count.
LEMMA ProducerAside ==
  ASSUME TypeOK, WakeInv, NEW p \in Producers, pc[p] # "notify",
         pc' = [pc EXCEPT ![p] = pc'[p]], pc'[p] # "notify",
         UNCHANGED <<waiting, forceNotify, queueSize>>
  PROVE  WakeInv'
  <1> USE ThreadsAssumption DEF TypeOK, Threads
  <1>1. Notifying' = Notifying
    BY DEF Notifying
  <1>2. Woken' = Woken
    BY DEF Woken
  <1>3. SleepOK'
    BY DEF WakeInv, SleepOK
  <1> QED BY <1>1, <1>2, <1>3 DEF WakeInv, NoLostWakeup

\* Nor does a step of a consumer outside pop().
LEMMA ConsumerAside ==
  ASSUME TypeOK, WakeInv, NEW c \in Consumers, pc[c] # "asleep",
         pc' = [pc EXCEPT ![c] = pc'[c]], pc'[c] # "asleep",
         UNCHANGED <<waiting, forceNotify, queueSize>>
  PROVE  WakeInv'
  <1> USE ThreadsAssumption DEF TypeOK, Threads
  <1>1. Notifying' = Notifying
    BY DEF Notifying
  <1>2. Woken' = Woken
    BY DEF Woken
  <1>3. SleepOK'
    BY DEF WakeInv, SleepOK
  <1> QED BY <1>1, <1>2, <1>3 DEF WakeInv, NoLostWakeup

\* push() owes a notification for the frame it adds.
LEMMA PushOwes ==
  ASSUME TypeOK, WakeInv, NEW p \in Producers, Push(p), queueSize # Size
  PROVE  WakeInv'
  <1> USE ThreadsAssumption DEF TypeOK, Threads
  <1>1. Notifying' = Notifying \cup {p} /\ p \notin Notifying
    BY DEF Push, Become, Notifying
  <1>2. Woken' = Woken
    BY DEF Push, Become, Woken
  <1>3. SleepOK'
    BY DEF Push, Become, WakeInv, SleepOK
  <1>4. Cardinality(Notifying') = Cardinality(Notifying) + 1
    BY <1>1, CountsAreFinite, FS_AddElement
  <1>5. NoLostWakeup'
    <2>1. waiting' = waiting /\ queueSize' = queueSize + 1 /\ queueSize \in Nat
      BY SizeAssumption DEF Push
    <2> QED BY <1>2, <1>4, <2>1, CountsAreFinite DEF WakeInv, NoLostWakeup
  <1> QED BY <1>3, <1>5 DEF WakeInv

\* notify_one() turns its debt into a woken consumer, or finds nobody asleep.
LEMMA NotifyPays ==
  ASSUME TypeOK, WakeInv, NEW p \in Producers, NotifyOne(p)
  PROVE  WakeInv'
  <1> USE ThreadsAssumption DEF TypeOK, Threads
  <1>1. Notifying' = Notifying \ {p} /\ p \in Notifying
    BY DEF NotifyOne, Become, Notifying
  <1>2. SleepOK'
    BY DEF NotifyOne, Become, WakeInv, SleepOK
  <1>3. Cardinality(Notifying') = Cardinality(Notifying) - 1
    BY <1>1, CountsAreFinite, FS_RemoveElement
  <1>4. NoLostWakeup'
    <2>1. CASE waiting = {} /\ UNCHANGED waiting
      BY <2>1 DEF NoLostWakeup
    <2>2. ASSUME NEW c \in waiting, waiting' = waiting \ {c} PROVE NoLostWakeup'
      <3>1. c \in Consumers /\ pc[c] = "asleep" /\ c # p
        BY <2>2 DEF WakeInv, SleepOK
      <3>2. Woken' = Woken \cup {c} /\ c \notin Woken
        BY <2>2, <3>1 DEF NotifyOne, Become, Woken, WakeInv, SleepOK
      <3>3. Cardinality(Woken') = Cardinality(Woken) + 1
        BY <3>2, CountsAreFinite, FS_AddElement
      <3>4. queueSize' = queueSize /\ waiting # {} /\ queueSize \in Nat
        BY <2>2, SizeAssumption DEF NotifyOne, ring
      <3> QED BY <1>3, <3>3, <3>4, CountsAreFinite DEF WakeInv, NoLostWakeup
    <2> QED BY <2>1, <2>2 DEF NotifyOne
  <1> QED BY <1>2, <1>4 DEF WakeInv

\* A consumer goes to sleep only when there is nothing to be woken for.
LEMMA WaitsForNothing ==
  ASSUME TypeOK, WakeInv, NEW c \in Consumers, PopWaits(c)
  PROVE  WakeInv'
  <1> USE ThreadsAssumption DEF TypeOK, Threads
  <1>1. SleepOK'
    BY DEF PopWaits, Become, WakeInv, SleepOK
  <1>2. queueSize' = 0
    BY DEF PopWaits, ring
  <1> QED BY <1>1, <1>2, CountsAreFinite DEF WakeInv, NoLostWakeup

\* A consumer that takes a frame was perhaps a woken one: both are counted off.
LEMMA TakesItsOwn ==
  ASSUME TypeOK, WakeInv, NEW c \in Consumers, PopTakes(c)
  PROVE  WakeInv'
  <1> USE ThreadsAssumption DEF TypeOK, Threads
  <1>1. c \notin waiting /\ waiting' = waiting /\ forceNotify' = forceNotify
    BY DEF PopTakes, AtPredicate, WakeInv, SleepOK
  <1>2. SleepOK'
    BY <1>1 DEF PopTakes, Become, WakeInv, SleepOK
  <1>3. Notifying' = Notifying
    BY DEF PopTakes, Become, Notifying
  <1>4. Woken' = Woken \ {c}
    BY <1>1 DEF PopTakes, Become, Woken
  <1>5. Cardinality(Woken') >= Cardinality(Woken) - 1
    BY <1>4, CountsAreFinite, FS_RemoveElement
  <1>6. queueSize \in Nat /\ queueSize' = queueSize - 1
    BY SizeAssumption DEF PopTakes
  <1> QED BY <1>1, <1>2, <1>3, <1>5, <1>6, CountsAreFinite DEF WakeInv, NoLostWakeup

\* forceNotify() wakes everyone, and whoever pops then leaves.
LEMMA NobodySleeps ==
  ASSUME TypeOK, WakeInv, ForceNotify \/ \E c \in Consumers : PopThrows(c)
  PROVE  WakeInv'
  <1>1. waiting' = {}
    BY DEF ForceNotify, PopThrows, WakeInv, SleepOK
  <1> QED BY <1>1 DEF WakeInv, SleepOK, NoLostWakeup

\* A consumer woken for no reason still counts as one on its way.
LEMMA WokenForNothing ==
  ASSUME TypeOK, WakeInv, NEW c \in Consumers, SpuriousWakeup(c)
  PROVE  WakeInv'
  <1> USE ThreadsAssumption DEF TypeOK, Threads
  <1>1. c \in waiting /\ waiting' = waiting \ {c}
        /\ UNCHANGED <<pc, queueSize, forceNotify>>
    BY DEF SpuriousWakeup, caller, ring
  <1>2. SleepOK'
    BY <1>1 DEF WakeInv, SleepOK
  <1>3. Notifying' = Notifying /\ Woken \subseteq Woken'
    BY <1>1 DEF Notifying, Woken
  <1>4. Cardinality(Woken) <= Cardinality(Woken')
    BY <1>3, CountsAreFinite, FS_Subset
  <1>5. queueSize \in Nat
    BY SizeAssumption
  <1> QED BY <1>1, <1>2, <1>3, <1>4, <1>5, CountsAreFinite DEF WakeInv, NoLostWakeup

-----------------------------------------------------------------------------
\* Every step keeps the account.
LEMMA NextWakeInv == IInv /\ IInv' /\ WakeInv /\ [Next]_vars => WakeInv'
  <1> SUFFICES ASSUME IInv, IInv', WakeInv, [Next]_vars PROVE WakeInv'
    OBVIOUS
  <1> USE DEF Become, Threads, pool, ring, caller, scan
  <1>0. TypeOK /\ QueueNeverFull'
    BY DEF IInv
  <1>1. ASSUME NEW p \in Producers,
               \/ BorrowLock(p) \/ ProbeFree(p) \/ BorrowThrows(p)
               \/ SkipInput(p) \/ GiveBackUnpushed(p)
        PROVE  WakeInv'
    <2>1. /\ pc[p] # "notify" /\ pc'[p] # "notify"
          /\ pc' = [pc EXCEPT ![p] = pc'[p]]
          /\ UNCHANGED <<waiting, forceNotify, queueSize>>
      BY <1>0, <1>1 DEF TypeOK, BorrowLock, ProbeFree, BorrowThrows, SkipInput, GiveBackUnpushed
    <2> QED BY <1>0, <2>1, ProducerAside
  <1>2. ASSUME NEW p \in Producers, ProbeBusy(p) PROVE WakeInv'
    BY <1>2 DEF ProbeBusy, WakeInv, SleepOK, NoLostWakeup, Notifying, Woken
  <1>3. ASSUME NEW p \in Producers, Push(p) PROVE WakeInv'
    <2>1. queueSize # Size
      BY <1>0, <1>3 DEF Push, TypeOK, QueueNeverFull
    <2> QED BY <1>0, <1>3, <2>1, PushOwes
  <1>4. ASSUME NEW p \in Producers, NotifyOne(p) PROVE WakeInv'
    BY <1>0, <1>4, NotifyPays
  <1>5. ASSUME NEW c \in Consumers, PopWaits(c) PROVE WakeInv'
    BY <1>0, <1>5, WaitsForNothing
  <1>6. ASSUME NEW c \in Consumers, PopTakes(c) PROVE WakeInv'
    BY <1>0, <1>6, TakesItsOwn
  <1>7. ASSUME NEW c \in Consumers, PopThrows(c) PROVE WakeInv'
    BY <1>0, <1>7, NobodySleeps
  <1>8. ASSUME NEW c \in Consumers, GiveBack(c) \/ Lend(c) PROVE WakeInv'
    <2>1. /\ pc[c] # "asleep" /\ pc'[c] # "asleep"
          /\ pc' = [pc EXCEPT ![c] = pc'[c]]
          /\ UNCHANGED <<waiting, forceNotify, queueSize>>
      BY <1>0, <1>8 DEF TypeOK, GiveBack, Lend
    <2> QED BY <1>0, <2>1, ConsumerAside
  <1>9. ASSUME NEW c \in Consumers, SpuriousWakeup(c) PROVE WakeInv'
    BY <1>0, <1>9, WokenForNothing
  <1>10. ASSUME NEW f \in Slots, ReleaseLent(f) PROVE WakeInv'
    BY <1>10 DEF ReleaseLent, WakeInv, SleepOK, NoLostWakeup, Notifying, Woken
  <1>11. CASE ForceNotify
    BY <1>0, <1>11, NobodySleeps
  <1>12. CASE UNCHANGED vars
    BY <1>12 DEF vars, WakeInv, SleepOK, NoLostWakeup, Notifying, Woken
  <1> QED
    BY <1>1, <1>2, <1>3, <1>4, <1>5, <1>6, <1>7, <1>8, <1>9, <1>10, <1>11, <1>12
    DEF Next, ProducerStep, ConsumerStep, PopStep

(***************************************************************************)
(* FrameBuffer.cpp push() and pop(): although notify_one() comes after the *)
(* unlock and another consumer may slip in between, a frame is never left  *)
(* in the queue with everyone asleep and no notification to come.          *)
(***************************************************************************)
THEOREM NoWakeupIsLost == Spec => []NoLostWakeup
  <1>1. Spec => []WakeInv
    BY InitWakeInv, NextWakeInv, Invariance, PTL DEF Spec
  <1>2. WakeInv => NoLostWakeup
    BY DEF WakeInv
  <1> QED BY <1>1, <1>2, PTL

-----------------------------------------------------------------------------
(***************************************************************************)
(* The class implements the channel: what FrameBuffer does to a frame or   *)
(* to the ring is one step of FrameChannel, or nothing there.              *)
(***************************************************************************)
\* The channel that a state of the class stands for, as in FC.
Map     == [f \in Slots |-> PlaceOf(f)]
Channel == [place  |-> Map,
            queue  |-> QueueSeq,
            closed |-> forceNotify]

-----------------------------------------------------------------------------
(* The place of a frame                                                    *)

Filling(f) == \E p \in Producers : frame[p] = f
InRing(f)  == \E s \in Slots : Live(s) /\ queue[s] = f
Reading(f) == f \in lent \/ \E c \in Consumers : frame[c] = f

Place(f) ==
    /\ PlaceOf(f) \in {"free", "filling", "queued", "reading"}
    /\ PlaceOf(f) = "free" <=> ~busy[f]
    /\ PlaceOf(f) = "filling" <=> Filling(f)
    /\ PlaceOf(f) = "queued" <=> InRing(f)
    /\ PlaceOf(f) = "reading" <=> Reading(f)

Placed == \A f \in Slots : Place(f)

\* ExclusiveOK leaves a frame one place of the four, whatever the order in
\* which PlaceOf asks for them.
LEMMA PlaceIs == IInv => Placed
  <1> SUFFICES ASSUME IInv, NEW f \in Slots
               PROVE  Place(f)
    BY DEF Placed
  <1>1. busy[f] <=> Filling(f) \/ InRing(f) \/ Reading(f)
    BY DEF IInv, ExclusiveOK, Filling, InRing, Reading, Threads
  <1>2. ~(Filling(f) /\ InRing(f)) /\ ~(InRing(f) /\ Reading(f))
    BY DEF IInv, ExclusiveOK, Filling, InRing, Reading, Threads
  <1>3. ~(Filling(f) /\ Reading(f))
    <2> SUFFICES ASSUME NEW p \in Producers, frame[p] = f, Reading(f)
                 PROVE  FALSE
      BY DEF Filling
    <2>1. p \in Threads /\ f # Nullptr /\ f \notin lent
      BY SizeAssumption DEF Threads, Slots, Nullptr, IInv, ExclusiveOK
    <2>2. PICK c \in Consumers : frame[c] = f
      BY <2>1 DEF Reading
    <2>3. c \in Threads /\ c # p
      BY ThreadsAssumption DEF Threads
    <2> QED BY <2>1, <2>2, <2>3 DEF IInv, ExclusiveOK
  <1>4. f \in Queued <=> InRing(f)
    BY DEF Queued, InRing
  <1>5. PlaceOf(f) = IF ~busy[f] THEN "free" ELSE IF Filling(f) THEN "filling"
                     ELSE IF InRing(f) THEN "queued" ELSE "reading"
    BY <1>1, <1>2, <1>4 DEF PlaceOf, Filling
  <1> QED BY <1>1, <1>2, <1>3, <1>5 DEF Place

\* A frame that is with the same users is in the same place.
LEMMA Stays ==
    ASSUME IInv, IInv', NEW f \in Slots,
           Filling(f)' <=> Filling(f), InRing(f)' <=> InRing(f), Reading(f)' <=> Reading(f)
    PROVE  PlaceOf(f)' = PlaceOf(f)
  <1>1. Placed /\ Placed'
    BY PlaceIs, PTL
  <1>2. Place(f) /\ Place(f)'
    BY <1>1 DEF Placed
  <1> QED BY <1>2 DEF Place

\* One frame moves, the others stay.
LEMMA Moves ==
    ASSUME IInv, IInv', NEW g \in Slots, NEW where,
           PlaceOf(g)' = where,
           \A f \in Slots \ {g} : /\ Filling(f)' <=> Filling(f)
                                  /\ InRing(f)' <=> InRing(f)
                                  /\ Reading(f)' <=> Reading(f)
    PROVE  Map' = [Map EXCEPT ![g] = where]
  <1>1. \A f \in Slots \ {g} : PlaceOf(f)' = PlaceOf(f)
    BY Stays
  <1> QED BY <1>1 DEF Map, Slots

-----------------------------------------------------------------------------
(* The ring as a sequence                                                  *)

Wrap(n) == IF n < Size THEN n ELSE n - Size

LEMMA ModIsWrap ==
    ASSUME NEW n \in Nat, n < 2 * Size
    PROVE  n % Size = Wrap(n)
  BY SizeAssumption, SMTT(30) DEF Wrap

SeqOfRing ==
    /\ QueueSeq \in Seq(Slots)
    /\ Len(QueueSeq) = queueSize
    /\ \A k \in 1 .. queueSize :
          /\ Wrap(queueTail + k - 1) \in Slots
          /\ Live(Wrap(queueTail + k - 1))
          /\ QueueSeq[k] = queue[Wrap(queueTail + k - 1)]

\* The slots from m_queueTail on are those that are in use.
LEMMA RingIsSeq == IInv => SeqOfRing
  <1> SUFFICES ASSUME IInv
               PROVE  SeqOfRing
    OBVIOUS
  <1>1. queueTail \in Slots /\ queueSize \in 0 .. Size
    BY DEF IInv, TypeOK
  <1>2. \A k \in 1 .. queueSize :
           /\ queueTail + k - 1 \in Nat /\ queueTail + k - 1 < 2 * Size
           /\ Wrap(queueTail + k - 1) \in Slots
           /\ Live(Wrap(queueTail + k - 1))
    BY <1>1, SizeAssumption DEF Wrap, Slots, Live
  <1>3. \A k \in 1 .. queueSize : QueueSeq[k] = queue[Wrap(queueTail + k - 1)]
    <2> TAKE k \in 1 .. queueSize
    <2>1. (queueTail + k - 1) % Size = Wrap(queueTail + k - 1)
      BY <1>2, ModIsWrap
    <2> QED BY <2>1 DEF QueueSeq
  <1>4. QueueSeq \in [1 .. queueSize -> Slots]
    <2>1. \A k \in 1 .. queueSize : QueueSeq[k] \in Slots
      BY <1>2, <1>3 DEF IInv, BookOK
    <2> QED BY <2>1 DEF QueueSeq
  <1>5. queueSize \in Nat
    BY <1>1, SizeAssumption
  <1>6. QueueSeq \in Seq(Slots) /\ Len(QueueSeq) = queueSize
    BY <1>4, <1>5, SeqDef, LenProperties
  <1> QED BY <1>2, <1>3, <1>6 DEF SeqOfRing

LEMMA PushAppends ==
    ASSUME IInv, IInv', NEW p \in Producers, Push(p)
    PROVE  QueueSeq' = Append(QueueSeq, frame[p])
  <1> USE SizeAssumption
  <1>1. queueSize # Size /\ frame[p] \in Slots
    BY RoomToPush DEF IInv, BookOK, Push
  <1>2. /\ queue' = [queue EXCEPT ![queueHead] = frame[p]]
        /\ queueSize' = queueSize + 1 /\ queueTail' = queueTail
    BY <1>1 DEF Push
  <1>3. /\ queueHead \in Slots /\ ~Live(queueHead) /\ queueSize \in Nat
        /\ queueHead = Wrap(queueTail + (queueSize + 1) - 1)
        /\ queue \in [Slots -> Slots \cup {Nullptr}]
    BY <1>1 DEF IInv, TypeOK, BookOK, Live, Slots, Wrap
  <1>4. SeqOfRing
    BY RingIsSeq
  <1>5. SeqOfRing'
    BY RingIsSeq, PTL
  <1> DEFINE longer == Append(QueueSeq, frame[p])
  <1>6. /\ longer \in Seq(Slots) /\ Len(longer) = queueSize + 1
        /\ \A k \in 1 .. queueSize : longer[k] = QueueSeq[k]
        /\ longer[queueSize + 1] = frame[p]
    BY <1>1, <1>3, <1>4, AppendProperties DEF SeqOfRing
  <1>7. /\ QueueSeq' \in Seq(Slots) /\ Len(QueueSeq') = queueSize + 1
        /\ \A k \in 1 .. queueSize + 1 : QueueSeq'[k] = queue'[Wrap(queueTail + k - 1)]
    BY <1>2, <1>5 DEF SeqOfRing, Wrap
  <1>8. \A k \in 1 .. queueSize + 1 : QueueSeq'[k] = longer[k]
    <2> TAKE k \in 1 .. queueSize + 1
    <2>1. CASE k = queueSize + 1
      BY <1>2, <1>3, <1>6, <1>7, <2>1
    <2>2. CASE k # queueSize + 1
      <3>1. k \in 1 .. queueSize
        BY <1>3, <2>2
      <3>2. Wrap(queueTail + k - 1) # queueHead
        BY <1>3, <1>4, <3>1 DEF SeqOfRing
      <3>3. queue'[Wrap(queueTail + k - 1)] = queue[Wrap(queueTail + k - 1)]
        BY <1>2, <1>3, <1>4, <3>1, <3>2 DEF SeqOfRing
      <3> QED BY <1>4, <1>6, <1>7, <3>1, <3>3 DEF SeqOfRing
    <2> QED BY <2>1, <2>2
  <1> HIDE DEF longer
  <1>9. QueueSeq' = longer
    BY <1>3, <1>6, <1>7, <1>8, SeqEqual
  <1> QED BY <1>9 DEF longer

LEMMA PopTakesHead ==
    ASSUME IInv, IInv', NEW c \in Consumers, PopTakes(c)
    PROVE  /\ QueueSeq # << >>
           /\ Head(QueueSeq) = queue[queueTail]
           /\ QueueSeq' = Tail(QueueSeq)
  <1> USE SizeAssumption
  <1>1. /\ queueSize \in 1 .. Size /\ queueTail \in Slots
        /\ queue' = queue /\ queueSize' = queueSize - 1 /\ queueTail' = Succ(queueTail)
    BY DEF IInv, TypeOK, PopTakes
  <1>2. SeqOfRing
    BY RingIsSeq
  <1>3. SeqOfRing'
    BY RingIsSeq, PTL
  <1>4. QueueSeq # << >>
    BY <1>1, <1>2, EmptySeq DEF SeqOfRing
  <1>5. /\ Tail(QueueSeq) \in Seq(Slots) /\ Len(Tail(QueueSeq)) = queueSize - 1
        /\ \A k \in 1 .. queueSize - 1 : Tail(QueueSeq)[k] = QueueSeq[k + 1]
        /\ Head(QueueSeq) = QueueSeq[1]
    BY <1>1, <1>2, <1>4, HeadTailProperties DEF SeqOfRing
  <1>6. Head(QueueSeq) = queue[queueTail]
    <2>1. Wrap(queueTail + 1 - 1) = queueTail
      BY <1>1 DEF Slots, Wrap
    <2>2. QueueSeq[1] = queue[Wrap(queueTail + 1 - 1)]
      BY <1>1, <1>2 DEF SeqOfRing
    <2> QED BY <1>5, <2>1, <2>2
  <1>7. /\ QueueSeq' \in Seq(Slots) /\ Len(QueueSeq') = queueSize - 1
        /\ \A k \in 1 .. queueSize - 1 : QueueSeq'[k] = queue[Wrap(Succ(queueTail) + k - 1)]
    BY <1>1, <1>3 DEF SeqOfRing, Wrap
  <1>8. \A k \in 1 .. queueSize - 1 : QueueSeq'[k] = Tail(QueueSeq)[k]
    <2> TAKE k \in 1 .. queueSize - 1
    <2>1. k + 1 \in 1 .. queueSize
      BY <1>1
    <2>2. Wrap(Succ(queueTail) + k - 1) = Wrap(queueTail + (k + 1) - 1)
      BY <1>1, <2>1 DEF Succ, Wrap, Slots
    <2>3. QueueSeq[k + 1] = queue[Wrap(queueTail + (k + 1) - 1)]
      BY <1>2, <2>1 DEF SeqOfRing
    <2> QED BY <1>5, <1>7, <2>2, <2>3
  <1>9. QueueSeq' = Tail(QueueSeq)
    BY <1>5, <1>7, <1>8, SeqEqual
  <1> QED BY <1>4, <1>6, <1>9

\* The sequence depends on the ring alone.
LEMMA RingKeeps ==
    ASSUME UNCHANGED ring
    PROVE  QueueSeq' = QueueSeq /\ \A f \in Slots : InRing(f)' <=> InRing(f)
  BY DEF ring, QueueSeq, InRing, Live

-----------------------------------------------------------------------------
(* Each action                                                             *)

\* The steps that are inside the class, or that only hand a frame from the
\* consumer to GStreamer.
LEMMA Stutters ==
    ASSUME IInv, IInv', UNCHANGED <<ring, forceNotify>>,
           \A f \in Slots : (Filling(f)' <=> Filling(f)) /\ (Reading(f)' <=> Reading(f))
    PROVE  Channel' = Channel
  <1>1. \A f \in Slots : PlaceOf(f)' = PlaceOf(f)
    BY Stays, RingKeeps
  <1>2. QueueSeq' = QueueSeq
    BY RingKeeps
  <1> QED BY <1>1, <1>2 DEF Channel, Map, Slots

\* Two fields of a channel change at once.
LEMMA TwoFields ==
    ASSUME NEW P, NEW Q, NEW C, NEW X, NEW Y,
           NEW ch, ch = [place |-> P, queue |-> Q, closed |-> C]
    PROVE  [ch EXCEPT !.place = X, !.queue = Y] = [place |-> X, queue |-> Y, closed |-> C]
  <1>1. [ch EXCEPT !.place = X, !.queue = Y] = [[ch EXCEPT !.place = X] EXCEPT !.queue = Y]
    OBVIOUS
  <1>2. PICK one : one = [ch EXCEPT !.place = X]
    OBVIOUS
  <1>3. one = [place |-> X, queue |-> Q, closed |-> C]
    BY <1>2
  <1>4. [one EXCEPT !.queue = Y] = [place |-> X, queue |-> Y, closed |-> C]
    BY <1>3
  <1> QED BY <1>1, <1>2, <1>4

\* The operators of FrameChannel, field by field.
LEMMA Operators ==
    ASSUME NEW f
    PROVE  /\ FC!Borrowed(Channel, f) = [place |-> [Map EXCEPT ![f] = "filling"], queue |-> QueueSeq, closed |-> forceNotify]
           /\ FC!Pushed(Channel, f) = [place |-> [Map EXCEPT ![f] = "queued"], queue |-> Append(QueueSeq, f), closed |-> forceNotify]
           /\ FC!Popped(Channel) = [place |-> [Map EXCEPT ![Head(QueueSeq)] = "reading"], queue |-> Tail(QueueSeq), closed |-> forceNotify]
           /\ FC!Returned(Channel, f) = [place |-> [Map EXCEPT ![f] = "free"], queue |-> QueueSeq, closed |-> forceNotify]
           /\ FC!Closed(Channel) = [place |-> Map, queue |-> QueueSeq, closed |-> TRUE]
  <1> DEFINE P == Map  Q == QueueSeq  C == forceNotify  ch == Channel
  <1> SUFFICES /\ FC!Borrowed(ch, f) = [place |-> [P EXCEPT ![f] = "filling"], queue |-> Q, closed |-> C]
               /\ FC!Pushed(ch, f) = [place |-> [P EXCEPT ![f] = "queued"], queue |-> Append(Q, f), closed |-> C]
               /\ FC!Popped(ch) = [place |-> [P EXCEPT ![Head(Q)] = "reading"], queue |-> Tail(Q), closed |-> C]
               /\ FC!Returned(ch, f) = [place |-> [P EXCEPT ![f] = "free"], queue |-> Q, closed |-> C]
               /\ FC!Closed(ch) = [place |-> P, queue |-> Q, closed |-> TRUE]
    OBVIOUS
  <1>0. ch = [place |-> P, queue |-> Q, closed |-> C]
    BY DEF Channel
  <1> HIDE DEF P, Q, C, ch
  <1> USE <1>0
  <1>1. FC!Borrowed(ch, f) = [place |-> [P EXCEPT ![f] = "filling"], queue |-> Q, closed |-> C]
    BY DEF FC!Borrowed
  <1>2. FC!Pushed(ch, f) = [place |-> [P EXCEPT ![f] = "queued"], queue |-> Append(Q, f), closed |-> C]
    <2>1. FC!Pushed(ch, f) = [ch EXCEPT !.place = [P EXCEPT ![f] = "queued"], !.queue = Append(Q, f)]
      BY DEF FC!Pushed
    <2> QED BY <2>1, TwoFields
  <1>3. FC!Popped(ch) = [place |-> [P EXCEPT ![Head(Q)] = "reading"], queue |-> Tail(Q), closed |-> C]
    <2>1. FC!Popped(ch) = [ch EXCEPT !.place = [P EXCEPT ![Head(Q)] = "reading"], !.queue = Tail(Q)]
      BY DEF FC!Popped
    <2> QED BY <2>1, TwoFields
  <1>4. FC!Returned(ch, f) = [place |-> [P EXCEPT ![f] = "free"], queue |-> Q, closed |-> C]
    BY DEF FC!Returned
  <1>5. FC!Closed(ch) = [place |-> P, queue |-> Q, closed |-> TRUE]
    <2>1. \A B : [ch EXCEPT !.closed = B] = [place |-> P, queue |-> Q, closed |-> B]
      OBVIOUS
    <2>2. [ch EXCEPT !.closed = TRUE] = [place |-> P, queue |-> Q, closed |-> TRUE]
      BY <2>1, Zenon
    <2> QED BY <2>2, Zenon DEF FC!Closed
  <1> QED BY <1>1, <1>2, <1>3, <1>4, <1>5

\* borrow() sets the busy flag of a free frame and hands it to the producer.
LEMMA Borrows ==
    ASSUME IInv, IInv', NEW p \in Producers, ProbeFree(p)
    PROVE  \E f \in FC!At(Channel, "free") : Channel' = FC!Borrowed(Channel, f)
  <1> PICK g \in Slots : g = poolHead
    BY DEF IInv, TypeOK
  <1>1. Placed /\ Placed'
    BY PlaceIs, PTL
  <1>2. /\ frame' = [frame EXCEPT ![p] = g] /\ frame \in [Threads -> Slots \cup {Nullptr}]
        /\ p \in Threads /\ frame[p] \notin Slots /\ UNCHANGED <<ring, lent, forceNotify>>
        /\ ~busy[g]
    BY DEF ProbeFree, Become, Threads, IInv, TypeOK, BookOK, ProducerStates
  <1>3. g \in FC!At(Channel, "free")
    BY <1>1, <1>2 DEF FC!At, Channel, Map, Placed, Place
  <1>4. PlaceOf(g)' = "filling"
    <2>1. Filling(g)'
      BY <1>2 DEF Filling
    <2> QED BY <1>1, <1>2, <2>1 DEF Placed, Place
  <1>5. ASSUME NEW f \in Slots \ {g}
        PROVE  /\ Filling(f)' <=> Filling(f)
               /\ InRing(f)' <=> InRing(f)
               /\ Reading(f)' <=> Reading(f)
    <2>1. \A t \in Threads : frame'[t] = f <=> frame[t] = f
      BY <1>2
    <2> QED BY <1>2, <2>1, RingKeeps DEF Filling, Reading, Threads
  <1>6. Map' = [Map EXCEPT ![g] = "filling"]
    BY <1>2, <1>4, <1>5, Moves
  <1>7. Channel' = [place |-> Map', queue |-> QueueSeq, closed |-> forceNotify]
    BY <1>2, RingKeeps DEF Channel
  <1>8. FC!Borrowed(Channel, g) = [place |-> [Map EXCEPT ![g] = "filling"], queue |-> QueueSeq, closed |-> forceNotify]
    BY Operators
  <1> QED BY <1>3, <1>6, <1>7, <1>8, Zenon

\* push() puts the producer's frame at the end of the ring.
LEMMA Pushes ==
    ASSUME IInv, IInv', NEW p \in Producers, Push(p)
    PROVE  \E f \in FC!At(Channel, "filling") : Channel' = FC!Pushed(Channel, f)
  <1>1. Placed /\ Placed'
    BY PlaceIs, PTL
  <1>2. queueSize # Size /\ frame[p] \in Slots
    BY RoomToPush DEF IInv, BookOK, Push
  <1> PICK g \in Slots : g = frame[p]
    BY <1>2
  <1>3. /\ queue' = [queue EXCEPT ![queueHead] = g] /\ queue \in [Slots -> Slots \cup {Nullptr}]
        /\ queueSize' = queueSize + 1 /\ queueTail' = queueTail
        /\ frame' = [frame EXCEPT ![p] = Nullptr] /\ frame \in [Threads -> Slots \cup {Nullptr}]
        /\ p \in Threads /\ UNCHANGED <<lent, forceNotify>>
    BY <1>2 DEF Push, Become, Threads, IInv, TypeOK
  <1>4. /\ queueHead \in Slots /\ ~Live(queueHead)
        /\ \A s \in Slots : Live(s)' <=> Live(s) \/ s = queueHead
    BY <1>2, <1>3, SizeAssumption DEF IInv, TypeOK, BookOK, Live, Slots
  <1>5. g \in FC!At(Channel, "filling")
    <2>1. Filling(g)
      BY DEF Filling
    <2> QED BY <1>1, <2>1 DEF FC!At, Channel, Map, Placed, Place
  <1>6. PlaceOf(g)' = "queued"
    <2>1. InRing(g)'
      BY <1>3, <1>4 DEF InRing
    <2> QED BY <1>1, <2>1 DEF Placed, Place
  <1>7. ASSUME NEW f \in Slots \ {g}
        PROVE  /\ Filling(f)' <=> Filling(f)
               /\ InRing(f)' <=> InRing(f)
               /\ Reading(f)' <=> Reading(f)
    <2>1. \A t \in Threads : frame'[t] = f <=> frame[t] = f
      BY <1>3, SizeAssumption DEF Slots, Nullptr
    <2>2. InRing(f)' <=> InRing(f)
      BY <1>3, <1>4 DEF InRing
    <2> QED BY <1>3, <2>1, <2>2 DEF Filling, Reading, Threads
  <1>8. Map' = [Map EXCEPT ![g] = "queued"]
    BY <1>6, <1>7, Moves
  <1>9. Channel' = [place |-> Map', queue |-> Append(QueueSeq, g), closed |-> forceNotify]
    BY <1>3, PushAppends DEF Channel
  <1>10. FC!Pushed(Channel, g) = [place |-> [Map EXCEPT ![g] = "queued"], queue |-> Append(QueueSeq, g), closed |-> forceNotify]
    BY Operators
  <1> QED BY <1>5, <1>8, <1>9, <1>10, Zenon

\* pop() hands the frame at the head of the ring to the consumer.
LEMMA Pops ==
    ASSUME IInv, IInv', NEW c \in Consumers, PopTakes(c)
    PROVE  FC!CanPop(Channel) /\ Channel' = FC!Popped(Channel)
  <1>1. Placed /\ Placed'
    BY PlaceIs, PTL
  <1> PICK t \in Slots : t = queueTail
    BY DEF IInv, TypeOK
  <1>2. /\ Live(t) /\ ~Live(t)'
        /\ \A s \in Slots : Live(s) <=> Live(s)' \/ s = t
        /\ queue[t] \in Slots
    <2>1. queueSize \in 1 .. Size
      BY SizeAssumption DEF IInv, TypeOK, PopTakes
    <2>2. queueSize' = queueSize - 1 /\ queueTail' = Succ(queueTail)
      BY DEF PopTakes
    <2>3. Live(t) /\ ~Live(t)' /\ \A s \in Slots : Live(s) <=> Live(s)' \/ s = t
      <3>1. \A s \in Slots : Live(s) <=> Live(s)' \/ s = t
        <4> TAKE s \in Slots
        <4>1. CASE queueTail + 1 = Size
          BY <2>1, <2>2, <4>1, SizeAssumption DEF Live, Slots, Succ
        <4>2. CASE queueTail + 1 # Size
          BY <2>1, <2>2, <4>2, SizeAssumption DEF Live, Slots, Succ
        <4> QED BY <4>1, <4>2
      <3>2. ~Live(t)' /\ Live(t)
        BY <2>1, <2>2, SizeAssumption DEF Live, Slots, Succ
      <3> QED BY <2>1, <3>1, <3>2
    <2> QED BY <2>1, <2>3 DEF IInv, BookOK
  <1> PICK g \in Slots : g = queue[t]
    BY <1>2
  <1>3. /\ queue' = queue
        /\ frame' = [frame EXCEPT ![c] = g] /\ frame \in [Threads -> Slots \cup {Nullptr}]
        /\ c \in Threads /\ frame[c] \notin Slots /\ UNCHANGED <<lent, forceNotify>>
    BY DEF PopTakes, AtPredicate, Become, Threads, IInv, TypeOK, BookOK
  <1>4. PlaceOf(g)' = "reading"
    <2>1. Reading(g)'
      BY <1>3 DEF Reading
    <2> QED BY <1>1, <2>1 DEF Placed, Place
  <1>5. ASSUME NEW f \in Slots \ {g}
        PROVE  /\ Filling(f)' <=> Filling(f)
               /\ InRing(f)' <=> InRing(f)
               /\ Reading(f)' <=> Reading(f)
    <2>1. \A u \in Threads : frame'[u] = f <=> frame[u] = f
      BY <1>3
    <2>2. InRing(f)' <=> InRing(f)
      BY <1>2, <1>3 DEF InRing
    <2> QED BY <1>3, <2>1, <2>2 DEF Filling, Reading, Threads
  <1>6. Map' = [Map EXCEPT ![g] = "reading"]
    BY <1>4, <1>5, Moves
  <1>7. Channel' = [place |-> Map', queue |-> Tail(QueueSeq), closed |-> forceNotify]
    BY <1>3, PopTakesHead DEF Channel
  <1>8. FC!Popped(Channel) = [place |-> [Map EXCEPT ![g] = "reading"], queue |-> Tail(QueueSeq), closed |-> forceNotify]
    BY Operators, PopTakesHead
  <1>9. FC!CanPop(Channel)
    BY PopTakesHead DEF FC!CanPop, Channel, PopTakes
  <1> QED BY <1>6, <1>7, <1>8, <1>9, Zenon

\* giveBack() clears the busy flag of a frame that one user had.
LEMMA Returns ==
    ASSUME IInv, IInv', NEW g \in Slots, Filling(g) \/ Reading(g), ~busy'[g],
           UNCHANGED <<ring, forceNotify>>,
           \A f \in Slots \ {g} : (Filling(f)' <=> Filling(f)) /\ (Reading(f)' <=> Reading(f))
    PROVE  \E f \in FC!At(Channel, "filling") \cup FC!At(Channel, "reading") :
              Channel' = FC!Returned(Channel, f)
  <1>1. Placed /\ Placed'
    BY PlaceIs, PTL
  <1>2. g \in FC!At(Channel, "filling") \cup FC!At(Channel, "reading")
    BY <1>1 DEF FC!At, Channel, Map, Placed, Place
  <1>3. PlaceOf(g)' = "free"
    BY <1>1 DEF Placed, Place
  <1>4. Map' = [Map EXCEPT ![g] = "free"]
    BY <1>3, RingKeeps, Moves
  <1>5. Channel' = [place |-> Map', queue |-> QueueSeq, closed |-> forceNotify]
    BY RingKeeps DEF Channel
  <1>6. FC!Returned(Channel, g) = [place |-> [Map EXCEPT ![g] = "free"], queue |-> QueueSeq, closed |-> forceNotify]
    BY Operators
  <1> QED BY <1>2, <1>4, <1>5, <1>6, Zenon

-----------------------------------------------------------------------------
(* Every step                                                              *)

\* A thread lets go of a frame it had, takes none, and no other one moves.
LEMMA LetsGo ==
    ASSUME IInv, NEW t \in Threads, frame' = [frame EXCEPT ![t] = Nullptr], lent' = lent,
           NEW f \in Slots, frame[t] # f
    PROVE  (Filling(f)' <=> Filling(f)) /\ (Reading(f)' <=> Reading(f))
  <1>1. \A u \in Threads : frame'[u] = f <=> frame[u] = f
    BY SizeAssumption DEF IInv, TypeOK, Slots, Nullptr
  <1> QED BY <1>1 DEF Filling, Reading, Threads

\* Nothing is seen of a step in which a thread without a frame stays so.
LEMMA NoFrame ==
    ASSUME IInv, IInv', NEW t \in Threads, frame[t] \notin Slots,
           frame' = [frame EXCEPT ![t] = Nullptr], UNCHANGED <<ring, lent, forceNotify>>
    PROVE  Channel' = Channel
  <1>1. \A f \in Slots : (Filling(f)' <=> Filling(f)) /\ (Reading(f)' <=> Reading(f))
    BY LetsGo
  <1> QED BY <1>1, Stutters

\* A step of the class is one operation of the channel, or nothing.
LEMMA Steps ==
    ASSUME IInv, IInv', [Next]_vars
    PROVE  \/ \E f \in FC!At(Channel, "free") : Channel' = FC!Borrowed(Channel, f)
           \/ \E f \in FC!At(Channel, "filling") : Channel' = FC!Pushed(Channel, f)
           \/ FC!CanPop(Channel) /\ Channel' = FC!Popped(Channel)
           \/ \E f \in FC!At(Channel, "filling") \cup FC!At(Channel, "reading") :
                 Channel' = FC!Returned(Channel, f)
           \/ Channel' = FC!Closed(Channel)
           \/ Channel' = Channel
  <1> DEFINE Borrowing == \E f \in FC!At(Channel, "free") : Channel' = FC!Borrowed(Channel, f)
             Pushing   == \E f \in FC!At(Channel, "filling") : Channel' = FC!Pushed(Channel, f)
             Popping   == FC!CanPop(Channel) /\ Channel' = FC!Popped(Channel)
             Returning == \E f \in FC!At(Channel, "filling") \cup FC!At(Channel, "reading") :
                             Channel' = FC!Returned(Channel, f)
             Closing   == Channel' = FC!Closed(Channel)
             Same      == Channel' = Channel
  <1> SUFFICES Borrowing \/ Pushing \/ Popping \/ Returning \/ Closing \/ Same
    OBVIOUS
  <1>1. ASSUME NEW p \in Producers, ProbeFree(p) PROVE Borrowing
    BY <1>1, Borrows
  <1>2. ASSUME NEW p \in Producers, Push(p) PROVE Pushing
    BY <1>2, Pushes
  <1>3. ASSUME NEW c \in Consumers, PopTakes(c) PROVE Popping
    BY <1>3, Pops
  <1> HIDE DEF Borrowing, Pushing, Popping
  <1>4. ASSUME NEW p \in Producers, GiveBackUnpushed(p) PROVE Returning
    <2>1. p \in Threads /\ frame[p] \in Slots
      BY <1>4 DEF GiveBackUnpushed, Threads, IInv, BookOK
    <2> PICK g \in Slots : g = frame[p]
      BY <2>1
    <2>2. ~busy'[g] /\ UNCHANGED <<ring, lent, forceNotify>> /\ frame' = [frame EXCEPT ![p] = Nullptr]
      BY <1>4 DEF GiveBackUnpushed, Become, IInv, TypeOK
    <2>3. \A f \in Slots \ {g} : (Filling(f)' <=> Filling(f)) /\ (Reading(f)' <=> Reading(f))
      BY <2>1, <2>2, LetsGo
    <2>4. Filling(g)
      BY DEF Filling
    <2> QED BY <2>2, <2>3, <2>4, Returns
  <1>5. ASSUME NEW c \in Consumers, GiveBack(c) PROVE Returning
    <2>1. c \in Threads /\ frame[c] \in Slots
      BY <1>5 DEF GiveBack, Threads, IInv, BookOK
    <2> PICK g \in Slots : g = frame[c]
      BY <2>1
    <2>2. ~busy'[g] /\ UNCHANGED <<ring, lent, forceNotify>> /\ frame' = [frame EXCEPT ![c] = Nullptr]
      BY <1>5 DEF GiveBack, Become, IInv, TypeOK
    <2>3. \A f \in Slots \ {g} : (Filling(f)' <=> Filling(f)) /\ (Reading(f)' <=> Reading(f))
      BY <2>1, <2>2, LetsGo
    <2>4. Reading(g)
      BY DEF Reading
    <2> QED BY <2>2, <2>3, <2>4, Returns
  <1>6. ASSUME NEW g \in Slots, ReleaseLent(g) PROVE Returning
    <2>1. ~busy'[g] /\ UNCHANGED <<ring, frame, forceNotify>> /\ lent' = lent \ {g} /\ g \in lent
      BY <1>6 DEF ReleaseLent, caller, IInv, TypeOK
    <2>2. \A f \in Slots \ {g} : (Filling(f)' <=> Filling(f)) /\ (Reading(f)' <=> Reading(f))
      BY <2>1 DEF Filling, Reading
    <2>3. Reading(g)
      BY <2>1 DEF Reading
    <2> QED BY <2>1, <2>2, <2>3, Returns
  <1> HIDE DEF Returning
  <1>7. ASSUME ForceNotify PROVE Closing
    <2>1. UNCHANGED <<ring, frame, lent>> /\ forceNotify' = TRUE
      BY <1>7 DEF ForceNotify, caller
    <2>2. \A f \in Slots : (Filling(f)' <=> Filling(f)) /\ (Reading(f)' <=> Reading(f))
      BY <2>1 DEF Filling, Reading
    <2>3. Map' = Map
      <3>1. \A f \in Slots : PlaceOf(f)' = PlaceOf(f)
        BY <2>1, <2>2, Stays, RingKeeps
      <3> QED BY <3>1 DEF Map, Slots
    <2>4. Channel' = [place |-> Map, queue |-> QueueSeq, closed |-> TRUE]
      BY <2>1, <2>3, RingKeeps, Zenon DEF Channel
    <2>5. FC!Closed(Channel) = [place |-> Map, queue |-> QueueSeq, closed |-> TRUE]
      BY Operators
    <2> QED BY <2>4, <2>5, Zenon
  <1>8. ASSUME NEW p \in Producers,
               BorrowLock(p) \/ BorrowThrows(p) \/ SkipInput(p) \/ NotifyOne(p)
        PROVE  Same
    <2>1. p \in Threads /\ frame[p] \notin Slots /\ UNCHANGED <<ring, lent, forceNotify>>
      BY <1>8 DEF BorrowLock, BorrowThrows, SkipInput, NotifyOne, Threads, IInv, BookOK
    <2>2. frame' = [frame EXCEPT ![p] = Nullptr]
      BY <1>8 DEF BorrowLock, BorrowThrows, SkipInput, NotifyOne, Become
    <2> QED BY <2>1, <2>2, NoFrame
  <1>9. ASSUME NEW c \in Consumers, PopWaits(c) \/ PopThrows(c) PROVE Same
    <2>1. c \in Threads /\ frame[c] \notin Slots /\ UNCHANGED <<ring, lent, forceNotify>>
      BY <1>9 DEF PopWaits, PopThrows, AtPredicate, Threads, IInv, BookOK
    <2>2. frame' = [frame EXCEPT ![c] = Nullptr]
      BY <1>9 DEF PopWaits, PopThrows, Become
    <2> QED BY <2>1, <2>2, NoFrame
  <1>10. ASSUME NEW c \in Consumers, Lend(c) PROVE Same
    <2>1. c \in Threads /\ frame[c] \in Slots
      BY <1>10 DEF Lend, Threads, IInv, BookOK
    <2> PICK g \in Slots : g = frame[c]
      BY <2>1
    <2>2. UNCHANGED <<ring, forceNotify>> /\ lent' = lent \cup {g} /\ frame' = [frame EXCEPT ![c] = Nullptr]
      BY <1>10 DEF Lend, Become
    <2>3. \A t \in Threads : frame'[t] = IF t = c THEN Nullptr ELSE frame[t]
      BY <2>2 DEF IInv, TypeOK
    <2>4. ASSUME NEW f \in Slots
          PROVE  (Filling(f)' <=> Filling(f)) /\ (Reading(f)' <=> Reading(f))
      <3>1. Filling(f)' <=> Filling(f)
        BY <2>3, ThreadsAssumption DEF Filling, Threads
      <3>2. f # Nullptr
        BY SizeAssumption DEF Slots, Nullptr
      <3>3. Reading(f)' <=> Reading(f)
        BY <2>2, <2>3, <3>2 DEF Reading, Threads
      <3> QED BY <3>1, <3>3
    <2> QED BY <2>2, <2>4, Stutters
  <1>11. ASSUME UNCHANGED <<ring, frame, lent, forceNotify>> PROVE Same
    BY <1>11, Stutters DEF Filling, Reading
  <1>12. ASSUME NEW p \in Producers, ProbeBusy(p) PROVE Same
    BY <1>11, <1>12 DEF ProbeBusy, caller
  <1>13. ASSUME NEW c \in Consumers, SpuriousWakeup(c) PROVE Same
    BY <1>11, <1>13 DEF SpuriousWakeup, caller
  <1>14. CASE UNCHANGED vars
    BY <1>11, <1>14 DEF vars, caller
  <1> QED
    BY <1>1, <1>2, <1>3, <1>4, <1>5, <1>6, <1>7, <1>8, <1>9, <1>10, <1>12, <1>13, <1>14
       DEF Next, ProducerStep, ConsumerStep, PopStep

\* The constructor makes a new channel.
LEMMA InitChannel == Init => Channel = FC!NewChannel
  <1> SUFFICES ASSUME Init PROVE Channel = FC!NewChannel
    OBVIOUS
  <1>1. Map = [f \in Slots |-> "free"]
    BY InitIInv, PlaceIs DEF Placed, Place, Init, Map
  <1>2. QueueSeq = << >>
    <2>1. SeqOfRing /\ queueSize = 0
      BY InitIInv, RingIsSeq DEF Init
    <2> QED BY <2>1, EmptySeq DEF SeqOfRing
  <1> QED BY <1>1, <1>2, Zenon DEF Init, Channel, FC!NewChannel

(***************************************************************************)
(* FrameBuffer.cpp implements FrameChannel, but for the fairness that      *)
(* ImplementsChannel adds: whatever the interleaving of borrow(), push(),  *)
(* pop(), giveBack() and forceNotify(), their users see frames that are    *)
(* each in one place and a FIFO that loses and duplicates none.            *)
(***************************************************************************)
THEOREM ClassIsChannel == Spec => FC!Safety
  <1>1. Init => FC!Init
    BY InitChannel DEF FC!Init, Channel, Map
  <1>2. IInv /\ IInv' /\ [Next]_vars
           => [FC!Next]_[place  |-> [f \in Slots |-> PlaceOf(f)],
                         queue  |-> QueueSeq,
                         closed |-> forceNotify]
    BY Steps DEF FC!Next, FC!Borrow, FC!Push, FC!Pop, FC!GiveBack, FC!Close, Channel, Map
  <1> QED BY <1>1, <1>2, Invariance, PTL DEF Spec, FC!Safety
=============================================================================
