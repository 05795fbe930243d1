----------------------------- MODULE FrameBuffer -----------------------------
(***************************************************************************)
(* sw/vision_core/src/FrameBuffer.cpp and Frame.cpp: the pool of frames    *)
(* and the ring of frame pointers that link the capture thread to the      *)
(* processor and the processor to the tx thread, together with the way     *)
(* those threads call it.                                                  *)
(*                                                                         *)
(* push(), pop() and forceNotify() touch only fields guarded by m_mutex,   *)
(* so each critical section is one step, taken when the mutex is free.     *)
(* borrow() is different: it reads m_isBusy, which giveBack() clears       *)
(* without the mutex, so every probe of its scan is a step of its own.     *)
(* notify_one() in push() comes after the unlock and is a step of its own. *)
(***************************************************************************)
EXTENDS Integers, FiniteSets, Sequences

CONSTANTS
    Size,          \* m_size: slots of the pool and of the queue
    Producers,     \* threads that borrow() and push()
    Consumers,     \* threads that pop()
    NoThread       \* nobody holds m_mutex

ASSUME SizeAssumption    == Size \in Nat \ {0}
ASSUME ThreadsAssumption ==
    /\ Producers \cap Consumers = {}
    /\ NoThread \notin Producers \cup Consumers
ASSUME FiniteAssumption  == IsFiniteSet(Producers) /\ IsFiniteSet(Consumers)

Slots    == 0 .. Size - 1              \* indices of m_pool and of m_queue
Nullptr  == -1
Threads  == Producers \cup Consumers

VARIABLES
    \* Fields of the class.
    busy,          \* Frame::m_isBusy of every pool frame
    poolHead,      \* m_poolHead
    queue,         \* m_queue: slot -> frame index or Nullptr
    queueHead,     \* m_queueHead
    queueTail,     \* m_queueTail
    queueSize,     \* m_queueSize
    forceNotify,   \* m_forceNotify
    owner,         \* the thread that holds m_mutex inside borrow()
    waiting,       \* threads asleep on m_cv
    \* The callers.
    pc,            \* where each thread is
    frame,         \* the frame pointer each thread holds, or Nullptr
    probes,        \* loop counter i of borrow()
    lent,          \* popped frames GStreamer holds until its destroy callback
    \* History.
    freeAtLock     \* frames that were free when borrow() took the mutex

pool   == <<busy, poolHead>>
ring   == <<queue, queueHead, queueTail, queueSize>>
caller == <<pc, frame>>
scan   == <<owner, probes, freeAtLock>>
vars   == <<pool, ring, forceNotify, waiting, caller, scan, lent>>

ProducerStates == {"ready", "scanning", "exhausted", "filling", "full", "notify"}
ConsumerStates == {"ready", "asleep", "reading", "stopped"}

TypeOK ==
    /\ busy \in [Slots -> BOOLEAN]
    /\ poolHead \in Slots
    /\ queue \in [Slots -> Slots \cup {Nullptr}]
    /\ queueHead \in Slots
    /\ queueTail \in Slots
    /\ queueSize \in 0 .. Size
    /\ forceNotify \in BOOLEAN
    /\ owner \in Producers \cup {NoThread}
    /\ waiting \subseteq Consumers
    /\ pc \in [Threads -> ProducerStates \cup ConsumerStates]
    /\ \A p \in Producers : pc[p] \in ProducerStates
    /\ \A c \in Consumers : pc[c] \in ConsumerStates
    /\ frame \in [Threads -> Slots \cup {Nullptr}]
    /\ probes \in 0 .. Size
    /\ lent \subseteq Slots
    /\ freeAtLock \subseteq Slots

Init ==
    /\ busy = [f \in Slots |-> FALSE]
    /\ poolHead = 0
    /\ queue = [s \in Slots |-> Nullptr]
    /\ queueHead = 0
    /\ queueTail = 0
    /\ queueSize = 0
    /\ forceNotify = FALSE
    /\ owner = NoThread
    /\ waiting = {}
    /\ pc = [t \in Threads |-> "ready"]
    /\ frame = [t \in Threads |-> Nullptr]
    /\ probes = 0
    /\ lent = {}
    /\ freeAtLock = {}

\* Thread t goes to state `at` holding frame f.
Become(t, at, f) ==
    /\ pc'    = [pc EXCEPT ![t] = at]
    /\ frame' = [frame EXCEPT ![t] = f]

\* Mutant of Succ: the modulo is missing.
SuccNoWrap(s) == s + 1

Succ(s) == IF s + 1 = Size THEN 0 ELSE s + 1     \* (s + 1) % m_size

MutexFree == owner = NoThread

-----------------------------------------------------------------------------
(* borrow()                                                                *)

\* Mutant of BorrowLock: the loop counts from 1.
BorrowLockFromOne(p) ==
    /\ pc[p] = "ready"
    /\ MutexFree
    /\ owner' = p
    /\ probes' = 1
    /\ freeAtLock' = {f \in Slots : ~busy[f]}
    /\ Become(p, "scanning", Nullptr)
    /\ UNCHANGED <<pool, ring, forceNotify, waiting, lent>>

BorrowLock(p) ==
    /\ pc[p] = "ready"
    /\ MutexFree
    /\ owner' = p
    /\ probes' = 0
    /\ freeAtLock' = {f \in Slots : ~busy[f]}
    /\ Become(p, "scanning", Nullptr)
    /\ UNCHANGED <<pool, ring, forceNotify, waiting, lent>>

\* The locals of borrow() end with the call.
BorrowUnlock == owner' = NoThread /\ probes' = 0 /\ freeAtLock' = {}

\* Mutant of ProbeFree: setBusy() is missing.
ProbeFreeNotBusy(p) ==
    /\ pc[p] = "scanning"
    /\ probes < Size
    /\ ~busy[poolHead]
    /\ poolHead' = Succ(poolHead)
    /\ BorrowUnlock
    /\ Become(p, "filling", poolHead)
    /\ UNCHANGED <<busy, ring, forceNotify, waiting, lent>>

\* One turn of the loop finds the frame at m_poolHead free and takes it ...
ProbeFree(p) ==
    /\ pc[p] = "scanning"
    /\ probes < Size
    /\ ~busy[poolHead]
    /\ busy' = [busy EXCEPT ![poolHead] = TRUE]
    /\ poolHead' = Succ(poolHead)
    /\ BorrowUnlock
    /\ Become(p, "filling", poolHead)
    /\ UNCHANGED <<ring, forceNotify, waiting, lent>>

\* ... or finds it busy and moves on.
ProbeBusy(p) ==
    /\ pc[p] = "scanning"
    /\ probes < Size
    /\ busy[poolHead]
    /\ poolHead' = Succ(poolHead)
    /\ probes' = probes + 1
    /\ UNCHANGED <<busy, ring, forceNotify, waiting, caller, owner, freeAtLock, lent>>

\* throw ExceptionPoolExhausted
BorrowThrows(p) ==
    /\ pc[p] = "scanning"
    /\ probes = Size
    /\ BorrowUnlock
    /\ Become(p, "exhausted", Nullptr)
    /\ UNCHANGED <<pool, ring, forceNotify, waiting, lent>>

\* The caller skips this input and comes back with the next one.
SkipInput(p) ==
    /\ pc[p] = "exhausted"
    /\ Become(p, "ready", Nullptr)
    /\ UNCHANGED <<pool, ring, forceNotify, waiting, scan, lent>>

-----------------------------------------------------------------------------
(* push()                                                                  *)

\* If m_queueSize = m_size it throws ExceptionQueueFull and the producer still
\* has the frame.
Push(p) ==
    /\ pc[p] = "filling"
    /\ MutexFree
    /\ IF queueSize = Size
       THEN /\ Become(p, "full", frame[p])
            /\ UNCHANGED ring
       ELSE /\ queue' = [queue EXCEPT ![queueHead] = frame[p]]
            /\ queueHead' = Succ(queueHead)
            /\ queueSize' = queueSize + 1
            /\ Become(p, "notify", Nullptr)
            /\ UNCHANGED queueTail
    /\ UNCHANGED <<pool, forceNotify, waiting, scan, lent>>

\* Mutant of NotifyOne: notify only when the queue was empty before the push.
NotifyOneIfFirst(p) ==
    /\ pc[p] = "notify"
    /\ \/ (waiting = {} \/ queueSize # 1) /\ UNCHANGED waiting
       \/ queueSize = 1 /\ \E c \in waiting : waiting' = waiting \ {c}
    /\ Become(p, "ready", Nullptr)
    /\ UNCHANGED <<pool, ring, forceNotify, scan, lent>>

\* m_cv.notify_one(), after the unlock: wakes some sleeper, if there is one.
NotifyOne(p) ==
    /\ pc[p] = "notify"
    /\ \/ waiting = {} /\ UNCHANGED waiting
       \/ \E c \in waiting : waiting' = waiting \ {c}
    /\ Become(p, "ready", Nullptr)
    /\ UNCHANGED <<pool, ring, forceNotify, scan, lent>>

\* giveBack() of a frame that was not pushed: the queue was full, or the
\* capture device had no image to put in it.
GiveBackUnpushed(p) ==
    /\ pc[p] \in {"full", "filling"}
    /\ busy' = [busy EXCEPT ![frame[p]] = FALSE]
    /\ Become(p, "ready", Nullptr)
    /\ UNCHANGED <<poolHead, ring, forceNotify, waiting, scan, lent>>

-----------------------------------------------------------------------------
(* pop()                                                                   *)

\* c runs inside pop() when the mutex is free: it called it, or it was woken.
AtPredicate(c) ==
    /\ MutexFree
    /\ pc[c] = "ready" \/ (pc[c] = "asleep" /\ c \notin waiting)

PopWaits(c) ==
    /\ AtPredicate(c)
    /\ queueSize = 0
    /\ ~forceNotify
    /\ waiting' = waiting \cup {c}
    /\ Become(c, "asleep", Nullptr)
    /\ UNCHANGED <<pool, ring, forceNotify, scan, lent>>

\* Mutant of PopTakes: m_queueSize is not decremented.
PopTakesUncounted(c) ==
    /\ AtPredicate(c)
    /\ queueSize # 0
    /\ ~forceNotify
    /\ queueTail' = Succ(queueTail)
    /\ Become(c, "reading", queue[queueTail])
    /\ UNCHANGED <<pool, queue, queueHead, queueSize, forceNotify, waiting, scan, lent>>

\* Mutant of PopTakes: the newest frame instead of the oldest.
PopTakesNewest(c) ==
    /\ AtPredicate(c)
    /\ queueSize # 0
    /\ ~forceNotify
    /\ queueHead' = IF queueHead = 0 THEN Size - 1 ELSE queueHead - 1
    /\ queueSize' = queueSize - 1
    /\ Become(c, "reading", queue[queueHead'])
    /\ UNCHANGED <<pool, queue, queueTail, forceNotify, waiting, scan, lent>>

PopTakes(c) ==
    /\ AtPredicate(c)
    /\ queueSize # 0
    /\ ~forceNotify
    /\ queueTail' = Succ(queueTail)
    /\ queueSize' = queueSize - 1
    /\ Become(c, "reading", queue[queueTail])
    /\ UNCHANGED <<pool, queue, queueHead, forceNotify, waiting, scan, lent>>

\* throw ExceptionQueueEmpty: the caller leaves its loop.
PopThrows(c) ==
    /\ AtPredicate(c)
    /\ forceNotify
    /\ Become(c, "stopped", Nullptr)
    /\ UNCHANGED <<pool, ring, forceNotify, waiting, scan, lent>>

\* std::condition_variable may wake a sleeper for no reason.
SpuriousWakeup(c) ==
    /\ c \in waiting
    /\ waiting' = waiting \ {c}
    /\ UNCHANGED <<pool, ring, forceNotify, caller, scan, lent>>

-----------------------------------------------------------------------------
(* giveBack(), without the mutex, and forceNotify()                        *)

GiveBack(c) ==
    /\ pc[c] = "reading"
    /\ busy' = [busy EXCEPT ![frame[c]] = FALSE]
    /\ Become(c, "ready", Nullptr)
    /\ UNCHANGED <<poolHead, ring, forceNotify, waiting, scan, lent>>

\* The tx thread wraps the frame in a GstBuffer and goes on without it.
Lend(c) ==
    /\ pc[c] = "reading"
    /\ lent' = lent \cup {frame[c]}
    /\ Become(c, "ready", Nullptr)
    /\ UNCHANGED <<pool, ring, forceNotify, waiting, scan>>

\* GStreamer runs the destroy callback of a buffer.
ReleaseLent(f) ==
    /\ f \in lent
    /\ busy' = [busy EXCEPT ![f] = FALSE]
    /\ lent' = lent \ {f}
    /\ UNCHANGED <<poolHead, ring, forceNotify, waiting, caller, scan>>

\* Mutant of ForceNotify: notify_all() is missing.
ForceNotifyNobody ==
    /\ MutexFree
    /\ forceNotify' = TRUE
    /\ UNCHANGED <<pool, ring, waiting, caller, scan, lent>>

\* Called by Processor::stop() and Streamer::stop(); never undone.
ForceNotify ==
    /\ MutexFree
    /\ forceNotify' = TRUE
    /\ waiting' = {}
    /\ UNCHANGED <<pool, ring, caller, scan, lent>>

-----------------------------------------------------------------------------
ProducerStep(p) ==
    \/ BorrowLock(p) \/ ProbeFree(p) \/ ProbeBusy(p) \/ BorrowThrows(p)
    \/ SkipInput(p)
    \/ Push(p) \/ NotifyOne(p) \/ GiveBackUnpushed(p)

PopStep(c) == PopWaits(c) \/ PopTakes(c) \/ PopThrows(c)

ConsumerStep(c) == PopStep(c) \/ GiveBack(c) \/ Lend(c)

Next ==
    \/ \E p \in Producers : ProducerStep(p)
    \/ \E c \in Consumers : ConsumerStep(c) \/ SpuriousWakeup(c)
    \/ \E f \in Slots : ReleaseLent(f)
    \/ ForceNotify

Spec == Init /\ [][Next]_vars

(***************************************************************************)
(* Every thread keeps running: once in borrow() or push() a producer gets  *)
(* to the end, a consumer gets the mutex although producers take it over   *)
(* and over (the mutex is fair enough), and it gives back or lends what it *)
(* popped.  Nothing makes a producer borrow, GStreamer release or anyone   *)
(* call forceNotify().                                                     *)
(***************************************************************************)
Fairness ==
    /\ \A p \in Producers :
          WF_vars(ProducerStep(p) /\ pc[p] \notin {"ready", "exhausted", "filling"})
    /\ \A c \in Consumers :
          SF_vars(PopStep(c)) /\ WF_vars(GiveBack(c) \/ Lend(c))

FairSpec == Spec /\ Fairness

-----------------------------------------------------------------------------
(* Properties                                                              *)

\* The slots of the ring from m_queueTail on, in the order pop() takes them.
QueueSeq == [k \in 1 .. queueSize |-> queue[(queueTail + k - 1) % Size]]
Live(s)  == \/ s \in queueTail .. queueTail + queueSize - 1
            \/ s + Size \in queueTail .. queueTail + queueSize - 1
Queued   == {queue[s] : s \in {r \in Slots : Live(r)}}
Held     == {frame[t] : t \in Threads} \ {Nullptr}

(***************************************************************************)
(* A frame is in one place only: a thread holds it, the ring has it once,  *)
(* GStreamer has it, or it is free to be borrowed; and a busy frame is     *)
(* never lost by everyone.  Otherwise two threads would write and read the *)
(* same image, or the pool would shrink for good.                          *)
(***************************************************************************)
FramesInOnePlace ==
    /\ \A t, u \in Threads : t # u /\ frame[t] # Nullptr => frame[t] # frame[u]
    /\ \A r, s \in Slots : Live(r) /\ Live(s) /\ r # s => queue[r] # queue[s]
    /\ Held \cap Queued = {}
    /\ Held \cap lent = {}
    /\ Queued \cap lent = {}
    /\ Held \cup Queued \cup lent = {f \in Slots : busy[f]}

(***************************************************************************)
(* push() of a borrowed frame never throws ExceptionQueueFull: the ring    *)
(* has as many slots as the pool has frames, so the handlers of that       *)
(* exception in Capturer.cpp and Processor.cpp never run.                  *)
(***************************************************************************)
QueueNeverFull == \A p \in Producers : pc[p] # "full"

(***************************************************************************)
(* borrow() throws ExceptionPoolExhausted only if at one instant, when it  *)
(* took the mutex, no frame was free: frames given back behind its scan do *)
(* not make it fail while the pool had something all along.                *)
(***************************************************************************)
ExhaustedOnlyIfNoneFree == probes = Size => freeAtLock = {}

(***************************************************************************)
(* No lost wakeup: while some consumer sleeps in pop(), every queued frame *)
(* has a notify_one() still to come or a woken consumer on its way.        *)
(***************************************************************************)
Notifying == {p \in Producers : pc[p] = "notify"}
Woken     == {c \in Consumers : pc[c] = "asleep" /\ c \notin waiting}

NoLostWakeup ==
    waiting # {} => queueSize <= Cardinality(Notifying) + Cardinality(Woken)

\* After forceNotify() every thread that pops leaves its loop, so that the
\* join() in Processor::stop() and Streamer::stop() returns.
ForceNotifyStopsConsumers ==
    forceNotify ~> \A c \in Consumers : pc[c] = "stopped"

(***************************************************************************)
(* The class implements the channel: same frames in the same places, FIFO  *)
(* order, and what is queued is eventually popped unless forceNotify()     *)
(* closes the channel.                                                     *)
(***************************************************************************)
PlaceOf(f) == CASE ~busy[f]                            -> "free"
                [] \E p \in Producers : frame[p] = f   -> "filling"
                [] f \in Queued                        -> "queued"
                [] OTHER                               -> "reading"

FC == INSTANCE FrameChannel
         WITH Pool <- Slots,
              chan <- [place  |-> [f \in Slots |-> PlaceOf(f)],
                       queue  |-> QueueSeq,
                       closed |-> forceNotify]

ImplementsChannel == FC!Spec
=============================================================================
