-------------------------- MODULE CameraDriver_proofs --------------------------
(***************************************************************************)
(* Proofs about CameraDriver for any set of buffers, any number of         *)
(* sessions and loads, and every interleaving of ioctls, callback,         *)
(* watchdog and hardware.                                                  *)
(***************************************************************************)
EXTENDS CameraDriver, FiniteSetTheorems, SequenceTheorems, TLAPS

-----------------------------------------------------------------------------
(* The inductive invariant                                                 *)

\* No element comes twice; no buffer comes twice.
Once(s)     == \A j, k \in 1 .. Len(s) : j # k => s[j] # s[k]
OncePerBuf(s) == \A j, k \in 1 .. Len(s) : j # k => s[j].buf # s[k].buf

Prefix(n) == {Parts[k] : k \in 1 .. n}

\* What is registered is a prefix of the parts, and a channel needs the first.
ModuleOK ==
    /\ modulePc = "out"      => registered = {}
    /\ modulePc = "init"     => \E n \in 0 .. Len(Parts) - 1 : registered = Prefix(n)
    /\ modulePc = "in"       => registered = Prefix(Len(Parts))
    /\ modulePc = "teardown" => registered = Prefix(teardown)
    /\ chan => "dma" \in registered

Resting  == ~started \/ ioctlPc \in {"start", "return", "cancel"}
Stopping == {"release", "terminate", "destroy", "return", "cancel"}

\* What each place in the ioctls says of the stream.
PhaseOK ==
    /\ modulePc # "in" => ioctlPc = "idle" /\ ~started /\ \A b \in Buffers : owner[b] = "user"
    /\ streaming <=> started /\ ioctlPc \notin Stopping \cup {"start"}
    /\ ioctlPc \notin {"idle", "cancel"} => started
    /\ Resting => engine = << >> /\ workqueue = << >> /\ cbPc = "idle"
    /\ ~started \/ ioctlPc = "cancel" => parked = << >> /\ active = << >> /\ rejected = {}
    /\ started => vbQueue = << >>
    /\ ioctlPc = "start" => active = << >> /\ rejected = {} /\ streamSeq < MaxSessions
    /\ ioctlPc \in {"qbuf submit", "start submit"} <=> ioctlBuf # NoBuffer
    /\ chan /\ ioctlPc \notin {"terminate", "destroy"} => ~stopping
    /\ streaming => chan

\* What each place in the callback says of its work item.
CallbackOK ==
    /\ cbPc = "idle" => cbWork = NoWork
    /\ cbPc # "idle" => cbWork \in Completions
    /\ cbPc = "resubmit" => ~cbWork.ok
    /\ cbPc \in {"take", "done"} => cbWork.ok

\* DriverBuffersAccounted, buffer by buffer.
ListsOnce ==
    /\ Once(parked) /\ Once(active) /\ Once(vbQueue)
    /\ Elements(parked) \cap Elements(active) = {}
    /\ Lists \cap CbHolds = {}

OwnersOK ==
    \A b \in Buffers :
        /\ queued[b] <=> b \in Lists
        /\ owner[b] = "driver" <=> b \in Lists \/ b \in CbHolds
        /\ owner[b] = "queued" <=> b \in Elements(vbQueue)

\* The buffer an ioctl has put on active_list and not yet submitted.
Waiting == IF ioctlPc \in {"qbuf submit", "start submit"} THEN {ioctlBuf} ELSE {}

\* A buffer on active_list is in one of five places ...
PlacesApart ==
    /\ OncePerBuf(engine) /\ OncePerBuf(workqueue)
    /\ InFlight \cup Completed \cup InWork \cup Waiting \cup rejected \subseteq Elements(active)
    /\ InFlight \cap Completed = {} /\ InFlight \cap InWork = {} /\ InFlight \cap Waiting = {}
    /\ InFlight \cap rejected = {} /\ Completed \cap InWork = {} /\ Completed \cap Waiting = {}
    /\ Completed \cap rejected = {} /\ InWork \cap Waiting = {} /\ InWork \cap rejected = {}
    /\ Waiting \cap rejected = {}

\* ... and while streaming not in none.
ActiveCovered ==
    streaming => Elements(active) \subseteq InFlight \cup Completed \cup InWork
                                     \cup Waiting \cup rejected

\* What the DMA and the workqueue have is not stale.
SeqsOK == \A d \in Elements(engine) \cup Elements(workqueue) : d.seq = bufSeq[d.buf]

\* What is reported as a whole frame is one and is not written to again.
ImageOK ==
    ~IgnoreResidue =>
        /\ \A w \in Elements(workqueue) : w.ok => image[w.buf] = "full"
        /\ cbPc # "idle" /\ cbWork.ok => image[cbWork.buf] = "full"
        /\ \A b \in Buffers : owner[b] = "done" => image[b] = "full"

IInv == TypeOK /\ ModuleOK /\ PhaseOK /\ CallbackOK /\ ListsOnce /\ OwnersOK
        /\ PlacesApart /\ ActiveCovered /\ SeqsOK /\ ImageOK

-----------------------------------------------------------------------------
(* Lists and queues, as sets                                               *)

LEMMA EmptyFacts ==
    Elements(<< >>) = {} /\ Bufs(<< >>) = {} /\ Once(<< >>) /\ OncePerBuf(<< >>)
  BY DEF Elements, Bufs, Once, OncePerBuf

\* A buffer is in a queue exactly if a descriptor of it is.
LEMMA BufsOfElements ==
    ASSUME NEW s
    PROVE  Bufs(s) = {d.buf : d \in Elements(s)}
  BY DEF Bufs, Elements

LEMMA MembersFacts ==
    ASSUME NEW S, NEW s \in Seq(S)
    PROVE  Elements(s) \subseteq S
  BY ElementOfSeq DEF Elements

LEMMA AppendFacts ==
    ASSUME NEW S, NEW s \in Seq(S), NEW e \in S
    PROVE  /\ Append(s, e) \in Seq(S)
           /\ Elements(Append(s, e)) = Elements(s) \cup {e}
           /\ Bufs(Append(s, e)) = Bufs(s) \cup {e.buf}
           /\ Once(s) /\ e \notin Elements(s) => Once(Append(s, e))
           /\ OncePerBuf(s) /\ e.buf \notin Bufs(s) => OncePerBuf(Append(s, e))
  <1> DEFINE t == Append(s, e)
  <1>1. /\ t \in Seq(S) /\ Len(t) = Len(s) + 1 /\ Len(s) \in Nat
        /\ t[Len(s) + 1] = e /\ \A k \in 1 .. Len(s) : t[k] = s[k]
    BY AppendProperties, LenProperties
  <1> HIDE DEF t
  <1>2. Elements(t) = Elements(s) \cup {e}
    BY <1>1 DEF Elements
  <1>3. Bufs(t) = Bufs(s) \cup {e.buf}
    BY <1>1 DEF Bufs
  <1>4. Once(s) /\ e \notin Elements(s) => Once(t)
    BY <1>1 DEF Once, Elements
  <1>5. OncePerBuf(s) /\ e.buf \notin Bufs(s) => OncePerBuf(t)
    BY <1>1 DEF OncePerBuf, Bufs
  <1> QED
    BY <1>1, <1>2, <1>3, <1>4, <1>5 DEF t

LEMMA TailFacts ==
    ASSUME NEW S, NEW s \in Seq(S), s # << >>
    PROVE  /\ Tail(s) \in Seq(S) /\ Head(s) \in S
           /\ Head(s) \in Elements(s) /\ Head(s).buf \in Bufs(s)
           /\ Elements(Tail(s)) \subseteq Elements(s)
           /\ Once(s) => Once(Tail(s)) /\ Elements(Tail(s)) = Elements(s) \ {Head(s)}
           /\ OncePerBuf(s) => OncePerBuf(Tail(s)) /\ Bufs(Tail(s)) = Bufs(s) \ {Head(s).buf}
  <1> DEFINE t == Tail(s)
  <1>1. /\ t \in Seq(S) /\ Len(s) \in Nat \ {0} /\ Len(t) = Len(s) - 1
        /\ Head(s) = s[1] /\ Head(s) \in S
        /\ \A k \in 1 .. Len(t) : t[k] = s[k + 1]
    BY HeadTailProperties, EmptySeq, LenProperties
  <1> HIDE DEF t
  <1>2. \A k \in 1 .. Len(s) : k = 1 \/ (k - 1 \in 1 .. Len(t) /\ s[k] = t[k - 1])
    BY <1>1
  <1>3. Head(s) \in Elements(s) /\ Head(s).buf \in Bufs(s) /\ Elements(t) \subseteq Elements(s)
    BY <1>1 DEF Elements, Bufs
  <1>4. Once(s) => Once(t)
    BY <1>1 DEF Once
  <1>5. OncePerBuf(s) => OncePerBuf(t)
    BY <1>1 DEF OncePerBuf
  <1>6. ASSUME Once(s) PROVE Elements(t) = Elements(s) \ {Head(s)}
    <2>1. \A k \in 1 .. Len(t) : t[k] # s[1]
      BY <1>1, <1>6 DEF Once
    <2> QED
      BY <1>1, <1>2, <2>1 DEF Elements
  <1>7. ASSUME OncePerBuf(s) PROVE Bufs(t) = Bufs(s) \ {Head(s).buf}
    <2>1. \A k \in 1 .. Len(t) : t[k].buf # s[1].buf
      BY <1>1, <1>7 DEF OncePerBuf
    <2> QED
      BY <1>1, <1>2, <2>1 DEF Bufs
  <1> QED
    BY <1>1, <1>3, <1>4, <1>5, <1>6, <1>7 DEF t

LEMMA ConcatFacts ==
    ASSUME NEW S, NEW s \in Seq(S), NEW t \in Seq(S)
    PROVE  Elements(s \o t) = Elements(s) \cup Elements(t)
  <1> DEFINE u == s \o t
  <1>1. /\ Len(s) \in Nat /\ Len(t) \in Nat /\ Len(u) = Len(s) + Len(t)
        /\ \A k \in 1 .. Len(s) + Len(t) : u[k] = IF k <= Len(s) THEN s[k] ELSE t[k - Len(s)]
    BY ConcatProperties, LenProperties
  <1> HIDE DEF u
  <1>2. \A k \in 1 .. Len(s) : k \in 1 .. Len(u) /\ u[k] = s[k]
    BY <1>1
  <1>3. \A k \in 1 .. Len(t) : k + Len(s) \in 1 .. Len(u) /\ u[k + Len(s)] = t[k]
    BY <1>1
  <1>4. \A k \in 1 .. Len(u) : \/ k \in 1 .. Len(s) /\ u[k] = s[k]
                               \/ k - Len(s) \in 1 .. Len(t) /\ u[k] = t[k - Len(s)]
    BY <1>1
  <1>5. Elements(s) \subseteq Elements(u) /\ Elements(t) \subseteq Elements(u)
    BY <1>2, <1>3 DEF Elements
  <1>6. Elements(u) \subseteq Elements(s) \cup Elements(t)
    BY <1>4 DEF Elements
  <1> QED
    BY <1>5, <1>6 DEF u

LEMMA WithoutFacts ==
    ASSUME NEW S, NEW s \in Seq(S), Once(s), NEW b \in Elements(s)
    PROVE  /\ Without(s, b) \in Seq(S)
           /\ Once(Without(s, b))
           /\ Elements(Without(s, b)) = Elements(s) \ {b}
  <1> DEFINE at == CHOOSE k \in 1 .. Len(s) : s[k] = b
             t  == [k \in 1 .. Len(s) - 1 |-> IF k < at THEN s[k] ELSE s[k + 1]]
  <1>1. at \in 1 .. Len(s) /\ s[at] = b
    BY DEF Elements
  <1>2. t = Without(s, b)
    BY DEF Without
  <1> HIDE DEF at
  <1>3. Len(s) \in Nat \ {0} /\ \A k \in 1 .. Len(s) : s[k] \in S
    BY <1>1, LenProperties, ElementOfSeq
  <1>4. Len(s) - 1 \in Nat /\ \A k \in 1 .. Len(s) - 1 : t[k] \in S
    BY <1>1, <1>3
  <1>5. t \in Seq(S) /\ Len(t) = Len(s) - 1
    <2>1. t \in [1 .. Len(s) - 1 -> S]
      BY <1>4
    <2> QED
      BY <1>4, <2>1, IsASeq, SeqDef
  <1>6. /\ \A k \in 1 .. Len(t) : t[k] = IF k < at THEN s[k] ELSE s[k + 1]
    BY <1>5
  <1> HIDE DEF t
  <1>7. \A j, k \in 1 .. Len(s) : j # k => s[j] # s[k]
    BY DEF Once
  <1>8. Once(t)
    BY <1>1, <1>3, <1>5, <1>6, <1>7 DEF Once
  <1>9. \A k \in 1 .. Len(t) : t[k] # b /\ \E j \in 1 .. Len(s) : t[k] = s[j]
    BY <1>1, <1>3, <1>5, <1>6, <1>7
  <1>10. \A j \in 1 .. Len(s) : j # at =>
            (IF j < at THEN j ELSE j - 1) \in 1 .. Len(t) /\ t[IF j < at THEN j ELSE j - 1] = s[j]
    BY <1>1, <1>3, <1>5, <1>6
  <1>11. Elements(t) \subseteq Elements(s) \ {b}
    BY <1>9 DEF Elements
  <1>12. Elements(s) \ {b} \subseteq Elements(t)
    BY <1>1, <1>10 DEF Elements
  <1> QED
    BY <1>2, <1>5, <1>8, <1>11, <1>12

\* Counting: a list without repetition has as many places as elements.
LEMMA OnceCardinality ==
    ASSUME NEW S, NEW s \in Seq(S), Once(s)
    PROVE  IsFiniteSet(Elements(s)) /\ Cardinality(Elements(s)) = Len(s)
  <1> DEFINE f == [k \in 1 .. Len(s) |-> s[k]]
  <1>1. Len(s) \in Nat
    BY LenProperties
  <1>2. f \in Bijection(1 .. Len(s), Elements(s))
    BY DEF Bijection, Injection, Surjection, IsInjective, Elements, Once
  <1>3. IsFiniteSet(1 .. Len(s)) /\ Cardinality(1 .. Len(s)) = Len(s)
    BY <1>1, FS_Interval
  <1> QED
    BY <1>2, <1>3, FS_Bijection DEF ExistsBijection

LEMMA OncePerBufCardinality ==
    ASSUME NEW S, NEW s \in Seq(S), OncePerBuf(s)
    PROVE  IsFiniteSet(Bufs(s)) /\ Cardinality(Bufs(s)) = Len(s)
  <1> DEFINE f == [k \in 1 .. Len(s) |-> s[k].buf]
  <1>1. Len(s) \in Nat
    BY LenProperties
  <1>2. f \in Bijection(1 .. Len(s), Bufs(s))
    BY DEF Bijection, Injection, Surjection, IsInjective, Bufs, OncePerBuf
  <1>3. IsFiniteSet(1 .. Len(s)) /\ Cardinality(1 .. Len(s)) = Len(s)
    BY <1>1, FS_Interval
  <1> QED
    BY <1>2, <1>3, FS_Bijection DEF ExistsBijection

-----------------------------------------------------------------------------
(* Types, in four groups                                                   *)

BufferTypeOK ==
    /\ parked \in Seq(Buffers) /\ active \in Seq(Buffers) /\ vbQueue \in Seq(Buffers)
    /\ queued \in [Buffers -> BOOLEAN]
    /\ bufSeq \in [Buffers -> Sessions]
    /\ owner \in [Buffers -> {"user", "queued", "driver", "done", "failed"}]
    /\ rejected \subseteq Buffers

FlagTypeOK ==
    /\ streaming \in BOOLEAN /\ armed \in BOOLEAN /\ started \in BOOLEAN /\ queueError \in BOOLEAN
    /\ streamSeq \in Sessions
    /\ registered \subseteq {Parts[k] : k \in 1 .. Len(Parts)}
    /\ teardown \in 0 .. Len(Parts)

PlaceTypeOK ==
    /\ modulePc \in {"out", "init", "in", "teardown"}
    /\ ioctlPc \in {"idle", "qbuf submit", "start", "start loop", "start submit",
                    "stop", "stop wait", "stop flag", "release", "terminate", "destroy",
                    "return", "cancel"}
    /\ ioctlBuf \in Buffers \cup {NoBuffer}
    /\ cbPc \in {"idle", "check", "arm", "resubmit", "take", "done"}
    /\ cbWork \in Completions \cup {NoWork}
    /\ watchdogPc \in {"idle", "check", "error"}

LEMMA TypeParts ==
    /\ TypeOK <=> DmaTypeOK /\ BufferTypeOK /\ FlagTypeOK /\ PlaceTypeOK
    /\ TypeOK' <=> DmaTypeOK' /\ BufferTypeOK' /\ FlagTypeOK' /\ PlaceTypeOK'
  BY DEF TypeOK, BufferTypeOK, FlagTypeOK, PlaceTypeOK

\* The completion of a transfer.
Item(got) ==
    [buf |-> Head(engine).buf, seq |-> Head(engine).seq, ok |-> got = "full" \/ IgnoreResidue]

LEMMA PrefixFacts ==
    /\ Len(Parts) = 5 /\ Prefix(0) = {}
    /\ \A n \in 0 .. Len(Parts) :
         /\ Cardinality(Prefix(n)) = n
         /\ Prefix(n) \subseteq {Parts[k] : k \in 1 .. Len(Parts)}
         /\ n < Len(Parts) => Prefix(n) \cup {Parts[n + 1]} = Prefix(n + 1)
         /\ n > 0 => "dma" \in Prefix(n) /\ Prefix(n) \ {Parts[n]} = Prefix(n - 1)
    /\ \A n \in 1 .. Len(Parts) : Parts[n] = "device" <=> n = Len(Parts)
    /\ \A n \in 1 .. Len(Parts) : Parts[n] = "dma" <=> n = 1
  <1>1. /\ Len(Parts) = 5
        /\ \A j, k \in 1 .. 5 : j # k => Parts[j] # Parts[k]
        /\ Parts[1] = "dma" /\ Parts[5] = "device"
    BY DEF Parts
  <1>2. Prefix(0) = {}
    BY DEF Prefix
  <1>3. ASSUME NEW n \in 0 .. 5 PROVE Cardinality(Prefix(n)) = n
    <2> DEFINE f == [k \in 1 .. n |-> Parts[k]]
    <2>1. f \in Bijection(1 .. n, Prefix(n))
      BY <1>1, <1>3 DEF Bijection, Injection, Surjection, IsInjective, Prefix
    <2>2. n \in Nat
      BY <1>3
    <2>3. IsFiniteSet(1 .. n) /\ Cardinality(1 .. n) = n
      BY <2>2, FS_Interval
    <2> QED
      BY <2>1, <2>3, FS_Bijection DEF ExistsBijection
  <1>4. ASSUME NEW n \in 0 .. 5 PROVE Prefix(n) \subseteq {Parts[k] : k \in 1 .. 5}
    BY <1>4 DEF Prefix
  <1>5. ASSUME NEW n \in 0 .. 4 PROVE Prefix(n) \cup {Parts[n + 1]} = Prefix(n + 1)
    BY <1>5 DEF Prefix
  <1>6. ASSUME NEW n \in 1 .. 5 PROVE "dma" \in Prefix(n) /\ Prefix(n) \ {Parts[n]} = Prefix(n - 1)
    BY <1>1, <1>6 DEF Prefix
  <1> QED
    BY <1>1, <1>2, <1>3, <1>4, <1>5, <1>6

-----------------------------------------------------------------------------
(* What the invariant says of the places                                   *)

\* What the lists and queues hold.
LEMMA Holdings ==
    ASSUME TypeOK
    PROVE  /\ Elements(parked) \subseteq Buffers /\ Elements(active) \subseteq Buffers
           /\ Elements(vbQueue) \subseteq Buffers
           /\ Elements(engine) \subseteq Descriptors /\ Elements(workqueue) \subseteq Completions
           /\ \A d \in Elements(engine) : d.buf \in InFlight
           /\ \A w \in Elements(workqueue) : w.buf \in Completed
           /\ NoBuffer \notin Buffers
           /\ \A d \in Descriptors : d.buf \in Buffers /\ d.seq \in Sessions
           /\ \A w \in Completions : w.buf \in Buffers /\ w.seq \in Sessions /\ w.ok \in BOOLEAN
  <1>1. /\ Elements(parked) \subseteq Buffers /\ Elements(active) \subseteq Buffers
        /\ Elements(vbQueue) \subseteq Buffers
        /\ Elements(engine) \subseteq Descriptors /\ Elements(workqueue) \subseteq Completions
    BY MembersFacts DEF TypeOK, DmaTypeOK
  <1>2. /\ \A d \in Elements(engine) : d.buf \in InFlight
        /\ \A w \in Elements(workqueue) : w.buf \in Completed
    BY BufsOfElements DEF InFlight, Completed
  <1>3. /\ \A d \in Descriptors : d.buf \in Buffers /\ d.seq \in Sessions
        /\ \A w \in Completions : w.buf \in Buffers /\ w.seq \in Sessions /\ w.ok \in BOOLEAN
    BY DEF Descriptors, Completions
  <1> QED
    BY <1>1, <1>2, <1>3, DmaAssumption

\* While the stream is on, no item of the workqueue is stale.
LEMMA NotStale ==
    ASSUME IInv, streaming
    PROVE  \A w \in Elements(workqueue) : ~Stale(w)
  <1>1. ~stopping
    BY DEF IInv, PhaseOK, Stopping
  <1>2. \A w \in Elements(workqueue) : w.buf \in Buffers /\ w.buf \in Lists /\ w.seq = bufSeq[w.buf]
    BY Holdings DEF IInv, PlacesApart, SeqsOK, Lists
  <1> QED
    BY <1>1, <1>2 DEF IInv, OwnersOK, Stale

\* Buffers nobody touches stay as they are.
LEMMA SameBuffers ==
    ASSUME IInv, UNCHANGED <<parked, active, queued, bufSeq, rejected, owner, vbQueue, engine,
                             workqueue, image, cbVars>>, Waiting' = Waiting
    PROVE  /\ BufferTypeOK' /\ ListsOnce' /\ OwnersOK' /\ PlacesApart' /\ SeqsOK' /\ ImageOK'
           /\ UNCHANGED <<Elements(active), InFlight, Completed, InWork>>
  <1>1. BufferTypeOK'
    BY DEF IInv, TypeOK, BufferTypeOK
  <1>2. /\ UNCHANGED <<Lists, CbHolds, Elements(parked), Elements(active), Elements(vbQueue)>>
        /\ UNCHANGED <<InFlight, Completed, InWork, Elements(engine), Elements(workqueue)>>
    BY DEF Lists, CbHolds, InFlight, Completed, InWork, cbVars
  <1>3. ListsOnce' /\ OwnersOK'
    BY <1>2 DEF IInv, ListsOnce, OwnersOK
  <1>4. PlacesApart' /\ SeqsOK'
    BY <1>2 DEF IInv, PlacesApart, SeqsOK
  <1>5. ImageOK'
    BY <1>2 DEF IInv, ImageOK, cbVars
  <1> QED
    BY <1>1, <1>2, <1>3, <1>4, <1>5

-----------------------------------------------------------------------------
(* One lemma per action: what it does to the lists, the queues and the     *)
(* places of the buffers, and then each part of the invariant.             *)

LEMMA QueueEarlyStep ==
    ASSUME IInv, modulePc = "in", UNCHANGED modVars,
           NEW b \in Buffers, QueueEarly(b)
    PROVE  IInv'
  <1>1. /\ vbQueue \in Seq(Buffers) /\ Once(vbQueue) /\ b \notin Elements(vbQueue)
        /\ vbQueue' = Append(vbQueue, b)
    BY DEF IInv, TypeOK, ListsOnce, OwnersOK, QueueEarly
  <1>2. /\ vbQueue' \in Seq(Buffers) /\ Once(vbQueue')
        /\ Elements(vbQueue') = Elements(vbQueue) \cup {b}
    BY <1>1, AppendFacts
  <1>3. /\ UNCHANGED <<Lists, CbHolds, Elements(parked), Elements(active), InFlight, Completed,
           InWork, Waiting, rejected, Elements(engine), Elements(workqueue)>>
        /\ Elements(vbQueue)' = Elements(vbQueue) \cup {b}
    BY <1>1, <1>2, EmptyFacts DEF Lists, CbHolds, InFlight, Completed, InWork, Waiting, QueueEarly,
       Hand, dmaVars, camVars, listVars, ioctlVars, cbVars
  <1>4. DmaTypeOK'
    BY DEF IInv, DmaTypeOK, TypeOK, QueueEarly, Hand, dmaVars
  <1>5. BufferTypeOK'
    BY DEF IInv, BufferTypeOK, TypeOK, QueueEarly, Hand, camVars, listVars
  <1>6. FlagTypeOK'
    BY DEF IInv, FlagTypeOK, TypeOK, QueueEarly, Hand, camVars, timerVars, modVars
  <1>7. PlaceTypeOK'
    BY DEF IInv, PlaceTypeOK, TypeOK, QueueEarly, Hand, dmaVars, camVars, listVars, timerVars,
       modVars, ioctlVars, cbVars
  <1>8. ModuleOK'
    BY DEF IInv, ModuleOK, QueueEarly, Hand, dmaVars, modVars
  <1>9. PhaseOK'
    BY <1>3 DEF IInv, PhaseOK, Resting, Stopping, QueueEarly, Hand, dmaVars, camVars, listVars,
       modVars, ioctlVars, cbVars
  <1>10. CallbackOK'
    BY DEF IInv, CallbackOK, QueueEarly, Hand, cbVars
  <1>11. ListsOnce'
    BY <1>1, <1>2, <1>3 DEF IInv, ListsOnce, TypeOK, PhaseOK, QueueEarly, Hand, camVars, listVars,
       cbVars
  <1>12. OwnersOK'
    BY <1>3 DEF IInv, OwnersOK, QueueEarly, Hand, camVars, listVars, cbVars
  <1>13. PlacesApart'
    BY <1>3 DEF IInv, PlacesApart, QueueEarly, Hand, dmaVars, camVars, listVars, ioctlVars, cbVars
  <1>14. ActiveCovered'
    BY <1>3 DEF IInv, ActiveCovered, QueueEarly, Hand, dmaVars, camVars, listVars, ioctlVars,
       cbVars
  <1>15. SeqsOK'
    BY <1>3 DEF IInv, SeqsOK, QueueEarly, Hand, dmaVars, camVars, listVars
  <1>16. ImageOK'
    BY <1>3 DEF IInv, ImageOK, QueueEarly, Hand, dmaVars, cbVars
  <1> QED
    BY <1>4, <1>5, <1>6, <1>7, <1>8, <1>9, <1>10, <1>11, <1>12, <1>13, <1>14, <1>15, <1>16,
       TypeParts DEF IInv

LEMMA QueueActiveStep ==
    ASSUME IInv, modulePc = "in", UNCHANGED modVars,
           NEW b \in Buffers, QueueActive(b)
    PROVE  IInv'
  <1>1. b \notin Lists /\ b \notin CbHolds /\ b \notin Elements(vbQueue)
    BY DEF IInv, OwnersOK, QueueActive
  <1>2. /\ active \in Seq(Buffers) /\ Once(active) /\ b \notin Elements(active)
        /\ active' = Append(active, b)
    BY <1>1 DEF IInv, TypeOK, ListsOnce, Lists, QueueActive
  <1>3. active' \in Seq(Buffers) /\ Once(active') /\ Elements(active') = Elements(active) \cup {b}
    BY <1>2, AppendFacts
  <1>4. b # NoBuffer /\ b \notin Elements(parked)
    BY <1>1, DmaAssumption DEF Lists
  <1>5. /\ UNCHANGED <<CbHolds, Elements(parked), Elements(vbQueue), InFlight, Completed, InWork,
           rejected, Elements(engine), Elements(workqueue)>>
        /\ Lists' = Lists \cup {b}
        /\ Elements(active)' = Elements(active) \cup {b}
        /\ Waiting' = Waiting \cup {b}
    BY <1>1, <1>2, <1>3, <1>4, EmptyFacts DEF Lists, CbHolds, InFlight, Completed, InWork, Waiting,
       QueueActive, Hand, Ioctl, dmaVars, cbVars
  <1>6. DmaTypeOK'
    BY DEF IInv, DmaTypeOK, TypeOK, QueueActive, Hand, Ioctl, dmaVars
  <1>7. BufferTypeOK'
    BY <1>1, <1>2, <1>3, <1>4 DEF IInv, BufferTypeOK, TypeOK, Sessions, PhaseOK, QueueActive, Hand,
       Ioctl
  <1>8. FlagTypeOK'
    BY DEF IInv, FlagTypeOK, TypeOK, QueueActive, Hand, Ioctl, timerVars, modVars
  <1>9. PlaceTypeOK'
    BY DEF IInv, PlaceTypeOK, TypeOK, QueueActive, Hand, Ioctl, dmaVars, timerVars, modVars, cbVars
  <1>10. ModuleOK'
    BY DEF IInv, ModuleOK, QueueActive, Hand, Ioctl, dmaVars, modVars
  <1>11. PhaseOK'
    BY <1>1, <1>2, <1>3, <1>4, <1>5 DEF IInv, PhaseOK, Resting, Stopping, TypeOK, OwnersOK,
       QueueActive, Hand, Ioctl, dmaVars, modVars, cbVars
  <1>12. CallbackOK'
    BY DEF IInv, CallbackOK, QueueActive, Hand, Ioctl, cbVars
  <1>13. ListsOnce'
    BY <1>1, <1>3, <1>4, <1>5 DEF IInv, ListsOnce, QueueActive
  <1>14. OwnersOK'
    BY <1>5, EmptyFacts DEF IInv, OwnersOK, TypeOK, PhaseOK, QueueActive, Hand, Ioctl, cbVars
  <1>15. PlacesApart'
    BY <1>2, <1>5 DEF IInv, PlacesApart, QueueActive, dmaVars
  <1>16. ActiveCovered'
    BY <1>5 DEF IInv, ActiveCovered, QueueActive, Hand, Ioctl, dmaVars, cbVars
  <1>17. SeqsOK'
    <2>1. \A d \in Elements(engine) \cup Elements(workqueue) : d.buf \in Buffers /\ d.buf # b
      BY <1>2, Holdings DEF IInv, PlacesApart
    <2>2. \A c \in Buffers : c # b => bufSeq'[c] = bufSeq[c]
      BY DEF IInv, TypeOK, QueueActive
    <2> QED
      BY <1>5, <2>1, <2>2 DEF IInv, SeqsOK
  <1>18. ImageOK'
    BY <1>5 DEF IInv, ImageOK, QueueActive, Hand, Ioctl, dmaVars, cbVars
  <1> QED
    BY <1>6, <1>7, <1>8, <1>9, <1>10, <1>11, <1>12, <1>13, <1>14, <1>15, <1>16, <1>17, <1>18,
       TypeParts DEF IInv

LEMMA DequeueStep ==
    ASSUME IInv, modulePc = "in", UNCHANGED modVars,
           NEW b \in Buffers, Dequeue(b)
    PROVE  IInv'
  <1>1. /\ UNCHANGED <<Lists, CbHolds, Elements(parked), Elements(active), Elements(vbQueue),
           InFlight, Completed, InWork, Waiting, rejected, Elements(engine), Elements(workqueue)>>
    BY EmptyFacts DEF Lists, CbHolds, InFlight, Completed, InWork, Waiting, Dequeue, Hand, dmaVars,
       camVars, listVars, ioctlVars, cbVars
  <1>2. DmaTypeOK'
    BY DEF IInv, DmaTypeOK, TypeOK, Dequeue, Hand, dmaVars
  <1>3. BufferTypeOK'
    BY DEF IInv, BufferTypeOK, TypeOK, Dequeue, Hand, camVars, listVars
  <1>4. FlagTypeOK'
    BY DEF IInv, FlagTypeOK, TypeOK, Dequeue, Hand, camVars, timerVars, modVars
  <1>5. PlaceTypeOK'
    BY DEF IInv, PlaceTypeOK, TypeOK, Dequeue, Hand, dmaVars, camVars, listVars, timerVars,
       modVars, ioctlVars, cbVars
  <1>6. ModuleOK'
    BY DEF IInv, ModuleOK, Dequeue, Hand, dmaVars, modVars
  <1>7. PhaseOK'
    BY <1>1 DEF IInv, PhaseOK, Resting, Stopping, Dequeue, Hand, dmaVars, camVars, listVars,
       modVars, ioctlVars, cbVars
  <1>8. CallbackOK'
    BY DEF IInv, CallbackOK, Dequeue, Hand, cbVars
  <1>9. ListsOnce'
    BY <1>1 DEF IInv, ListsOnce, Dequeue, Hand, camVars, listVars, cbVars
  <1>10. OwnersOK'
    BY <1>1 DEF IInv, OwnersOK, Dequeue, Hand, camVars, listVars, cbVars
  <1>11. PlacesApart'
    BY <1>1 DEF IInv, PlacesApart, Dequeue, Hand, dmaVars, camVars, listVars, ioctlVars, cbVars
  <1>12. ActiveCovered'
    BY <1>1 DEF IInv, ActiveCovered, Dequeue, Hand, dmaVars, camVars, listVars, ioctlVars, cbVars
  <1>13. SeqsOK'
    BY <1>1 DEF IInv, SeqsOK, Dequeue, Hand, dmaVars, camVars, listVars
  <1>14. ImageOK'
    BY <1>1 DEF IInv, ImageOK, Dequeue, Hand, dmaVars, cbVars
  <1> QED
    BY <1>2, <1>3, <1>4, <1>5, <1>6, <1>7, <1>8, <1>9, <1>10, <1>11, <1>12, <1>13, <1>14, TypeParts
       DEF IInv

LEMMA StreamOnStep ==
    ASSUME IInv, modulePc = "in", UNCHANGED modVars,
           StreamOn
    PROVE  IInv'
  <1>1. parked = << >> /\ active = << >>
    BY DEF IInv, PhaseOK, StreamOn
  <1>2. parked' = vbQueue /\ vbQueue' = << >>
    BY <1>1, ConcatEmptySeq DEF IInv, TypeOK, StreamOn
  <1>3. Lists = {} /\ CbHolds = {} /\ engine = << >> /\ workqueue = << >>
    BY <1>1, EmptyFacts DEF IInv, PhaseOK, Resting, Lists, CbHolds, StreamOn
  <1>4. /\ UNCHANGED <<CbHolds, Elements(active), InFlight, Completed, InWork, Waiting, rejected,
           Elements(engine), Elements(workqueue)>>
        /\ Lists' = Elements(vbQueue)
        /\ Elements(parked)' = Elements(vbQueue)
        /\ Elements(vbQueue)' = {}
    BY <1>1, <1>2, <1>3, EmptyFacts DEF Lists, CbHolds, InFlight, Completed, InWork, Waiting,
       StreamOn, Hand, Ioctl, dmaVars, cbVars
  <1>5. DmaTypeOK'
    BY DEF IInv, DmaTypeOK, TypeOK, StreamOn, Hand, Ioctl, dmaVars
  <1>6. BufferTypeOK'
    BY DEF IInv, BufferTypeOK, TypeOK, StreamOn, Hand, Ioctl
  <1>7. FlagTypeOK'
    BY DEF IInv, FlagTypeOK, TypeOK, StreamOn, Hand, Ioctl, timerVars, modVars
  <1>8. PlaceTypeOK'
    BY DEF IInv, PlaceTypeOK, TypeOK, StreamOn, Hand, Ioctl, dmaVars, timerVars, modVars, cbVars
  <1>9. ModuleOK'
    BY DEF IInv, ModuleOK, StreamOn, Hand, Ioctl, dmaVars, modVars
  <1>10. PhaseOK'
    BY <1>4 DEF IInv, PhaseOK, Resting, Stopping, StreamOn, Hand, Ioctl, dmaVars, modVars, cbVars
  <1>11. CallbackOK'
    BY DEF IInv, CallbackOK, StreamOn, Hand, Ioctl, cbVars
  <1>12. ListsOnce'
    BY <1>1, <1>2, <1>3, <1>4, EmptyFacts DEF IInv, ListsOnce, StreamOn
  <1>13. OwnersOK'
    <2>1. \A b \in Buffers : owner[b] # "driver" /\ ~queued[b]
      BY <1>3 DEF IInv, OwnersOK
    <2> QED
      BY <1>3, <1>4, <2>1 DEF IInv, OwnersOK, StreamOn, Hand
  <1>14. PlacesApart'
    BY <1>4 DEF IInv, PlacesApart, StreamOn, Hand, Ioctl, dmaVars, cbVars
  <1>15. ActiveCovered'
    BY <1>4 DEF IInv, ActiveCovered, StreamOn, Hand, Ioctl, dmaVars, cbVars
  <1>16. SeqsOK'
    BY <1>3, <1>4, EmptyFacts DEF SeqsOK
  <1>17. ImageOK'
    BY <1>4 DEF IInv, ImageOK, StreamOn, Hand, Ioctl, dmaVars, cbVars
  <1> QED
    BY <1>5, <1>6, <1>7, <1>8, <1>9, <1>10, <1>11, <1>12, <1>13, <1>14, <1>15, <1>16, <1>17,
       TypeParts DEF IInv

LEMMA StreamOffStep ==
    ASSUME IInv, modulePc = "in", UNCHANGED modVars,
           StreamOff
    PROVE  IInv'
  <1>1. /\ UNCHANGED <<parked, active, queued, bufSeq, rejected, owner, vbQueue, engine,
                       workqueue, image, cbVars>>
        /\ Waiting' = Waiting
    BY DEF Waiting, StreamOff, Ioctl, dmaVars, camVars, listVars, vbVars
  <1>2. /\ BufferTypeOK' /\ ListsOnce' /\ OwnersOK'
        /\ PlacesApart' /\ SeqsOK' /\ ImageOK'
        /\ UNCHANGED <<Elements(active), InFlight, Completed, InWork>>
    BY <1>1, SameBuffers
  <1>3. DmaTypeOK'
    BY DEF IInv, DmaTypeOK, TypeOK, StreamOff, Ioctl, dmaVars
  <1>4. FlagTypeOK'
    BY DEF IInv, FlagTypeOK, TypeOK, StreamOff, Ioctl, camVars, timerVars, modVars, vbVars
  <1>5. PlaceTypeOK'
    BY DEF IInv, PlaceTypeOK, TypeOK, StreamOff, Ioctl, dmaVars, camVars, listVars, timerVars,
       modVars, cbVars, vbVars
  <1>6. ModuleOK'
    BY DEF IInv, ModuleOK, StreamOff, Ioctl, dmaVars, modVars
  <1>7. PhaseOK'
    BY <1>1, <1>2 DEF IInv, PhaseOK, Resting, Stopping, StreamOff, Ioctl, dmaVars, camVars,
       listVars, modVars, cbVars, vbVars
  <1>8. CallbackOK'
    BY DEF IInv, CallbackOK, StreamOff, Ioctl, cbVars
  <1>9. ActiveCovered'
    BY <1>1, <1>2 DEF IInv, ActiveCovered, StreamOff, Ioctl, dmaVars, camVars, listVars, cbVars
  <1> QED
    BY <1>2, <1>3, <1>4, <1>5, <1>6, <1>7, <1>8, <1>9, TypeParts DEF IInv

LEMMA QueueSubmittedStep ==
    ASSUME IInv, modulePc = "in", UNCHANGED modVars,
           QueueSubmit, Submit(ioctlBuf, bufSeq[ioctlBuf]), UNCHANGED rejected
    PROVE  IInv'
  <1>1. ioctlBuf \in Buffers /\ Waiting = {ioctlBuf}
    BY DmaAssumption DEF IInv, PhaseOK, CallbackOK, TypeOK, Completions, Waiting, InWork, Ioctl,
       QueueSubmit
  <1>2. [buf |-> ioctlBuf, seq |-> bufSeq[ioctlBuf]] \in Descriptors
    BY <1>1 DEF IInv, TypeOK, Descriptors
  <1>3. /\ engine \in Seq(Descriptors) /\ OncePerBuf(engine) /\ ioctlBuf \notin Bufs(engine)
        /\ engine' = Append(engine, [buf |-> ioctlBuf, seq |-> bufSeq[ioctlBuf]])
    BY <1>1 DEF IInv, TypeOK, DmaTypeOK, PlacesApart, InFlight, Submit, QueueSubmit
  <1>4. /\ engine' \in Seq(Descriptors) /\ OncePerBuf(engine')
        /\ Bufs(engine') = Bufs(engine) \cup {ioctlBuf}
        /\ Elements(engine') = Elements(engine) \cup {[buf |-> ioctlBuf, seq |-> bufSeq[ioctlBuf]]}
    BY <1>2, <1>3, AppendFacts
  <1>5. /\ UNCHANGED <<Lists, CbHolds, Elements(parked), Elements(active), Elements(vbQueue),
           Completed, InWork, rejected, Elements(workqueue)>>
        /\ InFlight' = InFlight \cup {ioctlBuf}
        /\ Waiting' = {}
        /\ Elements(engine)' = Elements(engine) \cup {[buf |-> ioctlBuf, seq |-> bufSeq[ioctlBuf]]}
    BY <1>1, <1>2, <1>3, <1>4, EmptyFacts DEF Lists, CbHolds, InFlight, Completed, InWork, Waiting,
       QueueSubmit, Ioctl, Submit, CallbackEnds, SubmitOrNot, cbVars, vbVars
  <1>6. DmaTypeOK'
    BY <1>1, <1>2, <1>3, <1>4 DEF IInv, DmaTypeOK, TypeOK, Sessions, QueueSubmit, Ioctl, Submit,
       CallbackEnds, SubmitOrNot
  <1>7. BufferTypeOK'
    BY DEF IInv, BufferTypeOK, TypeOK, QueueSubmit, Ioctl, Submit, CallbackEnds, SubmitOrNot,
       vbVars
  <1>8. FlagTypeOK'
    BY DEF IInv, FlagTypeOK, TypeOK, QueueSubmit, Ioctl, Submit, CallbackEnds, SubmitOrNot,
       timerVars, modVars, vbVars
  <1>9. PlaceTypeOK'
    BY DEF IInv, PlaceTypeOK, TypeOK, QueueSubmit, Ioctl, Submit, CallbackEnds, SubmitOrNot,
       timerVars, modVars, cbVars, vbVars
  <1>10. ModuleOK'
    BY DEF IInv, ModuleOK, QueueSubmit, Ioctl, Submit, CallbackEnds, SubmitOrNot, modVars
  <1>11. PhaseOK'
    BY <1>5 DEF IInv, PhaseOK, Resting, Stopping, QueueSubmit, Ioctl, Submit, CallbackEnds,
       SubmitOrNot, modVars, cbVars, vbVars
  <1>12. CallbackOK'
    BY DEF IInv, CallbackOK, QueueSubmit, Ioctl, Submit, CallbackEnds, SubmitOrNot, cbVars
  <1>13. ListsOnce'
    BY <1>5 DEF IInv, ListsOnce, QueueSubmit, Ioctl, Submit, CallbackEnds, SubmitOrNot, cbVars,
       vbVars
  <1>14. OwnersOK'
    BY <1>5 DEF IInv, OwnersOK, QueueSubmit, Ioctl, Submit, CallbackEnds, SubmitOrNot, cbVars,
       vbVars
  <1>15. PlacesApart'
    BY <1>1, <1>4, <1>5 DEF IInv, PlacesApart, Submit, QueueSubmit, camVars, listVars
  <1>16. ActiveCovered'
    BY <1>1, <1>5 DEF IInv, ActiveCovered, QueueSubmit, camVars
  <1>17. SeqsOK'
    <2> DEFINE d == [buf |-> ioctlBuf, seq |-> bufSeq[ioctlBuf]]
    <2>1. d.buf = ioctlBuf /\ d.seq = bufSeq[d.buf]
      OBVIOUS
    <2>2. UNCHANGED bufSeq
      BY DEF QueueSubmit, camVars, listVars
    <2>3. /\ Elements(engine)' = Elements(engine) \cup {d}
          /\ Elements(workqueue)' = Elements(workqueue)
      BY <1>5
    <2> HIDE DEF d
    <2> QED
      BY <2>1, <2>2, <2>3 DEF IInv, SeqsOK
  <1>18. ImageOK'
    BY <1>5 DEF IInv, ImageOK, QueueSubmit, Ioctl, Submit, CallbackEnds, SubmitOrNot, cbVars,
       vbVars
  <1> QED
    BY <1>6, <1>7, <1>8, <1>9, <1>10, <1>11, <1>12, <1>13, <1>14, <1>15, <1>16, <1>17, <1>18,
       TypeParts DEF IInv

LEMMA QueueRefusedStep ==
    ASSUME IInv, modulePc = "in", UNCHANGED modVars,
           QueueSubmit, SubmitFails, rejected' = rejected \cup {ioctlBuf}
    PROVE  IInv'
  <1>1. ioctlBuf \in Buffers /\ ioctlBuf \in Waiting /\ Waiting = {ioctlBuf}
    BY DmaAssumption DEF IInv, PhaseOK, CallbackOK, TypeOK, Completions, Waiting, InWork, Ioctl,
       QueueSubmit
  <1>2. /\ UNCHANGED <<Lists, CbHolds, Elements(parked), Elements(active), Elements(vbQueue),
           InFlight, Completed, InWork, Elements(engine), Elements(workqueue)>>
        /\ Waiting' = {}
        /\ rejected' = rejected \cup {ioctlBuf}
    BY <1>1, EmptyFacts DEF Lists, CbHolds, InFlight, Completed, InWork, Waiting, QueueSubmit,
       Ioctl, SubmitFails, CallbackEnds, dmaVars, cbVars, vbVars
  <1>3. DmaTypeOK'
    BY DEF IInv, DmaTypeOK, TypeOK, QueueSubmit, Ioctl, SubmitFails, CallbackEnds, dmaVars
  <1>4. BufferTypeOK'
    BY EmptySeq DEF IInv, BufferTypeOK, TypeOK, Sessions, PhaseOK, QueueSubmit, Ioctl, SubmitFails,
       CallbackEnds, vbVars
  <1>5. FlagTypeOK'
    BY DEF IInv, FlagTypeOK, TypeOK, QueueSubmit, Ioctl, SubmitFails, CallbackEnds, timerVars,
       modVars, vbVars
  <1>6. PlaceTypeOK'
    BY DEF IInv, PlaceTypeOK, TypeOK, QueueSubmit, Ioctl, SubmitFails, CallbackEnds, dmaVars,
       timerVars, modVars, cbVars, vbVars
  <1>7. ModuleOK'
    BY DEF IInv, ModuleOK, QueueSubmit, Ioctl, SubmitFails, CallbackEnds, dmaVars, modVars
  <1>8. PhaseOK'
    BY <1>2 DEF IInv, PhaseOK, Resting, Stopping, QueueSubmit, Ioctl, SubmitFails, CallbackEnds,
       dmaVars, modVars, cbVars, vbVars
  <1>9. CallbackOK'
    BY DEF IInv, CallbackOK, QueueSubmit, Ioctl, SubmitFails, CallbackEnds, cbVars
  <1>10. ListsOnce'
    BY <1>2 DEF IInv, ListsOnce, QueueSubmit, Ioctl, SubmitFails, CallbackEnds, cbVars, vbVars
  <1>11. OwnersOK'
    BY <1>2 DEF IInv, OwnersOK, QueueSubmit, Ioctl, SubmitFails, CallbackEnds, cbVars, vbVars
  <1>12. PlacesApart'
    BY <1>1, <1>2 DEF IInv, PlacesApart, TypeOK, PhaseOK, QueueSubmit, Ioctl, SubmitFails,
       CallbackEnds, dmaVars, cbVars
  <1>13. ActiveCovered'
    BY <1>1, <1>2 DEF IInv, ActiveCovered, PhaseOK, Stopping, QueueSubmit, Ioctl, SubmitFails,
       CallbackEnds, dmaVars, cbVars
  <1>14. SeqsOK'
    BY <1>2 DEF IInv, SeqsOK, QueueSubmit, Ioctl, SubmitFails, CallbackEnds, dmaVars
  <1>15. ImageOK'
    BY <1>2 DEF IInv, ImageOK, QueueSubmit, Ioctl, SubmitFails, CallbackEnds, dmaVars, cbVars,
       vbVars
  <1> QED
    BY <1>3, <1>4, <1>5, <1>6, <1>7, <1>8, <1>9, <1>10, <1>11, <1>12, <1>13, <1>14, <1>15,
       TypeParts DEF IInv

LEMMA ReacquireStep ==
    ASSUME IInv, modulePc = "in", UNCHANGED modVars,
           Reacquire
    PROVE  IInv'
  <1>1. "dma" \in Prefix(Len(Parts))
    BY DEF Prefix, Parts
  <1>2. /\ UNCHANGED <<parked, active, queued, bufSeq, rejected, owner, vbQueue, engine,
                       workqueue, image, cbVars>>
        /\ Waiting' = Waiting
    BY DEF Waiting, Reacquire, Ioctl, Acquire, camVars, listVars, vbVars
  <1>3. /\ BufferTypeOK' /\ ListsOnce' /\ OwnersOK'
        /\ PlacesApart' /\ SeqsOK' /\ ImageOK'
        /\ UNCHANGED <<Elements(active), InFlight, Completed, InWork>>
    BY <1>2, SameBuffers
  <1>4. DmaTypeOK'
    BY DEF IInv, DmaTypeOK, TypeOK, Reacquire, Ioctl, Acquire
  <1>5. FlagTypeOK'
    BY DEF IInv, FlagTypeOK, TypeOK, Reacquire, Ioctl, Acquire, camVars, timerVars, modVars, vbVars
  <1>6. PlaceTypeOK'
    BY DEF IInv, PlaceTypeOK, TypeOK, Reacquire, Ioctl, Acquire, camVars, listVars, timerVars,
       modVars, cbVars, vbVars
  <1>7. ModuleOK'
    BY <1>1 DEF IInv, ModuleOK, Reacquire, Ioctl, Acquire, modVars
  <1>8. PhaseOK'
    BY <1>2, <1>3 DEF IInv, PhaseOK, Resting, Stopping, Reacquire, Ioctl, Acquire, camVars,
       listVars, modVars, cbVars, vbVars
  <1>9. CallbackOK'
    BY DEF IInv, CallbackOK, Reacquire, Ioctl, Acquire, cbVars
  <1>10. ActiveCovered'
    BY <1>2, <1>3 DEF IInv, ActiveCovered, Reacquire, Ioctl, Acquire, camVars, listVars, cbVars
  <1> QED
    BY <1>3, <1>4, <1>5, <1>6, <1>7, <1>8, <1>9, <1>10, TypeParts DEF IInv

LEMMA ReacquireFailsStep ==
    ASSUME IInv, modulePc = "in", UNCHANGED modVars,
           ReacquireFails
    PROVE  IInv'
  <1>1. active = << >> /\ engine = << >> /\ workqueue = << >>
    BY DEF IInv, PhaseOK, Resting, ReacquireFails, Ioctl
  <1>2. Lists = Elements(parked) /\ CbHolds = {}
    BY <1>1, EmptyFacts DEF IInv, PhaseOK, Resting, Lists, CbHolds, ReacquireFails, Ioctl
  <1>3. /\ UNCHANGED <<CbHolds, Elements(vbQueue), InFlight, Completed, InWork, Waiting, rejected,
           Elements(engine), Elements(workqueue)>>
        /\ Lists' = {}
        /\ Elements(parked)' = {}
        /\ Elements(active)' = {}
    BY <1>1, <1>2, EmptyFacts DEF Lists, CbHolds, InFlight, Completed, InWork, Waiting,
       ReacquireFails, Ioctl, SubmitFails, Hand, dmaVars, cbVars
  <1>4. DmaTypeOK'
    BY DEF IInv, DmaTypeOK, TypeOK, ReacquireFails, Ioctl, SubmitFails, Hand, dmaVars
  <1>5. BufferTypeOK'
    BY DEF IInv, BufferTypeOK, TypeOK, ReacquireFails, Ioctl, SubmitFails, Hand
  <1>6. FlagTypeOK'
    BY DEF IInv, FlagTypeOK, TypeOK, ReacquireFails, Ioctl, SubmitFails, Hand, timerVars, modVars
  <1>7. PlaceTypeOK'
    BY DEF IInv, PlaceTypeOK, TypeOK, ReacquireFails, Ioctl, SubmitFails, Hand, dmaVars, timerVars,
       modVars, cbVars
  <1>8. ModuleOK'
    BY DEF IInv, ModuleOK, ReacquireFails, Ioctl, SubmitFails, Hand, dmaVars, modVars
  <1>9. PhaseOK'
    BY <1>3 DEF IInv, PhaseOK, Resting, Stopping, ReacquireFails, Ioctl, SubmitFails, Hand,
       dmaVars, modVars, cbVars
  <1>10. CallbackOK'
    BY DEF IInv, CallbackOK, ReacquireFails, Ioctl, SubmitFails, Hand, cbVars
  <1>11. ListsOnce'
    BY <1>3, EmptyFacts DEF IInv, ListsOnce, TypeOK, PhaseOK, ReacquireFails, Ioctl, SubmitFails,
       Hand, cbVars
  <1>12. OwnersOK'
    BY <1>2, <1>3 DEF IInv, OwnersOK, ReacquireFails, Hand
  <1>13. PlacesApart'
    BY <1>3 DEF IInv, PlacesApart, ReacquireFails, Ioctl, SubmitFails, Hand, dmaVars, cbVars
  <1>14. ActiveCovered'
    BY <1>3 DEF IInv, ActiveCovered, ReacquireFails, Ioctl, SubmitFails, Hand, dmaVars, cbVars
  <1>15. SeqsOK'
    BY <1>3 DEF IInv, SeqsOK, ReacquireFails, Ioctl, SubmitFails, Hand, dmaVars
  <1>16. ImageOK'
    BY <1>3 DEF IInv, ImageOK, ReacquireFails, Ioctl, SubmitFails, Hand, dmaVars, cbVars
  <1> QED
    BY <1>4, <1>5, <1>6, <1>7, <1>8, <1>9, <1>10, <1>11, <1>12, <1>13, <1>14, <1>15, <1>16,
       TypeParts DEF IInv

LEMMA BeginStreamingStep ==
    ASSUME IInv, modulePc = "in", UNCHANGED modVars,
           BeginStreaming
    PROVE  IInv'
  <1>1. streamSeq \in 0 .. MaxSessions /\ streamSeq < MaxSessions
    BY DEF IInv, TypeOK, PhaseOK, Sessions, BeginStreaming, Ioctl
  <1>2. MaxSessions \in Nat /\ streamSeq' = streamSeq + 1
    BY DmaAssumption DEF BeginStreaming
  <1>3. streamSeq' \in Sessions
    BY <1>1, <1>2 DEF Sessions
  <1>4. /\ UNCHANGED <<parked, active, queued, bufSeq, rejected, owner, vbQueue, engine,
                       workqueue, image, cbVars>>
        /\ Waiting' = Waiting
    BY DEF Waiting, BeginStreaming, Ioctl, dmaVars, listVars, vbVars
  <1>5. /\ BufferTypeOK' /\ ListsOnce' /\ OwnersOK'
        /\ PlacesApart' /\ SeqsOK' /\ ImageOK'
        /\ UNCHANGED <<Elements(active), InFlight, Completed, InWork>>
    BY <1>4, SameBuffers
  <1>6. DmaTypeOK'
    BY DEF IInv, DmaTypeOK, TypeOK, BeginStreaming, Ioctl, dmaVars
  <1>7. FlagTypeOK'
    BY <1>1, <1>2, <1>3 DEF IInv, FlagTypeOK, TypeOK, Sessions, PhaseOK, BeginStreaming, Ioctl,
       modVars, vbVars
  <1>8. PlaceTypeOK'
    BY DEF IInv, PlaceTypeOK, TypeOK, BeginStreaming, Ioctl, dmaVars, listVars, modVars, cbVars,
       vbVars
  <1>9. ModuleOK'
    BY DEF IInv, ModuleOK, BeginStreaming, Ioctl, dmaVars, modVars
  <1>10. PhaseOK'
    BY <1>4, <1>5 DEF IInv, PhaseOK, Resting, Stopping, BeginStreaming, Ioctl, dmaVars, listVars,
       modVars, cbVars, vbVars
  <1>11. CallbackOK'
    BY DEF IInv, CallbackOK, BeginStreaming, Ioctl, cbVars
  <1>12. ActiveCovered'
    BY <1>4, <1>5, EmptyFacts DEF IInv, ActiveCovered, PhaseOK, Stopping, BeginStreaming, Ioctl,
       dmaVars, listVars, cbVars
  <1> QED
    BY <1>5, <1>6, <1>7, <1>8, <1>9, <1>10, <1>11, <1>12, TypeParts DEF IInv

LEMMA StartMoveStep ==
    ASSUME IInv, modulePc = "in", UNCHANGED modVars,
           StartMove
    PROVE  IInv'
  <1>1. parked \in Seq(Buffers) /\ parked # << >> /\ Once(parked) /\ parked' = Tail(parked)
    BY DEF IInv, TypeOK, ListsOnce, StartMove
  <1>2. /\ parked' \in Seq(Buffers) /\ Once(parked')
        /\ Elements(parked') = Elements(parked) \ {Head(parked)}
        /\ Head(parked) \in Buffers /\ Head(parked) \in Elements(parked)
    BY <1>1, TailFacts
  <1>3. /\ active \in Seq(Buffers) /\ Once(active) /\ Head(parked) \notin Elements(active)
        /\ active' = Append(active, Head(parked))
    BY <1>2 DEF IInv, TypeOK, ListsOnce, StartMove
  <1>4. /\ active' \in Seq(Buffers) /\ Once(active')
        /\ Elements(active') = Elements(active) \cup {Head(parked)}
    BY <1>2, <1>3, AppendFacts
  <1>5. Head(parked) # NoBuffer
    BY <1>2, DmaAssumption
  <1>6. /\ UNCHANGED <<Lists, CbHolds, Elements(vbQueue), InFlight, Completed, InWork, rejected,
           Elements(engine), Elements(workqueue)>>
        /\ Elements(parked)' = Elements(parked) \ {Head(parked)}
        /\ Elements(active)' = Elements(active) \cup {Head(parked)}
        /\ Waiting' = Waiting \cup {Head(parked)}
    BY <1>1, <1>2, <1>3, <1>4, <1>5, EmptyFacts DEF Lists, CbHolds, InFlight, Completed, InWork,
       Waiting, StartMove, Ioctl, dmaVars, cbVars, vbVars
  <1>7. DmaTypeOK'
    BY DEF IInv, DmaTypeOK, TypeOK, StartMove, Ioctl, dmaVars
  <1>8. BufferTypeOK'
    BY <1>1, <1>2, <1>3, <1>4, <1>5 DEF IInv, BufferTypeOK, TypeOK, Sessions, PhaseOK, StartMove,
       Ioctl, vbVars
  <1>9. FlagTypeOK'
    BY DEF IInv, FlagTypeOK, TypeOK, StartMove, Ioctl, timerVars, modVars, vbVars
  <1>10. PlaceTypeOK'
    BY <1>1, <1>2, <1>3, <1>4, <1>5 DEF IInv, PlaceTypeOK, TypeOK, CallbackOK, StartMove, Ioctl,
       dmaVars, timerVars, modVars, cbVars, vbVars
  <1>11. ModuleOK'
    BY DEF IInv, ModuleOK, StartMove, Ioctl, dmaVars, modVars
  <1>12. PhaseOK'
    BY <1>1, <1>2, <1>3, <1>4, <1>5, <1>6 DEF IInv, PhaseOK, Resting, Stopping, TypeOK, OwnersOK,
       StartMove, Ioctl, dmaVars, modVars, cbVars, vbVars
  <1>13. CallbackOK'
    BY DEF IInv, CallbackOK, StartMove, Ioctl, cbVars
  <1>14. ListsOnce'
    BY <1>1, <1>2, <1>3, <1>4, <1>5, <1>6 DEF IInv, ListsOnce, TypeOK, PhaseOK, StartMove, Ioctl,
       cbVars, vbVars
  <1>15. OwnersOK'
    BY <1>6 DEF IInv, OwnersOK, StartMove, Ioctl, cbVars, vbVars
  <1>16. PlacesApart'
    BY <1>3, <1>6 DEF IInv, PlacesApart, StartMove, dmaVars
  <1>17. ActiveCovered'
    BY <1>6 DEF IInv, ActiveCovered, StartMove, Ioctl, dmaVars, cbVars
  <1>18. SeqsOK'
    <2>1. \A d \in Elements(engine) \cup Elements(workqueue) : d.buf \in Buffers /\ d.buf # Head(parked)
      BY <1>3, Holdings DEF IInv, PlacesApart
    <2>2. \A c \in Buffers : c # Head(parked) => bufSeq'[c] = bufSeq[c]
      BY DEF IInv, TypeOK, StartMove
    <2> QED
      BY <1>6, <2>1, <2>2 DEF IInv, SeqsOK
  <1>19. ImageOK'
    BY <1>6 DEF IInv, ImageOK, StartMove, Ioctl, dmaVars, cbVars, vbVars
  <1> QED
    BY <1>7, <1>8, <1>9, <1>10, <1>11, <1>12, <1>13, <1>14, <1>15, <1>16, <1>17, <1>18, <1>19,
       TypeParts DEF IInv

LEMMA StartSubmitStep ==
    ASSUME IInv, modulePc = "in", UNCHANGED modVars,
           StartSubmit
    PROVE  IInv'
  <1>1. ioctlBuf \in Buffers /\ Waiting = {ioctlBuf}
    BY DmaAssumption DEF IInv, PhaseOK, CallbackOK, TypeOK, Completions, Waiting, InWork, Ioctl,
       StartSubmit
  <1>2. [buf |-> ioctlBuf, seq |-> bufSeq[ioctlBuf]] \in Descriptors
    BY <1>1 DEF IInv, TypeOK, Descriptors
  <1>3. /\ engine \in Seq(Descriptors) /\ OncePerBuf(engine) /\ ioctlBuf \notin Bufs(engine)
        /\ engine' = Append(engine, [buf |-> ioctlBuf, seq |-> bufSeq[ioctlBuf]])
    BY <1>1 DEF IInv, TypeOK, DmaTypeOK, PlacesApart, InFlight, Submit, StartSubmit
  <1>4. /\ engine' \in Seq(Descriptors) /\ OncePerBuf(engine')
        /\ Bufs(engine') = Bufs(engine) \cup {ioctlBuf}
        /\ Elements(engine') = Elements(engine) \cup {[buf |-> ioctlBuf, seq |-> bufSeq[ioctlBuf]]}
    BY <1>2, <1>3, AppendFacts
  <1>5. /\ UNCHANGED <<Lists, CbHolds, Elements(parked), Elements(active), Elements(vbQueue),
           Completed, InWork, rejected, Elements(workqueue)>>
        /\ InFlight' = InFlight \cup {ioctlBuf}
        /\ Waiting' = {}
        /\ Elements(engine)' = Elements(engine) \cup {[buf |-> ioctlBuf, seq |-> bufSeq[ioctlBuf]]}
    BY <1>1, <1>2, <1>3, <1>4, EmptyFacts DEF Lists, CbHolds, InFlight, Completed, InWork, Waiting,
       StartSubmit, Ioctl, Submit, CallbackEnds, camVars, listVars, cbVars, vbVars
  <1>6. DmaTypeOK'
    BY <1>1, <1>2, <1>3, <1>4 DEF IInv, DmaTypeOK, TypeOK, Sessions, StartSubmit, Ioctl, Submit,
       CallbackEnds
  <1>7. BufferTypeOK'
    BY DEF IInv, BufferTypeOK, TypeOK, StartSubmit, Ioctl, Submit, CallbackEnds, camVars, listVars,
       vbVars
  <1>8. FlagTypeOK'
    BY DEF IInv, FlagTypeOK, TypeOK, StartSubmit, Ioctl, Submit, CallbackEnds, camVars, timerVars,
       modVars, vbVars
  <1>9. PlaceTypeOK'
    BY DEF IInv, PlaceTypeOK, TypeOK, StartSubmit, Ioctl, Submit, CallbackEnds, camVars, listVars,
       timerVars, modVars, cbVars, vbVars
  <1>10. ModuleOK'
    BY DEF IInv, ModuleOK, StartSubmit, Ioctl, Submit, CallbackEnds, modVars
  <1>11. PhaseOK'
    BY <1>5 DEF IInv, PhaseOK, Resting, Stopping, StartSubmit, Ioctl, Submit, CallbackEnds,
       camVars, listVars, modVars, cbVars, vbVars
  <1>12. CallbackOK'
    BY DEF IInv, CallbackOK, StartSubmit, Ioctl, Submit, CallbackEnds, cbVars
  <1>13. ListsOnce'
    BY <1>5 DEF IInv, ListsOnce, StartSubmit, Ioctl, Submit, CallbackEnds, camVars, listVars,
       cbVars, vbVars
  <1>14. OwnersOK'
    BY <1>5 DEF IInv, OwnersOK, StartSubmit, Ioctl, Submit, CallbackEnds, camVars, listVars,
       cbVars, vbVars
  <1>15. PlacesApart'
    BY <1>1, <1>4, <1>5 DEF IInv, PlacesApart, Submit, StartSubmit, camVars, listVars
  <1>16. ActiveCovered'
    BY <1>1, <1>5 DEF IInv, ActiveCovered, StartSubmit, camVars
  <1>17. SeqsOK'
    <2> DEFINE d == [buf |-> ioctlBuf, seq |-> bufSeq[ioctlBuf]]
    <2>1. d.buf = ioctlBuf /\ d.seq = bufSeq[d.buf]
      OBVIOUS
    <2>2. UNCHANGED bufSeq
      BY DEF StartSubmit, camVars, listVars
    <2>3. /\ Elements(engine)' = Elements(engine) \cup {d}
          /\ Elements(workqueue)' = Elements(workqueue)
      BY <1>5
    <2> HIDE DEF d
    <2> QED
      BY <2>1, <2>2, <2>3 DEF IInv, SeqsOK
  <1>18. ImageOK'
    BY <1>5 DEF IInv, ImageOK, StartSubmit, Ioctl, Submit, CallbackEnds, cbVars, vbVars
  <1> QED
    BY <1>6, <1>7, <1>8, <1>9, <1>10, <1>11, <1>12, <1>13, <1>14, <1>15, <1>16, <1>17, <1>18,
       TypeParts DEF IInv

LEMMA StartSubmitFailsStep ==
    ASSUME IInv, modulePc = "in", UNCHANGED modVars,
           StartSubmitFails
    PROVE  IInv'
  <1>1. ioctlBuf \in Elements(active) /\ ioctlBuf \in Buffers
    BY Holdings DEF IInv, PlacesApart, Waiting, StartSubmitFails, Ioctl
  <1>2. active \in Seq(Buffers) /\ Once(active) /\ active' = Without(active, ioctlBuf)
    BY DEF IInv, TypeOK, ListsOnce, StartSubmitFails
  <1>3. /\ active' \in Seq(Buffers) /\ Once(active')
        /\ Elements(active') = Elements(active) \ {ioctlBuf}
    BY <1>1, <1>2, WithoutFacts
  <1>4. /\ ioctlBuf \notin Elements(parked) /\ ioctlBuf \notin CbHolds
        /\ ioctlBuf \notin Elements(vbQueue)
        /\ Waiting = {ioctlBuf}
    BY <1>1 DEF IInv, ListsOnce, OwnersOK, Lists, Waiting, StartSubmitFails, Ioctl
  <1>5. /\ UNCHANGED <<CbHolds, Elements(parked), Elements(vbQueue), InFlight, Completed, InWork,
           rejected, Elements(engine), Elements(workqueue)>>
        /\ Lists' = Lists \ {ioctlBuf}
        /\ Elements(active)' = Elements(active) \ {ioctlBuf}
        /\ Waiting' = {}
    BY <1>1, <1>2, <1>3, <1>4, EmptyFacts DEF Lists, CbHolds, InFlight, Completed, InWork, Waiting,
       StartSubmitFails, Ioctl, SubmitFails, Hand, dmaVars, cbVars
  <1>6. DmaTypeOK'
    BY DEF IInv, DmaTypeOK, TypeOK, StartSubmitFails, Ioctl, SubmitFails, Hand, dmaVars
  <1>7. BufferTypeOK'
    BY <1>1, <1>2, <1>3, <1>4 DEF IInv, BufferTypeOK, TypeOK, Sessions, PhaseOK, StartSubmitFails,
       Ioctl, SubmitFails, Hand
  <1>8. FlagTypeOK'
    BY DEF IInv, FlagTypeOK, TypeOK, StartSubmitFails, Ioctl, SubmitFails, Hand, timerVars, modVars
  <1>9. PlaceTypeOK'
    BY DEF IInv, PlaceTypeOK, TypeOK, StartSubmitFails, Ioctl, SubmitFails, Hand, dmaVars,
       timerVars, modVars, cbVars
  <1>10. ModuleOK'
    BY DEF IInv, ModuleOK, StartSubmitFails, Ioctl, SubmitFails, Hand, dmaVars, modVars
  <1>11. PhaseOK'
    BY <1>5 DEF IInv, PhaseOK, Resting, Stopping, StartSubmitFails, Ioctl, SubmitFails, Hand,
       dmaVars, modVars, cbVars
  <1>12. CallbackOK'
    BY DEF IInv, CallbackOK, StartSubmitFails, Ioctl, SubmitFails, Hand, cbVars
  <1>13. ListsOnce'
    BY <1>1, <1>2, <1>3, <1>4, <1>5 DEF IInv, ListsOnce, TypeOK, PhaseOK, StartSubmitFails, Ioctl,
       SubmitFails, Hand, cbVars
  <1>14. OwnersOK'
    BY <1>1, <1>2, <1>3, <1>4, <1>5 DEF IInv, OwnersOK, TypeOK, PhaseOK, StartSubmitFails, Ioctl,
       SubmitFails, Hand, cbVars
  <1>15. PlacesApart'
    BY <1>1, <1>2, <1>3, <1>4, <1>5 DEF IInv, PlacesApart, TypeOK, PhaseOK, StartSubmitFails,
       Ioctl, SubmitFails, Hand, dmaVars, cbVars
  <1>16. ActiveCovered'
    BY <1>1, <1>2, <1>3, <1>4, <1>5 DEF IInv, ActiveCovered, PhaseOK, Stopping, StartSubmitFails,
       Ioctl, SubmitFails, Hand, dmaVars, cbVars
  <1>17. SeqsOK'
    BY <1>5 DEF IInv, SeqsOK, StartSubmitFails, Ioctl, SubmitFails, Hand, dmaVars
  <1>18. ImageOK'
    BY <1>5 DEF IInv, ImageOK, StartSubmitFails, Ioctl, SubmitFails, Hand, dmaVars, cbVars
  <1> QED
    BY <1>6, <1>7, <1>8, <1>9, <1>10, <1>11, <1>12, <1>13, <1>14, <1>15, <1>16, <1>17, <1>18,
       TypeParts DEF IInv

LEMMA StartedStep ==
    ASSUME IInv, modulePc = "in", UNCHANGED modVars,
           Started
    PROVE  IInv'
  <1>1. /\ UNCHANGED <<parked, active, queued, bufSeq, rejected, owner, vbQueue, engine,
                       workqueue, image, cbVars>>
        /\ Waiting' = Waiting
    BY DEF Waiting, Started, Ioctl, dmaVars, camVars, listVars, vbVars
  <1>2. /\ BufferTypeOK' /\ ListsOnce' /\ OwnersOK'
        /\ PlacesApart' /\ SeqsOK' /\ ImageOK'
        /\ UNCHANGED <<Elements(active), InFlight, Completed, InWork>>
    BY <1>1, SameBuffers
  <1>3. DmaTypeOK'
    BY DEF IInv, DmaTypeOK, TypeOK, Started, Ioctl, dmaVars
  <1>4. FlagTypeOK'
    BY DEF IInv, FlagTypeOK, TypeOK, Started, Ioctl, camVars, timerVars, modVars, vbVars
  <1>5. PlaceTypeOK'
    BY DEF IInv, PlaceTypeOK, TypeOK, Started, Ioctl, dmaVars, camVars, listVars, timerVars,
       modVars, cbVars, vbVars
  <1>6. ModuleOK'
    BY DEF IInv, ModuleOK, Started, Ioctl, dmaVars, modVars
  <1>7. PhaseOK'
    BY <1>1, <1>2 DEF IInv, PhaseOK, Resting, Stopping, Started, Ioctl, dmaVars, camVars, listVars,
       modVars, cbVars, vbVars
  <1>8. CallbackOK'
    BY DEF IInv, CallbackOK, Started, Ioctl, cbVars
  <1>9. ActiveCovered'
    BY <1>1, <1>2 DEF IInv, ActiveCovered, Started, Ioctl, dmaVars, camVars, listVars, cbVars
  <1> QED
    BY <1>2, <1>3, <1>4, <1>5, <1>6, <1>7, <1>8, <1>9, TypeParts DEF IInv

LEMMA CancelWatchdogStep ==
    ASSUME IInv, modulePc = "in", UNCHANGED modVars,
           CancelWatchdog
    PROVE  IInv'
  <1>1. /\ UNCHANGED <<parked, active, queued, bufSeq, rejected, owner, vbQueue, engine,
                       workqueue, image, cbVars>>
        /\ Waiting' = Waiting
    BY DEF Waiting, CancelWatchdog, Ioctl, dmaVars, camVars, listVars, vbVars
  <1>2. /\ BufferTypeOK' /\ ListsOnce' /\ OwnersOK'
        /\ PlacesApart' /\ SeqsOK' /\ ImageOK'
        /\ UNCHANGED <<Elements(active), InFlight, Completed, InWork>>
    BY <1>1, SameBuffers
  <1>3. DmaTypeOK'
    BY DEF IInv, DmaTypeOK, TypeOK, CancelWatchdog, Ioctl, dmaVars
  <1>4. FlagTypeOK'
    BY DEF IInv, FlagTypeOK, TypeOK, CancelWatchdog, Ioctl, camVars, modVars, vbVars
  <1>5. PlaceTypeOK'
    BY DEF IInv, PlaceTypeOK, TypeOK, CancelWatchdog, Ioctl, dmaVars, camVars, listVars, modVars,
       cbVars, vbVars
  <1>6. ModuleOK'
    BY DEF IInv, ModuleOK, CancelWatchdog, Ioctl, dmaVars, modVars
  <1>7. PhaseOK'
    BY <1>1, <1>2 DEF IInv, PhaseOK, Resting, Stopping, CancelWatchdog, Ioctl, dmaVars, camVars,
       listVars, modVars, cbVars, vbVars
  <1>8. CallbackOK'
    BY DEF IInv, CallbackOK, CancelWatchdog, Ioctl, cbVars
  <1>9. ActiveCovered'
    BY <1>1, <1>2 DEF IInv, ActiveCovered, CancelWatchdog, Ioctl, dmaVars, camVars, listVars,
       cbVars
  <1> QED
    BY <1>2, <1>3, <1>4, <1>5, <1>6, <1>7, <1>8, <1>9, TypeParts DEF IInv

LEMMA ClearStreamingStep ==
    ASSUME IInv, modulePc = "in", UNCHANGED modVars,
           ClearStreaming
    PROVE  IInv'
  <1>1. /\ UNCHANGED <<parked, active, queued, bufSeq, rejected, owner, vbQueue, engine,
                       workqueue, image, cbVars>>
        /\ Waiting' = Waiting
    BY DEF Waiting, ClearStreaming, Ioctl, dmaVars, listVars, vbVars
  <1>2. /\ BufferTypeOK' /\ ListsOnce' /\ OwnersOK'
        /\ PlacesApart' /\ SeqsOK' /\ ImageOK'
        /\ UNCHANGED <<Elements(active), InFlight, Completed, InWork>>
    BY <1>1, SameBuffers
  <1>3. DmaTypeOK'
    BY DEF IInv, DmaTypeOK, TypeOK, ClearStreaming, Ioctl, dmaVars
  <1>4. FlagTypeOK'
    BY DEF IInv, FlagTypeOK, TypeOK, ClearStreaming, Ioctl, timerVars, modVars, vbVars
  <1>5. PlaceTypeOK'
    BY DEF IInv, PlaceTypeOK, TypeOK, ClearStreaming, Ioctl, dmaVars, listVars, timerVars, modVars,
       cbVars, vbVars
  <1>6. ModuleOK'
    BY DEF IInv, ModuleOK, ClearStreaming, Ioctl, dmaVars, modVars
  <1>7. PhaseOK'
    BY <1>1, <1>2 DEF IInv, PhaseOK, Resting, Stopping, ClearStreaming, Ioctl, dmaVars, listVars,
       modVars, cbVars, vbVars
  <1>8. CallbackOK'
    BY DEF IInv, CallbackOK, ClearStreaming, Ioctl, cbVars
  <1>9. ActiveCovered'
    BY <1>1, <1>2 DEF IInv, ActiveCovered, ClearStreaming, Ioctl, dmaVars, listVars, cbVars
  <1> QED
    BY <1>2, <1>3, <1>4, <1>5, <1>6, <1>7, <1>8, <1>9, TypeParts DEF IInv

LEMMA MarkStoppingStep ==
    ASSUME IInv, modulePc = "in", UNCHANGED modVars,
           Ioctl("release", "terminate"), MarkStopping,
           UNCHANGED <<camVars, timerVars, ioctlBuf, cbVars, vbVars>>
    PROVE  IInv'
  <1>1. /\ UNCHANGED <<parked, active, queued, bufSeq, rejected, owner, vbQueue, engine,
                       workqueue, image, cbVars>>
        /\ Waiting' = Waiting
    BY DEF Waiting, Ioctl, MarkStopping, camVars, listVars, vbVars
  <1>2. /\ BufferTypeOK' /\ ListsOnce' /\ OwnersOK'
        /\ PlacesApart' /\ SeqsOK' /\ ImageOK'
        /\ UNCHANGED <<Elements(active), InFlight, Completed, InWork>>
    BY <1>1, SameBuffers
  <1>3. DmaTypeOK'
    BY DEF IInv, DmaTypeOK, TypeOK, Ioctl, MarkStopping
  <1>4. FlagTypeOK'
    BY DEF IInv, FlagTypeOK, TypeOK, Ioctl, MarkStopping, camVars, timerVars, modVars, vbVars
  <1>5. PlaceTypeOK'
    BY DEF IInv, PlaceTypeOK, TypeOK, Ioctl, MarkStopping, camVars, listVars, timerVars, modVars,
       cbVars, vbVars
  <1>6. ModuleOK'
    BY DEF IInv, ModuleOK, Ioctl, MarkStopping, modVars
  <1>7. PhaseOK'
    BY <1>1, <1>2 DEF IInv, PhaseOK, Resting, Stopping, Ioctl, MarkStopping, camVars, listVars,
       modVars, cbVars, vbVars
  <1>8. CallbackOK'
    BY DEF IInv, CallbackOK, Ioctl, MarkStopping, cbVars
  <1>9. ActiveCovered'
    BY <1>1, <1>2 DEF IInv, ActiveCovered, Ioctl, MarkStopping, camVars, listVars, cbVars
  <1> QED
    BY <1>2, <1>3, <1>4, <1>5, <1>6, <1>7, <1>8, <1>9, TypeParts DEF IInv

LEMMA TerminateStep ==
    ASSUME IInv, modulePc = "in", UNCHANGED modVars,
           Ioctl("terminate", "destroy"), Terminate,
           UNCHANGED <<camVars, timerVars, ioctlBuf, cbVars, vbVars>>
    PROVE  IInv'
  <1>1. /\ UNCHANGED <<Lists, CbHolds, Elements(parked), Elements(active), Elements(vbQueue),
           Completed, InWork, Waiting, rejected, Elements(workqueue)>>
        /\ InFlight' = {}
        /\ Elements(engine)' = {}
    BY EmptyFacts DEF Lists, CbHolds, InFlight, Completed, InWork, Waiting, Ioctl, Terminate,
       camVars, listVars, cbVars, vbVars
  <1>2. DmaTypeOK'
    BY EmptySeq DEF IInv, DmaTypeOK, TypeOK, Sessions, Ioctl, Terminate
  <1>3. BufferTypeOK'
    BY DEF IInv, BufferTypeOK, TypeOK, Ioctl, Terminate, camVars, listVars, vbVars
  <1>4. FlagTypeOK'
    BY DEF IInv, FlagTypeOK, TypeOK, Ioctl, Terminate, camVars, timerVars, modVars, vbVars
  <1>5. PlaceTypeOK'
    BY DEF IInv, PlaceTypeOK, TypeOK, Ioctl, Terminate, camVars, listVars, timerVars, modVars,
       cbVars, vbVars
  <1>6. ModuleOK'
    BY DEF IInv, ModuleOK, Ioctl, Terminate, modVars
  <1>7. PhaseOK'
    BY <1>1 DEF IInv, PhaseOK, Resting, Stopping, Ioctl, Terminate, camVars, listVars, modVars,
       cbVars, vbVars
  <1>8. CallbackOK'
    BY DEF IInv, CallbackOK, Ioctl, Terminate, cbVars
  <1>9. ListsOnce'
    BY <1>1 DEF IInv, ListsOnce, Ioctl, Terminate, camVars, listVars, cbVars, vbVars
  <1>10. OwnersOK'
    BY <1>1 DEF IInv, OwnersOK, Ioctl, Terminate, camVars, listVars, cbVars, vbVars
  <1>11. PlacesApart'
    BY <1>1, EmptyFacts DEF IInv, PlacesApart, TypeOK, PhaseOK, Ioctl, Terminate, camVars,
       listVars, cbVars
  <1>12. ActiveCovered'
    BY <1>1, EmptyFacts DEF IInv, ActiveCovered, PhaseOK, Stopping, Ioctl, Terminate, camVars,
       listVars, cbVars
  <1>13. SeqsOK'
    BY <1>1 DEF IInv, SeqsOK, Ioctl, Terminate, camVars, listVars
  <1>14. ImageOK'
    BY <1>1 DEF IInv, ImageOK, Ioctl, Terminate, cbVars, vbVars
  <1> QED
    BY <1>2, <1>3, <1>4, <1>5, <1>6, <1>7, <1>8, <1>9, <1>10, <1>11, <1>12, <1>13, <1>14, TypeParts
       DEF IInv

LEMMA ReleaseChannelStep ==
    ASSUME IInv, modulePc = "in", UNCHANGED modVars,
           Ioctl("destroy", "return"), cbPc = "idle", ReleaseChannel,
           UNCHANGED <<camVars, timerVars, ioctlBuf, cbVars, vbVars>>
    PROVE  IInv'
  <1>1. /\ UNCHANGED <<Lists, CbHolds, Elements(parked), Elements(active), Elements(vbQueue),
           Completed, InWork, Waiting, rejected, Elements(workqueue)>>
        /\ InFlight' = {}
        /\ Elements(engine)' = {}
    BY EmptyFacts DEF Lists, CbHolds, InFlight, Completed, InWork, Waiting, Ioctl, ReleaseChannel,
       camVars, listVars, cbVars, vbVars
  <1>2. DmaTypeOK'
    BY EmptySeq DEF IInv, DmaTypeOK, TypeOK, Sessions, Ioctl, ReleaseChannel
  <1>3. BufferTypeOK'
    BY DEF IInv, BufferTypeOK, TypeOK, Ioctl, ReleaseChannel, camVars, listVars, vbVars
  <1>4. FlagTypeOK'
    BY DEF IInv, FlagTypeOK, TypeOK, Ioctl, ReleaseChannel, camVars, timerVars, modVars, vbVars
  <1>5. PlaceTypeOK'
    BY DEF IInv, PlaceTypeOK, TypeOK, Ioctl, ReleaseChannel, camVars, listVars, timerVars, modVars,
       cbVars, vbVars
  <1>6. ModuleOK'
    BY DEF IInv, ModuleOK, Ioctl, ReleaseChannel, modVars
  <1>7. PhaseOK'
    BY <1>1 DEF IInv, PhaseOK, Resting, Stopping, Ioctl, ReleaseChannel, camVars, listVars,
       modVars, cbVars, vbVars
  <1>8. CallbackOK'
    BY DEF IInv, CallbackOK, Ioctl, ReleaseChannel, cbVars
  <1>9. ListsOnce'
    BY <1>1 DEF IInv, ListsOnce, Ioctl, ReleaseChannel, camVars, listVars, cbVars, vbVars
  <1>10. OwnersOK'
    BY <1>1 DEF IInv, OwnersOK, Ioctl, ReleaseChannel, camVars, listVars, cbVars, vbVars
  <1>11. PlacesApart'
    BY <1>1 DEF IInv, PlacesApart, Ioctl, ReleaseChannel, camVars, listVars, cbVars
  <1>12. ActiveCovered'
    BY <1>1, EmptyFacts DEF IInv, ActiveCovered, PhaseOK, Stopping, Ioctl, ReleaseChannel, camVars,
       listVars, cbVars
  <1>13. SeqsOK'
    BY <1>1 DEF IInv, SeqsOK, Ioctl, ReleaseChannel, camVars, listVars
  <1>14. ImageOK'
    BY <1>1 DEF IInv, ImageOK, Ioctl, ReleaseChannel, cbVars, vbVars
  <1> QED
    BY <1>2, <1>3, <1>4, <1>5, <1>6, <1>7, <1>8, <1>9, <1>10, <1>11, <1>12, <1>13, <1>14, TypeParts
       DEF IInv

LEMMA ReturnBuffersStep ==
    ASSUME IInv, modulePc = "in", UNCHANGED modVars,
           ReturnBuffers
    PROVE  IInv'
  <1>1. parked \in Seq(Buffers) /\ active \in Seq(Buffers)
    BY DEF IInv, TypeOK
  <1>2. Elements(parked \o active) = Lists
    BY <1>1, ConcatFacts DEF Lists
  <1>3. engine = << >> /\ workqueue = << >> /\ cbPc = "idle"
    BY DEF IInv, PhaseOK, Resting, ReturnBuffers, Ioctl
  <1>4. /\ InFlight = {} /\ Completed = {} /\ InWork = {} /\ Waiting = {} /\ CbHolds = {}
    BY <1>3, EmptyFacts DEF InFlight, Completed, InWork, Waiting, CbHolds, ReturnBuffers, Ioctl
  <1>5. /\ UNCHANGED <<CbHolds, Elements(vbQueue), InFlight, Completed, InWork, Waiting,
           Elements(engine), Elements(workqueue)>>
        /\ Lists' = {}
        /\ Elements(parked)' = {}
        /\ Elements(active)' = {}
        /\ rejected' = {}
    BY <1>1, <1>2, <1>3, <1>4, EmptyFacts DEF Lists, CbHolds, InFlight, Completed, InWork, Waiting,
       ReturnBuffers, Ioctl, Hand, dmaVars, cbVars
  <1>6. DmaTypeOK'
    BY DEF IInv, DmaTypeOK, TypeOK, ReturnBuffers, Ioctl, Hand, dmaVars
  <1>7. BufferTypeOK'
    BY DEF IInv, BufferTypeOK, TypeOK, ReturnBuffers, Ioctl, Hand
  <1>8. FlagTypeOK'
    BY DEF IInv, FlagTypeOK, TypeOK, ReturnBuffers, Ioctl, Hand, timerVars, modVars
  <1>9. PlaceTypeOK'
    BY DEF IInv, PlaceTypeOK, TypeOK, ReturnBuffers, Ioctl, Hand, dmaVars, timerVars, modVars,
       cbVars
  <1>10. ModuleOK'
    BY DEF IInv, ModuleOK, ReturnBuffers, Ioctl, Hand, dmaVars, modVars
  <1>11. PhaseOK'
    BY <1>5 DEF IInv, PhaseOK, Resting, Stopping, ReturnBuffers, Ioctl, Hand, dmaVars, modVars,
       cbVars
  <1>12. CallbackOK'
    BY DEF IInv, CallbackOK, ReturnBuffers, Ioctl, Hand, cbVars
  <1>13. ListsOnce'
    BY <1>5, EmptyFacts DEF IInv, ListsOnce, TypeOK, PhaseOK, ReturnBuffers, Ioctl, Hand, cbVars
  <1>14. OwnersOK'
    BY <1>2, <1>4, <1>5 DEF IInv, OwnersOK, ReturnBuffers, Hand
  <1>15. PlacesApart'
    BY <1>4, <1>5 DEF IInv, PlacesApart, ReturnBuffers, dmaVars
  <1>16. ActiveCovered'
    BY <1>5 DEF IInv, ActiveCovered, ReturnBuffers, Ioctl, Hand, dmaVars, cbVars
  <1>17. SeqsOK'
    BY <1>5 DEF IInv, SeqsOK, ReturnBuffers, Ioctl, Hand, dmaVars
  <1>18. ImageOK'
    BY <1>5 DEF IInv, ImageOK, ReturnBuffers, Ioctl, Hand, dmaVars, cbVars
  <1> QED
    BY <1>6, <1>7, <1>8, <1>9, <1>10, <1>11, <1>12, <1>13, <1>14, <1>15, <1>16, <1>17, <1>18,
       TypeParts DEF IInv

LEMMA CancelQueueStep ==
    ASSUME IInv, modulePc = "in", UNCHANGED modVars,
           CancelQueue
    PROVE  IInv'
  <1>1. Lists = {} /\ CbHolds = {}
    BY EmptyFacts DEF IInv, PhaseOK, Resting, Lists, CbHolds, CancelQueue, Ioctl
  <1>2. /\ UNCHANGED <<Lists, CbHolds, Elements(parked), Elements(active), InFlight, Completed,
           InWork, Waiting, rejected, Elements(engine), Elements(workqueue)>>
        /\ Elements(vbQueue)' = {}
    BY <1>1, EmptyFacts DEF Lists, CbHolds, InFlight, Completed, InWork, Waiting, CancelQueue,
       Ioctl, Hand, dmaVars, camVars, listVars, cbVars
  <1>3. DmaTypeOK'
    BY DEF IInv, DmaTypeOK, TypeOK, CancelQueue, Ioctl, Hand, dmaVars
  <1>4. BufferTypeOK'
    BY DEF IInv, BufferTypeOK, TypeOK, CancelQueue, Ioctl, Hand, camVars, listVars
  <1>5. FlagTypeOK'
    BY DEF IInv, FlagTypeOK, TypeOK, CancelQueue, Ioctl, Hand, camVars, timerVars, modVars
  <1>6. PlaceTypeOK'
    BY DEF IInv, PlaceTypeOK, TypeOK, CancelQueue, Ioctl, Hand, dmaVars, camVars, listVars,
       timerVars, modVars, cbVars
  <1>7. ModuleOK'
    BY DEF IInv, ModuleOK, CancelQueue, Ioctl, Hand, dmaVars, modVars
  <1>8. PhaseOK'
    BY <1>2 DEF IInv, PhaseOK, Resting, Stopping, CancelQueue, Ioctl, Hand, dmaVars, camVars,
       listVars, modVars, cbVars
  <1>9. CallbackOK'
    BY DEF IInv, CallbackOK, CancelQueue, Ioctl, Hand, cbVars
  <1>10. ListsOnce'
    BY <1>2, EmptyFacts DEF IInv, ListsOnce, TypeOK, PhaseOK, CancelQueue, Ioctl, Hand, camVars,
       listVars, cbVars
  <1>11. OwnersOK'
    BY <1>1, <1>2 DEF IInv, OwnersOK, CancelQueue, Hand, camVars, listVars
  <1>12. PlacesApart'
    BY <1>2 DEF IInv, PlacesApart, CancelQueue, Ioctl, Hand, dmaVars, camVars, listVars, cbVars
  <1>13. ActiveCovered'
    BY <1>2 DEF IInv, ActiveCovered, CancelQueue, Ioctl, Hand, dmaVars, camVars, listVars, cbVars
  <1>14. SeqsOK'
    BY <1>2 DEF IInv, SeqsOK, CancelQueue, Ioctl, Hand, dmaVars, camVars, listVars
  <1>15. ImageOK'
    BY <1>2 DEF IInv, ImageOK, CancelQueue, Ioctl, Hand, dmaVars, cbVars
  <1> QED
    BY <1>3, <1>4, <1>5, <1>6, <1>7, <1>8, <1>9, <1>10, <1>11, <1>12, <1>13, <1>14, <1>15,
       TypeParts DEF IInv

LEMMA DropWorkStep ==
    ASSUME IInv, modulePc = "in", UNCHANGED modVars,
           Work, Stale(Head(workqueue))
    PROVE  IInv'
  <1>1. /\ workqueue \in Seq(Completions) /\ workqueue # << >> /\ OncePerBuf(workqueue)
        /\ workqueue' = Tail(workqueue)
    BY DEF IInv, TypeOK, DmaTypeOK, PlacesApart, Work, TakeWork
  <1>2. /\ workqueue' \in Seq(Completions) /\ OncePerBuf(workqueue')
        /\ Bufs(workqueue') = Bufs(workqueue) \ {Head(workqueue).buf}
        /\ Head(workqueue) \in Completions /\ Head(workqueue) \in Elements(workqueue)
        /\ Head(workqueue).buf \in Bufs(workqueue)
        /\ Elements(workqueue') \subseteq Elements(workqueue)
    BY <1>1, TailFacts
  <1>3. ~streaming
    BY <1>2, NotStale DEF Work
  <1>4. /\ UNCHANGED <<Lists, CbHolds, Elements(parked), Elements(active), Elements(vbQueue),
           InFlight, InWork, Waiting, rejected, Elements(engine)>>
        /\ Completed' = Completed \ {Head(workqueue).buf}
        /\ Elements(workqueue)' = Elements(workqueue')
    BY <1>1, <1>2, <1>3, EmptyFacts DEF Lists, CbHolds, InFlight, Completed, InWork, Waiting, Work,
       TakeWork, camVars, listVars, ioctlVars, cbVars, vbVars
  <1>5. DmaTypeOK'
    BY <1>1, <1>2, <1>3 DEF IInv, DmaTypeOK, TypeOK, Sessions, Work, TakeWork
  <1>6. BufferTypeOK'
    BY DEF IInv, BufferTypeOK, TypeOK, Work, TakeWork, camVars, listVars, vbVars
  <1>7. FlagTypeOK'
    BY DEF IInv, FlagTypeOK, TypeOK, Work, TakeWork, camVars, timerVars, modVars, vbVars
  <1>8. PlaceTypeOK'
    BY DEF IInv, PlaceTypeOK, TypeOK, Work, TakeWork, camVars, listVars, timerVars, modVars,
       ioctlVars, cbVars, vbVars
  <1>9. ModuleOK'
    BY DEF IInv, ModuleOK, Work, TakeWork, modVars
  <1>10. PhaseOK'
    BY <1>4 DEF IInv, PhaseOK, Resting, Stopping, Work, TakeWork, camVars, listVars, modVars,
       ioctlVars, cbVars, vbVars
  <1>11. CallbackOK'
    BY DEF IInv, CallbackOK, Work, TakeWork, cbVars
  <1>12. ListsOnce'
    BY <1>4 DEF IInv, ListsOnce, Work, TakeWork, camVars, listVars, cbVars, vbVars
  <1>13. OwnersOK'
    BY <1>4 DEF IInv, OwnersOK, Work, TakeWork, camVars, listVars, cbVars, vbVars
  <1>14. PlacesApart'
    BY <1>2, <1>3, <1>4 DEF IInv, PlacesApart, Completed, Work, TakeWork, camVars, listVars
  <1>15. ActiveCovered'
    BY <1>1, <1>2, <1>3, <1>4 DEF IInv, ActiveCovered, PhaseOK, Stopping, Work, TakeWork, camVars,
       listVars, ioctlVars, cbVars
  <1>16. SeqsOK'
    BY <1>1, <1>2, <1>3, <1>4 DEF IInv, SeqsOK, TypeOK, Work, TakeWork, camVars, listVars
  <1>17. ImageOK'
    BY <1>1, <1>2, <1>3, <1>4 DEF IInv, ImageOK, TypeOK, Work, TakeWork, cbVars, vbVars
  <1> QED
    BY <1>5, <1>6, <1>7, <1>8, <1>9, <1>10, <1>11, <1>12, <1>13, <1>14, <1>15, <1>16, <1>17,
       TypeParts DEF IInv

LEMMA TakeWorkStep ==
    ASSUME IInv, modulePc = "in", UNCHANGED modVars,
           Work, ~Stale(Head(workqueue))
    PROVE  IInv'
  <1>1. /\ workqueue \in Seq(Completions) /\ workqueue # << >> /\ OncePerBuf(workqueue)
        /\ workqueue' = Tail(workqueue)
    BY DEF IInv, TypeOK, DmaTypeOK, PlacesApart, Work, TakeWork
  <1>2. /\ workqueue' \in Seq(Completions) /\ OncePerBuf(workqueue')
        /\ Bufs(workqueue') = Bufs(workqueue) \ {Head(workqueue).buf}
        /\ Head(workqueue) \in Completions /\ Head(workqueue) \in Elements(workqueue)
        /\ Head(workqueue).buf \in Bufs(workqueue)
        /\ Elements(workqueue') \subseteq Elements(workqueue)
    BY <1>1, TailFacts
  <1>3. InWork = {}
    BY DEF InWork, Work
  <1>4. /\ UNCHANGED <<Lists, CbHolds, Elements(parked), Elements(active), Elements(vbQueue),
           InFlight, Waiting, rejected, Elements(engine)>>
        /\ Completed' = Completed \ {Head(workqueue).buf}
        /\ InWork' = {Head(workqueue).buf}
        /\ Elements(workqueue)' = Elements(workqueue')
    BY <1>1, <1>2, <1>3, EmptyFacts DEF Lists, CbHolds, InFlight, Completed, InWork, Waiting, Work,
       TakeWork, camVars, listVars, ioctlVars, cbVars, vbVars
  <1>5. DmaTypeOK'
    BY <1>1, <1>2, <1>3 DEF IInv, DmaTypeOK, TypeOK, Sessions, Work, TakeWork
  <1>6. BufferTypeOK'
    BY DEF IInv, BufferTypeOK, TypeOK, Work, TakeWork, camVars, listVars, vbVars
  <1>7. FlagTypeOK'
    BY DEF IInv, FlagTypeOK, TypeOK, Work, TakeWork, camVars, timerVars, modVars, vbVars
  <1>8. PlaceTypeOK'
    BY <1>1, <1>2, <1>3 DEF IInv, PlaceTypeOK, TypeOK, CallbackOK, Work, TakeWork, camVars,
       listVars, timerVars, modVars, ioctlVars, cbVars, vbVars
  <1>9. ModuleOK'
    BY DEF IInv, ModuleOK, Work, TakeWork, modVars
  <1>10. PhaseOK'
    BY <1>4 DEF IInv, PhaseOK, Resting, Stopping, Work, TakeWork, camVars, listVars, modVars,
       ioctlVars, cbVars, vbVars
  <1>11. CallbackOK'
    BY <1>1, <1>2, <1>3 DEF IInv, CallbackOK, TypeOK, Work, TakeWork, cbVars
  <1>12. ListsOnce'
    BY <1>4 DEF IInv, ListsOnce, Work, TakeWork, camVars, listVars, cbVars, vbVars
  <1>13. OwnersOK'
    BY <1>4 DEF IInv, OwnersOK, Work, TakeWork, camVars, listVars, cbVars, vbVars
  <1>14. PlacesApart'
    BY <1>2, <1>3, <1>4 DEF IInv, PlacesApart, Completed, Work, TakeWork, camVars, listVars
  <1>15. ActiveCovered'
    BY <1>1, <1>2, <1>3, <1>4 DEF IInv, ActiveCovered, PhaseOK, Stopping, Work, TakeWork, camVars,
       listVars, ioctlVars, cbVars
  <1>16. SeqsOK'
    BY <1>1, <1>2, <1>3, <1>4 DEF IInv, SeqsOK, TypeOK, Work, TakeWork, camVars, listVars
  <1>17. ImageOK'
    BY <1>1, <1>2, <1>3, <1>4 DEF IInv, ImageOK, TypeOK, Work, TakeWork, cbVars, vbVars
  <1> QED
    BY <1>5, <1>6, <1>7, <1>8, <1>9, <1>10, <1>11, <1>12, <1>13, <1>14, <1>15, <1>16, <1>17,
       TypeParts DEF IInv

LEMMA CheckStreamingStep ==
    ASSUME IInv, modulePc = "in", UNCHANGED modVars,
           CheckStreaming
    PROVE  IInv'
  <1>1. /\ UNCHANGED <<Lists, CbHolds, Elements(parked), Elements(active), Elements(vbQueue),
           InFlight, Completed, Waiting, rejected, Elements(engine), Elements(workqueue)>>
        /\ InWork' = IF streaming THEN InWork ELSE {}
    BY EmptyFacts DEF Lists, CbHolds, InFlight, Completed, InWork, Waiting, CheckStreaming,
       CallbackEnds, dmaVars, camVars, listVars, ioctlVars, vbVars
  <1>2. DmaTypeOK'
    BY DEF IInv, DmaTypeOK, TypeOK, CheckStreaming, CallbackEnds, dmaVars
  <1>3. BufferTypeOK'
    BY DEF IInv, BufferTypeOK, TypeOK, CheckStreaming, CallbackEnds, camVars, listVars, vbVars
  <1>4. FlagTypeOK'
    BY DEF IInv, FlagTypeOK, TypeOK, CheckStreaming, CallbackEnds, camVars, timerVars, modVars,
       vbVars
  <1>5. PlaceTypeOK'
    BY DEF IInv, PlaceTypeOK, TypeOK, CheckStreaming, CallbackEnds, dmaVars, camVars, listVars,
       timerVars, modVars, ioctlVars, vbVars
  <1>6. ModuleOK'
    BY DEF IInv, ModuleOK, CheckStreaming, CallbackEnds, dmaVars, modVars
  <1>7. PhaseOK'
    BY <1>1 DEF IInv, PhaseOK, Resting, Stopping, CheckStreaming, CallbackEnds, dmaVars, camVars,
       listVars, modVars, ioctlVars, vbVars
  <1>8. CallbackOK'
    BY DEF IInv, CallbackOK, CheckStreaming, CallbackEnds
  <1>9. ListsOnce'
    BY <1>1 DEF IInv, ListsOnce, CheckStreaming, CallbackEnds, camVars, listVars, vbVars
  <1>10. OwnersOK'
    BY <1>1 DEF IInv, OwnersOK, CheckStreaming, CallbackEnds, camVars, listVars, vbVars
  <1>11. PlacesApart'
    BY <1>1 DEF IInv, PlacesApart, CheckStreaming, CallbackEnds, dmaVars, camVars, listVars,
       ioctlVars
  <1>12. ActiveCovered'
    BY <1>1 DEF IInv, ActiveCovered, CheckStreaming, CallbackEnds, dmaVars, camVars, listVars,
       ioctlVars
  <1>13. SeqsOK'
    BY <1>1 DEF IInv, SeqsOK, CheckStreaming, CallbackEnds, dmaVars, camVars, listVars
  <1>14. ImageOK'
    BY <1>1 DEF IInv, ImageOK, CheckStreaming, CallbackEnds, dmaVars, vbVars
  <1> QED
    BY <1>2, <1>3, <1>4, <1>5, <1>6, <1>7, <1>8, <1>9, <1>10, <1>11, <1>12, <1>13, <1>14, TypeParts
       DEF IInv

LEMMA ResetWatchdogStep ==
    ASSUME IInv, modulePc = "in", UNCHANGED modVars,
           ResetWatchdog
    PROVE  IInv'
  <1>1. /\ UNCHANGED <<Lists, CbHolds, Elements(parked), Elements(active), Elements(vbQueue),
           InFlight, Completed, InWork, Waiting, rejected, Elements(engine), Elements(workqueue)>>
    BY EmptyFacts DEF Lists, CbHolds, InFlight, Completed, InWork, Waiting, ResetWatchdog, dmaVars,
       camVars, listVars, ioctlVars, vbVars
  <1>2. DmaTypeOK'
    BY DEF IInv, DmaTypeOK, TypeOK, ResetWatchdog, dmaVars
  <1>3. BufferTypeOK'
    BY DEF IInv, BufferTypeOK, TypeOK, ResetWatchdog, camVars, listVars, vbVars
  <1>4. FlagTypeOK'
    BY DEF IInv, FlagTypeOK, TypeOK, ResetWatchdog, camVars, modVars, vbVars
  <1>5. PlaceTypeOK'
    BY DEF IInv, PlaceTypeOK, TypeOK, ResetWatchdog, dmaVars, camVars, listVars, modVars,
       ioctlVars, vbVars
  <1>6. ModuleOK'
    BY DEF IInv, ModuleOK, ResetWatchdog, dmaVars, modVars
  <1>7. PhaseOK'
    BY <1>1 DEF IInv, PhaseOK, Resting, Stopping, ResetWatchdog, dmaVars, camVars, listVars,
       modVars, ioctlVars, vbVars
  <1>8. CallbackOK'
    BY DEF IInv, CallbackOK, ResetWatchdog
  <1>9. ListsOnce'
    BY <1>1 DEF IInv, ListsOnce, ResetWatchdog, camVars, listVars, vbVars
  <1>10. OwnersOK'
    BY <1>1 DEF IInv, OwnersOK, ResetWatchdog, camVars, listVars, vbVars
  <1>11. PlacesApart'
    BY <1>1 DEF IInv, PlacesApart, ResetWatchdog, dmaVars, camVars, listVars, ioctlVars
  <1>12. ActiveCovered'
    BY <1>1 DEF IInv, ActiveCovered, ResetWatchdog, dmaVars, camVars, listVars, ioctlVars
  <1>13. SeqsOK'
    BY <1>1 DEF IInv, SeqsOK, ResetWatchdog, dmaVars, camVars, listVars
  <1>14. ImageOK'
    BY <1>1 DEF IInv, ImageOK, ResetWatchdog, dmaVars, vbVars
  <1> QED
    BY <1>2, <1>3, <1>4, <1>5, <1>6, <1>7, <1>8, <1>9, <1>10, <1>11, <1>12, <1>13, <1>14, TypeParts
       DEF IInv

LEMMA ResubmittedStep ==
    ASSUME IInv, modulePc = "in", UNCHANGED modVars,
           Resubmit, Submit(cbWork.buf, bufSeq[cbWork.buf]), UNCHANGED rejected
    PROVE  IInv'
  <1>1. cbWork.buf \in Buffers /\ InWork = {cbWork.buf}
    BY DmaAssumption DEF IInv, PhaseOK, CallbackOK, TypeOK, Completions, Waiting, InWork, Ioctl,
       Resubmit
  <1>2. [buf |-> cbWork.buf, seq |-> bufSeq[cbWork.buf]] \in Descriptors
    BY <1>1 DEF IInv, TypeOK, Descriptors
  <1>3. /\ engine \in Seq(Descriptors) /\ OncePerBuf(engine) /\ cbWork.buf \notin Bufs(engine)
        /\ engine' = Append(engine, [buf |-> cbWork.buf, seq |-> bufSeq[cbWork.buf]])
    BY <1>1 DEF IInv, TypeOK, DmaTypeOK, PlacesApart, InFlight, Submit, Resubmit
  <1>4. /\ engine' \in Seq(Descriptors) /\ OncePerBuf(engine')
        /\ Bufs(engine') = Bufs(engine) \cup {cbWork.buf}
        /\ Elements(engine') = Elements(engine) \cup {[buf |-> cbWork.buf, seq |-> bufSeq[cbWork.buf]]}
    BY <1>2, <1>3, AppendFacts
  <1>5. /\ UNCHANGED <<Lists, CbHolds, Elements(parked), Elements(active), Elements(vbQueue),
           Completed, Waiting, rejected, Elements(workqueue)>>
        /\ InFlight' = InFlight \cup {cbWork.buf}
        /\ InWork' = {}
        /\ Elements(engine)' = Elements(engine) \cup {[buf |-> cbWork.buf, seq |-> bufSeq[cbWork.buf]]}
    BY <1>1, <1>2, <1>3, <1>4, EmptyFacts DEF Lists, CbHolds, InFlight, Completed, InWork, Waiting,
       Resubmit, Ioctl, Submit, CallbackEnds, SubmitOrNot, ioctlVars, vbVars
  <1>6. DmaTypeOK'
    BY <1>1, <1>2, <1>3, <1>4 DEF IInv, DmaTypeOK, TypeOK, Sessions, Resubmit, Ioctl, Submit,
       CallbackEnds, SubmitOrNot
  <1>7. BufferTypeOK'
    BY DEF IInv, BufferTypeOK, TypeOK, Resubmit, Ioctl, Submit, CallbackEnds, SubmitOrNot, vbVars
  <1>8. FlagTypeOK'
    BY DEF IInv, FlagTypeOK, TypeOK, Resubmit, Ioctl, Submit, CallbackEnds, SubmitOrNot, timerVars,
       modVars, vbVars
  <1>9. PlaceTypeOK'
    BY DEF IInv, PlaceTypeOK, TypeOK, Resubmit, Ioctl, Submit, CallbackEnds, SubmitOrNot,
       timerVars, modVars, ioctlVars, vbVars
  <1>10. ModuleOK'
    BY DEF IInv, ModuleOK, Resubmit, Ioctl, Submit, CallbackEnds, SubmitOrNot, modVars
  <1>11. PhaseOK'
    BY <1>5 DEF IInv, PhaseOK, Resting, Stopping, Resubmit, Ioctl, Submit, CallbackEnds,
       SubmitOrNot, modVars, ioctlVars, vbVars
  <1>12. CallbackOK'
    BY DEF IInv, CallbackOK, Resubmit, Ioctl, Submit, CallbackEnds, SubmitOrNot
  <1>13. ListsOnce'
    BY <1>5 DEF IInv, ListsOnce, Resubmit, Ioctl, Submit, CallbackEnds, SubmitOrNot, vbVars
  <1>14. OwnersOK'
    BY <1>5 DEF IInv, OwnersOK, Resubmit, Ioctl, Submit, CallbackEnds, SubmitOrNot, vbVars
  <1>15. PlacesApart'
    BY <1>1, <1>4, <1>5 DEF IInv, PlacesApart, Submit, Resubmit, camVars, listVars
  <1>16. ActiveCovered'
    BY <1>1, <1>5 DEF IInv, ActiveCovered, Resubmit, camVars
  <1>17. SeqsOK'
    <2> DEFINE d == [buf |-> cbWork.buf, seq |-> bufSeq[cbWork.buf]]
    <2>1. d.buf = cbWork.buf /\ d.seq = bufSeq[d.buf]
      OBVIOUS
    <2>2. UNCHANGED bufSeq
      BY DEF Resubmit, camVars, listVars
    <2>3. /\ Elements(engine)' = Elements(engine) \cup {d}
          /\ Elements(workqueue)' = Elements(workqueue)
      BY <1>5
    <2> HIDE DEF d
    <2> QED
      BY <2>1, <2>2, <2>3 DEF IInv, SeqsOK
  <1>18. ImageOK'
    BY <1>5 DEF IInv, ImageOK, Resubmit, Ioctl, Submit, CallbackEnds, SubmitOrNot, vbVars
  <1> QED
    BY <1>6, <1>7, <1>8, <1>9, <1>10, <1>11, <1>12, <1>13, <1>14, <1>15, <1>16, <1>17, <1>18,
       TypeParts DEF IInv

LEMMA ResubmitRefusedStep ==
    ASSUME IInv, modulePc = "in", UNCHANGED modVars,
           Resubmit, SubmitFails, rejected' = rejected \cup {cbWork.buf}
    PROVE  IInv'
  <1>1. cbWork.buf \in Buffers /\ cbWork.buf \in InWork /\ InWork = {cbWork.buf}
    BY DmaAssumption DEF IInv, PhaseOK, CallbackOK, TypeOK, Completions, Waiting, InWork, Ioctl,
       Resubmit
  <1>2. /\ UNCHANGED <<Lists, CbHolds, Elements(parked), Elements(active), Elements(vbQueue),
           InFlight, Completed, Waiting, Elements(engine), Elements(workqueue)>>
        /\ InWork' = {}
        /\ rejected' = rejected \cup {cbWork.buf}
    BY <1>1, EmptyFacts DEF Lists, CbHolds, InFlight, Completed, InWork, Waiting, Resubmit, Ioctl,
       SubmitFails, CallbackEnds, dmaVars, ioctlVars, vbVars
  <1>3. DmaTypeOK'
    BY DEF IInv, DmaTypeOK, TypeOK, Resubmit, Ioctl, SubmitFails, CallbackEnds, dmaVars
  <1>4. BufferTypeOK'
    BY <1>1 DEF IInv, BufferTypeOK, TypeOK, Sessions, PhaseOK, Resubmit, Ioctl, SubmitFails,
       CallbackEnds, vbVars
  <1>5. FlagTypeOK'
    BY DEF IInv, FlagTypeOK, TypeOK, Resubmit, Ioctl, SubmitFails, CallbackEnds, timerVars,
       modVars, vbVars
  <1>6. PlaceTypeOK'
    BY DEF IInv, PlaceTypeOK, TypeOK, Resubmit, Ioctl, SubmitFails, CallbackEnds, dmaVars,
       timerVars, modVars, ioctlVars, vbVars
  <1>7. ModuleOK'
    BY DEF IInv, ModuleOK, Resubmit, Ioctl, SubmitFails, CallbackEnds, dmaVars, modVars
  <1>8. PhaseOK'
    BY <1>2 DEF IInv, PhaseOK, Resting, Stopping, Resubmit, Ioctl, SubmitFails, CallbackEnds,
       dmaVars, modVars, ioctlVars, vbVars
  <1>9. CallbackOK'
    BY DEF IInv, CallbackOK, Resubmit, Ioctl, SubmitFails, CallbackEnds
  <1>10. ListsOnce'
    BY <1>2 DEF IInv, ListsOnce, Resubmit, Ioctl, SubmitFails, CallbackEnds, vbVars
  <1>11. OwnersOK'
    BY <1>2 DEF IInv, OwnersOK, Resubmit, Ioctl, SubmitFails, CallbackEnds, vbVars
  <1>12. PlacesApart'
    BY <1>1, <1>2 DEF IInv, PlacesApart, TypeOK, PhaseOK, Resubmit, Ioctl, SubmitFails,
       CallbackEnds, dmaVars, ioctlVars
  <1>13. ActiveCovered'
    BY <1>1, <1>2 DEF IInv, ActiveCovered, PhaseOK, Stopping, Resubmit, Ioctl, SubmitFails,
       CallbackEnds, dmaVars, ioctlVars
  <1>14. SeqsOK'
    BY <1>2 DEF IInv, SeqsOK, Resubmit, Ioctl, SubmitFails, CallbackEnds, dmaVars
  <1>15. ImageOK'
    BY <1>2 DEF IInv, ImageOK, Resubmit, Ioctl, SubmitFails, CallbackEnds, dmaVars, vbVars
  <1> QED
    BY <1>3, <1>4, <1>5, <1>6, <1>7, <1>8, <1>9, <1>10, <1>11, <1>12, <1>13, <1>14, <1>15,
       TypeParts DEF IInv

LEMMA TakeFrameStep ==
    ASSUME IInv, modulePc = "in", UNCHANGED modVars,
           TakeFrame
    PROVE  IInv'
  <1>1. /\ cbWork.buf \in Elements(active) /\ cbWork.buf \in Buffers /\ InWork = {cbWork.buf}
        /\ CbHolds = {}
    BY Holdings DEF IInv, PlacesApart, InWork, CbHolds, TakeFrame
  <1>2. /\ active \in Seq(Buffers) /\ Once(active) /\ cbWork.buf \notin Elements(parked)
        /\ cbWork.buf \in Lists
    BY <1>1 DEF IInv, TypeOK, ListsOnce, Lists
  <1>3. /\ active' = Without(active, cbWork.buf) /\ queued' = [queued EXCEPT ![cbWork.buf] = FALSE]
        /\ cbPc' = "done" /\ cbWork' = cbWork
    BY <1>1, <1>2 DEF IInv, OwnersOK, TakeFrame
  <1>4. /\ active' \in Seq(Buffers) /\ Once(active')
        /\ Elements(active') = Elements(active) \ {cbWork.buf}
    BY <1>1, <1>2, <1>3, WithoutFacts
  <1>5. /\ UNCHANGED <<Elements(parked), Elements(vbQueue), InFlight, Completed, Waiting, rejected,
           Elements(engine), Elements(workqueue)>>
        /\ Lists' = Lists \ {cbWork.buf}
        /\ CbHolds' = {cbWork.buf}
        /\ Elements(active)' = Elements(active) \ {cbWork.buf}
        /\ InWork' = {}
    BY <1>1, <1>2, <1>3, <1>4, EmptyFacts DEF Lists, CbHolds, InFlight, Completed, InWork, Waiting,
       TakeFrame, CallbackEnds, dmaVars, ioctlVars, vbVars
  <1>6. DmaTypeOK'
    BY DEF IInv, DmaTypeOK, TypeOK, TakeFrame, CallbackEnds, dmaVars
  <1>7. BufferTypeOK'
    BY <1>1, <1>2, <1>3, <1>4 DEF IInv, BufferTypeOK, TypeOK, Sessions, PhaseOK, TakeFrame,
       CallbackEnds, vbVars
  <1>8. FlagTypeOK'
    BY DEF IInv, FlagTypeOK, TypeOK, TakeFrame, CallbackEnds, timerVars, modVars, vbVars
  <1>9. PlaceTypeOK'
    BY DEF IInv, PlaceTypeOK, TypeOK, TakeFrame, CallbackEnds, dmaVars, timerVars, modVars,
       ioctlVars, vbVars
  <1>10. ModuleOK'
    BY DEF IInv, ModuleOK, TakeFrame, CallbackEnds, dmaVars, modVars
  <1>11. PhaseOK'
    BY <1>5 DEF IInv, PhaseOK, Resting, Stopping, TakeFrame, CallbackEnds, dmaVars, modVars,
       ioctlVars, vbVars
  <1>12. CallbackOK'
    BY DEF IInv, CallbackOK, TakeFrame, CallbackEnds
  <1>13. ListsOnce'
    BY <1>1, <1>2, <1>3, <1>4, <1>5 DEF IInv, ListsOnce, TypeOK, PhaseOK, TakeFrame, CallbackEnds,
       vbVars
  <1>14. OwnersOK'
    BY <1>1, <1>2, <1>3, <1>4, <1>5 DEF IInv, OwnersOK, TypeOK, PhaseOK, TakeFrame, CallbackEnds,
       vbVars
  <1>15. PlacesApart'
    BY <1>1, <1>2, <1>3, <1>4, <1>5 DEF IInv, PlacesApart, TypeOK, PhaseOK, TakeFrame,
       CallbackEnds, dmaVars, ioctlVars
  <1>16. ActiveCovered'
    BY <1>1, <1>2, <1>3, <1>4, <1>5 DEF IInv, ActiveCovered, PhaseOK, Stopping, TakeFrame,
       CallbackEnds, dmaVars, ioctlVars
  <1>17. SeqsOK'
    BY <1>5 DEF IInv, SeqsOK, TakeFrame, CallbackEnds, dmaVars
  <1>18. ImageOK'
    BY <1>5 DEF IInv, ImageOK, TakeFrame, CallbackEnds, dmaVars, vbVars
  <1> QED
    BY <1>6, <1>7, <1>8, <1>9, <1>10, <1>11, <1>12, <1>13, <1>14, <1>15, <1>16, <1>17, <1>18,
       TypeParts DEF IInv

LEMMA FrameDoneStep ==
    ASSUME IInv, modulePc = "in", UNCHANGED modVars,
           FrameDone
    PROVE  IInv'
  <1>1. cbWork.buf \in Buffers /\ CbHolds = {cbWork.buf}
    BY DEF IInv, CallbackOK, Completions, CbHolds, FrameDone
  <1>2. cbWork.buf \notin Lists /\ cbWork.buf \notin Elements(vbQueue)
    BY <1>1 DEF IInv, ListsOnce, OwnersOK
  <1>3. /\ UNCHANGED <<Lists, Elements(parked), Elements(active), Elements(vbQueue), InFlight,
           Completed, InWork, Waiting, rejected, Elements(engine), Elements(workqueue)>>
        /\ CbHolds' = {}
    BY <1>1, <1>2, EmptyFacts DEF Lists, CbHolds, InFlight, Completed, InWork, Waiting, FrameDone,
       CallbackEnds, Hand, dmaVars, camVars, listVars, ioctlVars
  <1>4. DmaTypeOK'
    BY DEF IInv, DmaTypeOK, TypeOK, FrameDone, CallbackEnds, Hand, dmaVars
  <1>5. BufferTypeOK'
    BY DEF IInv, BufferTypeOK, TypeOK, FrameDone, CallbackEnds, Hand, camVars, listVars
  <1>6. FlagTypeOK'
    BY DEF IInv, FlagTypeOK, TypeOK, FrameDone, CallbackEnds, Hand, camVars, timerVars, modVars
  <1>7. PlaceTypeOK'
    BY DEF IInv, PlaceTypeOK, TypeOK, FrameDone, CallbackEnds, Hand, dmaVars, camVars, listVars,
       timerVars, modVars, ioctlVars
  <1>8. ModuleOK'
    BY DEF IInv, ModuleOK, FrameDone, CallbackEnds, Hand, dmaVars, modVars
  <1>9. PhaseOK'
    BY <1>3 DEF IInv, PhaseOK, Resting, Stopping, FrameDone, CallbackEnds, Hand, dmaVars, camVars,
       listVars, modVars, ioctlVars
  <1>10. CallbackOK'
    BY DEF IInv, CallbackOK, FrameDone, CallbackEnds, Hand
  <1>11. ListsOnce'
    BY <1>3 DEF IInv, ListsOnce, FrameDone, CallbackEnds, Hand, camVars, listVars
  <1>12. OwnersOK'
    <2>1. \A b \in Buffers : owner'[b] = IF b = cbWork.buf THEN "done" ELSE owner[b]
      BY DEF FrameDone, Hand
    <2>2. UNCHANGED queued
      BY DEF FrameDone, camVars, listVars
    <2> QED
      BY <1>1, <1>2, <1>3, <2>1, <2>2 DEF IInv, OwnersOK
  <1>13. PlacesApart'
    BY <1>3 DEF IInv, PlacesApart, FrameDone, CallbackEnds, Hand, dmaVars, camVars, listVars,
       ioctlVars
  <1>14. ActiveCovered'
    BY <1>3 DEF IInv, ActiveCovered, FrameDone, CallbackEnds, Hand, dmaVars, camVars, listVars,
       ioctlVars
  <1>15. SeqsOK'
    BY <1>3 DEF IInv, SeqsOK, FrameDone, CallbackEnds, Hand, dmaVars, camVars, listVars
  <1>16. ImageOK'
    <2>1. \A b \in Buffers : owner'[b] = IF b = cbWork.buf THEN "done" ELSE owner[b]
      BY DEF FrameDone, Hand
    <2>2. cbPc # "idle" /\ cbWork.ok /\ cbPc' = "idle" /\ UNCHANGED image
      BY DEF IInv, CallbackOK, FrameDone, CallbackEnds, dmaVars
    <2> QED
      BY <1>3, <2>1, <2>2 DEF IInv, ImageOK
  <1> QED
    BY <1>4, <1>5, <1>6, <1>7, <1>8, <1>9, <1>10, <1>11, <1>12, <1>13, <1>14, <1>15, <1>16,
       TypeParts DEF IInv

LEMMA CheckTimeoutStep ==
    ASSUME IInv, modulePc = "in", UNCHANGED modVars,
           CheckTimeout
    PROVE  IInv'
  <1>1. /\ UNCHANGED <<parked, active, queued, bufSeq, rejected, owner, vbQueue, engine,
                       workqueue, image, cbVars>>
        /\ Waiting' = Waiting
    BY DEF Waiting, CheckTimeout, dmaVars, camVars, listVars, ioctlVars, vbVars
  <1>2. /\ BufferTypeOK' /\ ListsOnce' /\ OwnersOK'
        /\ PlacesApart' /\ SeqsOK' /\ ImageOK'
        /\ UNCHANGED <<Elements(active), InFlight, Completed, InWork>>
    BY <1>1, SameBuffers
  <1>3. DmaTypeOK'
    BY DEF IInv, DmaTypeOK, TypeOK, CheckTimeout, dmaVars
  <1>4. FlagTypeOK'
    BY DEF IInv, FlagTypeOK, TypeOK, CheckTimeout, camVars, modVars, vbVars
  <1>5. PlaceTypeOK'
    BY DEF IInv, PlaceTypeOK, TypeOK, CheckTimeout, dmaVars, camVars, listVars, modVars, ioctlVars,
       cbVars, vbVars
  <1>6. ModuleOK'
    BY DEF IInv, ModuleOK, CheckTimeout, dmaVars, modVars
  <1>7. PhaseOK'
    BY <1>1, <1>2 DEF IInv, PhaseOK, Resting, Stopping, CheckTimeout, dmaVars, camVars, listVars,
       modVars, ioctlVars, cbVars, vbVars
  <1>8. CallbackOK'
    BY DEF IInv, CallbackOK, CheckTimeout, cbVars
  <1>9. ActiveCovered'
    BY <1>1, <1>2 DEF IInv, ActiveCovered, CheckTimeout, dmaVars, camVars, listVars, ioctlVars,
       cbVars
  <1> QED
    BY <1>2, <1>3, <1>4, <1>5, <1>6, <1>7, <1>8, <1>9, TypeParts DEF IInv

LEMMA ReportTimeoutStep ==
    ASSUME IInv, modulePc = "in", UNCHANGED modVars,
           ReportTimeout
    PROVE  IInv'
  <1>1. /\ UNCHANGED <<parked, active, queued, bufSeq, rejected, owner, vbQueue, engine,
                       workqueue, image, cbVars>>
        /\ Waiting' = Waiting
    BY DEF Waiting, ReportTimeout, dmaVars, camVars, listVars, ioctlVars
  <1>2. /\ BufferTypeOK' /\ ListsOnce' /\ OwnersOK'
        /\ PlacesApart' /\ SeqsOK' /\ ImageOK'
        /\ UNCHANGED <<Elements(active), InFlight, Completed, InWork>>
    BY <1>1, SameBuffers
  <1>3. DmaTypeOK'
    BY DEF IInv, DmaTypeOK, TypeOK, ReportTimeout, dmaVars
  <1>4. FlagTypeOK'
    BY DEF IInv, FlagTypeOK, TypeOK, ReportTimeout, camVars, modVars
  <1>5. PlaceTypeOK'
    BY DEF IInv, PlaceTypeOK, TypeOK, ReportTimeout, dmaVars, camVars, listVars, modVars,
       ioctlVars, cbVars
  <1>6. ModuleOK'
    BY DEF IInv, ModuleOK, ReportTimeout, dmaVars, modVars
  <1>7. PhaseOK'
    BY <1>1, <1>2 DEF IInv, PhaseOK, Resting, Stopping, ReportTimeout, dmaVars, camVars, listVars,
       modVars, ioctlVars, cbVars
  <1>8. CallbackOK'
    BY DEF IInv, CallbackOK, ReportTimeout, cbVars
  <1>9. ActiveCovered'
    BY <1>1, <1>2 DEF IInv, ActiveCovered, ReportTimeout, dmaVars, camVars, listVars, ioctlVars,
       cbVars
  <1> QED
    BY <1>2, <1>3, <1>4, <1>5, <1>6, <1>7, <1>8, <1>9, TypeParts DEF IInv

LEMMA TimeoutStep ==
    ASSUME IInv, modulePc = "in", UNCHANGED modVars,
           Timeout
    PROVE  IInv'
  <1>1. /\ UNCHANGED <<parked, active, queued, bufSeq, rejected, owner, vbQueue, engine,
                       workqueue, image, cbVars>>
        /\ Waiting' = Waiting
    BY DEF Waiting, Timeout, dmaVars, camVars, listVars, ioctlVars, vbVars
  <1>2. /\ BufferTypeOK' /\ ListsOnce' /\ OwnersOK'
        /\ PlacesApart' /\ SeqsOK' /\ ImageOK'
        /\ UNCHANGED <<Elements(active), InFlight, Completed, InWork>>
    BY <1>1, SameBuffers
  <1>3. DmaTypeOK'
    BY DEF IInv, DmaTypeOK, TypeOK, Timeout, dmaVars
  <1>4. FlagTypeOK'
    BY DEF IInv, FlagTypeOK, TypeOK, Timeout, camVars, modVars, vbVars
  <1>5. PlaceTypeOK'
    BY DEF IInv, PlaceTypeOK, TypeOK, Timeout, dmaVars, camVars, listVars, modVars, ioctlVars,
       cbVars, vbVars
  <1>6. ModuleOK'
    BY DEF IInv, ModuleOK, Timeout, dmaVars, modVars
  <1>7. PhaseOK'
    BY <1>1, <1>2 DEF IInv, PhaseOK, Resting, Stopping, Timeout, dmaVars, camVars, listVars,
       modVars, ioctlVars, cbVars, vbVars
  <1>8. CallbackOK'
    BY DEF IInv, CallbackOK, Timeout, cbVars
  <1>9. ActiveCovered'
    BY <1>1, <1>2 DEF IInv, ActiveCovered, Timeout, dmaVars, camVars, listVars, ioctlVars, cbVars
  <1> QED
    BY <1>2, <1>3, <1>4, <1>5, <1>6, <1>7, <1>8, <1>9, TypeParts DEF IInv

LEMMA HardwareStep ==
    ASSUME IInv, modulePc = "in", UNCHANGED modVars,
           Hardware
    PROVE  IInv'
  <1>1. PICK got \in {"full", "short"} : Transfer(got)
    BY DEF Hardware
  <1>2. /\ engine \in Seq(Descriptors) /\ engine # << >> /\ OncePerBuf(engine)
        /\ engine' = Tail(engine)
        /\ workqueue \in Seq(Completions) /\ OncePerBuf(workqueue)
        /\ UNCHANGED <<chan, dispatching, stopping, camVars, timerVars, ioctlVars, cbVars, vbVars>>
    BY <1>1 DEF IInv, TypeOK, DmaTypeOK, PlacesApart, Transfer, Hardware
  <1>3. /\ engine' \in Seq(Descriptors) /\ OncePerBuf(engine')
        /\ Bufs(engine') = Bufs(engine) \ {Head(engine).buf}
        /\ Head(engine) \in Descriptors /\ Head(engine) \in Elements(engine)
        /\ Head(engine).buf \in Bufs(engine) /\ Elements(engine') \subseteq Elements(engine)
    BY <1>2, TailFacts
  <1>4. /\ Head(engine).buf \in InFlight /\ Head(engine).buf \notin Completed
        /\ Head(engine).buf \in Elements(active)
    BY <1>3 DEF IInv, PlacesApart, InFlight
  <1>5. /\ Item(got) \in Completions /\ Item(got).buf = Head(engine).buf
        /\ Item(got).seq = Head(engine).seq
        /\ workqueue' = Append(workqueue, Item(got))
    BY <1>1, <1>3, DmaAssumption DEF Transfer, Completions, Descriptors, Item
  <1>6. /\ workqueue' \in Seq(Completions) /\ OncePerBuf(workqueue')
        /\ Bufs(workqueue') = Bufs(workqueue) \cup {Head(engine).buf}
        /\ Elements(workqueue') = Elements(workqueue) \cup {Item(got)}
    BY <1>2, <1>4, <1>5, AppendFacts DEF Completed
  <1>7. image' = [image EXCEPT ![Head(engine).buf] = got]
    BY <1>1 DEF Transfer
  <1>8. /\ UNCHANGED <<Lists, CbHolds, Elements(parked), Elements(active), Elements(vbQueue),
           InWork, Waiting, rejected>>
        /\ InFlight' = InFlight \ {Head(engine).buf}
        /\ Completed' = Completed \cup {Head(engine).buf}
        /\ Elements(engine)' = Elements(engine')
        /\ Elements(workqueue)' = Elements(workqueue) \cup {Item(got)}
    BY <1>1, <1>2, <1>3, <1>4, <1>5, <1>6, <1>7, EmptyFacts DEF Lists, CbHolds, InFlight,
       Completed, InWork, Waiting, Transfer, dmaVars, camVars, listVars, ioctlVars, cbVars, vbVars
  <1>9. DmaTypeOK'
    BY <1>2, <1>3, <1>6, <1>7 DEF IInv, TypeOK, DmaTypeOK
  <1>10. BufferTypeOK'
    BY <1>1, <1>2, <1>3, <1>4, <1>5, <1>6, <1>7 DEF IInv, BufferTypeOK, TypeOK, Sessions, PhaseOK,
       Transfer, camVars, listVars, vbVars
  <1>11. FlagTypeOK'
    BY <1>1, <1>2, <1>3, <1>4, <1>5, <1>6, <1>7 DEF IInv, FlagTypeOK, TypeOK, Sessions, PhaseOK,
       Transfer, camVars, timerVars, modVars, vbVars
  <1>12. PlaceTypeOK'
    BY <1>1, <1>2, <1>3, <1>4, <1>5, <1>6, <1>7 DEF IInv, PlaceTypeOK, TypeOK, CallbackOK,
       Transfer, camVars, listVars, timerVars, modVars, ioctlVars, cbVars, vbVars
  <1>13. ModuleOK'
    BY <1>1, <1>2, <1>3, <1>4, <1>5, <1>6, <1>7 DEF IInv, ModuleOK, Transfer, modVars
  <1>14. PhaseOK'
    <2>1. ~Resting
      BY <1>2 DEF IInv, PhaseOK
    <2> QED
      BY <1>2, <2>1 DEF IInv, PhaseOK, Resting, Stopping, camVars, listVars, modVars, ioctlVars,
         cbVars, vbVars
  <1>15. CallbackOK'
    BY <1>1, <1>2, <1>3, <1>4, <1>5, <1>6, <1>7 DEF IInv, CallbackOK, TypeOK, Transfer, cbVars
  <1>16. ListsOnce'
    BY <1>1, <1>2, <1>3, <1>4, <1>5, <1>6, <1>7, <1>8 DEF IInv, ListsOnce, TypeOK, PhaseOK,
       Transfer, camVars, listVars, cbVars, vbVars
  <1>17. OwnersOK'
    BY <1>1, <1>2, <1>3, <1>4, <1>5, <1>6, <1>7, <1>8 DEF IInv, OwnersOK, TypeOK, PhaseOK,
       Transfer, camVars, listVars, cbVars, vbVars
  <1>18. PlacesApart'
    BY <1>2, <1>3, <1>4, <1>6, <1>8 DEF IInv, PlacesApart, camVars, listVars
  <1>19. ActiveCovered'
    BY <1>1, <1>2, <1>3, <1>4, <1>5, <1>6, <1>7, <1>8 DEF IInv, ActiveCovered, PhaseOK, Stopping,
       Transfer, camVars, listVars, ioctlVars, cbVars
  <1>20. SeqsOK'
    BY <1>2, <1>3, <1>5, <1>8 DEF IInv, SeqsOK, camVars, listVars
  <1>21. ImageOK'
    <2>1. SUFFICES ASSUME ~IgnoreResidue PROVE ImageOK'
      BY DEF ImageOK
    <2>2. \A b \in Buffers : b # Head(engine).buf => image'[b] = image[b]
      BY <1>7 DEF IInv, TypeOK, DmaTypeOK
    <2>3. Item(got).ok => image'[Head(engine).buf] = "full"
      BY <1>3, <1>7, <2>1 DEF IInv, TypeOK, DmaTypeOK, Descriptors, Item
    <2>4. \A w \in Elements(workqueue) : w.buf # Head(engine).buf /\ w.buf \in Buffers
      BY <1>4, Holdings DEF IInv
    <2>5. cbPc # "idle" => cbWork.buf \in Buffers /\ cbWork.buf # Head(engine).buf
      BY <1>4, Holdings DEF IInv, TypeOK, CallbackOK, ListsOnce, Lists, CbHolds, PlacesApart,
         InWork
    <2>6. \A b \in Buffers : owner[b] = "done" => b # Head(engine).buf
      BY <1>4, Holdings DEF IInv, OwnersOK, Lists
    <2> QED
      BY <1>2, <1>5, <1>8, <2>2, <2>3, <2>4, <2>5, <2>6 DEF IInv, ImageOK, cbVars, vbVars
  <1> QED
    BY <1>9, <1>10, <1>11, <1>12, <1>13, <1>14, <1>15, <1>16, <1>17, <1>18, <1>19, <1>20, <1>21,
       TypeParts DEF IInv

LEMMA InsmodStep ==
    ASSUME IInv, Insmod
    PROVE  IInv'
  <1>1. engine = << >> /\ workqueue = << >>
    BY DEF IInv, PhaseOK, Resting, Insmod
  <1>2. 0 \in Sessions
    BY DmaAssumption DEF Sessions
  <1>3. /\ UNCHANGED <<Lists, CbHolds, Elements(parked), Elements(active), Elements(vbQueue),
           InFlight, Completed, InWork, Waiting, rejected, Elements(engine), Elements(workqueue)>>
    BY <1>1, <1>2, EmptyFacts DEF Lists, CbHolds, InFlight, Completed, InWork, Waiting, Insmod,
       ioctlVars, cbVars, vbVars
  <1>4. DmaTypeOK'
    BY DEF IInv, DmaTypeOK, TypeOK, Insmod
  <1>5. BufferTypeOK'
    BY <1>2 DEF IInv, BufferTypeOK, TypeOK, Insmod, vbVars, Sessions
  <1>6. FlagTypeOK'
    BY <1>2 DEF IInv, FlagTypeOK, TypeOK, Insmod, vbVars, Sessions
  <1>7. PlaceTypeOK'
    BY DEF IInv, PlaceTypeOK, TypeOK, Insmod, ioctlVars, cbVars, vbVars
  <1>8. ModuleOK'
    BY PrefixFacts DEF IInv, ModuleOK, Insmod
  <1>9. PhaseOK'
    BY <1>3 DEF IInv, PhaseOK, Resting, Stopping, Insmod, ioctlVars, cbVars, vbVars
  <1>10. CallbackOK'
    BY DEF IInv, CallbackOK, Insmod, cbVars
  <1>11. ListsOnce'
    BY <1>3 DEF IInv, ListsOnce, Insmod, cbVars, vbVars
  <1>12. OwnersOK'
    BY <1>3 DEF IInv, OwnersOK, Insmod, cbVars, vbVars
  <1>13. PlacesApart'
    BY <1>3 DEF IInv, PlacesApart, Insmod, ioctlVars, cbVars
  <1>14. ActiveCovered'
    BY <1>3 DEF IInv, ActiveCovered, Insmod, ioctlVars, cbVars
  <1>15. SeqsOK'
    BY <1>1, <1>3, EmptyFacts DEF SeqsOK
  <1>16. ImageOK'
    BY <1>3 DEF IInv, ImageOK, Insmod, cbVars, vbVars
  <1> QED
    BY <1>4, <1>5, <1>6, <1>7, <1>8, <1>9, <1>10, <1>11, <1>12, <1>13, <1>14, <1>15, <1>16,
       TypeParts DEF IInv

LEMMA RegisterStep ==
    ASSUME IInv, Register
    PROVE  IInv'
  <1>1. PICK n \in 0 .. Len(Parts) - 1 : registered = Prefix(n)
    BY DEF IInv, ModuleOK, Register
  <1>2. Setup = n + 1
    BY <1>1, PrefixFacts DEF Setup
  <1>3. n + 1 \in 1 .. Len(Parts) /\ n \in 0 .. Len(Parts) /\ n < Len(Parts)
    BY <1>1, PrefixFacts
  <1>4. Parts[n + 1] = "device" <=> n + 1 = Len(Parts)
    BY <1>3, PrefixFacts
  <1>5. registered' = registered \cup {Parts[n + 1]}
    BY <1>2 DEF Register
  <1>6. registered' = Prefix(n + 1)
    BY <1>1, <1>3, <1>5, PrefixFacts
  <1>7. registered' \subseteq {Parts[k] : k \in 1 .. Len(Parts)}
    BY <1>3, <1>6, PrefixFacts
  <1>8. /\ UNCHANGED <<parked, active, queued, bufSeq, rejected, owner, vbQueue, engine,
                       workqueue, image, cbVars>>
        /\ Waiting' = Waiting
    BY DEF Waiting, Register, Acquire, dmaVars, camVars, listVars, ioctlVars, vbVars
  <1>9. /\ BufferTypeOK' /\ ListsOnce' /\ OwnersOK'
        /\ PlacesApart' /\ SeqsOK' /\ ImageOK'
        /\ UNCHANGED <<Elements(active), InFlight, Completed, InWork>>
    BY <1>8, SameBuffers
  <1>10. DmaTypeOK'
    BY DEF IInv, DmaTypeOK, TypeOK, Register, Acquire, dmaVars
  <1>11. FlagTypeOK'
    BY <1>7 DEF IInv, FlagTypeOK, TypeOK, Sessions, Register, camVars, timerVars, vbVars
  <1>12. PlaceTypeOK'
    BY DEF IInv, PlaceTypeOK, TypeOK, Register, Acquire, dmaVars, camVars, listVars, timerVars,
       ioctlVars, cbVars, vbVars
  <1>13. ModuleOK'
    <2>1. modulePc' = "init" => n + 1 \in 0 .. Len(Parts) - 1
      BY <1>2, <1>3, <1>4, PrefixFacts DEF Register
    <2>2. "dma" \in registered' /\ modulePc' \in {"in", "init"}
      BY <1>3, <1>6, PrefixFacts DEF Register
    <2>3. modulePc' = "in" => n + 1 = Len(Parts)
      BY <1>2, <1>4 DEF Register
    <2> QED
      BY <1>6, <2>1, <2>2, <2>3 DEF ModuleOK
  <1>14. PhaseOK'
    BY <1>8, <1>9 DEF IInv, PhaseOK, Resting, Stopping, Register, Acquire, dmaVars, camVars,
       listVars, ioctlVars, cbVars, vbVars
  <1>15. CallbackOK'
    BY DEF IInv, CallbackOK, Register, Acquire, cbVars
  <1>16. ActiveCovered'
    BY <1>8, <1>9 DEF IInv, ActiveCovered, Register, Acquire, dmaVars, camVars, listVars,
       ioctlVars, cbVars
  <1> QED
    BY <1>9, <1>10, <1>11, <1>12, <1>13, <1>14, <1>15, <1>16, TypeParts DEF IInv

LEMMA RegisterFailsStep ==
    ASSUME IInv, RegisterFails
    PROVE  IInv'
  <1>1. PICK n \in 0 .. Len(Parts) - 1 : registered = Prefix(n)
    BY DEF IInv, ModuleOK, RegisterFails
  <1>2. Setup = n + 1
    BY <1>1, PrefixFacts DEF Setup
  <1>3. teardown' = n /\ n \in 0 .. Len(Parts)
    BY <1>1, <1>2, PrefixFacts DEF RegisterFails
  <1>4. /\ UNCHANGED <<parked, active, queued, bufSeq, rejected, owner, vbQueue, engine,
                       workqueue, image, cbVars>>
        /\ Waiting' = Waiting
    BY DEF Waiting, RegisterFails, SubmitFails, dmaVars, camVars, listVars, ioctlVars, vbVars
  <1>5. /\ BufferTypeOK' /\ ListsOnce' /\ OwnersOK'
        /\ PlacesApart' /\ SeqsOK' /\ ImageOK'
        /\ UNCHANGED <<Elements(active), InFlight, Completed, InWork>>
    BY <1>4, SameBuffers
  <1>6. DmaTypeOK'
    BY DEF IInv, DmaTypeOK, TypeOK, RegisterFails, SubmitFails, dmaVars
  <1>7. FlagTypeOK'
    BY <1>3 DEF IInv, FlagTypeOK, TypeOK, Sessions, RegisterFails, camVars, timerVars, vbVars
  <1>8. PlaceTypeOK'
    BY DEF IInv, PlaceTypeOK, TypeOK, RegisterFails, SubmitFails, dmaVars, camVars, listVars,
       timerVars, ioctlVars, cbVars, vbVars
  <1>9. ModuleOK'
    BY <1>1, <1>3 DEF IInv, ModuleOK, RegisterFails, SubmitFails, dmaVars
  <1>10. PhaseOK'
    BY <1>4, <1>5 DEF IInv, PhaseOK, Resting, Stopping, RegisterFails, SubmitFails, dmaVars,
       camVars, listVars, ioctlVars, cbVars, vbVars
  <1>11. CallbackOK'
    BY DEF IInv, CallbackOK, RegisterFails, SubmitFails, cbVars
  <1>12. ActiveCovered'
    BY <1>4, <1>5 DEF IInv, ActiveCovered, RegisterFails, SubmitFails, dmaVars, camVars, listVars,
       ioctlVars, cbVars
  <1> QED
    BY <1>5, <1>6, <1>7, <1>8, <1>9, <1>10, <1>11, <1>12, TypeParts DEF IInv

LEMMA RmmodStep ==
    ASSUME IInv, Rmmod
    PROVE  IInv'
  <1>1. /\ UNCHANGED <<parked, active, queued, bufSeq, rejected, owner, vbQueue, engine,
                       workqueue, image, cbVars>>
        /\ Waiting' = Waiting
    BY DEF Waiting, Rmmod, dmaVars, camVars, listVars, ioctlVars, vbVars
  <1>2. /\ BufferTypeOK' /\ ListsOnce' /\ OwnersOK'
        /\ PlacesApart' /\ SeqsOK' /\ ImageOK'
        /\ UNCHANGED <<Elements(active), InFlight, Completed, InWork>>
    BY <1>1, SameBuffers
  <1>3. DmaTypeOK'
    BY DEF IInv, DmaTypeOK, TypeOK, Rmmod, dmaVars
  <1>4. FlagTypeOK'
    BY DEF IInv, FlagTypeOK, TypeOK, Rmmod, camVars, timerVars, vbVars
  <1>5. PlaceTypeOK'
    BY DEF IInv, PlaceTypeOK, TypeOK, Rmmod, dmaVars, camVars, listVars, timerVars, ioctlVars,
       cbVars, vbVars
  <1>6. ModuleOK'
    BY DEF IInv, ModuleOK, Rmmod, dmaVars
  <1>7. PhaseOK'
    BY <1>1, <1>2 DEF IInv, PhaseOK, Resting, Stopping, Rmmod, dmaVars, camVars, listVars,
       ioctlVars, cbVars, vbVars
  <1>8. CallbackOK'
    BY DEF IInv, CallbackOK, Rmmod, cbVars
  <1>9. ActiveCovered'
    BY <1>1, <1>2 DEF IInv, ActiveCovered, Rmmod, dmaVars, camVars, listVars, ioctlVars, cbVars
  <1> QED
    BY <1>2, <1>3, <1>4, <1>5, <1>6, <1>7, <1>8, <1>9, TypeParts DEF IInv

LEMMA TeardownStep ==
    ASSUME IInv, Teardown
    PROVE  IInv'
  <1>1. registered = Prefix(teardown) /\ teardown \in 0 .. Len(Parts)
    BY DEF IInv, TypeOK, ModuleOK, Teardown
  <1>2. /\ UNCHANGED <<parked, active, queued, bufSeq, rejected, owner, vbQueue, engine,
                       workqueue, image, cbVars>>
        /\ Waiting' = Waiting
    BY DEF Waiting, Teardown, ReleaseIdle, dmaVars, camVars, listVars, ioctlVars, vbVars
  <1>3. /\ BufferTypeOK' /\ ListsOnce' /\ OwnersOK'
        /\ PlacesApart' /\ SeqsOK' /\ ImageOK'
        /\ UNCHANGED <<Elements(active), InFlight, Completed, InWork>>
    BY <1>2, SameBuffers
  <1>4. DmaTypeOK'
    BY DEF IInv, DmaTypeOK, TypeOK, Teardown, ReleaseIdle, dmaVars
  <1>5. FlagTypeOK'
    <2>1. registered' \subseteq registered /\ teardown' = IF teardown = 0 THEN teardown ELSE teardown - 1
      BY DEF Teardown
    <2>2. registered' \subseteq {Parts[k] : k \in 1 .. Len(Parts)}
      BY <2>1 DEF IInv, TypeOK
    <2>3. teardown' \in 0 .. Len(Parts)
      BY <1>1, <2>1, PrefixFacts
    <2> QED
      BY <2>2, <2>3 DEF IInv, FlagTypeOK, TypeOK, Sessions, Teardown, camVars, timerVars, vbVars
  <1>6. PlaceTypeOK'
    BY DEF IInv, PlaceTypeOK, TypeOK, Teardown, ReleaseIdle, dmaVars, camVars, listVars, timerVars,
       ioctlVars, cbVars, vbVars
  <1>7. ModuleOK'
    <2>1. CASE teardown = 0
      BY <1>1, <2>1, PrefixFacts DEF IInv, ModuleOK, Teardown, dmaVars
    <2>2. CASE teardown # 0
      <3>1. /\ registered' = Prefix(teardown - 1) /\ teardown' = teardown - 1
            /\ modulePc' = "teardown"
        BY <1>1, <2>2, PrefixFacts DEF Teardown
      <3>2. chan' => "dma" \in registered'
        <4>1. CASE teardown = 1
          BY <4>1, PrefixFacts DEF Teardown, ReleaseIdle
        <4>2. CASE teardown # 1
          <5>1. teardown - 1 \in 1 .. Len(Parts)
            BY <1>1, <2>2, <4>2, PrefixFacts
          <5> QED
            BY <3>1, <5>1, PrefixFacts
        <4> QED
          BY <4>1, <4>2
      <3> QED
        BY <3>1, <3>2 DEF ModuleOK
    <2> QED
      BY <2>1, <2>2
  <1>8. PhaseOK'
    BY <1>2, <1>3 DEF IInv, PhaseOK, Resting, Stopping, Teardown, ReleaseIdle, dmaVars, camVars,
       listVars, ioctlVars, cbVars, vbVars
  <1>9. CallbackOK'
    BY DEF IInv, CallbackOK, Teardown, ReleaseIdle, cbVars
  <1>10. ActiveCovered'
    BY <1>2, <1>3 DEF IInv, ActiveCovered, Teardown, ReleaseIdle, dmaVars, camVars, listVars,
       ioctlVars, cbVars
  <1> QED
    BY <1>3, <1>4, <1>5, <1>6, <1>7, <1>8, <1>9, <1>10, TypeParts DEF IInv

-----------------------------------------------------------------------------
(* The invariant is inductive                                              *)

LEMMA InitInv == Init => IInv
  <1> SUFFICES ASSUME Init PROVE IInv
    OBVIOUS
  <1> USE DmaAssumption, EmptyFacts DEF Init, DmaInit
  <1>1. DmaTypeOK
    BY EmptySeq DEF DmaTypeOK
  <1>2. BufferTypeOK
    BY EmptySeq DEF BufferTypeOK, Sessions
  <1>3. FlagTypeOK
    <2>1. 0 \in Sessions /\ 0 \in 0 .. Len(Parts)
      BY PrefixFacts DEF Sessions
    <2> QED
      BY <2>1 DEF FlagTypeOK
  <1>4. PlaceTypeOK
    BY DEF PlaceTypeOK
  <1>5. ModuleOK /\ PhaseOK /\ CallbackOK
    BY DEF ModuleOK, PhaseOK, Resting, Stopping, CallbackOK
  <1>6. /\ Lists = {} /\ CbHolds = {} /\ InFlight = {} /\ Completed = {} /\ InWork = {}
        /\ Waiting = {} /\ Elements(vbQueue) = {}
    BY DEF Lists, CbHolds, InFlight, Completed, InWork, Waiting
  <1>7. ListsOnce /\ OwnersOK
    BY <1>6 DEF ListsOnce, OwnersOK
  <1>8. PlacesApart /\ ActiveCovered /\ SeqsOK
    BY <1>6 DEF PlacesApart, ActiveCovered, SeqsOK
  <1>9. ImageOK
    BY DEF ImageOK
  <1> QED
    BY <1>1, <1>2, <1>3, <1>4, <1>5, <1>7, <1>8, <1>9, TypeParts DEF IInv

LEMMA StutterStep == ASSUME IInv, UNCHANGED vars PROVE IInv'
  <1>1. /\ UNCHANGED dmaVars /\ UNCHANGED camVars /\ UNCHANGED listVars /\ UNCHANGED timerVars
        /\ UNCHANGED modVars /\ UNCHANGED ioctlVars /\ UNCHANGED cbVars /\ UNCHANGED vbVars
    BY DEF vars, camVars
  <1>2. /\ UNCHANGED <<parked, active, queued, bufSeq, rejected, owner, vbQueue, engine, workqueue,
                       image, cbVars>>
        /\ Waiting' = Waiting
    BY <1>1 DEF dmaVars, listVars, vbVars, ioctlVars, Waiting
  <1>3. /\ BufferTypeOK' /\ ListsOnce' /\ OwnersOK'
        /\ PlacesApart' /\ SeqsOK' /\ ImageOK'
        /\ UNCHANGED <<Elements(active), InFlight, Completed, InWork>>
    BY <1>2, SameBuffers
  <1>4. DmaTypeOK'
    BY <1>1 DEF IInv, TypeOK, DmaTypeOK, dmaVars
  <1>5. FlagTypeOK'
    BY <1>1 DEF IInv, TypeOK, FlagTypeOK, camVars, timerVars, modVars, vbVars
  <1>6. PlaceTypeOK'
    BY <1>1 DEF IInv, TypeOK, PlaceTypeOK, timerVars, modVars, ioctlVars, cbVars
  <1>7. ModuleOK'
    BY <1>1 DEF IInv, ModuleOK, modVars, dmaVars
  <1>8. PhaseOK'
    BY <1>1 DEF IInv, PhaseOK, Resting, dmaVars, camVars, listVars, modVars, ioctlVars, cbVars,
       vbVars
  <1>9. CallbackOK'
    BY <1>1 DEF IInv, CallbackOK, cbVars
  <1>10. ActiveCovered'
    BY <1>1, <1>2, <1>3 DEF IInv, ActiveCovered, camVars, listVars
  <1> QED
    BY <1>3, <1>4, <1>5, <1>6, <1>7, <1>8, <1>9, <1>10, TypeParts DEF IInv

LEMMA ModuleInv == ASSUME IInv, ModuleStep PROVE IInv'
  BY InsmodStep, RegisterStep, RegisterFailsStep, RmmodStep, TeardownStep DEF ModuleStep

LEMMA UserInv == ASSUME IInv, Loaded(UserStep) PROVE IInv'
  BY QueueEarlyStep, QueueActiveStep, DequeueStep, StreamOnStep, StreamOffStep DEF Loaded, UserStep

LEMMA IoctlInv == ASSUME IInv, Loaded(IoctlStep) PROVE IInv'
  <1>1. modulePc = "in" /\ UNCHANGED modVars /\ IoctlStep
    BY DEF Loaded
  <1>2. CASE QueueSubmit
    BY <1>1, <1>2, QueueSubmittedStep, QueueRefusedStep DEF QueueSubmit, SubmitOrNot
  <1>3. CASE Reacquire \/ ReacquireFails \/ BeginStreaming
    BY <1>1, <1>3, ReacquireStep, ReacquireFailsStep, BeginStreamingStep
  <1>4. CASE StartMove \/ StartSubmit \/ StartSubmitFails \/ Started
    BY <1>1, <1>4, StartMoveStep, StartSubmitStep, StartSubmitFailsStep, StartedStep
  <1>5. CASE CancelWatchdog \/ ClearStreaming \/ ReturnBuffers \/ CancelQueue
    BY <1>1, <1>5, CancelWatchdogStep, ClearStreamingStep, ReturnBuffersStep, CancelQueueStep
  <1>6. CASE ReleaseDma
    BY <1>1, <1>6, MarkStoppingStep, TerminateStep, ReleaseChannelStep DEF ReleaseDma
  <1> QED
    BY <1>1, <1>2, <1>3, <1>4, <1>5, <1>6 DEF IoctlStep

LEMMA WorkInv == ASSUME IInv, Loaded(WorkStep) PROVE IInv'
  <1>1. modulePc = "in" /\ UNCHANGED modVars /\ WorkStep
    BY DEF Loaded
  <1>2. CASE Work
    BY <1>1, <1>2, DropWorkStep, TakeWorkStep
  <1>3. CASE Resubmit
    BY <1>1, <1>3, ResubmittedStep, ResubmitRefusedStep DEF Resubmit, SubmitOrNot
  <1>4. CASE CheckStreaming \/ ResetWatchdog \/ TakeFrame \/ FrameDone
    BY <1>1, <1>4, CheckStreamingStep, ResetWatchdogStep, TakeFrameStep, FrameDoneStep
  <1> QED
    BY <1>1, <1>2, <1>3, <1>4 DEF WorkStep

LEMMA OtherInv ==
    ASSUME IInv, Loaded(WatchdogStep) \/ Loaded(Timeout) \/ Loaded(Hardware)
    PROVE  IInv'
  BY CheckTimeoutStep, ReportTimeoutStep, TimeoutStep, HardwareStep DEF Loaded, WatchdogStep

LEMMA NextInv == IInv /\ [Next]_vars => IInv'
  BY ModuleInv, UserInv, IoctlInv, WorkInv, OtherInv, StutterStep DEF Next

LEMMA Invariance == Spec => []IInv
  BY InitInv, NextInv, PTL DEF Spec

-----------------------------------------------------------------------------
(* What follows from it                                                    *)

\* Every variable of the driver stays in its range, for any bounds.
THEOREM TypeCorrect == Spec => []TypeOK
  <1>1. IInv => TypeOK
    BY DEF IInv
  <1> QED
    BY <1>1, Invariance, PTL

\* The buffers the driver owns are those on its lists and the one the
\* callback reports, each in one place.
THEOREM BuffersAccounted == Spec => []DriverBuffersAccounted
  <1>1. ASSUME IInv PROVE DriverBuffersAccounted
    <2>1. Lists \subseteq Buffers /\ CbHolds \subseteq Buffers
      BY <1>1, Holdings DEF IInv, Lists, CbHolds, CallbackOK
    <2>2. {b \in Buffers : owner[b] = "driver"} = Lists \cup CbHolds
      BY <1>1, <2>1 DEF IInv, OwnersOK
    <2>3. /\ IsFiniteSet(Elements(parked)) /\ Cardinality(Elements(parked)) = Len(parked)
          /\ IsFiniteSet(Elements(active)) /\ Cardinality(Elements(active)) = Len(active)
      BY <1>1, OnceCardinality DEF IInv, TypeOK, ListsOnce
    <2>4. Len(parked) \in Nat /\ Len(active) \in Nat
      BY <1>1, LenProperties DEF IInv, TypeOK
    <2>5. Cardinality(Lists) = Len(parked) + Len(active)
      <3>1. Elements(parked) \cap Elements(active) = {}
        BY <1>1 DEF IInv, ListsOnce
      <3>2. Cardinality(Elements(parked) \cap Elements(active)) = 0
        BY <3>1, FS_EmptySet
      <3>3. Cardinality(Lists) = Cardinality(Elements(parked)) + Cardinality(Elements(active))
                                   - Cardinality(Elements(parked) \cap Elements(active))
        BY <2>3, FS_Union DEF Lists
      <3> QED
        BY <2>3, <2>4, <3>2, <3>3
    <2> QED
      BY <1>1, <2>2, <2>5 DEF IInv, ListsOnce, DriverBuffersAccounted
  <1> QED
    BY <1>1, Invariance, PTL

\* The DMA writes to buffers on active_list only, and to none twice.
THEOREM DmaWrites == Spec => []DmaWritesActiveOnly
  <1>1. ASSUME IInv PROVE DmaWritesActiveOnly
    <2>1. Cardinality(InFlight) = Len(engine)
      BY <1>1, OncePerBufCardinality DEF IInv, TypeOK, DmaTypeOK, PlacesApart, InFlight
    <2> QED
      BY <1>1, <2>1 DEF IInv, PlacesApart, DmaWritesActiveOnly
  <1> QED
    BY <1>1, Invariance, PTL

\* A stream that has stopped, and a module that has gone or failed to load,
\* leave nothing behind.
THEOREM StopIsClean == Spec => []StopLeavesNothing
  <1>1. ASSUME IInv PROVE StopLeavesNothing
    <2>1. ioctlPc = "cancel" =>
            /\ engine = << >> /\ workqueue = << >> /\ cbPc = "idle"
            /\ parked = << >> /\ active = << >>
      BY <1>1 DEF IInv, PhaseOK, Resting
    <2>2. ioctlPc = "cancel" => Lists = {} /\ CbHolds = {}
      BY <2>1, EmptyFacts DEF Lists, CbHolds
    <2>3. ioctlPc = "cancel" => \A b \in Buffers : owner[b] # "driver"
      BY <1>1, <2>2 DEF IInv, OwnersOK
    <2>4. modulePc = "out" => registered = {} /\ ~chan
      BY <1>1 DEF IInv, TypeOK, DmaTypeOK, ModuleOK
    <2> QED
      BY <2>1, <2>3, <2>4 DEF StopLeavesNothing
  <1> QED
    BY <1>1, Invariance, PTL

\* While streaming, a buffer on active_list has a transfer or a completion
\* under way, or has been refused.
THEOREM UnderWay == Spec => []ActiveIsUnderWay
  <1>1. ASSUME IInv PROVE ActiveIsUnderWay
    BY <1>1 DEF IInv, ActiveCovered, Waiting, ActiveIsUnderWay
  <1> QED
    BY <1>1, Invariance, PTL

\* If the residue is looked at, what user space dequeues without an error is a
\* whole frame, also if the buffer held a short one before.
THEOREM WholeFramesOnly ==
    ASSUME ~IgnoreResidue
    PROVE  Spec => []ShortFramesDiscarded
  <1>1. IInv => ShortFramesDiscarded
    BY DEF IInv, ImageOK, ShortFramesDiscarded
  <1> QED
    BY <1>1, Invariance, PTL
=============================================================================
