---------------------------- MODULE CommonLemmas -----------------------------
(***************************************************************************)
(* Facts that proofs about several modules need.                           *)
(***************************************************************************)
EXTENDS Integers, Sequences, SequenceTheorems, WellFoundedInduction, TLAPS

-----------------------------------------------------------------------------
(* Induction.  The induction theorems of the library take a predicate as a *)
(* parameter; here it is the set of the numbers it holds for.  The         *)
(* recursive functions of this project are defined on ranges of numbers.   *)

\* A pair of naturals in order is in the order of the library.
LEMMA Less == ASSUME NEW a \in Nat, NEW b \in Nat, a < b PROVE <<a, b>> \in OpToRel(<, Nat)
  BY DEF OpToRel

LEMMA LeastNatural ==
    ASSUME NEW T \in SUBSET Nat, T # {}
    PROVE  \E n \in T : \A m \in T : n <= m
  <1> DEFINE R == OpToRel(<, Nat)
  <1>1. IsWellFoundedOn(R, Nat)
    BY NatLessThanWellFounded
  <1>2. \A a, b \in Nat : a < b => <<a, b>> \in R
    BY Less
  <1> HIDE DEF R
  <1>3. PICK n \in T : \A m \in T : ~(<<m, n>> \in R)
    BY <1>1, WFMin
  <1>4. ASSUME NEW m \in T, ~(n <= m) PROVE FALSE
    <2>1. m \in Nat /\ n \in Nat /\ m < n
      BY <1>4
    <2>2. <<m, n>> \in R
      BY <1>2, <2>1
    <2> QED BY <1>3, <2>2
  <1> QED BY <1>4

\* g is what the recursion from v0 by step gives for 0 .. N.
StepOf(N, V) == [(1 .. N) \X V -> V]
IsRecursion(g, N, V, v0, step) ==
    /\ g \in [0 .. N -> V]
    /\ g[0] = v0
    /\ \A n \in 1 .. N : g[n] = step[<<n, g[n - 1]>>]

LEMMA RecursionExists ==
    ASSUME NEW N \in Nat, NEW V, NEW v0 \in V, NEW step \in StepOf(N, V)
    PROVE  \E g : IsRecursion(g, N, V, v0, step)
  <1> DEFINE Rec(g, m) == g[0] = v0 /\ \A n \in 1 .. m : g[n] = step[<<n, g[n - 1]>>]
             T == {m \in 0 .. N : ~ \E g \in [0 .. m -> V] : Rec(g, m)}
  <1>1. SUFFICES ASSUME N \in T PROVE FALSE
    BY DEF IsRecursion
  <1>2. PICK m \in T : \A k \in T : m <= k
    <2>1. T \in SUBSET Nat
      OBVIOUS
    <2>2. T # {}
      <3> HIDE DEF T
      <3> QED BY <1>1
    <2> HIDE DEF T
    <2> QED BY <2>1, <2>2, LeastNatural
  <1>3. m # 0
    <2>1. [k \in 0 .. 0 |-> v0] \in [0 .. 0 -> V] /\ Rec([k \in 0 .. 0 |-> v0], 0)
      OBVIOUS
    <2> QED BY <1>2, <2>1
  <1>4. m \in 1 .. N /\ m - 1 \in 0 .. N /\ m - 1 \notin T
    BY <1>2, <1>3
  <1>5. PICK g \in [0 .. m - 1 -> V] : Rec(g, m - 1)
    BY <1>4
  <1> DEFINE h == [k \in 0 .. m |-> IF k = m THEN step[<<m, g[m - 1]>>] ELSE g[k]]
  <1>6. g[m - 1] \in V /\ step[<<m, g[m - 1]>>] \in V
    BY <1>4, <1>5 DEF StepOf
  <1>7. h \in [0 .. m -> V]
    BY <1>4, <1>5, <1>6
  <1>8. Rec(h, m)
    <2>1. h[0] = v0
      BY <1>4, <1>5
    <2>2. ASSUME NEW n \in 1 .. m PROVE h[n] = step[<<n, h[n - 1]>>]
      <3>1. CASE n = m
        BY <3>1, <1>4
      <3>2. CASE n # m
        BY <3>2, <1>4, <1>5
      <3> QED BY <3>1, <3>2
    <2> QED BY <2>1, <2>2
  <1> QED BY <1>2, <1>7, <1>8

\* What holds at 0 and goes on from n - 1 to n holds up to N: S is the set of
\* the numbers of which it holds.
LEMMA InductionOnRange ==
    ASSUME NEW N \in Nat, NEW S, 0 \in S, \A n \in 1 .. N : n - 1 \in S => n \in S
    PROVE  \A n \in 0 .. N : n \in S
  <1> DEFINE T == (0 .. N) \ S
  <1>1. SUFFICES ASSUME T # {} PROVE FALSE
    OBVIOUS
  <1>2. PICK m \in T : \A k \in T : m <= k
    <2>1. T \in SUBSET Nat
      OBVIOUS
    <2> HIDE DEF T
    <2> QED BY <1>1, <2>1, LeastNatural
  <1>3. m \in 1 .. N /\ m - 1 \in 0 .. N
    BY <1>2
  <1>4. m - 1 \in S
    BY <1>2, <1>3
  <1> QED BY <1>2, <1>3, <1>4

-----------------------------------------------------------------------------
(* The channel values of FrameChannel.  The pool is a parameter here, as   *)
(* each instance of FrameChannel has a name of its own for its operators.  *)

FramePlaces == {"free", "filling", "queued", "reading"}
ChannelsOf(pool) == [place : [pool -> FramePlaces], queue : Seq(pool), closed : BOOLEAN]

\* The queue holds frames that are queued, and each of them once.
Sound(ch, pool) ==
    /\ ch \in ChannelsOf(pool)
    /\ \A k \in 1 .. Len(ch.queue) : ch.place[ch.queue[k]] = "queued"
    /\ \A j, k \in 1 .. Len(ch.queue) : j # k => ch.queue[j] # ch.queue[k]

LEMMA Somewhere == "free" \in FramePlaces /\ "filling" \in FramePlaces
  BY DEF FramePlaces

\* What the operators of FrameChannel do to a channel.
Moved(ch, f, where) == [ch EXCEPT !.place[f] = where]
Put(ch, f)          == [ch EXCEPT !.place[f] = "queued", !.queue = Append(@, f)]

\* A frame that is not in the queue may go anywhere but there.
LEMMA MoveSound ==
    ASSUME NEW pool, NEW ch, Sound(ch, pool), NEW f \in pool, ch.place[f] # "queued",
           NEW where \in FramePlaces,
           NEW new, new = Moved(ch, f, where)
    PROVE  /\ Sound(new, pool)
           /\ new.place = [ch.place EXCEPT ![f] = where]
           /\ new.queue = ch.queue /\ new.closed = ch.closed
  <1>1. /\ new \in ChannelsOf(pool) /\ new.place = [ch.place EXCEPT ![f] = where]
        /\ new.queue = ch.queue /\ new.closed = ch.closed
    BY DEF Sound, ChannelsOf, Moved
  <1>2. \A k \in 1 .. Len(ch.queue) : ch.queue[k] \in pool /\ ch.queue[k] # f
    BY ElementOfSeq DEF Sound, ChannelsOf
  <1> QED BY <1>1, <1>2 DEF Sound, ChannelsOf

LEMMA PushSound ==
    ASSUME NEW pool, NEW ch, Sound(ch, pool), NEW f \in pool, ch.place[f] # "queued",
           NEW new, new = Put(ch, f)
    PROVE  /\ Sound(new, pool) /\ new.place = [ch.place EXCEPT ![f] = "queued"]
           /\ Len(new.queue) = Len(ch.queue) + 1 /\ Len(ch.queue) \in Nat
  <1> DEFINE X == [ch.place EXCEPT ![f] = "queued"]
             Y == Append(ch.queue, f)
  <1>1. ch.place \in [pool -> FramePlaces] /\ ch.queue \in Seq(pool)
    BY DEF Sound, ChannelsOf
  <1>2. X \in [pool -> FramePlaces] /\ Y \in Seq(pool)
    BY <1>1 DEF FramePlaces
  <1>3. new = [ch EXCEPT !.place = X, !.queue = Y]
    BY DEF Put
  <1>4. new \in ChannelsOf(pool) /\ new.place = X /\ new.queue = Y
    <2> HIDE DEF X, Y
    <2> QED BY <1>2, <1>3 DEF Sound, ChannelsOf
  <1>5. \A k \in 1 .. Len(ch.queue) : ch.queue[k] \in pool /\ ch.queue[k] # f /\ Y[k] = ch.queue[k]
    BY <1>1, ElementOfSeq, AppendProperties DEF Sound
  <1>6. Len(ch.queue) \in Nat /\ Len(Y) = Len(ch.queue) + 1 /\ Y[Len(ch.queue) + 1] = f
    BY <1>1, AppendProperties, LenProperties
  <1>7. \A k \in 1 .. Len(Y) : k \in 1 .. Len(ch.queue) \/ k = Len(ch.queue) + 1
    BY <1>6
  <1>8. \A k \in 1 .. Len(ch.queue) : X[Y[k]] = "queued"
    BY <1>1, <1>5 DEF Sound
  <1>9. X[Y[Len(ch.queue) + 1]] = "queued"
    BY <1>1, <1>6
  <1>10. \A j, k \in 1 .. Len(ch.queue) : j # k => Y[j] # Y[k]
    BY <1>5 DEF Sound
  <1>11. \A k \in 1 .. Len(ch.queue) : Y[k] # Y[Len(ch.queue) + 1]
    BY <1>5, <1>6
  <1>12. \A j, k \in 1 .. Len(Y) : j # k => Y[j] # Y[k]
    <2> HIDE DEF X, Y
    <2> QED BY <1>6, <1>7, <1>10, <1>11
  <1>13. \A k \in 1 .. Len(Y) : X[Y[k]] = "queued"
    <2> HIDE DEF X, Y
    <2> QED BY <1>6, <1>7, <1>8, <1>9
  <1>14. Sound(new, pool)
    <2> HIDE DEF X, Y
    <2> QED BY <1>4, <1>12, <1>13 DEF Sound
  <1> QED BY <1>4, <1>6, <1>14

LEMMA PopSound ==
    ASSUME NEW pool, NEW ch, Sound(ch, pool), ch.queue # << >>,
           NEW new, new = [ch EXCEPT !.place[Head(ch.queue)] = "reading", !.queue = Tail(@)]
    PROVE  /\ Sound(new, pool)
           /\ Head(ch.queue) \in pool /\ ch.place[Head(ch.queue)] = "queued"
           /\ new.place = [ch.place EXCEPT ![Head(ch.queue)] = "reading"]
           /\ Len(new.queue) = Len(ch.queue) - 1 /\ Len(ch.queue) \in Nat
  <1> PICK h : h = Head(ch.queue)
    OBVIOUS
  <1> PICK X : X = [ch.place EXCEPT ![h] = "reading"]
    OBVIOUS
  <1> PICK Y : Y = Tail(ch.queue)
    OBVIOUS
  <1>1. ch.place \in [pool -> FramePlaces] /\ ch.queue \in Seq(pool)
    BY DEF Sound, ChannelsOf
  <1>2. /\ h = ch.queue[1] /\ h \in pool /\ Y \in Seq(pool)
        /\ Len(ch.queue) \in Nat /\ Len(ch.queue) # 0 /\ Len(Y) = Len(ch.queue) - 1
        /\ \A k \in 1 .. Len(Y) : Y[k] = ch.queue[k + 1]
    BY <1>1, HeadTailProperties, EmptySeq, LenProperties
  <1>3. X \in [pool -> FramePlaces]
    BY <1>1 DEF FramePlaces
  <1>4. new = [ch EXCEPT !.place = X, !.queue = Y]
    OBVIOUS
  <1>5. new \in ChannelsOf(pool) /\ new.place = X /\ new.queue = Y
    BY <1>2, <1>3, <1>4 DEF Sound, ChannelsOf
  <1>6. \A k \in 1 .. Len(Y) : /\ k + 1 \in 1 .. Len(ch.queue) /\ k + 1 # 1
                               /\ ch.queue[k + 1] \in pool /\ ch.queue[k + 1] # h
    BY <1>1, <1>2, ElementOfSeq DEF Sound
  <1>7. ch.place[h] = "queued"
    BY <1>2 DEF Sound
  <1>8. \A k \in 1 .. Len(Y) : X[Y[k]] = "queued"
    <2> TAKE k \in 1 .. Len(Y)
    <2>1. X[ch.queue[k + 1]] = ch.place[ch.queue[k + 1]]
      BY <1>1, <1>6
    <2> QED BY <1>2, <1>6, <2>1 DEF Sound
  <1>9. \A j, k \in 1 .. Len(Y) : j # k => Y[j] # Y[k]
    <2> SUFFICES ASSUME NEW j \in 1 .. Len(Y), NEW k \in 1 .. Len(Y), j # k
                 PROVE  ch.queue[j + 1] # ch.queue[k + 1]
      BY <1>2
    <2>1. j + 1 # k + 1
      BY <1>2
    <2> QED BY <1>6, <2>1 DEF Sound
  <1>10. Sound(new, pool)
    <2>1. new.queue = Y
      BY <1>5
    <2>2. new.place = X
      BY <1>5
    <2>3. \A k \in 1 .. Len(new.queue) : X[new.queue[k]] = "queued"
      BY <2>1, <1>8
    <2>4. \A k \in 1 .. Len(new.queue) : new.place[new.queue[k]] = "queued"
      BY <2>3, <2>2
    <2>5. \A j, k \in 1 .. Len(new.queue) : j # k => new.queue[j] # new.queue[k]
      BY <2>1, <1>9
    <2> QED BY <1>5, <2>4, <2>5 DEF Sound
  <1> QED BY <1>2, <1>5, <1>7, <1>10

LEMMA CloseSound ==
    ASSUME NEW pool, NEW ch, Sound(ch, pool), NEW new, new = [ch EXCEPT !.closed = TRUE]
    PROVE  Sound(new, pool) /\ new.place = ch.place /\ new.queue = ch.queue
  <1>1. new \in ChannelsOf(pool) /\ new.place = ch.place /\ new.queue = ch.queue
    BY DEF Sound, ChannelsOf
  <1> QED BY <1>1 DEF Sound

\* Several frames are given back at once.
Freed(ch, pool, frames) == [ch EXCEPT !.place = [f \in pool |-> IF f \in frames THEN "free" ELSE ch.place[f]]]

LEMMA FreeSound ==
    ASSUME NEW pool, NEW ch, Sound(ch, pool), NEW frames,
           \A f \in pool : f \in frames => ch.place[f] # "queued",
           NEW new, new = Freed(ch, pool, frames)
    PROVE  /\ Sound(new, pool)
           /\ new.place = [f \in pool |-> IF f \in frames THEN "free" ELSE ch.place[f]]
           /\ new.queue = ch.queue /\ new.closed = ch.closed
  <1> PICK X : X = [f \in pool |-> IF f \in frames THEN "free" ELSE ch.place[f]]
    OBVIOUS
  <1>1. X \in [pool -> FramePlaces]
    BY DEF Sound, ChannelsOf, FramePlaces
  <1>2. new = [ch EXCEPT !.place = X]
    BY DEF Freed
  <1>3. /\ new \in ChannelsOf(pool) /\ new.place = X
        /\ new.queue = ch.queue /\ new.closed = ch.closed
    BY <1>1, <1>2 DEF Sound, ChannelsOf
  <1>4. \A k \in 1 .. Len(ch.queue) : /\ ch.queue[k] \in pool
                                      /\ ch.queue[k] \notin frames
                                      /\ X[ch.queue[k]] = ch.place[ch.queue[k]]
    BY ElementOfSeq DEF Sound, ChannelsOf
  <1> QED BY <1>3, <1>4 DEF Sound
=============================================================================
