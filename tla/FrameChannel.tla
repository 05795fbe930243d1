---------------------------- MODULE FrameChannel ----------------------------
(***************************************************************************)
(* What a FrameBuffer promises its users, without its ring, its scan, its  *)
(* mutex or its condition variable: a fixed pool of frames, each in        *)
(* exactly one place, and a FIFO between the producer and the consumer.    *)
(*                                                                         *)
(* The operators on channel values are also what the modules that compose  *)
(* several buffers are written with; FrameBuffer.tla shows that the class  *)
(* implements them.                                                        *)
(***************************************************************************)
EXTENDS Naturals, Sequences

CONSTANT Pool        \* the frames of one buffer, m_pool

(***************************************************************************)
(* A channel value.  place says who may touch a frame: "free" frames can   *)
(* be borrowed, "filling" ones belong to a producer, "queued" ones to the  *)
(* channel, "reading" ones to whoever popped them (the consumer thread or  *)
(* the library it lent the frame to).                                      *)
(***************************************************************************)
Places == {"free", "filling", "queued", "reading"}

Channels == [place : [Pool -> Places], queue : Seq(Pool), closed : BOOLEAN]

NewChannel == [place  |-> [f \in Pool |-> "free"],
               queue  |-> << >>,
               closed |-> FALSE]

At(ch, where) == {f \in Pool : ch.place[f] = where}

CanBorrow(ch) == At(ch, "free") # {}
CanPop(ch)    == ch.queue # << >> /\ ~ch.closed

Borrowed(ch, f) == [ch EXCEPT !.place[f] = "filling"]

Pushed(ch, f) == [ch EXCEPT !.place[f] = "queued",
                            !.queue    = Append(@, f)]

Popped(ch) == [ch EXCEPT !.place[Head(ch.queue)] = "reading",
                         !.queue                 = Tail(@)]

Returned(ch, f) == [ch EXCEPT !.place[f] = "free"]

Closed(ch) == [ch EXCEPT !.closed = TRUE]

-----------------------------------------------------------------------------
VARIABLE chan

Init == chan = NewChannel

Borrow == \E f \in At(chan, "free") : chan' = Borrowed(chan, f)

\* There is no "queue full" outcome: a frame that was borrowed can be pushed.
Push == \E f \in At(chan, "filling") : chan' = Pushed(chan, f)

Pop == CanPop(chan) /\ chan' = Popped(chan)

GiveBack == \E f \in At(chan, "filling") \cup At(chan, "reading") :
               chan' = Returned(chan, f)

\* forceNotify(): from now on pop() only throws, whatever is still queued.
Close == chan' = Closed(chan)

Next == Borrow \/ Push \/ Pop \/ GiveBack \/ Close

\* What may happen, ...
Safety == Init /\ [][Next]_chan

\* ... and the consumer keeps popping, so what is queued is eventually taken.
Spec == Safety /\ WF_chan(Pop)
=============================================================================
