-------------------------- MODULE FilterStage_proofs --------------------------
(***************************************************************************)
(* Proofs about ProcessorStage, for buffers of any size, finite or not,    *)
(* and any set of pipelines, and about the filters in it, for pipelines of *)
(* any length.                                                             *)
(***************************************************************************)
EXTENDS FilterStage, CommonLemmas

-----------------------------------------------------------------------------
(* The inductive invariant                                                 *)

ChannelsOK == Sound(input, InPool) /\ Sound(output, OutPool)

\* Between pop() and giveBack() the thread has an input frame, between
\* borrow() and push() an output frame, and nobody else has one of these.
HoldOK ==
    /\ procIn  # NoFrame <=> procPc \in {"borrow", "swap", "notify", "filter", "push", "return"}
    /\ procOut # NoFrame <=> procPc \in {"swap", "notify", "filter", "push"}
    /\ \A f \in InPool  : input.place[f] = "reading" <=> f = procIn
    /\ \A f \in OutPool : output.place[f] = "filling" <=> f = procOut

\* The pipeline in force is the one that was committed, or it was cleared.
InForce == active = pending \/ (pending \in Faulty /\ active = None)

\* m_dirty is set while commit() waits only, and what it waits for is whole.
EditOK ==
    /\ active # Partial
    /\ pending = Partial <=> editor = "editing"
    /\ dirty => editor \in {"waiting", "asleep"}
    /\ editor \in {"idle", "waiting", "asleep"} => dirty \/ InForce

IInv == TypeOK /\ ChannelsOK /\ HoldOK /\ EditOK

LEMMA ChannelTypes ==
    /\ In!Channels = ChannelsOf(InPool)
    /\ Out!Channels = ChannelsOf(OutPool)
  BY DEF In!Channels, Out!Channels, In!Places, Out!Places, ChannelsOf, FramePlaces

LEMMA InitIInv == Init => IInv
  <1> SUFFICES ASSUME Init PROVE IInv
    OBVIOUS
  <1> USE FrameAssumption, PipelineAssumption DEF Init, ProcInit
  <1>1. Sound(input, InPool)
    <2>1. input = [place |-> [f \in InPool |-> "free"], queue |-> << >>, closed |-> FALSE]
      BY DEF In!NewChannel
    <2> QED BY <2>1 DEF Sound, ChannelsOf, FramePlaces
  <1>2. Sound(output, OutPool)
    <2>1. output = [place |-> [f \in OutPool |-> "free"], queue |-> << >>, closed |-> FALSE]
      BY DEF Out!NewChannel
    <2> QED BY <2>1 DEF Sound, ChannelsOf, FramePlaces
  <1>3. TypeOK
    BY <1>1, <1>2, ChannelTypes DEF TypeOK, ProcTypeOK, Images, Sound
  <1>4. HoldOK
    BY DEF HoldOK, In!NewChannel, Out!NewChannel
  <1>5. EditOK
    BY DEF EditOK, InForce
  <1> QED BY <1>1, <1>2, <1>3, <1>4, <1>5 DEF IInv, ChannelsOK

\* Editing and commit() touch neither buffers nor thread.
LEMMA EditKeeps == IInv /\ EditStep => IInv'
  <1> SUFFICES ASSUME IInv, EditStep PROVE IInv'
    OBVIOUS
  <1> USE PipelineAssumption DEF IInv
  <1>1. UNCHANGED <<channelVars, threadVars>>
    BY DEF EditStep, FinishEdit, BeginEdit, EndEdit, Commit, CommitWait
  <1>2. TypeOK'
    BY <1>1 DEF EditStep, FinishEdit, BeginEdit, EndEdit, Commit, CommitWait, TypeOK, ProcTypeOK,
                channelVars, threadVars
  <1>3. ChannelsOK' /\ HoldOK'
    BY <1>1 DEF ChannelsOK, HoldOK, channelVars, threadVars
  <1>4. EditOK'
    <2>1. CASE BeginEdit
      BY <2>1 DEF BeginEdit, EditOK, InForce, TypeOK, ProcTypeOK
    <2>2. CASE EndEdit
      BY <2>2 DEF EndEdit, EditOK, InForce, TypeOK, ProcTypeOK
    <2>3. CASE Commit
      BY <2>3 DEF Commit, EditOK, InForce, TypeOK, ProcTypeOK
    <2>4. CASE CommitWait
      BY <2>4 DEF CommitWait, EditOK, InForce, TypeOK, ProcTypeOK
    <2> QED BY <2>1, <2>2, <2>3, <2>4 DEF EditStep, FinishEdit
  <1> QED BY <1>2, <1>3, <1>4

\* The steps of the thread, and of start() and stop(), outside the buffers.
LEMMA ThreadKeeps ==
    IInv /\ (Start \/ StopRequest \/ LoopHead \/ PopThrows \/ Swap \/ NotifySwap \/ Filter) => IInv'
  <1> SUFFICES ASSUME IInv, Start \/ StopRequest \/ LoopHead \/ PopThrows \/ Swap \/ NotifySwap \/ Filter
               PROVE  IInv'
    OBVIOUS
  <1> USE PipelineAssumption DEF IInv
  <1>1. UNCHANGED <<input, output, inImage, procIn, procOut>>
    BY DEF Start, StopRequest, LoopHead, PopThrows, Swap, NotifySwap, Filter, channelVars, threadVars
  <1>2. ChannelsOK'
    BY <1>1 DEF ChannelsOK
  <1>3. HoldOK'
    <2>1. procIn' # NoFrame <=> procPc' \in {"borrow", "swap", "notify", "filter", "push", "return"}
      BY <1>1 DEF Start, StopRequest, LoopHead, PopThrows, Swap, NotifySwap, Filter, HoldOK
    <2>2. procOut' # NoFrame <=> procPc' \in {"swap", "notify", "filter", "push"}
      BY <1>1 DEF Start, StopRequest, LoopHead, PopThrows, Swap, NotifySwap, Filter, HoldOK
    <2> QED BY <1>1, <2>1, <2>2 DEF HoldOK
  <1>4. TypeOK'
    <2>1. CASE Filter
      <3>1. inImage[procIn] \in Images
        BY <2>1 DEF Filter, HoldOK, TypeOK, ProcTypeOK
      <3> QED BY <1>1, <2>1, <3>1 DEF Filter, TypeOK, ProcTypeOK, editVars
    <2>2. CASE Start \/ StopRequest \/ LoopHead \/ PopThrows
      BY <1>1, <2>2 DEF Start, StopRequest, LoopHead, PopThrows, TypeOK, ProcTypeOK, channelVars, editVars
    <2>3. CASE Swap \/ NotifySwap
      BY <1>1, <2>3 DEF Swap, NotifySwap, TypeOK, ProcTypeOK, channelVars, editVars
    <2> QED BY <2>1, <2>2, <2>3
  <1>5. EditOK'
    <2>1. CASE Filter
      BY <2>1 DEF Filter, EditOK, InForce
    <2>2. CASE Start \/ StopRequest \/ LoopHead \/ PopThrows
      BY <2>2 DEF Start, StopRequest, LoopHead, PopThrows, EditOK, InForce, editVars
    <2>3. CASE Swap
      BY <2>3 DEF Swap, EditOK, InForce
    <2>4. CASE NotifySwap
      BY <2>4 DEF NotifySwap, EditOK, InForce
    <2> QED BY <2>1, <2>2, <2>3, <2>4
  <1> QED BY <1>2, <1>3, <1>4, <1>5

\* Steps that change the buffers leave pipeline and flags alone.
LEMMA EditStays == IInv /\ UNCHANGED editVars => EditOK'
  BY DEF IInv, EditOK, InForce, editVars

\* The steps on the input buffer.
LEMMA InputKeeps ==
    IInv /\ (PopInput \/ SkipFrame \/ ReturnInput \/ StopNotify \/ Fill \/ Feed) => IInv'
  <1> SUFFICES ASSUME IInv, PopInput \/ SkipFrame \/ ReturnInput \/ StopNotify \/ Fill \/ Feed
               PROVE  IInv'
    OBVIOUS
  <1> USE FrameAssumption DEF IInv
  <1>1. UNCHANGED <<output, outImage, running, procOut, editVars>>
    BY DEF PopInput, SkipFrame, ReturnInput, StopNotify, Fill, Feed, threadVars
  <1>2. Sound(input, InPool) /\ input.place \in [InPool -> FramePlaces]
    BY DEF ChannelsOK, Sound, ChannelsOf
  <1>3. CASE PopInput
    <2> PICK h : h = Head(input.queue)
      OBVIOUS
    <2>1. input.queue # << >> /\ input' = [input EXCEPT !.place[Head(input.queue)] = "reading", !.queue = Tail(@)]
      BY <1>3 DEF PopInput, In!CanPop, In!Popped
    <2>2. /\ Sound(input', InPool) /\ h \in InPool /\ input.place[h] = "queued"
          /\ input'.place = [input.place EXCEPT ![h] = "reading"]
      BY <1>2, <2>1, PopSound
    <2>3. procIn' = h /\ procPc = "pop" /\ procPc' = "borrow" /\ inImage' = inImage
      BY <1>3 DEF PopInput
    <2>4. HoldOK'
      BY <1>1, <1>2, <2>2, <2>3 DEF HoldOK
    <2>5. TypeOK'
      BY <1>1, <2>2, <2>3, ChannelTypes DEF TypeOK, ProcTypeOK, Sound, editVars
    <2> QED BY <1>1, <2>2, <2>4, <2>5, EditStays DEF ChannelsOK
  <1>4. CASE SkipFrame \/ ReturnInput
    <2> PICK f : f = procIn
      OBVIOUS
    <2>1. f \in InPool /\ input.place[f] = "reading"
      BY <1>4 DEF SkipFrame, ReturnInput, HoldOK, TypeOK, ProcTypeOK
    <2>2. input' = Moved(input, f, "free")
      BY <1>4 DEF SkipFrame, ReturnInput, In!Returned, Moved
    <2>3. Sound(input', InPool) /\ input'.place = [input.place EXCEPT ![f] = "free"]
      BY <1>2, <2>1, <2>2, Somewhere, MoveSound
    <2>4. procIn' = NoFrame /\ procPc \in {"borrow", "return"} /\ procPc' = "head" /\ inImage' = inImage
      BY <1>4 DEF SkipFrame, ReturnInput
    <2>5. HoldOK'
      BY <1>1, <1>2, <2>1, <2>3, <2>4 DEF HoldOK
    <2>6. TypeOK'
      BY <1>1, <2>3, <2>4, ChannelTypes DEF TypeOK, ProcTypeOK, Sound, editVars
    <2> QED BY <1>1, <2>3, <2>5, <2>6, EditStays DEF ChannelsOK
  <1>5. CASE StopNotify
    <2>1. input' = [input EXCEPT !.closed = TRUE] /\ UNCHANGED <<procPc, procIn, inImage>>
      BY <1>5 DEF StopNotify, In!Closed, threadVars
    <2>2. Sound(input', InPool) /\ input'.place = input.place
      BY <1>2, <2>1, CloseSound
    <2>3. HoldOK'
      BY <1>1, <2>1, <2>2 DEF HoldOK
    <2>4. TypeOK'
      BY <1>1, <2>1, <2>2, ChannelTypes DEF TypeOK, ProcTypeOK, Sound, editVars
    <2> QED BY <1>1, <2>2, <2>3, <2>4, EditStays DEF ChannelsOK
  <1>6. CASE Fill
    <2>1. PICK f \in InPool :
             /\ input.place[f] = "free"
             /\ input' = Moved(input, f, "filling")
             /\ inImage' = [inImage EXCEPT ![f] = "plain"]
      BY <1>6 DEF Fill, In!At, In!Borrowed, Moved
    <2>2. Sound(input', InPool) /\ input'.place = [input.place EXCEPT ![f] = "filling"]
      BY <1>2, <2>1, Somewhere, MoveSound
    <2>3. UNCHANGED <<procPc, procIn>>
      BY <1>6 DEF Fill, threadVars
    <2>4. HoldOK'
      BY <1>1, <1>2, <2>1, <2>2, <2>3 DEF HoldOK
    <2>5. TypeOK'
      BY <1>1, <2>1, <2>2, <2>3, ChannelTypes DEF TypeOK, ProcTypeOK, Sound, editVars, Images
    <2> QED BY <1>1, <2>2, <2>4, <2>5, EditStays DEF ChannelsOK
  <1>7. CASE Feed
    <2>1. PICK f \in InPool : input.place[f] = "filling" /\ input' = Put(input, f)
      BY <1>7 DEF Feed, In!At, In!Pushed, Put
    <2>2. Sound(input', InPool) /\ input'.place = [input.place EXCEPT ![f] = "queued"]
      BY <1>2, <2>1, PushSound
    <2>3. UNCHANGED <<procPc, procIn, inImage>>
      BY <1>7 DEF Feed, threadVars
    <2>4. HoldOK'
      BY <1>1, <1>2, <2>1, <2>2, <2>3 DEF HoldOK
    <2>5. TypeOK'
      BY <1>1, <2>2, <2>3, ChannelTypes DEF TypeOK, ProcTypeOK, Sound, editVars
    <2> QED BY <1>1, <2>2, <2>4, <2>5, EditStays DEF ChannelsOK
  <1> QED BY <1>3, <1>4, <1>5, <1>6, <1>7

\* The steps on the output buffer.
LEMMA OutputKeeps ==
    IInv /\ (BorrowOutput \/ PushOutput \/ Drain \/ \E frames \in SUBSET OutPool : Release(frames)) => IInv'
  <1> SUFFICES ASSUME IInv, BorrowOutput \/ PushOutput \/ Drain \/ \E frames \in SUBSET OutPool : Release(frames)
               PROVE  IInv'
    OBVIOUS
  <1> USE FrameAssumption DEF IInv
  <1>1. UNCHANGED <<input, inImage, outImage, running, procIn, editVars>>
    BY DEF BorrowOutput, PushOutput, Drain, Release, threadVars
  <1>2. Sound(output, OutPool) /\ output.place \in [OutPool -> FramePlaces]
    BY DEF ChannelsOK, Sound, ChannelsOf
  <1>3. CASE BorrowOutput
    <2>1. PICK f \in OutPool :
             output.place[f] = "free" /\ procOut' = f /\ output' = Moved(output, f, "filling")
      BY <1>3 DEF BorrowOutput, Out!At, Out!Borrowed, Moved
    <2>2. Sound(output', OutPool) /\ output'.place = [output.place EXCEPT ![f] = "filling"]
      BY <1>2, <2>1, Somewhere, MoveSound
    <2>3. procPc = "borrow" /\ procPc' = "swap"
      BY <1>3 DEF BorrowOutput
    <2>4. HoldOK'
      BY <1>1, <1>2, <2>1, <2>2, <2>3 DEF HoldOK
    <2>5. TypeOK'
      BY <1>1, <2>1, <2>2, <2>3, ChannelTypes DEF TypeOK, ProcTypeOK, Sound, editVars
    <2> QED BY <1>1, <2>2, <2>4, <2>5, EditStays DEF ChannelsOK
  <1>4. CASE PushOutput
    <2> PICK f : f = procOut
      OBVIOUS
    <2>1. f \in OutPool /\ output.place[f] = "filling"
      BY <1>4 DEF PushOutput, HoldOK, TypeOK, ProcTypeOK
    <2>2. output' = Put(output, f)
      BY <1>4 DEF PushOutput, Out!Pushed, Put
    <2>3. Sound(output', OutPool) /\ output'.place = [output.place EXCEPT ![f] = "queued"]
      BY <1>2, <2>1, <2>2, PushSound
    <2>4. procOut' = NoFrame /\ procPc = "push" /\ procPc' = "return"
      BY <1>4 DEF PushOutput
    <2>5. HoldOK'
      BY <1>1, <1>2, <2>1, <2>3, <2>4 DEF HoldOK
    <2>6. TypeOK'
      BY <1>1, <2>3, <2>4, ChannelTypes DEF TypeOK, ProcTypeOK, Sound, editVars
    <2> QED BY <1>1, <2>3, <2>5, <2>6, EditStays DEF ChannelsOK
  <1>5. CASE Drain
    <2> PICK h : h = Head(output.queue)
      OBVIOUS
    <2>1. output.queue # << >> /\ output' = [output EXCEPT !.place[Head(output.queue)] = "reading", !.queue = Tail(@)]
      BY <1>5 DEF Drain, Out!CanPop, Out!Popped
    <2>2. /\ Sound(output', OutPool) /\ h \in OutPool /\ output.place[h] = "queued"
          /\ output'.place = [output.place EXCEPT ![h] = "reading"]
      BY <1>2, <2>1, PopSound
    <2>3. UNCHANGED <<procPc, procOut>>
      BY <1>5 DEF Drain, threadVars
    <2>4. HoldOK'
      BY <1>1, <1>2, <2>2, <2>3 DEF HoldOK
    <2>5. TypeOK'
      BY <1>1, <2>2, <2>3, ChannelTypes DEF TypeOK, ProcTypeOK, Sound, editVars
    <2> QED BY <1>1, <2>2, <2>4, <2>5, EditStays DEF ChannelsOK
  <1>6. ASSUME NEW frames \in SUBSET OutPool, Release(frames) PROVE IInv'
    <2>1. /\ \A f \in OutPool : f \in frames => output.place[f] = "reading"
          /\ output' = Freed(output, OutPool, frames)
      BY <1>2, <1>6 DEF Release, Out!At, Freed
    <2>2. /\ Sound(output', OutPool)
          /\ output'.place = [f \in OutPool |-> IF f \in frames THEN "free" ELSE output.place[f]]
      BY <1>2, <2>1, FreeSound
    <2>3. UNCHANGED <<procPc, procOut>>
      BY <1>6 DEF Release, threadVars
    <2>4. HoldOK'
      BY <1>1, <1>2, <2>1, <2>2, <2>3 DEF HoldOK
    <2>5. TypeOK'
      BY <1>1, <2>2, <2>3, ChannelTypes DEF TypeOK, ProcTypeOK, Sound, editVars
    <2> QED BY <1>1, <2>2, <2>4, <2>5, EditStays DEF ChannelsOK
  <1> QED BY <1>3, <1>4, <1>5, <1>6

LEMMA NextIInv == IInv /\ [Next]_procVars => IInv'
  <1>1. ASSUME IInv, UNCHANGED procVars PROVE IInv'
    BY <1>1 DEF IInv, TypeOK, ProcTypeOK, ChannelsOK, HoldOK, EditOK, InForce, procVars,
                channelVars, threadVars, editVars
  <1>2. Next => \/ EditStep
                \/ Start \/ StopRequest \/ LoopHead \/ PopThrows \/ Swap \/ NotifySwap \/ Filter
                \/ PopInput \/ SkipFrame \/ ReturnInput \/ StopNotify \/ Fill \/ Feed
                \/ BorrowOutput \/ PushOutput \/ Drain \/ \E frames \in SUBSET OutPool : Release(frames)
    BY DEF Next, ProcStep, Ui
  <1> QED BY <1>1, <1>2, EditKeeps, ThreadKeeps, InputKeeps, OutputKeeps

-----------------------------------------------------------------------------
\* The state of the processor and of its buffers is well-formed.
THEOREM Invariance == Spec => []IInv
  BY InitIInv, NextIInv, PTL DEF Spec

\* Every variable of the processor keeps its type.
THEOREM StageTypeCorrect == Spec => []TypeOK
  <1>1. IInv => TypeOK
    BY DEF IInv
  <1> QED BY <1>1, Invariance, PTL

(***************************************************************************)
(* processingThread() never runs a half-built pipeline.  m_pending is      *)
(* edited without the mutex, but only while m_dirty is clear.              *)
(***************************************************************************)
THEOREM PipelineIsWhole == Spec => []PipelineNeverTorn
  <1>1. IInv => PipelineNeverTorn
    BY DEF IInv, EditOK, PipelineNeverTorn
  <1> QED BY <1>1, Invariance, PTL

\* commit() returns with its pipeline in force and with no swap outstanding.
THEOREM CommitTakesEffect == Spec => []CommittedIsActive
  <1>1. IInv => CommittedIsActive
    BY DEF IInv, EditOK, InForce, CommittedIsActive
  <1> QED BY <1>1, Invariance, PTL

\* No other thread touches the frames processingThread() reads and writes.
THEOREM ThreadOwnsItsFrames == Spec => []HeldFramesAreOwn
  <1>1. IInv => HeldFramesAreOwn
    BY FrameAssumption DEF IInv, HoldOK, TypeOK, ProcTypeOK, HeldFramesAreOwn, In!At, Out!At
  <1> QED BY <1>1, Invariance, PTL

-----------------------------------------------------------------------------
(* The filters                                                             *)

Outcomes == Formats \cup {Throws}

\* A filter makes a format of a format, or throws.
LEMMA FilterOutcome ==
    ASSUME NEW filter \in UserFilters, NEW type \in Formats
    PROVE  Applied(filter, type) \in Outcomes
  <1> USE DEF UserFilters, Applied, OnlyFor, Outcomes, Formats, Types, Throws
  <1>1. CASE filter.name = "awb"
    BY <1>1 DEF FilterAWB
  <1>2. CASE filter.name = "gamma"
    BY <1>2 DEF FilterGamma
  <1>3. CASE filter.name = "demosaicing"
    BY <1>3 DEF FilterDemosaicing, BayerOutput
  <1>4. CASE filter.name = "conversion"
    BY <1>4 DEF FilterConversion
  <1>5. CASE filter.name = "keepmosaic"
    BY <1>5 DEF FilterKeepMosaic
  <1>6. CASE filter.name = "sobel"
    BY <1>6 DEF FilterSobel
  <1> QED BY <1>1, <1>2, <1>3, <1>4, <1>5, <1>6

\* The pre-filter, where there is one, makes a format of what its camera
\* delivers, and the post-filter makes each format of each.
LEMMA FixedFilters ==
    /\ \A camera \in Cameras : PreFiltered(camera) \in Formats
    /\ \A format \in Formats, type \in Formats : FilterConversion(format, type) = format
    /\ Throws \notin Formats
  BY DEF Cameras, PreFiltered, FilterConversion, Formats, Throws

\* Behind any number of the user's filters there is a format, or one has thrown.
LEMMA TypesBehindIn ==
    ASSUME NEW camera \in Cameras, NEW pipeline \in Seq(UserFilters)
    PROVE  TypesBehind(camera, pipeline) \in [0 .. Len(pipeline) -> Outcomes]
  <1> DEFINE N == Len(pipeline)
             V == Outcomes
             first == PreFiltered(camera)
             Next1(n, type) == IF type = Throws THEN Throws ELSE Applied(pipeline[n], type)
             step == [x \in (1 .. N) \X V |-> Next1(x[1], x[2])]
  <1>1. N \in Nat /\ \A n \in 1 .. N : pipeline[n] \in UserFilters
    BY ElementOfSeq, LenProperties
  <1>2. first \in V
    BY FixedFilters DEF Outcomes
  <1>3. ASSUME NEW n \in 1 .. N, NEW type \in V PROVE Next1(n, type) \in V
    BY <1>1, FilterOutcome DEF Outcomes
  <1> HIDE DEF N, V, first, Next1
  <1>4. step \in StepOf(N, V)
    BY <1>3 DEF StepOf
  <1>5. PICK g : IsRecursion(g, N, V, first, step)
    <2> HIDE DEF step
    <2> QED BY <1>1, <1>2, <1>4, RecursionExists
  <1>6. g \in [0 .. N -> V] /\ g[0] = first /\ \A n \in 1 .. N : g[n] = step[<<n, g[n - 1]>>]
    BY <1>5 DEF IsRecursion
  <1>7. ASSUME NEW n \in 1 .. N PROVE g[n] = Next1(n, g[n - 1])
    <2>1. <<n, g[n - 1]>> \in (1 .. N) \X V
      BY <1>1, <1>6
    <2>2. step[<<n, g[n - 1]>>] = Next1(n, g[n - 1])
      BY <2>1
    <2> QED BY <1>6, <2>2
  <1> HIDE DEF step
  <1>8. g = [n \in 0 .. N |-> IF n = 0 THEN first ELSE Next1(n, g[n - 1])]
    <2>1. ASSUME NEW n \in 0 .. N PROVE g[n] = IF n = 0 THEN first ELSE Next1(n, g[n - 1])
      <3>1. n = 0 \/ n \in 1 .. N
        BY <1>1
      <3> QED BY <1>6, <1>7, <3>1
    <2>2. g = [n \in 0 .. N |-> g[n]]
      BY <1>6
    <2> QED BY <2>1, <2>2
  <1> DEFINE types == TypesBehind(camera, pipeline)
  <1>9. types = [n \in 0 .. N |-> IF n = 0 THEN first ELSE Next1(n, types[n - 1])]
    BY <1>8 DEF TypesBehind, N, first, Next1
  <1> HIDE DEF types
  <1>10. types[0] = first /\ \A n \in 1 .. N : types[n] = Next1(n, types[n - 1])
    <2>1. 0 \in 0 .. N /\ \A n \in 1 .. N : n \in 0 .. N /\ n # 0
      BY <1>1
    <2> QED BY <1>9, <2>1
  <1>11. \A n \in 0 .. N : types[n] \in V
    <2> DEFINE S == {n \in 0 .. N : types[n] \in V}
    <2>1. 0 \in S /\ \A n \in 1 .. N : n - 1 \in S => n \in S
      BY <1>1, <1>2, <1>3, <1>10
    <2>2. \A n \in 0 .. N : n \in S
      <3> HIDE DEF S
      <3> QED BY <1>1, <2>1, InductionOnRange
    <2> QED BY <2>2
  <1>12. types \in [0 .. N -> V]
    BY <1>9, <1>11
  <1> QED BY <1>12 DEF types, N, V

LEMMA PipelinesAreSequences == Pipelines \cup {None} \subseteq Seq(UserFilters)
  BY FilterAssumption, EmptySeq

(***************************************************************************)
(* Whatever the user typed, however many filters, for each camera and each *)
(* format: the filters that main() installs do not throw, and if none of   *)
(* the user's does, the result has the pixel type of the frame.            *)
(***************************************************************************)
THEOREM UserFiltersOnly == Spec => []OnlyUserFiltersThrow
  <1>1. IInv => OnlyUserFiltersThrow
    <2> SUFFICES ASSUME IInv, NEW camera \in Cameras, NEW format \in Formats
                 PROVE  /\ PreFiltered(camera) # Throws
                        /\ UserFiltered(camera, active) # Throws
                              => Written(camera, format, active) = format
      BY DEF OnlyUserFiltersThrow
    <2>1. active \in Seq(UserFilters)
      BY PipelinesAreSequences DEF IInv, TypeOK, ProcTypeOK, EditOK
    <2>2. UserFiltered(camera, active) \in Outcomes
      <3>1. Len(active) \in 0 .. Len(active)
        BY <2>1, LenProperties
      <3> QED BY <2>1, <3>1, TypesBehindIn DEF UserFiltered
    <2> QED BY <2>2, FixedFilters DEF Outcomes, Written
  <1> QED BY <1>1, Invariance, PTL
=============================================================================
