---------------------------- MODULE CapturerStage ----------------------------
(***************************************************************************)
(* The capturer between a camera and a processor that pops its frames and  *)
(* gives them back.                                                        *)
(***************************************************************************)
EXTENDS Capturer

VARIABLES
    tagged,      \* the images the camera has marked so far
    popped       \* the marked images the processor has popped so far

stageVars == <<capVars, tagged, popped>>

TypeOK == CapTypeOK /\ tagged \subseteq {"first", "second"}
                    /\ popped \subseteq {"first", "second"}

Init == CapInit /\ tagged = {} /\ popped = {}

NextTag == {"plain"} \cup (IF tagged = {} THEN {"first"} ELSE {})
                     \cup (IF tagged = {"first"} THEN {"second"} ELSE {})

Camera(tag) ==
    /\ Complete(tag)
    /\ tagged' = tagged \cup ({tag} \ {"plain"})
    /\ UNCHANGED popped

Program(step) == step /\ UNCHANGED <<tagged, popped>>

Pop ==
    /\ In!CanPop(input)
    /\ input' = In!Popped(input)
    /\ popped' = popped \cup ({inImage[Head(input.queue)]} \cap {"first", "second"})
    /\ UNCHANGED <<inImage, deviceVars, captureVars, tagged>>

GiveBack ==
    /\ \E f \in In!At(input, "reading") : input' = In!Returned(input, f)
    /\ UNCHANGED <<inImage, deviceVars, captureVars, tagged, popped>>

\* stop() is called by Main.cpp after start(), and by the destructor of a
\* capturer whose openDevice() or start() has thrown.
MayStop == capPc = "exited" \/ device = "halfopen"

Next ==
    \/ Program(OpenDevice \/ OpenFails \/ StartFails \/ StartCapture)
    \/ Program(CapStep)
    \/ \E tag \in NextTag : Camera(tag)
    \/ Program(QueueError)
    \/ Program(capturing /\ StopCapture)
    \/ Program(MayStop /\ StopStep)
    \/ Pop \/ GiveBack

Spec == Init /\ [][Next]_stageVars

\* The thread runs, and stop() once called.  The camera may fall silent.
Fairness ==
    /\ WF_stageVars(Program(CapStep))
    /\ WF_stageVars(Program(MayStop /\ StopStep))

FairSpec == Spec /\ Fairness

-----------------------------------------------------------------------------
(***************************************************************************)
(* The processor sees the marked images in the order they were taken, each *)
(* at most once, although buffers and frames are reused meanwhile.         *)
(***************************************************************************)
CapturedInOrder ==
    [][In!CanPop(input) /\ input'.queue = Tail(input.queue) /\
       inImage[Head(input.queue)] \in {"first", "second"}
         => /\ inImage[Head(input.queue)] \notin popped
            /\ inImage[Head(input.queue)] = "first" => "second" \notin popped]_stageVars

\* stop() returns, with or without frames or a queue that works, and the device
\* is closed.
StopCloses == (capPc # "off" /\ ~capturing) ~> device = "closed"
=============================================================================
