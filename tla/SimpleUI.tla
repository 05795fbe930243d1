------------------------------ MODULE SimpleUI ------------------------------
(***************************************************************************)
(* sw/vision_core/src/SimpleUI.cpp: the thread that polls stdin and        *)
(* replaces the processor's pipeline with the sequence the user typed.     *)
(* What a line says is abstracted to three cases: it parses, it does not,  *)
(* or there is none (end of file).                                         *)
(***************************************************************************)
EXTENDS Processor

VARIABLES
    uiStop,      \* m_stop
    uiPc         \* where run() is

uiVars == <<uiStop, uiPc>>

UiTypeOK ==
    /\ uiStop \in BOOLEAN
    /\ uiPc \in {"off", "head", "select", "apply", "exited"}

UiInit == uiStop = FALSE /\ uiPc = "off"

StartUi ==
    /\ uiPc = "off"
    /\ uiPc' = "head"
    /\ UNCHANGED <<uiStop, procVars>>

StopUi == uiStop' = TRUE /\ UNCHANGED <<uiPc, procVars>>

UiHead ==
    /\ uiPc = "head"
    /\ uiPc' = IF uiStop THEN "exited" ELSE "select"
    /\ UNCHANGED <<uiStop, procVars>>

\* 500 ms without input, or an empty line.
UiNothing ==
    /\ uiPc = "select"
    /\ uiPc' = "head"
    /\ UNCHANGED <<uiStop, procVars>>

\* parseFilter() throws: an unknown name, a missing or a malformed argument.
\* The line is parsed to its end before the pipeline is touched.
UiError ==
    /\ uiPc = "select"
    /\ uiPc' = "head"
    /\ UNCHANGED <<uiStop, procVars>>

UiEof ==
    /\ uiPc = "select"
    /\ uiPc' = "exited"
    /\ UNCHANGED <<uiStop, procVars>>

\* applySequence(): edit the pending pipeline and commit() it, which returns
\* when the processor has taken it over.
UiApply ==
    /\ uiPc = "select"
    /\ BeginEdit
    /\ uiPc' = "apply"
    /\ UNCHANGED uiStop

UiApplying ==
    /\ uiPc = "apply"
    /\ FinishEdit
    /\ uiPc' = IF editor' = "idle" THEN "head" ELSE "apply"
    /\ UNCHANGED uiStop

UiStep == UiHead \/ UiNothing \/ UiError \/ UiEof \/ UiApply \/ UiApplying
=============================================================================
