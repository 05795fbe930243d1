---------------------------- MODULE FilterStage ----------------------------
(***************************************************************************)
(* ProcessorStage with the pipelines a user types: sequences of filters,   *)
(* of which those throw that do not fit the camera or one another.         *)
(***************************************************************************)
EXTENDS ProcessorStage, Filters

CONSTANTS
    Camera,     \* the camera main() was told to use
    Format      \* the pixel type of the frames of m_outputBuffer

ASSUME FilterAssumption ==
    /\ Pipelines \subseteq Seq(UserFilters) \ {<<>>}
    /\ None = <<>>
    /\ Camera \in Cameras
    /\ Format \in Formats

NoFilters == <<>>

\* A token the user types, parsed.
F(name, arg) == [name |-> name, arg |-> arg]

\* Every filter occurs, with both kinds of argument where that has one; the
\* results are of both formats; the first sequence throws on raw Bayer data, the
\* next two on what comes from a webcam.
UserSequences ==
    {<<F("awb", "-")>>,
     <<F("demosaicing", "gray"), F("sobel", "overlay"), F("awb", "-"), F("gamma", "-")>>,
     <<F("keepmosaic", "bgr8"), F("conversion", "gray8"), F("keepmosaic", "gray8")>>,
     <<F("conversion", "bgr8"), F("sobel", "-"), F("demosaicing", "ea")>>}

Throwing == {p \in Pipelines : Written(Camera, Format, p) = Throws}

-----------------------------------------------------------------------------
(***************************************************************************)
(* Whatever camera and format main() was started with, and whatever the    *)
(* user typed: what the processing thread writes has the pixel type of the *)
(* frame it writes to, so the frame keeps its memory, and if it throws, it *)
(* is in a filter of the user's, which the pipeline that is cleared takes  *)
(* with it.  The pre-filter, which runs outside the try block, and the     *)
(* post-filter, which no command can remove, never throw.                  *)
(***************************************************************************)
OnlyUserFiltersThrow ==
    procPc = "filter" =>
        \A camera \in Cameras, format \in Formats :
            /\ PreFiltered(camera) # Throws
            /\ UserFiltered(camera, active) # Throws
                  => Written(camera, format, active) = format
=============================================================================
