------------------------------ MODULE Filters ------------------------------
(***************************************************************************)
(* sw/vision_core/src/filter: the filters a user can put between the two   *)
(* filters that main() installs.  Of an image only its pixel type is kept: *)
(* a filter either makes one type of another or throws on it.              *)
(***************************************************************************)
EXTENDS Naturals, Sequences

Formats == {"gray8", "bgr8"}          \* CV_8UC1, CV_8UC3
Types   == Formats \cup {"yuyv"}      \* and CV_8UC2
Throws  == "throws"
Cameras == {"ov7670", "webcam"}

-----------------------------------------------------------------------------
(* filter() of each class, with its argument and the type of its input.  A *)
(* filter for one type either tests it or leaves that to OpenCV, and both  *)
(* throw a std::exception.                                                 *)

OnlyFor(types, type, result) == IF type \in types THEN result ELSE Throws

FilterAWB(type) == OnlyFor({"bgr8"}, type, "bgr8")

\* Mutant of FilterConversion: without the case of CV_8UC1.
FilterConversionNoGray(out, type) ==
    IF type = out \/ <<type, out>> \in {<<"yuyv", "bgr8">>, <<"bgr8", "gray8">>}
    THEN out ELSE Throws

\* Between gray8 and bgr8 both ways; yuyv only to bgr8.
FilterConversion(out, type) ==
    IF type = out
       \/ <<type, out>> \in {<<"gray8", "bgr8">>, <<"yuyv", "bgr8">>, <<"bgr8", "gray8">>}
    THEN out ELSE Throws

FilterDemosaicing(out, type) == OnlyFor({"gray8"}, type, out)

FilterGamma(type) == OnlyFor(Types, type, type)

FilterKeepMosaic(out, type) == OnlyFor({"gray8"}, type, out)

FilterSobel(overlay, type) ==
    OnlyFor(Formats, type, IF overlay THEN "bgr8" ELSE "gray8")

-----------------------------------------------------------------------------
(* What parseFilter() makes of a token: a name and its argument, as far as *)
(* the type of the result depends on it.                                   *)

Algorithms == {"bilinear", "vng", "ea", "gray"}

\* The code parseBayerCode() picks for an algorithm, by what it converts to.
BayerOutput(algo) == IF algo = "gray" THEN "gray8" ELSE "bgr8"

UserFilters ==
    [name : {"awb", "gamma"}, arg : {"-"}]
        \cup [name : {"demosaicing"}, arg : Algorithms]
        \cup [name : {"conversion", "keepmosaic"}, arg : Formats]
        \cup [name : {"sobel"}, arg : {"-", "overlay"}]

Applied(filter, type) ==
    CASE filter.name = "awb"         -> FilterAWB(type)
      [] filter.name = "gamma"       -> FilterGamma(type)
      [] filter.name = "demosaicing" -> FilterDemosaicing(BayerOutput(filter.arg), type)
      [] filter.name = "conversion"  -> FilterConversion(filter.arg, type)
      [] filter.name = "keepmosaic"  -> FilterKeepMosaic(filter.arg, type)
      [] filter.name = "sobel"       -> FilterSobel(filter.arg = "overlay", type)

-----------------------------------------------------------------------------
(* The whole way of a frame: raw Bayer data from the OV7670, which has no  *)
(* pre-filter, or YUYV from a webcam; the user's filters; the post-filter. *)

PreFiltered(camera) ==
    IF camera = "webcam" THEN FilterConversion("bgr8", "yuyv") ELSE "gray8"

\* The pixel type behind the first n filters.
TypesBehind(camera, pipeline) ==
    LET type[n \in 0 .. Len(pipeline)] ==
            IF n = 0 THEN PreFiltered(camera)
            ELSE IF type[n - 1] = Throws THEN Throws
            ELSE Applied(pipeline[n], type[n - 1])
    IN  type

UserFiltered(camera, pipeline) == TypesBehind(camera, pipeline)[Len(pipeline)]

Written(camera, format, pipeline) ==
    LET type == UserFiltered(camera, pipeline)
    IN  IF type = Throws THEN Throws ELSE FilterConversion(format, type)
=============================================================================
