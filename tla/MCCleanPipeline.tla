--------------------------- MODULE MCCleanPipeline ---------------------------
(***************************************************************************)
(* CleanPipeline for TLC: small files of surfaces, of curves, of both, and *)
(* of presentations, numbered upwards or downwards.                        *)
(***************************************************************************)
EXTENDS CleanPipeline

\* A file numbered in reverse: the smallest id of a family is then its last entity.
Downward(s) ==
    LET flip == [n \in Ids(s) |-> Len(s) + 1 - n]
    IN  [i \in DOMAIN s |-> [Rewritten(s, flip)[i] EXCEPT !.id = flip[i]]]

\* A surface of one name and axis on a frame of its own, used by a face or a pcurve.
SurfaceAt(n, origin, name, user) ==
    <<Entity(n, "point", origin, <<>>), Entity(n + 1, "placement", 0, <<n>>),
      Entity(n + 2, "plane", name, <<n + 1>>), Entity(n + 3, user, 0, <<n + 2>>)>>

CurveAt(n, from, to, name) ==
    <<Entity(n, "point", from, <<>>), Entity(n + 1, "point", to, <<>>),
      Entity(n + 2, "curve", name, <<n, n + 1>>), Entity(n + 3, "edge", 0, <<n + 2>>)>>

VertexAt(n, p) == <<Entity(n, "point", p, <<>>), Entity(n + 1, "vertex", 0, <<n>>)>>

SurfaceFiles ==
    {SurfaceAt(1, 0, 0, "face") \o SurfaceAt(5, x, name, "face") \o SurfaceAt(9, y, 0, user)
        \o VertexAt(13, v) :
        x \in 0 .. 2, y \in 0 .. 2, name \in {Empty, NONE},
        user \in {"face", "pcurve"}, v \in {1, 3}}

CurveFiles ==
    {CurveAt(1, 0, 1, 0) \o CurveAt(5, x, x + 1, name) \o CurveAt(9, y, y + d, 0)
        \o VertexAt(13, v) :
        x \in 0 .. 2, y \in 0 .. 2, name \in {Empty, NONE}, d \in {1, 2}, v \in {1, 3}}

MixedFiles ==
    {SurfaceAt(1, 0, 0, "face") \o SurfaceAt(5, x, 0, "face")
        \o CurveAt(9, 0, 1, 0) \o CurveAt(13, y, y + 1, name) :
        x \in 1 .. 2, y \in 0 .. 2, name \in {Empty, NONE}}

\* Four presentations or layers over two contexts and two vertices; one may be in use.
PresentationFiles ==
    {<<Entity(1, "context", c, <<>>), Entity(2, "context", 0, <<>>)>>
        \o VertexAt(3, 0) \o VertexAt(5, 1)
        \o <<Entity(7, "presentation", 0, <<1, 4>>), Entity(8, "presentation", 0, <<2, i>>),
             Entity(9, kind, 0, IF kind = "layer" THEN <<4>> ELSE <<2, 6>>),
             Entity(10, kind, name, IF kind = "layer" THEN <<6>> ELSE <<2, 4, 6>>)>>
        \o use :
        c \in 0 .. 1, i \in {4, 6}, kind \in Presentations, name \in {Empty, NONE},
        use \in {<<>>, <<Entity(11, "area", 0, <<8>>)>>, <<Entity(11, "area", 0, <<10>>)>>}}

Upward == SurfaceFiles \cup CurveFiles \cup MixedFiles \cup PresentationFiles
MCInputs == Upward \cup {Downward(s) : s \in Upward}

AllPasses ==
    [minify |-> TRUE, intern |-> TRUE, consolidate |-> TRUE,
     surfaces |-> TRUE, curves |-> TRUE, dense |-> TRUE]

\* Without the surface pass, as in both output profiles; without interning; with the
\* names and ids of the file.
MCOptionSets ==
    {[AllPasses EXCEPT !.surfaces = FALSE], [AllPasses EXCEPT !.intern = FALSE],
     [AllPasses EXCEPT !.surfaces = FALSE, !.minify = FALSE, !.dense = FALSE]}

\* The surface pass together with interning.
WithSurfaces == {AllPasses}
=============================================================================
