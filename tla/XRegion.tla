------------------------------- MODULE XRegion -------------------------------
(***************************************************************************)
(* XFIXES regions and the SHAPE extension.  Both keep an area as a list of *)
(* rectangles and compute on the lists; a region is a resource of its own, *)
(* a shape belongs to a window and may be absent, which means the window's *)
(* whole rectangle.  Beside each list the model carries the set of points  *)
(* the requests stand for.                                                 *)
(*                                                                         *)
(* Abstracted: the order of a list of rectangles, which no result depends  *)
(* on; coordinates are small, so that no i16 sum overflows.                *)
(***************************************************************************)
EXTENDS Integers, FiniteSets

CONSTANTS RgIds,       \* region ids
          RgRects,     \* rectangles of the requests: [x, y, w, h]
          RgMoves,     \* offsets of the requests
          RgMaxSteps   \* bound on the number of requests

Rectangles == [x : Int, y : Int, w : Nat, h : Nat]   \* a width or height may be zero

ASSUME RgAssumption ==
    RgRects \subseteq Rectangles /\ RgMoves \subseteq Int /\ RgMaxSteps \in Nat

RgFull == [x |-> 0, y |-> 0, w |-> 2, h |-> 2]   \* the window
RgKinds == {"bounding", "clip", "input"}

VARIABLES
    rgRegion,   \* rgRegion[i]: {} or {set of rectangles}
    rgArea,     \* rgArea[i]: the points the region stands for (history)
    rgShape,    \* rgShape[k]: {} or {set of rectangles}
    rgMarkers,  \* shape_select_clients: the sequence numbers of SelectInput
    rgNotify,   \* the ShapeNotify of the last request: {} or {[kind, shaped, extents]}
    rgSteps

rgVars == <<rgRegion, rgArea, rgShape, rgMarkers, rgNotify, rgSteps>>
rgShapes == <<rgShape, rgMarkers>>

RgRight(r) == r.x + r.w
RgBottom(r) == r.y + r.h
RgInside(r, p) == r.x <= p[1] /\ p[1] < RgRight(r) /\ r.y <= p[2] /\ p[2] < RgBottom(r)
Points(rects) == UNION {(r.x..(RgRight(r) - 1)) \X (r.y..(RgBottom(r) - 1)) : r \in rects}
RgMax2(a, b) == IF a > b THEN a ELSE b
RgMin2(a, b) == IF a < b THEN a ELSE b

(***************************************************************************)
(* Lists of rectangles.                                                    *)
(***************************************************************************)
Moved(rects, d) == {[r EXCEPT !.x = @ + d, !.y = @ + d] : r \in rects}

IntersectLists(a, b) ==
    {o \in {LET x1 == RgMax2(ra.x, rb.x)
                y1 == RgMax2(ra.y, rb.y)
            IN  [x |-> x1, y |-> y1,
                 w |-> RgMin2(RgRight(ra), RgRight(rb)) - x1,
                 h |-> RgMin2(RgBottom(ra), RgBottom(rb)) - y1] : ra \in a, rb \in b} :
        o.w > 0 /\ o.h > 0}

Disjoint(r, s) ==
    s.x >= RgRight(r) \/ RgRight(s) <= r.x \/ s.y >= RgBottom(r) \/ RgBottom(s) <= r.y

\* A slip: the strip below the hole is as high as the one above it.
SubtractRectLow(r, s) ==
    IF Disjoint(r, s) THEN {r}
    ELSE LET y1 == RgMax2(r.y, s.y)
             y2 == RgMin2(RgBottom(r), RgBottom(s))
         IN  {o \in {[x |-> r.x, y |-> r.y, w |-> r.w, h |-> s.y - r.y],
                     [x |-> r.x, y |-> y1, w |-> s.x - r.x, h |-> y2 - y1],
                     [x |-> RgRight(s), y |-> y1, w |-> RgRight(r) - RgRight(s), h |-> y2 - y1],
                     [x |-> r.x, y |-> RgBottom(s), w |-> r.w, h |-> s.y - r.y]} :
                 o.w > 0 /\ o.h > 0}

\* What is left of r without s: the strips above and below, and to both sides.
SubtractRect(r, s) ==
    IF Disjoint(r, s) THEN {r}
    ELSE LET y1 == RgMax2(r.y, s.y)
             y2 == RgMin2(RgBottom(r), RgBottom(s))
         IN  {o \in {[x |-> r.x, y |-> r.y, w |-> r.w, h |-> s.y - r.y],
                     [x |-> r.x, y |-> y1, w |-> s.x - r.x, h |-> y2 - y1],
                     [x |-> RgRight(s), y |-> y1, w |-> RgRight(r) - RgRight(s), h |-> y2 - y1],
                     [x |-> r.x, y |-> RgBottom(s), w |-> r.w, h |-> RgBottom(r) - RgBottom(s)]} :
                 o.w > 0 /\ o.h > 0}

\* One rectangle of b after the other, from what the ones before left.
SubtractRects(a, b) ==
    LET left[todo \in SUBSET b] ==
            IF todo = {} THEN a
            ELSE LET s == CHOOSE s \in todo : TRUE
                 IN  UNION {SubtractRect(r, s) : r \in left[todo \ {s}]}
    IN  left[b]

\* The smallest rectangle around them; of none it is empty, at the origin.
Extents(rects) ==
    IF rects = {} THEN [x |-> 0, y |-> 0, w |-> 0, h |-> 0]
    ELSE LET least(S) == CHOOSE v \in S : \A u \in S : v <= u
             most(S) == CHOOSE v \in S : \A u \in S : v >= u
             x1 == least({r.x : r \in rects})
             y1 == least({r.y : r \in rects})
         IN  [x |-> x1, y |-> y1, w |-> most({RgRight(r) : r \in rects}) - x1,
              h |-> most({RgBottom(r) : r \in rects}) - y1]

\* Rectangles of the same column, one directly below the other, become one.
Coalesced(rects) ==
    LET fits(a, b) == a.x = b.x /\ a.w = b.w /\ RgBottom(a) = b.y
        join(a, b) == [a EXCEPT !.h = @ + b.h]
        pass(rs) == IF \E a, b \in rs : fits(a, b)
                    THEN LET p == CHOOSE p \in rs \X rs : fits(p[1], p[2])
                         IN  (rs \ {p[1], p[2]}) \cup {join(p[1], p[2])}
                    ELSE rs
        after[n \in 0..Cardinality(rects)] == IF n = 0 THEN rects ELSE pass(after[n - 1])
    IN  after[Cardinality(rects)]

\* A bitmap becomes one rectangle per run of set pixels, then columns are joined.
ShapeFromPixmap(pixels) ==
    LET runs == {[x |-> x, y |-> y, w |-> w, h |-> 1] : x \in 0..1, y \in 0..1, w \in 1..2}
        whole(r) == \A x \in 0..1 : (RgInside(r, <<x, r.y>>) => <<x, r.y>> \in pixels)
        ends(r) == <<r.x - 1, r.y>> \notin pixels /\ <<RgRight(r), r.y>> \notin pixels
    IN  Coalesced({r \in runs : RgRight(r) <= 2 /\ whole(r) /\ ends(r)})

(***************************************************************************)
(* Regions.  A source that does not exist counts as empty.                 *)
(***************************************************************************)
RgStep == rgSteps < RgMaxSteps /\ rgSteps' = rgSteps + 1
RgSilent == rgNotify' = {}

RgInit ==
    /\ rgRegion = [i \in RgIds |-> {}] /\ rgArea = [i \in RgIds |-> {}]
    /\ rgShape = [k \in RgKinds |-> {}]
    /\ rgMarkers = {} /\ rgNotify = {} /\ rgSteps = 0

RectsOf(i) == UNION rgRegion[i]

RgPut(i, rects, area) ==
    /\ RgStep /\ RgSilent
    /\ rgRegion' = [rgRegion EXCEPT ![i] = {rects}] /\ rgArea' = [rgArea EXCEPT ![i] = area]
    /\ UNCHANGED rgShapes

SetRegion(i, rects) == RgPut(i, rects, Points(rects))

\* CreateRegion does not ask whether the id is in use.
CreateRegion(i, rects) == RgPut(i, rects, Points(rects))

\* Of a bitmap, whatever its pixels, and of a window: the whole rectangle, or
\* nothing when it is not there.
CreateRegionFromDrawable(i, there) ==
    LET rects == IF there THEN {RgFull} ELSE {}
    IN  RgPut(i, rects, Points(rects))

\* Of a graphics context: its clip, which is empty when it does not clip.
CreateRegionFromGC(i, clip) == RgPut(i, clip, Points(clip))

\* Of a picture: its clip ({} or {rectangles}), or else its drawable's rectangle.
CreateRegionFromPicture(i, clip, there) ==
    LET rects == IF clip # {} THEN UNION clip ELSE IF there THEN {RgFull} ELSE {}
    IN  RgPut(i, rects, Points(rects))

CopyRegion(i, j) == RgPut(j, RectsOf(i), rgArea[i])
UnionRegion(i, j, d) == RgPut(d, RectsOf(i) \cup RectsOf(j), rgArea[i] \cup rgArea[j])
IntersectRegion(i, j, d) == RgPut(d, IntersectLists(RectsOf(i), RectsOf(j)), rgArea[i] \cap rgArea[j])
SubtractRegion(i, j, d) == RgPut(d, SubtractRects(RectsOf(i), RectsOf(j)), rgArea[i] \ rgArea[j])
InvertRegion(i, bounds, d) == RgPut(d, SubtractRects({bounds}, RectsOf(i)), Points({bounds}) \ rgArea[i])

TranslateRegion(i, m) ==
    /\ rgRegion[i] # {}
    /\ RgPut(i, Moved(RectsOf(i), m), {<<p[1] + m, p[2] + m>> : p \in rgArea[i]})

RegionExtents(i, d) ==
    LET e == Extents(RectsOf(i))
    IN  RgPut(d, {e}, Points({e}))

\* Every rectangle grows, an empty one too.
ExpandRegion(i, d) ==
    LET grown == {[x |-> q.x - 1, y |-> q.y - 1, w |-> q.w + 2, h |-> q.h + 2] : q \in RectsOf(i)}
    IN  RgPut(d, grown, Points(grown))

DestroyRegion(i) ==
    /\ RgStep /\ RgSilent /\ rgRegion' = [rgRegion EXCEPT ![i] = {}] /\ rgArea' = [rgArea EXCEPT ![i] = {}]
    /\ UNCHANGED rgShapes

(***************************************************************************)
(* Shapes.                                                                 *)
(***************************************************************************)
\* An absent shape is the window's rectangle; absent clip and input shapes are
\* the bounding shape.
WindowShape(k) ==
    IF rgShape[k] # {} THEN UNION rgShape[k]
    ELSE IF rgShape["bounding"] # {} THEN UNION rgShape["bounding"] ELSE {RgFull}

\* A computed shape without rectangles is stored as an absent one.
OrNone(rects) == IF rects = {} THEN {} ELSE {rects}

\* new is {} (no shape given) or {rectangles}.
ApplyShape(k, op, new) ==
    LET old == rgShape[k]
        o == UNION old
        n == UNION new
    IN  CASE op = "set"       -> new
          [] op = "union"     -> OrNone(o \cup n)
          [] op = "intersect" -> IF old = {} THEN new
                                 ELSE IF new = {} THEN old ELSE OrNone(IntersectLists(o, n))
          [] op = "subtract"  -> IF new = {} THEN old
                                 ELSE OrNone(SubtractRects(IF old = {} THEN {RgFull} ELSE o, n))
          [] op = "invert"    -> IF old = {} THEN {{}}
                                 ELSE IF new = {} THEN old ELSE OrNone(SubtractRects(n, o))

\* QueryExtents, and what ShapeNotify tells: whether there is a shape, and the
\* rectangle around it or around the window.
ShapeExtents(s) == [shaped |-> s # {}, extents |-> IF s = {} THEN RgFull ELSE Extents(UNION s)]

\* Sent when anyone selected for it; the request's own client receives it.
SendShapeNotify(k, s) ==
    rgNotify' = IF rgMarkers = {} THEN {}
                ELSE {[kind |-> k, shaped |-> ShapeExtents(s).shaped,
                       extents |-> ShapeExtents(s).extents]}

RgShapeTo(k, s) ==
    /\ RgStep
    /\ rgShape' = [rgShape EXCEPT ![k] = s]
    /\ UNCHANGED <<rgRegion, rgArea, rgMarkers>>

ShapeChanges(k, s) == RgShapeTo(k, s) /\ SendShapeNotify(k, s)

\* Setting no rectangles removes the shape.
ShapeRectangles(k, op, rects) ==
    LET new == IF rects = {} /\ op = "set" THEN {} ELSE {rects}
    IN  ShapeChanges(k, ApplyShape(k, op, new))

\* pixels: {} (no bitmap) or {the pixels that are set}.
ShapeMask(k, op, pixels) ==
    LET new == {ShapeFromPixmap(p) : p \in pixels}
    IN  ShapeChanges(k, ApplyShape(k, op, new))

ShapeCombine(k, op, from, m) ==
    LET new == {Moved(WindowShape(from), m)}
    IN  ShapeChanges(k, ApplyShape(k, op, new))

ShapeOffset(k, m) == ShapeChanges(k, {Moved(s, m) : s \in rgShape[k]})

\* SetWindowShapeRegion of XFIXES tells nobody; without a region, and with one that
\* does not exist, it removes the shape.
SetWindowShapeRegion(k, i, m) ==
    /\ RgSilent
    /\ RgShapeTo(k, {Moved(rects, m) : rects \in rgRegion[i]})

\* A selection is remembered by the number of the request that made it, so no
\* later request names the same one.
ShapeSelectInput(enable) ==
    /\ RgStep /\ RgSilent
    /\ rgMarkers' = IF enable THEN rgMarkers \cup {rgSteps} ELSE rgMarkers \ {rgSteps}
    /\ UNCHANGED <<rgRegion, rgArea, rgShape>>

\* The lists of rectangles in the requests.
RgPairs == {{}} \cup {{r, s} : r, s \in RgRects}
RgOnes == {{}} \cup {{r} : r \in RgRects}
RgOps == {"set", "union", "intersect", "subtract", "invert"}

RgRegionNext ==
    \/ \E i \in RgIds : \/ \E rects \in RgPairs : SetRegion(i, rects) \/ CreateRegion(i, rects)
                        \/ \E there \in BOOLEAN : CreateRegionFromDrawable(i, there)
                        \/ \E r \in RgRects : \/ CreateRegionFromGC(i, {r})
                                              \/ CreateRegionFromPicture(i, {{r}}, TRUE)
                        \/ \E there \in BOOLEAN : CreateRegionFromPicture(i, {}, there)
                        \/ \E m \in RgMoves : TranslateRegion(i, m)
                        \/ DestroyRegion(i)
    \/ \E i, d \in RgIds : CopyRegion(i, d) \/ RegionExtents(i, d) \/ ExpandRegion(i, d)
    \/ \E i, d \in RgIds, b \in RgRects : InvertRegion(i, b, d)
    \/ \E i, j, d \in RgIds : UnionRegion(i, j, d) \/ IntersectRegion(i, j, d) \/ SubtractRegion(i, j, d)

RgShapeNext ==
    \/ \E k \in {"bounding", "clip"}, op \in RgOps :
        \/ \E rects \in RgOnes : ShapeRectangles(k, op, rects)
        \/ \E pixels \in {{}, {{<<0, 0>>, <<0, 1>>}}} : ShapeMask(k, op, pixels)
        \/ \E from \in RgKinds : ShapeCombine(k, op, from, 0)
    \/ \E k \in RgKinds, m \in RgMoves :
          ShapeOffset(k, m) \/ \E i \in RgIds : SetWindowShapeRegion(k, i, m)
    \/ \E enable \in BOOLEAN : ShapeSelectInput(enable)

RgNext == RgRegionNext \/ RgShapeNext

RgSpec == RgInit /\ [][RgNext]_rgVars

(***************************************************************************)
(* Properties.                                                             *)
(***************************************************************************)
RgTypeOK ==
    /\ \A i \in RgIds : /\ Cardinality(rgRegion[i]) <= 1 /\ RectsOf(i) \subseteq Rectangles
                        /\ rgArea[i] \subseteq Int \X Int
    /\ \A k \in RgKinds : Cardinality(rgShape[k]) <= 1 /\ UNION rgShape[k] \subseteq Rectangles
    /\ Cardinality(rgNotify) <= 1 /\ rgSteps \in 0..RgMaxSteps

\* After any sequence of requests the rectangles of a region cover exactly the
\* points the set operations give, empty rectangles and overlaps included.
RegionExact == \A i \in RgIds : Points(RectsOf(i)) = rgArea[i]

\* Whatever rectangles a window's shape has come to consist of, the next operation
\* on it leaves a shape of exactly the points the operation means, or removes the
\* shape when it means no point: such a window is then shown whole, as if it had never
\* been shaped.  (Of a window without a shape only a subtraction is exact: a union
\* there forgets the window's own rectangle, an inversion the new one.)
ShapeOpsExact ==
    \A r \in RgRects :
        LET old == Points(WindowShape("bounding"))
            new == Points({r})
            leaves(op, meant) == LET got == ApplyShape("bounding", op, {{r}})
                                 IN  IF got = {} THEN meant = {} ELSE Points(UNION got) = meant
        IN  /\ leaves("subtract", old \ new)
            /\ rgShape["bounding"] # {} => /\ leaves("union", old \cup new)
                                           /\ leaves("intersect", old \cap new)
                                           /\ leaves("invert", new \ old)

=============================================================================
