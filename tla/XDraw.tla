------------------------------- MODULE XDraw -------------------------------
(***************************************************************************)
(* Drawing in the X11 server, and how drawn pixels reach the frontend.     *)
(* A framebuffer is an array of pixels and a dirty interval; every drawing *)
(* routine writes pixels and marks what it wrote.  Once per frame the      *)
(* dirty part of each mapped top-level window is sent and cleared, after   *)
(* its children were copied into it.  DAMAGE objects accumulate what the   *)
(* requests report and what is sent.                                       *)
(*                                                                         *)
(* Abstracted: one axis, so a rectangle is an interval and a shape is the  *)
(* set of columns it may touch; a pixel is one bit; dashes, fill rules and *)
(* arc angles only choose a subset of those columns and are left out.      *)
(* Drawables are a top-level window "w", its child "k" (which sticks out   *)
(* of it), a pixmap "p" and a back buffer "b".  One connection draws: its  *)
(* DAMAGE objects are its own and see what it draws and what it flushes.   *)
(***************************************************************************)
EXTENDS Integers, FiniteSets, FiniteSetsExt

CONSTANTS DrGcs,       \* values the graphics context may be changed to
          DrXs,        \* coordinates in requests
          DrFar,       \* more coordinates for lines
          DrWs,        \* widths in requests
          DrRegions,   \* regions of Present and Damage requests
          DrMaxSteps   \* bound on the number of requests

Drawables == {"w", "k", "p", "b"}
KidX == 2                         \* where the child lies in the window
RootPixel == 1                    \* the picture of the root window: one colour
BackingPixel == 1                 \* the backing pixel of both windows
Pos == -6..12
DrFunctions == {"clear", "and", "andReverse", "copy", "andInverted", "noop", "xor", "or", "nor",
                "equiv", "invert", "orReverse", "copyInverted", "orInverted", "nand", "set"}

ASSUME DrAssumption ==
    /\ DrGcs \subseteq [fn : DrFunctions, all : BOOLEAN, clip : SUBSET (Int \X Nat),
                         style : {"solid", "tiled", "stippled", "opaque"}, lw : Nat, inferiors : BOOLEAN]
    /\ \A gc \in DrGcs : IsFiniteSet(gc.clip)
    /\ DrXs \subseteq Pos /\ DrFar \subseteq Pos /\ DrWs \subseteq Nat
    /\ \A region \in DrRegions : region \subseteq Int \X Nat /\ IsFiniteSet(region)

NewBuf(n) == [px |-> [i \in 0..(n - 1) |-> 0], dirty |-> {}]

VARIABLES
    drBuf,     \* drBuf[d]: framebuffer of d
    drPix,     \* what "p" is: "none", "own", "alias" (of w) or "shm"
    drBack,    \* the back buffer of w exists
    drGc,      \* the graphics context
    drMapped,  \* mapped windows
    drRedir,   \* the child is redirected
    drSaved,   \* drSaved[d]: backing_pixmap of a window, {} or {[px, whole]}; whole (history)
               \* when they are the pixels it was unmapped with
    drShape,   \* the outline of w, {} (none) or {columns}
    drSeg,     \* what the shared memory segment holds: one colour
    drShown,   \* drShown: the picture of w that the frontend has (history)
    drDmg,     \* a DAMAGE object on w exists
    drAcc,     \* its accumulated region
    drTouched, \* columns of w changed since it was created or repaired (history)
    drMissed,  \* columns of w written by a routine that does not mark them (history)
    drSteps

drDamage == <<drDmg, drAcc, drTouched>>
drVars == <<drBuf, drPix, drBack, drGc, drMapped, drRedir, drSaved, drShape, drSeg,
            drShown, drDamage, drMissed, drSteps>>

DrInit ==
    /\ drBuf = [d \in Drawables |-> NewBuf(IF d \in {"w", "b"} THEN 3 ELSE 2)]
    /\ drPix = "none" /\ drBack = FALSE
    /\ drGc \in DrGcs
    /\ drMapped = {"w", "k"} /\ drRedir = FALSE
    /\ drSaved = [d \in {"w", "k"} |-> {}] /\ drShape = {} /\ drSeg = 1
    /\ drShown = drBuf["w"].px
    /\ drDmg = FALSE /\ drAcc = {} /\ drTouched = {} /\ drMissed = {}
    /\ drSteps = 0

(***************************************************************************)
(* Framebuffers.                                                           *)
(***************************************************************************)
Span(x, n) == x..(x + n - 1)
Hull(S) == IF S = {} THEN {} ELSE Min(S)..Max(S)
Cols(b) == DOMAIN b.px
Size(b) == Cardinality(Cols(b))

\* A slip: one column short.
MarkDirtyShort(b, x, n) ==
    LET lo == IF x < 0 THEN 0 ELSE x
    IN  [b EXCEPT !.dirty = Hull(@ \cup (Span(lo, n - 1) \cap Cols(b)))]

\* Marking a rectangle: its left edge is clamped, its width is not shortened by that.
MarkDirty(b, x, n) ==
    LET lo == IF x < 0 THEN 0 ELSE x
    IN  [b EXCEPT !.dirty = Hull(@ \cup (Span(lo, n) \cap Cols(b)))]

\* The sixteen raster operations on one bit.
ApplyGcFunction(fn, s, d) ==
    CASE fn = "clear" -> 0            [] fn = "and" -> s * d
      [] fn = "andReverse" -> s * (1 - d)   [] fn = "copy" -> s
      [] fn = "andInverted" -> (1 - s) * d  [] fn = "noop" -> d
      [] fn = "xor" -> (s + d) % 2    [] fn = "or" -> 1 - (1 - s) * (1 - d)
      [] fn = "nor" -> (1 - s) * (1 - d)    [] fn = "equiv" -> (s + d + 1) % 2
      [] fn = "invert" -> 1 - d       [] fn = "orReverse" -> 1 - (1 - s) * d
      [] fn = "copyInverted" -> 1 - s [] fn = "orInverted" -> 1 - s * (1 - d)
      [] fn = "nand" -> 1 - s * d     [] fn = "set" -> 1

Rop(gc, s, d) == IF gc.all THEN ApplyGcFunction(gc.fn, s, d) ELSE d
SkiaEligible(gc) == gc.fn = "copy" /\ gc.all

\* Columns the clip rectangles let through; no rectangle means no clip.
RectCols(rects) == UNION {Span(r[1], r[2]) : r \in rects}
Clip(gc) == IF gc.clip = {} THEN Pos ELSE RectCols(gc.clip)
\* The mask given to the rasteriser: rectangles that are all empty make none.
BuildClipMask(gc) == IF RectCols(gc.clip) = {} THEN Pos ELSE RectCols(gc.clip)

The(S) == CHOOSE c \in S : TRUE

\* Ink gives each column {} (transparent) or {colour}.
\* Points are written one by one and mark themselves.
DrawPointGc(b, cols, ink, gc) ==
    LET at == {i \in cols \cap Cols(b) \cap Clip(gc) : ink[i] # {}}
    IN  [px |-> [i \in Cols(b) |-> IF i \in at THEN Rop(gc, The(ink[i]), b.px[i]) ELSE b.px[i]],
         dirty |-> Hull(b.dirty \cup at)]

\* The rasteriser writes through its clip mask and marks nothing.
SkiaPaint(b, cols, ink, gc) ==
    [b EXCEPT !.px = [i \in Cols(b) |->
        IF i \in cols \cap BuildClipMask(gc) /\ ink[i] # {} THEN The(ink[i]) ELSE b.px[i]]]

\* Copying a window's pixels out: a negative origin starts at column 0.
ExtractPixels(b, x, n) ==
    LET sx == IF x < 0 THEN 0 ELSE x
    IN  [i \in 0..(n - 1) |-> IF sx + i \in Cols(b) THEN b.px[sx + i] ELSE 0]

PutImage(b, x, data) ==
    IF DOMAIN data = {} THEN b
    ELSE MarkDirty([b EXCEPT !.px = [i \in Cols(b) |->
                       IF i - x \in DOMAIN data THEN data[i - x] ELSE b.px[i]]],
                   x, Cardinality(DOMAIN data))

PutImageGc(b, x, data, gc) ==
    IF SkiaEligible(gc) /\ gc.clip = {} THEN PutImage(b, x, data)
    ELSE MarkDirty([b EXCEPT !.px = [i \in Cols(b) |->
                       IF i - x \in DOMAIN data /\ i \in Clip(gc)
                       THEN Rop(gc, data[i - x], b.px[i]) ELSE b.px[i]]],
                   x, Cardinality(DOMAIN data))

\* The same for an image with transparent columns (text).
PutImageOver(b, x, ink) ==
    MarkDirty([b EXCEPT !.px = [i \in Cols(b) |->
                  IF i - x \in DOMAIN ink /\ ink[i - x] # {} THEN The(ink[i - x]) ELSE b.px[i]]],
              x, Cardinality(DOMAIN ink))

PutImageOverGc(b, x, ink, gc) ==
    IF SkiaEligible(gc) /\ gc.clip = {} THEN PutImageOver(b, x, ink)
    ELSE MarkDirty([b EXCEPT !.px = [i \in Cols(b) |->
                       IF i - x \in DOMAIN ink /\ i \in Clip(gc) /\ ink[i - x] # {}
                       THEN Rop(gc, The(ink[i - x]), b.px[i]) ELSE b.px[i]]],
                   x, Cardinality(DOMAIN ink))

CopyAreaSelf(b, sx, dx, n) == PutImage(b, dx, ExtractPixels(b, sx, n))

FillRect(b, x, n, c) ==
    IF Span(x, n) \cap Cols(b) = {} THEN b
    ELSE MarkDirty([b EXCEPT !.px = [i \in Cols(b) |-> IF i \in Span(x, n) THEN c ELSE b.px[i]]], x, n)

FillRectRop(b, x, n, c, gc) ==
    IF SkiaEligible(gc) THEN FillRect(b, x, n, c)
    ELSE IF gc.fn = "noop" \/ Span(x, n) \cap Cols(b) = {} THEN b
    ELSE MarkDirty([b EXCEPT !.px = [i \in Cols(b) |->
                       IF i \in Span(x, n) THEN Rop(gc, c, b.px[i]) ELSE b.px[i]]], x, n)

\* The part of a rectangle inside clip rectangle r: <<x, width>>, width 0 if none.
IntersectRects(x, n, r) ==
    LET c == Span(x, n) \cap Span(r[1], r[2])
    IN  IF c = {} THEN <<0, 0>> ELSE <<Min(c), Cardinality(c)>>

\* What the clip rectangles leave of a rectangle, in some order.
Pieces(x, n, gc) == {IntersectRects(x, n, r) : r \in gc.clip} \ {<<0, 0>>}

FillRectRopClipped(b, x, n, c, gc) ==
    IF gc.clip = {} THEN FillRectRop(b, x, n, c, gc)
    ELSE FoldSet(LAMBDA r, acc : FillRectRop(acc, r[1], r[2], c, gc), b, Pieces(x, n, gc))

FillRectTiled(b, x, n, ink, gc) ==
    IF n = 0 THEN b
    ELSE IF SkiaEligible(gc)
    THEN MarkDirty(SkiaPaint(b, Span(x, n), ink, [gc EXCEPT !.clip = {}]), x, n)
    ELSE IF Span(x, n) \cap Cols(b) = {} THEN b
    ELSE MarkDirty(DrawPointGc(b, Span(x, n), ink, [gc EXCEPT !.clip = {}]), x, n)

\* A stippled rectangle goes the same two ways, its stipple turned into a tile.
FillRectStippled(b, x, n, ink, gc) == FillRectTiled(b, x, n, ink, gc)

\* Tiled and stippled rectangles are cut along the clip rectangles first.
FillRectPattern(b, x, n, ink, gc) ==
    IF gc.clip = {} THEN FillRectStippled(b, x, n, ink, gc)
    ELSE FoldSet(LAMBDA r, acc : FillRectStippled(acc, r[1], r[2], ink, gc), b, Pieces(x, n, gc))

(***************************************************************************)
(* Strokes.  Reach is what half a line width adds on each side; a square   *)
(* cap at the end of a diagonal adds half a diagonal of the line width,    *)
(* a sharp join up to the mitre limit.                                     *)
(***************************************************************************)
Thick(gc) == IF gc.lw = 0 THEN 1 ELSE gc.lw
Reach(gc) == (Thick(gc) + 1) \div 2
DiagonalReach(gc) == (5 * Thick(gc) + 6) \div 7        \* lw / sqrt(2), rounded up
Pad(gc) == gc.lw \div 2 + 1

\* The pixels of a line walked one by one, both ends included, whatever its width.
BresenhamLineGc(b, x, n, ink, gc) == DrawPointGc(b, x..(x + n), ink, gc)

StrokeKinds == {"plain", "square", "sharp"}
StrokePathSkia(x, n, kind, gc) ==
    LET out == CASE kind = "plain" -> Reach(gc)
                 [] kind = "square" -> DiagonalReach(gc)
                 [] kind = "sharp" -> 2 * Thick(gc)
    IN  (x - out)..(x + n + out - 1)

\* One line from column x to column x + n.
DrawLineGc(b, x, n, kind, ink, gc) ==
    IF SkiaEligible(gc)
    THEN MarkDirty(SkiaPaint(b, StrokePathSkia(x, n, kind, gc), ink, gc),
                   x - Pad(gc), n + 2 * Pad(gc) + 1)
    ELSE BresenhamLineGc(b, x, n, ink, gc)

\* A polyline marks one column less.
DrawPolylineGc(b, x, n, kind, ink, gc) ==
    IF SkiaEligible(gc)
    THEN MarkDirty(SkiaPaint(b, StrokePathSkia(x, n, kind, gc), ink, gc), x - Pad(gc), n + 2 * Pad(gc))
    ELSE BresenhamLineGc(b, x, n, ink, gc)

\* A tiled line is one pixel wide; point by point its transparent parts are
\* drawn in colour 0.
DrawLineTiled(b, x, n, ink, gc) ==
    IF SkiaEligible(gc)
    THEN MarkDirty(SkiaPaint(b, (x - 1)..(x + n), ink, gc), x - 1, n + 3)
    ELSE DrawPointGc(b, x..(x + n), [i \in Pos |-> IF ink[i] = {} THEN {0} ELSE ink[i]], gc)

\* A stippled line is a tiled one whose tile is made of the stipple's bits.
StippleToTile(bit, opaque) == IF bit = 1 THEN {1} ELSE IF opaque THEN {0} ELSE {}
DrawLineStippled(b, x, n, bits, gc) ==
    DrawLineTiled(b, x, n, [i \in Pos |-> StippleToTile(bits[i], gc.style = "opaque")], gc)

\* The outline of an arc runs along the edge of its box, is stroked, and marks the box.
BuildArcPolyline(x, n) == x..(x + n)
ArcStroke(x, n, gc) == StrokePathSkia(x, n, "plain", gc)
DrawArcGc(b, x, n, ink, gc) ==
    IF n = 0 THEN b
    ELSE IF SkiaEligible(gc) THEN MarkDirty(SkiaPaint(b, ArcStroke(x, n, gc), ink, gc), x, n)
    ELSE DrawPointGc(b, BuildArcPolyline(x, n), ink, gc)

\* A filled arc stays in its box; tested point by point it has one column more.
BuildArcPath(x, n) == Span(x, n)
PixelInFilledArc(i, x, n) == i \in x..(x + n)
FillArcGc(b, x, n, ink, gc) ==
    IF n = 0 THEN b
    ELSE IF SkiaEligible(gc) THEN MarkDirty(SkiaPaint(b, BuildArcPath(x, n), ink, gc), x, n)
    ELSE DrawPointGc(b, {i \in Pos : PixelInFilledArc(i, x, n)}, ink, gc)
FillArcTiled(b, x, n, ink, gc) == FillArcGc(b, x, n, ink, gc)
FillArcStippled(b, x, n, ink, gc) == FillArcTiled(b, x, n, ink, gc)

\* A polygon with vertices between x and x + n: the spans of its scanlines, and its
\* box, which is cut to the framebuffer before it is marked.
PolygonScanlines(b, x, n) == x..(x + n) \cap Cols(b)
MarkBox(b, x, n) ==
    LET box == x..(x + n) \cap Cols(b)
    IN  IF box = {} THEN b ELSE MarkDirty(b, Min(box), Cardinality(box))
FillPolygonGc(b, x, n, ink, gc) ==
    IF PolygonScanlines(b, x, n) = {} THEN b
    ELSE IF SkiaEligible(gc) THEN MarkBox(SkiaPaint(b, Span(x, n), ink, gc), x, n)
    ELSE FillRectRopClipped(b, x, n + 1, The(ink[x]), gc)

\* With a pattern the spans are written point by point.
FillPolygonTiled(b, x, n, ink, gc) ==
    IF SkiaEligible(gc)
    THEN MarkBox(SkiaPaint(b, Span(x, n), ink, gc), x, n)
    ELSE DrawPointGc(b, PolygonScanlines(b, x, n), ink, gc)
FillPolygonStippled(b, x, n, ink, gc) == FillPolygonTiled(b, x, n, ink, gc)

(***************************************************************************)
(* Requests.                                                               *)
(***************************************************************************)

\* A pixmap that names a window's contents stands for the window.
Resolve(d) == IF d = "p" /\ drPix = "alias" THEN "w" ELSE d
Exists(d) == (d = "p" => drPix # "none") /\ (d = "b" => drBack)

\* Before "p" is read, its pixels are fetched from shared memory.
SyncShmPixmap(d) ==
    IF d = "p" /\ drPix = "shm"
    THEN [drBuf EXCEPT !["p"].px = [i \in DOMAIN @ |-> drSeg]] ELSE drBuf

\* DAMAGE objects of the drawable (an alias counts as the window) get the rectangle.
NotifyDamage(d, x, n) ==
    drAcc' = IF Resolve(d) = "w" /\ drDmg THEN drAcc \cup (Span(x, n) \cap 0..2) ELSE drAcc

\* A request that leaves d with framebuffer nb and reports columns x .. x+n-1;
\* loose are columns that its drawing routine is known to write unmarked.
Drawn(base, d, nb, x, n, loose) ==
    LET t == Resolve(d)
        changed == {i \in Cols(nb) : t = "w" /\ nb.px[i] # drBuf["w"].px[i]}
    IN  /\ drSteps < DrMaxSteps /\ drSteps' = drSteps + 1
        /\ drBuf' = [base EXCEPT ![t] = nb]
        /\ drTouched' = IF drDmg THEN drTouched \cup changed ELSE drTouched
        /\ drMissed' = (drMissed \cup (loose \cap changed)) \ (IF t = "w" THEN nb.dirty ELSE {})
        /\ NotifyDamage(d, x, n)
        /\ UNCHANGED <<drPix, drBack, drGc, drMapped, drRedir, drSaved, drShape, drSeg, drShown, drDmg>>

DrawOn(d, nb, x, n) == Drawn(drBuf, d, nb, x, n, {})
Target(d) == drBuf[Resolve(d)]

\* Requests that draw nothing.
Quiet == /\ drSteps < DrMaxSteps /\ drSteps' = drSteps + 1
         /\ UNCHANGED <<drShown, drMissed>>

\* The tile or stipple of the context's fill style, when its pixmap exists; without
\* it the fill is solid.  A stipple is read as a bitmap by the fills, although it is
\* kept as pixels: every bit they look at belongs to the first one.
Tiled == drGc.style = "tiled" /\ drPix # "none"
Stippled == drGc.style \in {"stippled", "opaque"} /\ drPix # "none"
Solid == [i \in Pos |-> {1}]
PatternAt(i) == drBuf["p"].px[i % Size(drBuf["p"])]
TileInk == [i \in Pos |-> {PatternAt(i)}]
StippleInk == [i \in Pos |-> StippleToTile(PatternAt(0), drGc.style = "opaque")]

ClearArea(d, x, n) ==
    LET len == IF n = 0 THEN Size(drBuf[d]) ELSE n
    IN  DrawOn(d, FillRect(drBuf[d], x, len, 0), x, len)

\* What is seen of a window with its mapped children.
ExtractIncludeInferiors(base, d, x, n) ==
    LET own == ExtractPixels(base[d], x, n)
        kid == base["k"].px
    IN  IF d # "w" \/ "k" \notin drMapped THEN own
        ELSE [i \in DOMAIN own |-> IF i + x - KidX \in DOMAIN kid THEN kid[i + x - KidX] ELSE own[i]]

CopyArea(s, d, sx, dx, n) ==
    LET base == SyncShmPixmap(s)
        b == base[Resolve(d)]
        inf == drGc.inferiors /\ s \in {"w", "k"}
        data == IF inf THEN ExtractIncludeInferiors(base, s, sx, n)
                ELSE ExtractPixels(base[Resolve(s)], sx, n)
        ink == [i \in Pos |-> IF i - dx \in DOMAIN data THEN {data[i - dx]} ELSE {}]
        nb == IF s = d /\ ~inf
              THEN IF drGc.clip = {} THEN CopyAreaSelf(b, sx, dx, n) ELSE PutImageGc(b, dx, data, drGc)
              ELSE IF s = "p" /\ drPix = "bitmap" /\ drGc.fn # "copy"
              THEN DrawPointGc(b, Span(dx, n), ink, [drGc EXCEPT !.all = TRUE])
              ELSE IF drGc.fn # "copy" \/ drGc.clip # {} THEN PutImageGc(b, dx, data, drGc)
              ELSE PutImage(b, dx, data)
    IN  Exists(s) /\ Exists(d) /\ Drawn(base, d, nb, dx, n, {})

\* Columns of the destination reported as having had no source: what hangs over the
\* left edge, and over the right edge of a source of size z.
GraphicsExposures(sx, dx, n, z) ==
    LET over == sx + n - z
        left == IF sx < 0 THEN Span(dx, Min({0 - sx, n})) ELSE {}
    IN  IF over > 0 THEN left \cup Span(dx + n - over, Min({over, n})) ELSE left

CopyPlane(s, d, sx, dx, n) ==
    LET base == SyncShmPixmap(s)
        data == ExtractPixels(base[Resolve(s)], sx, n)
        ink == [i \in Pos |-> IF i - dx \in DOMAIN data THEN {data[i - dx]} ELSE {}]
    IN  Exists(s) /\ Exists(d)
        /\ Drawn(base, d, DrawPointGc(base[Resolve(d)], Span(dx, n), ink, [drGc EXCEPT !.all = TRUE]), dx, n, {})

PolyPoint(d, x) == Exists(d) /\ DrawOn(d, DrawPointGc(Target(d), {x}, Solid, drGc), x, 1)

\* Lines report their box widened by the line width.
OneLine(b, x, n, kind) ==
    CASE Tiled -> DrawLineTiled(b, x, n, TileInk, drGc)
      [] Stippled -> DrawLineStippled(b, x, n, [i \in Pos |-> PatternAt(i)], drGc)
      [] OTHER -> DrawLineGc(b, x, n, kind, Solid, drGc)
\* The columns a stroke paints beyond those it marks.
Unmarked(x, n, kind, last) ==
    StrokePathSkia(x, n, kind, drGc) \ Span(x - Pad(drGc), n + 2 * Pad(drGc) + last)

\* A plain polyline is one path, so that its joins are drawn.
PolyLine(d, x, n, kind) ==
    LET b == Target(d)
        nb == IF Tiled \/ Stippled THEN OneLine(b, x, n, kind)
              ELSE DrawPolylineGc(b, x, n, kind, Solid, drGc)
    IN  Exists(d) /\ Drawn(drBuf, d, nb, x - drGc.lw, n + 2 * drGc.lw, Unmarked(x, n, kind, 0))

PolySegment(d, x, n, kind) ==
    /\ Exists(d)
    /\ Drawn(drBuf, d, OneLine(Target(d), x, n, kind), x - drGc.lw, n + 2 * drGc.lw, Unmarked(x, n, kind, 1))
\* The four sides: two along the axis, one across it at each end.
PolyRectangle(d, x, n) ==
    LET side(b, y, k) == OneLine(b, y, k, "plain")
    IN  Exists(d) /\ DrawOn(d, side(side(side(Target(d), x, n), x + n, 0), x, 0),
                            x - drGc.lw, n + 2 * drGc.lw)

PolyArc(d, x, n) ==
    LET nb == DrawArcGc(Target(d), x, n, Solid, drGc)
    IN  Exists(d) /\ Drawn(drBuf, d, nb, x - drGc.lw, n + 2 * drGc.lw,
                           ArcStroke(x, n, drGc) \ Span(x, n))

FillPoly(d, x, n) ==
    LET b == Target(d)
        nb == CASE Tiled -> FillPolygonTiled(b, x, n, TileInk, drGc)
                [] Stippled -> FillPolygonStippled(b, x, n, StippleInk, drGc)
                [] OTHER -> FillPolygonGc(b, x, n, Solid, drGc)
    IN  Exists(d) /\ DrawOn(d, nb, x, n + 1)

PolyFillRectangle(d, x, n) ==
    LET b == Target(d)
        nb == CASE Tiled -> FillRectPattern(b, x, n, TileInk, drGc)
                [] Stippled -> FillRectPattern(b, x, n, StippleInk, drGc)
                [] OTHER -> FillRectRopClipped(b, x, n, 1, drGc)
    IN  Exists(d) /\ DrawOn(d, nb, x, n)

PolyFillArc(d, x, n) ==
    LET b == Target(d)
        nb == CASE Tiled -> FillArcTiled(b, x, n, TileInk, drGc)
                [] Stippled -> FillArcStippled(b, x, n, StippleInk, drGc)
                [] OTHER -> FillArcGc(b, x, n, Solid, drGc)
    IN  Exists(d) /\ DrawOn(d, nb, x, n)

\* PutImage of 24 bits; the other depths and formats write the pixels themselves.
PutImageDeep(d, x, n, c) ==
    Exists(d) /\ DrawOn(d, PutImageGc(Target(d), x, [i \in 0..(n - 1) |-> c], drGc), x, n)
PutImageShallow(d, x, n, c) ==
    LET b == Target(d)
        nb == [b EXCEPT !.px = [i \in Cols(b) |->
                   IF i \in Span(x, n) \cap Clip(drGc) THEN Rop(drGc, c, b.px[i]) ELSE b.px[i]]]
    IN  Exists(d) /\ Drawn(drBuf, d, nb, x, n, Pos)
\* One bit per pixel: no clip, no function, and nothing left of column 0.
PutImageBitmap(d, x, n, c) ==
    LET b == Target(d)
        nb == IF x < 0 THEN b
              ELSE [b EXCEPT !.px = [i \in Cols(b) |-> IF i \in Span(x, n) THEN c ELSE b.px[i]]]
    IN  Exists(d) /\ Drawn(drBuf, d, nb, x, n, Pos)

GetImage(d) ==
    /\ Exists(d) /\ (d \in {"w", "k"} => {d, "w"} \subseteq drMapped)
    /\ drBuf' = SyncShmPixmap(d)
    /\ Quiet /\ UNCHANGED <<drPix, drBack, drGc, drMapped, drRedir, drSaved, drShape, drSeg, drDamage>>

\* PolyText draws the ink of the glyphs, ImageText the whole cells.
PolyText(d, x, n) ==
    Exists(d) /\ DrawOn(d, PutImageOverGc(Target(d), x, [i \in 0..(n - 1) |->
                               IF i % 2 = 0 THEN {1} ELSE {}], drGc), x, n)
ImageText(d, x, n) ==
    Exists(d) /\ DrawOn(d, PutImageGc(Target(d), x, [i \in 0..(n - 1) |-> (i + 1) % 2], drGc), x, n)

(***************************************************************************)
(* Pixmaps, shared memory, double buffers and presentation.                *)
(***************************************************************************)
PixmapIs(kind, b) ==
    /\ drPix' = kind /\ drBuf' = [drBuf EXCEPT !["p"] = b]
    /\ Quiet /\ UNCHANGED <<drBack, drGc, drMapped, drRedir, drSaved, drShape, drSeg, drDamage>>

CreatePixmap(kind) == drPix = "none" /\ PixmapIs(kind, NewBuf(2))
FreePixmap == drPix # "none" /\ PixmapIs("none", NewBuf(2))
ShmCreatePixmap == drPix = "none" /\ PixmapIs("shm", NewBuf(2))

\* The pixmap also gets a framebuffer of its own, which only tiles read.
NameWindowPixmap == drPix = "none" /\ PixmapIs("alias", [drBuf["w"] EXCEPT !.dirty = {}])

\* The client writes the segment whenever it likes.
SegmentWrite ==
    /\ drSeg' = 1 - drSeg
    /\ Quiet /\ UNCHANGED <<drBuf, drPix, drBack, drGc, drMapped, drRedir, drSaved, drShape, drDamage>>

\* Neither the context nor DAMAGE is looked at.
ShmPutImage(d, x, n) ==
    Exists(d) /\ DrawOn(d, PutImage(Target(d), x, [i \in 0..(n - 1) |-> drSeg]), x, 0)

DbeAllocate ==
    /\ drBack' = TRUE /\ drBuf' = [drBuf EXCEPT !["b"] = NewBuf(Size(drBuf["w"]))]
    /\ Quiet /\ UNCHANGED <<drPix, drGc, drMapped, drRedir, drSaved, drShape, drSeg, drDamage>>
DbeDeallocate ==
    /\ drBack /\ drBack' = FALSE /\ drBuf' = [drBuf EXCEPT !["b"] = NewBuf(3)]
    /\ Quiet /\ UNCHANGED <<drPix, drGc, drMapped, drRedir, drSaved, drShape, drSeg, drDamage>>
DbeSwapBuffers(action) ==
    LET back == drBuf["b"]
        front == drBuf["w"]
        n == Min({Size(front), Size(back)})
        nb == PutImage(front, 0, [i \in 0..(n - 1) |-> back.px[i]])
        after == CASE action = "background" -> FillRect(back, 0, Size(back), 0)
                   [] action = "copied" /\ Size(front) >= Size(back) ->
                          PutImage(back, 0, [i \in 0..(Size(back) - 1) |-> front.px[i]])
                   [] OTHER -> back
    IN  drBack /\ Drawn([drBuf EXCEPT !["b"] = after], "w", nb, 0, Size(front), {})

\* PresentPixmap into d, at offset x, cut to a region given as rectangles.  For a
\* child the same rectangles go straight into the top-level window.
CopyRects(b, region) ==
    IF region = {} THEN {<<0, Size(b)>>}
    ELSE LET cut(r) == LET cx == IF r[1] < 0 THEN 0 ELSE r[1]
                           room == IF cx < Size(b) THEN Size(b) - cx ELSE 0
                       IN  <<cx, Min({r[2], room})>>
         IN  {cut(r) : r \in {q \in region : q[2] > 0}}
PutRects(b, src, rects, x) ==
    FoldSet(LAMBDA r, acc : PutImage(acc, x + r[1], [i \in 0..(r[2] - 1) |-> src.px[r[1] + i]]), b, rects)
Present(d, x, region) ==
    LET base == SyncShmPixmap("p")
        src == base[Resolve("p")]
        rects == {r \in CopyRects(src, region) : r[2] > 0}
        area == Hull(UNION {Span(x + r[1], r[2]) : r \in rects})
        nb == PutRects(base["w"], src, rects, IF d = "k" THEN x + KidX ELSE x)
        kids == IF d = "k" THEN [base EXCEPT !["k"] = PutRects(@, src, rects, x)] ELSE base
    IN  /\ drPix # "none"
        /\ Drawn(kids, "w", nb, IF area = {} THEN 0 ELSE Min(area),
                 IF d = "w" THEN Cardinality(area) ELSE 0, {})

(***************************************************************************)
(* Windows and frames.                                                     *)
(***************************************************************************)

\* Mapping restores what unmapping kept (store says that the window has a backing
\* store by now), or paints the background.  Restored pixels and the parent's are
\* copied in without a mark.
MapWindow(d, background, store) ==
    LET b == drBuf[d]
        kept == store /\ \E r \in drSaved[d] : DOMAIN r.px = Cols(b)
        under(i) == IF d = "w" THEN {RootPixel}
                    ELSE {drBuf["w"].px[j] : j \in {i + KidX} \cap Cols(drBuf["w"])}
        nb == CASE kept -> [b EXCEPT !.px = The(drSaved[d]).px]
                [] ~kept /\ background = "none" -> b
                [] ~kept /\ background = "parent" -> [b EXCEPT !.px = [i \in Cols(b) |->
                       IF under(i) # {} THEN The(under(i)) ELSE b.px[i]]]
                [] ~kept /\ background = "pixmap" /\ drPix # "none" ->
                       FillRectTiled(b, 0, Size(b), [i \in Pos |-> {drBuf["p"].px[i % Size(drBuf["p"])]}],
                                     [drGc EXCEPT !.fn = "copy", !.all = TRUE])
                [] OTHER -> FillRect(b, 0, Size(b), 0)
        changed == {i \in Cols(nb) : d = "w" /\ nb.px[i] # b.px[i]}
        loose == IF (kept /\ ~The(drSaved[d]).whole) \/ (~kept /\ background = "parent") THEN changed ELSE {}
    IN  /\ d \notin drMapped /\ drSteps < DrMaxSteps /\ drSteps' = drSteps + 1
        /\ drMapped' = drMapped \cup {d}
        /\ drSaved' = [drSaved EXCEPT ![d] = IF store THEN {} ELSE {[r EXCEPT !.whole = FALSE] : r \in @}]
        /\ drBuf' = [drBuf EXCEPT ![d] = nb]
        /\ drTouched' = IF drDmg THEN drTouched \cup changed ELSE drTouched
        /\ drMissed' = drMissed \cup loose
        /\ UNCHANGED <<drPix, drBack, drGc, drRedir, drShape, drSeg, drShown, drDmg, drAcc>>

\* A window with a backing store keeps its pixels, or those of its backing planes (here
\* none of its plane) and its backing pixel in the others.
UnmapWindow(d, store) ==
    LET b == drBuf[d]
    IN  /\ d \in drMapped
        /\ drMapped' = drMapped \ {d}
        /\ drSaved' = [drSaved EXCEPT ![d] =
               CASE store = "no" -> @
                 [] store = "all" -> {[px |-> b.px, whole |-> TRUE]}
                 [] store = "masked" -> {[px |-> [i \in Cols(b) |-> BackingPixel], whole |-> FALSE]}]
        /\ Quiet /\ UNCHANGED <<drBuf, drPix, drBack, drGc, drRedir, drShape, drSeg, drDamage>>

\* What the browser is sent of column i of w: outside the outline, nothing.
Displayed(px, shape, i) == IF \A cols \in shape : i \in cols THEN px[i] ELSE 2

\* A SHAPE request gives w another outline, and marks nothing.
ShapeWindow(shape) ==
    LET px == drBuf["w"].px
    IN  /\ drShape # shape /\ drShape' = shape
        /\ drSteps < DrMaxSteps /\ drSteps' = drSteps + 1
        /\ drMissed' = drMissed \cup {i \in DOMAIN px : Displayed(px, shape, i) # Displayed(px, drShape, i)}
        /\ UNCHANGED <<drBuf, drPix, drBack, drGc, drMapped, drRedir, drSaved, drSeg, drShown, drDamage>>

Redirect(on) ==
    /\ drRedir' = on /\ drRedir # on
    /\ Quiet /\ UNCHANGED <<drBuf, drPix, drBack, drGc, drMapped, drSaved, drShape, drSeg, drDamage>>

\* The window gets n columns; gravity says which end keeps its place, or neither.
ResizeWithGravity(n, gravity) ==
    LET b == drBuf["w"]
        dx == IF gravity = "east" THEN n - Size(b) ELSE 0
        nb == [b EXCEPT !.px = [i \in 0..(n - 1) |->
                  IF gravity # "forget" /\ i - dx \in Cols(b) THEN b.px[i - dx] ELSE 0]]
    IN  /\ n # Size(b)
        /\ drBuf' = [drBuf EXCEPT !["w"] = MarkDirty(nb, 0, n)]
        /\ drShown' = [i \in 0..(n - 1) |-> IF i \in DOMAIN drShown THEN drShown[i] ELSE 2]
        /\ drTouched' = IF drDmg THEN 0..(n - 1) ELSE drTouched
        /\ drMissed' = {} /\ drSteps < DrMaxSteps /\ drSteps' = drSteps + 1
        /\ UNCHANGED <<drPix, drBack, drGc, drMapped, drRedir, drSaved, drShape, drSeg, drDmg, drAcc>>

ChangeGC(gc) ==
    /\ drGc # gc /\ drGc' = gc
    /\ Quiet /\ UNCHANGED <<drBuf, drPix, drBack, drMapped, drRedir, drSaved, drShape, drSeg, drDamage>>

\* Flushing, first half: a dirty child is copied whole into its top-level window,
\* or forgotten when it is redirected.
WithKid ==
    LET kid == drBuf["k"]
    IN  IF "k" \notin drMapped \/ kid.dirty = {} \/ drRedir THEN drBuf["w"]
        ELSE PutImage(drBuf["w"], KidX, ExtractPixels(kid, 0, Size(kid)))

\* Second half: the dirty part of a mapped top-level window is sent and reported.
FlushDirtyWindows ==
    LET b == WithKid
        sent == IF "w" \in drMapped THEN b.dirty \cap Cols(b) ELSE {}
        changed == {i \in Cols(b) : b.px[i] # drBuf["w"].px[i]}
    IN  /\ drBuf' = [drBuf EXCEPT !["w"] = IF "w" \in drMapped THEN [b EXCEPT !.dirty = {}] ELSE b,
                                  !["k"].dirty = IF "k" \in drMapped THEN {} ELSE @]
        /\ drShown' = [i \in DOMAIN drShown |-> IF i \in sent THEN Displayed(b.px, drShape, i) ELSE drShown[i]]
        /\ drAcc' = IF drDmg THEN drAcc \cup sent ELSE drAcc
        /\ drTouched' = IF drDmg THEN drTouched \cup changed ELSE drTouched
        /\ drMissed' = drMissed \ b.dirty
        /\ UNCHANGED <<drPix, drBack, drGc, drMapped, drRedir, drSaved, drShape, drSeg, drDmg, drSteps>>

(***************************************************************************)
(* DAMAGE.                                                                 *)
(***************************************************************************)
DamageCreate ==
    /\ ~drDmg /\ drDmg' = TRUE /\ drAcc' = {} /\ drTouched' = {}
    /\ Quiet /\ UNCHANGED <<drBuf, drPix, drBack, drGc, drMapped, drRedir, drSaved, drShape, drSeg>>
DamageDestroy ==
    /\ drDmg /\ drDmg' = FALSE /\ drAcc' = {} /\ drTouched' = {}
    /\ Quiet /\ UNCHANGED <<drBuf, drPix, drBack, drGc, drMapped, drRedir, drSaved, drShape, drSeg>>

\* A slip: a partial repair repairs everything.
RemainderNone(region) == {}

\* Repairing everything, or a region.
Remainder(region) == IF region = {} THEN {} ELSE drAcc \ RectCols(region)

DamageSubtract(region) ==
    /\ drDmg /\ drAcc' = Remainder(region)
    /\ drTouched' = IF region = {} THEN {} ELSE drTouched \ RectCols(region)
    /\ Quiet /\ UNCHANGED <<drBuf, drPix, drBack, drGc, drMapped, drRedir, drSaved, drShape, drSeg, drDmg>>
DamageAdd(region) ==
    /\ region # {} /\ drDmg
    /\ drAcc' = drAcc \cup (Hull(RectCols(region)) \cap 0..2)
    /\ Quiet /\ UNCHANGED <<drBuf, drPix, drBack, drGc, drMapped, drRedir, drSaved, drShape, drSeg, drDmg, drTouched>>

DrNext ==
    \/ \E d \in Drawables, x \in DrXs, n \in DrWs :
          \/ d \in {"w", "k"} /\ ClearArea(d, x, n)
          \/ \E s \in Drawables, sx \in DrXs : CopyArea(s, d, sx, x, n) \/ CopyPlane(s, d, sx, x, n)
          \/ PolyPoint(d, x) \/ PolyRectangle(d, x, n) \/ PolyArc(d, x, n)
          \/ FillPoly(d, x, n) \/ PolyFillRectangle(d, x, n) \/ PolyFillArc(d, x, n)
          \/ \E c \in {0, 1} : PutImageDeep(d, x, n, c) \/ PutImageShallow(d, x, n, c) \/ PutImageBitmap(d, x, n, c)
          \/ GetImage(d) \/ PolyText(d, x, n) \/ ImageText(d, x, n) \/ ShmPutImage(d, x, n)
          \/ \E region \in DrRegions : d \in {"w", "k"} /\ Present(d, x, region)
    \/ \E d \in Drawables, x \in DrXs \cup DrFar, n \in DrWs, kind \in StrokeKinds :
          PolyLine(d, x, n, kind) \/ (kind # "sharp" /\ PolySegment(d, x, n, kind))
    \/ \E kind \in {"own", "bitmap"} : CreatePixmap(kind)
    \/ FreePixmap \/ ShmCreatePixmap \/ NameWindowPixmap \/ SegmentWrite
    \/ DbeAllocate \/ DbeDeallocate
    \/ \E action \in {"undefined", "background", "copied"} : DbeSwapBuffers(action)
    \/ \E d \in {"w", "k"}, background \in {"none", "pixel", "pixmap", "parent"}, store \in BOOLEAN :
          MapWindow(d, background, store)
    \/ \E d \in {"w", "k"}, store \in {"no", "all", "masked"} : UnmapWindow(d, store)
    \/ \E shape \in {{}, {{}}, {{1}}} : ShapeWindow(shape)
    \/ \E on \in BOOLEAN : Redirect(on)
    \/ \E n \in {2, 3}, gravity \in {"west", "east", "forget"} : ResizeWithGravity(n, gravity)
    \/ \E gc \in DrGcs : ChangeGC(gc)
    \/ FlushDirtyWindows
    \/ DamageCreate \/ DamageDestroy
    \/ \E region \in DrRegions : DamageSubtract(region) \/ DamageAdd(region)

DrSpec == DrInit /\ [][DrNext]_drVars

(***************************************************************************)
(* Properties.                                                             *)
(***************************************************************************)

DrTypeOK ==
    /\ \A d \in Drawables : drBuf[d].px \in [Cols(drBuf[d]) -> {0, 1}]
    /\ \A d \in Drawables : drBuf[d].dirty = Hull(drBuf[d].dirty) /\ drBuf[d].dirty \subseteq 0..2
    /\ drPix \in {"none", "own", "bitmap", "alias", "shm"} /\ drGc \in DrGcs
    /\ drMapped \subseteq {"w", "k"} /\ \A d \in {"w", "k"} : Cardinality(drSaved[d]) <= 1
    /\ drAcc \subseteq 0..2 /\ drMissed \subseteq 0..2

\* Whatever routine drew it, what is to be seen of a top-level window differs from
\* what the frontend has only in the dirty rectangle, so that the next flush sends it.
\* Exempt, until the next mark, are columns that the code changes without a mark: by
\* images of fewer than 24 bits, square caps, sharp joins and arcs beyond what their
\* routine marks, pixels restored from backing planes or from an older backing store,
\* a background taken from the parent, and a new outline.
PixelsReported ==
    LET b == drBuf["w"]
    IN  \A i \in Cols(b) : Displayed(b.px, drShape, i) # drShown[i] => i \in b.dirty \cup drMissed

\* A pixel that this connection changed since it last repaired its damage is in the
\* accumulated damage or about to be (the same columns exempt): a client that redraws
\* from DAMAGE misses none of its own changes.
DamageCovers == drDmg => drTouched \subseteq drAcc \cup drBuf["w"].dirty \cup drMissed

\* A copy reports as exposed exactly the columns that had no source, as long as the
\* source rectangle starts inside the source or left of it.
ExposuresExact ==
    \A sx \in -3..3, dx \in {-1, 2}, n \in 0..4, z \in 1..3 : sx <= z =>
        GraphicsExposures(sx, dx, n, z) = {dx + i : i \in {j \in 0..(n - 1) : sx + j \notin 0..(z - 1)}}

=============================================================================
