------------------------------ MODULE XRender ------------------------------
(***************************************************************************)
(* The RENDER extension: pictures, solid fills, gradients, glyph sets and  *)
(* the requests that composite them onto a window; and the recycling of    *)
(* resource ids by XC-MISC that lets a freed picture's id come back.       *)
(*                                                                         *)
(* Abstracted: one axis, as in XDraw; a pixel is a premultiplied colour    *)
(* and an alpha, of one channel and from 0 to RnOne; transforms move by    *)
(* one column, where bilinear and nearest sampling agree.  The window "w"  *)
(* is the destination, the pixmap "p" a source that may be freed.          *)
(***************************************************************************)
EXTENDS Integers, Sequences, FiniteSets, FiniteSetsExt

CONSTANTS RnIds,       \* resource ids of the client
          RnOps,       \* operators of the requests
          RnMaxSteps   \* bound on the number of requests

RnOne == 1                        \* full intensity in the state machine
RnCols == 0..2
RnPixels == {[c |-> 0, a |-> 0], [c |-> 0, a |-> 1], [c |-> 1, a |-> 1]}
RnClear == [c |-> 0, a |-> 0]
RnWhite == [c |-> RnOne, a |-> RnOne]
RnRects == {{}, {1}}              \* clip rectangles, as the columns they cover

VARIABLES
    rnPics,    \* rnPics[i]: {} or {the picture}
    rnSolid,   \* rnSolid[i]: {} or {the pixel of the solid fill}
    rnGrad,    \* ids of gradients
    rnTrans,   \* ids that have a transform other than the identity
    rnGlyphs,  \* glyph sets: rnGlyphs[i] is {} or {the set of its glyphs}
    rnPixmap,  \* pixels of "p": {} or {function}
    rnPx,      \* pixels of the window
    rnDirty,   \* its dirty columns
    rnShown,   \* the picture the frontend has (history)
    rnCursor,  \* pixels of the cursor made last
    rnFreed,   \* ids to hand out again, the last first
    rnUse,     \* what the client takes each id for: "none", "new" or a kind
    rnSteps

rnVars == <<rnPics, rnSolid, rnGrad, rnTrans, rnGlyphs, rnPixmap, rnPx, rnDirty, rnShown,
            rnCursor, rnFreed, rnUse, rnSteps>>

RnTile == [i \in 0..1 |-> IF i = 0 THEN RnWhite ELSE RnClear]

RnInit ==
    /\ rnPics = [i \in RnIds |-> {}] /\ rnSolid = [i \in RnIds |-> {}]
    /\ rnGrad = {} /\ rnTrans = {} /\ rnGlyphs = [i \in RnIds |-> {}]
    /\ rnPixmap = {RnTile}
    /\ rnPx = [i \in RnCols |-> [c |-> 0, a |-> 1]] /\ rnShown = rnPx /\ rnDirty = {}
    /\ rnCursor = <<>> /\ rnFreed = <<>> /\ rnUse = [i \in RnIds |-> "new"]
    /\ rnSteps = 0

(***************************************************************************)
(* Compositing one pixel; k is full intensity.                             *)
(***************************************************************************)
Div0(n, a, k) == IF a = 0 THEN 0 ELSE Min({k, (n * k) \div a})
InDis(a, b, k) == Div0(Max({a + b - k, 0}), a, k)
OutDis(a, b, k) == Div0(k - b, a, k)
InCon(a, b, k) == Div0(b, a, k)
OutCon(a, b, k) == Div0(Max({a - b, 0}), a, k)

\* Factors of source and destination for alphas s and d.
CanonicalFactors(op, s, d, k) ==
    CASE op = "Clear" -> <<0, 0>>           [] op = "Src" -> <<k, 0>>
      [] op = "Dst" -> <<0, k>>             [] op = "Over" -> <<k, k - s>>
      [] op = "OverReverse" -> <<k - d, k>> [] op = "In" -> <<d, 0>>
      [] op = "InReverse" -> <<0, s>>       [] op = "Out" -> <<k - d, 0>>
      [] op = "OutReverse" -> <<0, k - s>>  [] op = "Atop" -> <<d, k - s>>
      [] op = "AtopReverse" -> <<k - d, s>> [] op = "Xor" -> <<k - d, k - s>>
      [] op = "Add" -> <<k, k>>             [] op = "Saturate" -> <<OutDis(s, d, k), k>>
\* The disjoint and conjoint families: what is outside (os, od) and inside (is, id)
\* the other alpha, for source and destination.
FamilyFactors(op, k, os, od, is, id) ==
    CASE op = "Clear" -> <<0, 0>>           [] op = "Src" -> <<k, 0>>
      [] op = "Dst" -> <<0, k>>             [] op = "Over" -> <<k, od>>
      [] op = "OverReverse" -> <<os, k>>    [] op = "In" -> <<is, 0>>
      [] op = "InReverse" -> <<0, id>>      [] op = "Out" -> <<os, 0>>
      [] op = "OutReverse" -> <<0, od>>     [] op = "Atop" -> <<is, od>>
      [] op = "AtopReverse" -> <<os, id>>   [] op = "Xor" -> <<os, od>>

FamilyOps == {"Clear", "Src", "Dst", "Over", "OverReverse", "In", "InReverse", "Out",
              "OutReverse", "Atop", "AtopReverse", "Xor"}
CanonicalOps == FamilyOps \cup {"Add", "Saturate"}

\* The requests of the state machine use the operators that have no family.
ASSUME RnAssumption == RnOps \subseteq CanonicalOps

PictOpFactors(fam, op, s, d, k) ==
    CASE fam = "canonical" -> CanonicalFactors(op, s, d, k)
      [] fam = "disjoint" -> FamilyFactors(op, k, OutDis(s, d, k), OutDis(d, s, k),
                                              InDis(s, d, k), InDis(d, s, k))
      [] fam = "conjoint" -> FamilyFactors(op, k, OutCon(s, d, k), OutCon(d, s, k),
                                              InCon(s, d, k), InCon(d, s, k))

\* A slip: the channel is not clamped.
BlendChanWraps(s, d, fs, fd, k) == ((s * fs + d * fd + k \div 2) \div k) % (k + 1)

\* Rounded, and clamped: Add may exceed full intensity.
BlendChan(s, d, fs, fd, k) == Min({k, (s * fs + d * fd + k \div 2) \div k})

\* A destination without alpha counts, and stays, opaque.
CompositePixel(fam, op, s, d, hasAlpha, k) ==
    LET da == IF hasAlpha THEN d.a ELSE k
        f == PictOpFactors(fam, op, s.a, da, k)
    IN  IF op = "Dst" /\ fam = "canonical" THEN d
        ELSE [c |-> BlendChan(s.c, d.c, f[1], f[2], k),
              a |-> IF hasAlpha THEN BlendChan(s.a, d.a, f[1], f[2], k) ELSE k]

\* Scaled by a mask or a coverage.
ScaledBy(s, m, k) == [c |-> (s.c * m) \div k, a |-> (s.a * m) \div k]

\* A slip: an operator is missing from the list.
ZeroSrcForgetsOut(fam, op) ==
    ~(fam = "canonical" /\ op \in {"Clear", "Src", "In", "InReverse", "AtopReverse"})

\* Operators for which a transparent source pixel may be skipped.
ZeroSrcHasNoEffect(fam, op) ==
    ~(fam = "canonical" /\ op \in {"Clear", "Src", "In", "InReverse", "Out", "AtopReverse"})

\* Where a column outside a source of size z is read.
ApplyPixmapRepeat(x, z, repeat) ==
    CASE repeat = "pad" -> Max({0, Min({x, z - 1})})
      [] repeat = "reflect" -> LET v == x % (2 * z) IN IF v < z THEN v ELSE 2 * z - 1 - v
      [] OTHER -> x % z

(***************************************************************************)
(* Sources.                                                                *)
(***************************************************************************)
RnThe(S) == CHOOSE e \in S : TRUE
Pic(i) == RnThe(rnPics[i])
NoPicture == [drw |-> "w", alpha |-> TRUE, repeat |-> "none", clip |-> {}, org |-> 0, mask |-> FALSE]

\* The framebuffer behind a drawable: {} or {pixels}.
FbOf(d) == CASE d = "w" -> {rnPx} [] d = "p" -> rnPixmap [] OTHER -> {}

\* A gradient from full intensity to none across the window.
ResolveGradientPixels(shift) == [i \in -2..3 |-> IF i + shift <= 1 THEN RnWhite ELSE RnClear]

\* The source pixels of picture i from column x: {} when there are none.  A solid
\* fill or a gradient with that id comes before the picture, then what the id of
\* its drawable stands for.
SolidOrGradient(i, n, x) ==
    CASE rnSolid[i] # {} -> {[j \in 0..(n - 1) |-> RnThe(rnSolid[i])]}
      [] rnSolid[i] = {} /\ i \in rnGrad -> {[j \in 0..(n - 1) |->
             ResolveGradientPixels(IF i \in rnTrans THEN 1 ELSE 0)[x + j]]}
      [] OTHER -> {}
ResolveSourcePixels(i, x, n) ==
    LET own == SolidOrGradient(i, n, x)
        p == Pic(i)
        fb == RnThe(FbOf(p.drw))
        z == Cardinality(DOMAIN fb)
        shift == IF i \in rnTrans THEN 1 ELSE 0
        at(j) == LET c == x + j + shift
                 IN  IF c \in DOMAIN fb THEN fb[c]
                     ELSE IF p.repeat = "none" THEN RnClear
                     ELSE fb[ApplyPixmapRepeat(c, z, p.repeat)]
    IN  IF own # {} THEN own
        ELSE IF rnPics[i] = {} THEN {}
        ELSE IF p.drw \in RnIds THEN SolidOrGradient(p.drw, n, x)
        ELSE IF FbOf(p.drw) = {} THEN {}
        ELSE {[j \in 0..(n - 1) |-> at(j)]}

\* Trapezoids, triangles and glyphs take one colour: the solid fill's, the first
\* pixel of a tiled pixmap's, or else white.
ResolveSourceColor(i) ==
    CASE rnSolid[i] # {} -> RnThe(rnSolid[i])
      [] rnSolid[i] = {} /\ rnPics[i] # {} /\ Pic(i).drw = "p" /\ Pic(i).repeat = "normal"
             /\ rnPixmap # {} -> RnThe(rnPixmap)[0]
      [] OTHER -> RnWhite

\* Columns the clip of picture i lets through: its rectangles, and the alpha the mask
\* pixmap has now.
ClipAllows(i, c) ==
    LET p == IF rnPics[i] = {} THEN NoPicture ELSE Pic(i)
    IN  /\ p.clip = {} \/ c - p.org \in p.clip
        /\ p.mask /\ rnPixmap # {} =>
              c - p.org \in DOMAIN RnThe(rnPixmap) /\ RnThe(rnPixmap)[c - p.org].a # 0

(***************************************************************************)
(* Pictures.                                                               *)
(***************************************************************************)
RnStep == rnSteps < RnMaxSteps /\ rnSteps' = rnSteps + 1
RnKeepFb == UNCHANGED <<rnPx, rnDirty, rnShown, rnCursor>>

\* The client only creates with an id it holds and does not use.
Takes(i, kind) == rnUse[i] = "new" /\ rnUse' = [rnUse EXCEPT ![i] = kind]
RnInsert(i, p) == rnPics' = [rnPics EXCEPT ![i] = {p}]

CreatePicture(i, d, alpha, repeat) ==
    /\ RnStep /\ Takes(i, "picture") /\ FbOf(d) # {}
    /\ RnInsert(i, [NoPicture EXCEPT !.drw = d, !.alpha = alpha, !.repeat = repeat])
    /\ RnKeepFb /\ UNCHANGED <<rnSolid, rnGrad, rnTrans, rnGlyphs, rnPixmap, rnFreed>>

\* A solid fill is no picture; a gradient is also one, of itself.
CreateSolidFill(i, pix) ==
    /\ RnStep /\ Takes(i, "solid")
    /\ rnSolid' = [rnSolid EXCEPT ![i] = {pix}]
    /\ RnKeepFb /\ UNCHANGED <<rnPics, rnGrad, rnTrans, rnGlyphs, rnPixmap, rnFreed>>
CreateGradient(i) ==
    /\ RnStep /\ Takes(i, "gradient")
    /\ rnGrad' = rnGrad \cup {i}
    /\ RnInsert(i, [NoPicture EXCEPT !.drw = i])
    /\ RnKeepFb /\ UNCHANGED <<rnSolid, rnTrans, rnGlyphs, rnPixmap, rnFreed>>

\* Removing the mask removes the rectangles too.
ChangePicture(i, repeat, mask, org) ==
    /\ RnStep /\ rnPics[i] # {}
    /\ RnInsert(i, [Pic(i) EXCEPT !.repeat = repeat, !.mask = mask, !.org = org,
                                  !.clip = IF mask THEN @ ELSE {}])
    /\ RnKeepFb /\ UNCHANGED <<rnSolid, rnGrad, rnTrans, rnGlyphs, rnPixmap, rnFreed, rnUse>>
SetPictureClipRectangles(i, rects, org) ==
    /\ RnStep /\ rnPics[i] # {}
    /\ RnInsert(i, [Pic(i) EXCEPT !.clip = rects, !.org = org])
    /\ RnKeepFb /\ UNCHANGED <<rnSolid, rnGrad, rnTrans, rnGlyphs, rnPixmap, rnFreed, rnUse>>
SetPictureTransform(i, identity) ==
    /\ RnStep /\ rnUse[i] # "new"
    /\ rnTrans' = IF identity THEN rnTrans \ {i} ELSE rnTrans \cup {i}
    /\ RnKeepFb /\ UNCHANGED <<rnPics, rnSolid, rnGrad, rnGlyphs, rnPixmap, rnFreed, rnUse>>

\* Only the picture goes: a solid fill, a gradient and a transform stay.  The id is
\* put on the list of free ones.
FreePicture(i) ==
    /\ RnStep /\ rnUse[i] \in {"picture", "solid", "gradient"}
    /\ rnPics' = [rnPics EXCEPT ![i] = {}]
    /\ rnFreed' = <<i>> \o rnFreed /\ rnUse' = [rnUse EXCEPT ![i] = "none"]
    /\ RnKeepFb /\ UNCHANGED <<rnSolid, rnGrad, rnTrans, rnGlyphs, rnPixmap>>

\* XC-MISC hands freed ids out again.
GetXIDList ==
    /\ RnStep /\ rnFreed # <<>>
    /\ rnFreed' = Tail(rnFreed) /\ rnUse' = [rnUse EXCEPT ![Head(rnFreed)] = "new"]
    /\ RnKeepFb /\ UNCHANGED <<rnPics, rnSolid, rnGrad, rnTrans, rnGlyphs, rnPixmap>>

\* Freeing the pixmap leaves the pictures of it.
PixmapGoes ==
    /\ RnStep /\ rnPixmap # {} /\ rnPixmap' = {}
    /\ RnKeepFb /\ UNCHANGED <<rnPics, rnSolid, rnGrad, rnTrans, rnGlyphs, rnFreed, rnUse>>

(***************************************************************************)
(* Drawing.                                                                *)
(***************************************************************************)

\* A gradient is refused as a destination.
RejectGradientDestination(i) == i \in rnGrad

\* A request that leaves the window with pixels px and marks columns m.
Renders(px, m) ==
    /\ rnPx' = px /\ rnDirty' = rnDirty \cup (m \cap RnCols)
    /\ UNCHANGED <<rnPics, rnSolid, rnGrad, rnTrans, rnGlyphs, rnPixmap, rnShown, rnCursor, rnFreed, rnUse>>
OntoWindow(i) == rnPics[i] # {} /\ Pic(i).drw = "w" /\ ~RejectGradientDestination(i)
Put(i, op, s, d) == CompositePixel("canonical", op, s, d, Pic(i).alpha, RnOne)
RnSpan(x, n) == x..(x + n - 1)

Composite(op, s, mask, d, sx, dx, n) ==
    LET src == ResolveSourcePixels(s, sx, n)
        msk == IF mask = {} THEN {} ELSE ResolveSourcePixels(RnThe(mask), sx, n)
        skip(c) == /\ msk # {} /\ RnThe(msk)[c - dx].a = 0 /\ ZeroSrcHasNoEffect("canonical", op)
        pixel(c) == LET p == RnThe(src)[c - dx]
                    IN  IF msk = {} THEN p ELSE ScaledBy(p, RnThe(msk)[c - dx].a, RnOne)
    IN  /\ RnStep /\ OntoWindow(d) /\ src # {}
        /\ Renders([c \in RnCols |-> IF c \in RnSpan(dx, n) /\ ClipAllows(d, c) /\ ~skip(c)
                                     THEN Put(d, op, pixel(c), rnPx[c]) ELSE rnPx[c]],
                   RnSpan(IF dx < 0 THEN 0 ELSE dx, n))

\* A polygon covering columns x .. x+n-1: only what it covers, whatever the operator.
CompositePolygonAa(i, op, pix, x, n) ==
    [c \in RnCols |-> IF c \in RnSpan(x, n) /\ ClipAllows(i, c) THEN Put(i, op, pix, rnPx[c]) ELSE rnPx[c]]
Trapezoids(op, s, d, x, n) ==
    /\ RnStep /\ OntoWindow(d)
    /\ Renders(CompositePolygonAa(d, op, ResolveSourceColor(s), x, n), RnSpan(x, n))

\* A slip: the box of the triangles is marked, as for the other operators.
MarkedByBox(full, x, n) == RnSpan(x, n)

\* Triangles with an operator that clears are composited over the whole window.
MarkedByTriangles(full, x, n) == IF full THEN RnCols ELSE RnSpan(x, n)

CompositeTrianglesFullDst(i, op, pix, x, n) ==
    [c \in RnCols |-> IF ClipAllows(i, c)
                      THEN Put(i, op, IF c \in RnSpan(x, n) THEN pix ELSE RnClear, rnPx[c]) ELSE rnPx[c]]
Triangles(op, s, d, x, n) ==
    LET full == ~ZeroSrcHasNoEffect("canonical", op)
        pix == ResolveSourceColor(s)
    IN  /\ RnStep /\ OntoWindow(d)
        /\ Renders(IF full THEN CompositeTrianglesFullDst(d, op, pix, x, n)
                   ELSE CompositePolygonAa(d, op, pix, x, n), MarkedByTriangles(full, x, n))
\* A strip and a fan need three points.
TriStrip(op, s, d, x, n, points) == points >= 3 /\ Triangles(op, s, d, x, n)
TriFan(op, s, d, x, n, points) == points >= 3 /\ Triangles(op, s, d, x, n)

FillRectangles(op, d, pix, x, n) ==
    /\ RnStep /\ OntoWindow(d)
    /\ Renders([c \in RnCols |-> IF c \in RnSpan(x, n) /\ ClipAllows(d, c)
                                 THEN Put(d, op, pix, rnPx[c]) ELSE rnPx[c]],
               RnSpan(IF x < 0 THEN 0 ELSE x, n))

\* No clip and no operator.  A right end left of the window wraps to a huge one.
AddTraps(d, x, n) ==
    LET last == IF x + n < 0 THEN Max(RnCols) ELSE x + n - 1
    IN  /\ RnStep /\ OntoWindow(d)
        /\ Renders([c \in RnCols |-> IF c \in x..last THEN RnWhite ELSE rnPx[c]], RnCols)

(***************************************************************************)
(* Glyphs: one is a column wide, two the next one's.                       *)
(***************************************************************************)
RnGlyphIds == {1, 2}
GlyphsBecome(i, g) == rnGlyphs' = [rnGlyphs EXCEPT ![i] = g]
RnKeepPics == UNCHANGED <<rnPics, rnSolid, rnGrad, rnTrans, rnPixmap>>

CreateGlyphSet(i) ==
    /\ RnStep /\ Takes(i, "glyphs") /\ GlyphsBecome(i, {{}})
    /\ RnKeepFb /\ RnKeepPics /\ UNCHANGED rnFreed
\* A reference is a copy: later glyphs are added to one of the two.
ReferenceGlyphSet(i, from) ==
    /\ RnStep /\ Takes(i, "glyphs") /\ GlyphsBecome(i, IF rnGlyphs[from] = {} THEN {{}} ELSE rnGlyphs[from])
    /\ RnKeepFb /\ RnKeepPics /\ UNCHANGED rnFreed
FreeGlyphSet(i) ==
    /\ RnStep /\ rnUse[i] = "glyphs" /\ GlyphsBecome(i, {})
    /\ rnFreed' = <<i>> \o rnFreed /\ rnUse' = [rnUse EXCEPT ![i] = "none"]
    /\ RnKeepFb /\ RnKeepPics
AddGlyphs(i, g) ==
    /\ RnStep /\ rnGlyphs[i] # {} /\ GlyphsBecome(i, {RnThe(rnGlyphs[i]) \cup {g}})
    /\ RnKeepFb /\ RnKeepPics /\ UNCHANGED <<rnFreed, rnUse>>
FreeGlyphs(i, g) ==
    /\ RnStep /\ rnGlyphs[i] # {} /\ GlyphsBecome(i, {RnThe(rnGlyphs[i]) \ {g}})
    /\ RnKeepFb /\ RnKeepPics /\ UNCHANGED <<rnFreed, rnUse>>
\* A glyph that the set does not have moves the pen nowhere.
PenAfter(g, known, x) == IF g \in known THEN x + 1 ELSE x
CompositeGlyphs(op, s, d, gs, text, x) ==
    LET known == IF rnGlyphs[gs] = {} THEN {} ELSE RnThe(rnGlyphs[gs])
        pen[k \in 0..Len(text)] == IF k = 0 THEN x ELSE PenAfter(text[k], known, pen[k - 1])
        at == {pen[k - 1] : k \in {j \in DOMAIN text : text[j] \in known}}
        pix == ResolveSourceColor(s)
    IN  /\ RnStep /\ OntoWindow(d)
        /\ Renders([c \in RnCols |-> IF c \in at /\ ClipAllows(d, c) THEN Put(d, op, pix, rnPx[c]) ELSE rnPx[c]], at)

CreateCursor(s) ==
    /\ RnStep /\ rnUse[s] # "new"
    /\ rnCursor' = LET img == ResolveSourcePixels(s, 0, 2) IN IF img = {} THEN <<>> ELSE <<RnThe(img)>>
    /\ UNCHANGED <<rnPics, rnSolid, rnGrad, rnTrans, rnGlyphs, rnPixmap, rnPx, rnDirty, rnShown, rnFreed, rnUse>>
\* The cursor made last, that many times.  Frames without pixels are left out, and
\* without any frame the animation has none either.
CreateAnimCursor(frames) ==
    /\ RnStep
    /\ rnCursor' = IF rnCursor = <<>> THEN <<>> ELSE [k \in 1..frames |-> rnCursor[1]]
    /\ UNCHANGED <<rnPics, rnSolid, rnGrad, rnTrans, rnGlyphs, rnPixmap, rnPx, rnDirty, rnShown, rnFreed, rnUse>>

\* The dirty columns are sent to the frontend.
RnFlush ==
    /\ rnDirty # {} /\ rnDirty' = {}
    /\ rnShown' = [c \in RnCols |-> IF c \in rnDirty THEN rnPx[c] ELSE rnShown[c]]
    /\ UNCHANGED <<rnPics, rnSolid, rnGrad, rnTrans, rnGlyphs, rnPixmap, rnPx, rnCursor, rnFreed, rnUse, rnSteps>>

RnNext ==
    \/ \E i \in RnIds :
          \/ \E d \in {"w", "p"}, alpha \in BOOLEAN, repeat \in {"none", "normal"} : CreatePicture(i, d, alpha, repeat)
          \/ \E pix \in RnPixels : CreateSolidFill(i, pix)
          \/ CreateGradient(i) \/ FreePicture(i)
          \/ \E repeat \in {"none", "pad"}, mask \in BOOLEAN, org \in {0, 1} : ChangePicture(i, repeat, mask, org)
          \/ \E rects \in RnRects, org \in {0, 1} : SetPictureClipRectangles(i, rects, org)
          \/ \E identity \in BOOLEAN : SetPictureTransform(i, identity)
          \/ CreateGlyphSet(i) \/ FreeGlyphSet(i) \/ CreateCursor(i)
          \/ \E from \in RnIds : ReferenceGlyphSet(i, from)
          \/ \E g \in RnGlyphIds : AddGlyphs(i, g) \/ FreeGlyphs(i, g)
    \/ GetXIDList \/ PixmapGoes \/ RnFlush \/ \E frames \in 0..2 : CreateAnimCursor(frames)
    \/ \E op \in RnOps, s, d \in RnIds, x \in {-1, 1}, n \in {0, 2} :
          \/ \E mask \in {{}} \cup {{m} : m \in RnIds}, sx \in {-1, 0} : Composite(op, s, mask, d, sx, x, n)
          \/ Trapezoids(op, s, d, x, n) \/ Triangles(op, s, d, x, n)
          \/ \E points \in {2, 3} : TriStrip(op, s, d, x, n, points) \/ TriFan(op, s, d, x, n, points)
          \/ \E pix \in RnPixels : FillRectangles(op, d, pix, x, n)
          \/ AddTraps(d, x, n)
          \/ \E gs \in RnIds, text \in {<<1>>, <<2, 1>>} : CompositeGlyphs(op, s, d, gs, text, x)

RnSpec == RnInit /\ [][RnNext]_rnVars

(***************************************************************************)
(* Properties.                                                             *)
(***************************************************************************)
RnTypeOK ==
    /\ \A i \in RnIds : Cardinality(rnPics[i]) <= 1 /\ rnSolid[i] \subseteq RnPixels
    /\ rnPx \in [RnCols -> RnPixels] /\ rnDirty \subseteq RnCols
    /\ \A k \in DOMAIN rnFreed : rnUse[rnFreed[k]] = "none"
    /\ \A j, k \in DOMAIN rnFreed : j # k => rnFreed[j] # rnFreed[k]

\* Whatever composited it, a pixel that the frontend does not have is dirty; in
\* particular the whole window after an operator that clears outside its shape.
RnReported == \A c \in RnCols : rnPx[c] # rnShown[c] => c \in rnDirty

RnLevels == {0, 1, 100, 127, 128, 254, 255}
RnLevelPixels == {p \in [c : RnLevels, a : RnLevels] : p.c <= p.a}

\* Skipping transparent source pixels is right for every canonical operator: a zero
\* source leaves the destination as it was exactly when the list says so.
ZeroSafe ==
    \A op \in CanonicalOps : ZeroSrcHasNoEffect("canonical", op) =
        (\A d \in RnLevelPixels : CompositePixel("canonical", op, [c |-> 0, a |-> 0], d, TRUE, 255) = d)

\* Compositing two premultiplied pixels gives a premultiplied pixel, for all the
\* operators of the three families: no colour exceeds its alpha.
ColourWithinAlpha ==
    \A fam \in {"canonical", "disjoint", "conjoint"}, s, d \in RnLevelPixels :
      \A op \in IF fam = "canonical" THEN CanonicalOps ELSE FamilyOps :
        LET p == CompositePixel(fam, op, s, d, TRUE, 255) IN p.c <= p.a /\ p.a <= 255

\* Repeated sources are read inside, next to the edge they continue.
RepeatInside ==
    \A x \in -9..9, z \in 1..4, repeat \in {"pad", "reflect", "normal"} :
        LET at == ApplyPixmapRepeat(x, z, repeat)
        IN  /\ at \in 0..(z - 1)
            /\ x \in 0..(z - 1) => at = x
            /\ repeat # "normal" => ApplyPixmapRepeat(-1, z, repeat) = 0
=============================================================================
