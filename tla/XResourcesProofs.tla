-------------------------- MODULE XResourcesProofs --------------------------
(***************************************************************************)
(* Proofs about the resources of the X11 server: the lives of GLX contexts,*)
(* counters, alarms, fences and waits; colour cells and cursors; drawing,  *)
(* GLX and RENDER onto windows and what they mark as dirty; the decoders   *)
(* of GLX commands; compositing; exposures and dashes; the clips of        *)
(* graphics contexts; and regions and shapes, for rectangles of any size   *)
(* at any place.                                                           *)
(***************************************************************************)
EXTENDS MCXResources, FiniteSetTheorems, WellFoundedInduction, TLAPS

-----------------------------------------------------------------------------
(* XRegion: the rectangles a computation returns cover exactly the points   *)
(* they should.                                                             *)

(* The points of a list of rectangles, one by one. *)
Covers(rects, p) == \E o \in rects : RgInside(o, p)

(* subtract_single_rect: what is left of r covers the points of r that are  *)
(* not in s, whether the two overlap, touch, contain each other or one of   *)
(* them is empty.                                                           *)
THEOREM SubtractExact ==
    ASSUME NEW r \in Rectangles, NEW s \in Rectangles, NEW p \in Int \X Int
    PROVE  Covers(SubtractRect(r, s), p) <=> RgInside(r, p) /\ ~RgInside(s, p)
<1> DEFINE px == p[1]
           py == p[2]
<1>0. /\ r.x \in Int /\ r.y \in Int /\ r.w \in Nat /\ r.h \in Nat
      /\ s.x \in Int /\ s.y \in Int /\ s.w \in Nat /\ s.h \in Nat
      /\ px \in Int /\ py \in Int
  BY DEF Rectangles
<1>1. CASE Disjoint(r, s)
  <2>1. SubtractRect(r, s) = {r} BY <1>1 DEF SubtractRect
  <2>2. RgInside(r, p) => ~RgInside(s, p) BY <1>0, <1>1 DEF Disjoint, RgInside, RgRight, RgBottom
  <2> QED  BY <2>1, <2>2 DEF Covers
<1>2. CASE ~Disjoint(r, s)
  <2> DEFINE y1 == RgMax2(r.y, s.y)
             y2 == RgMin2(RgBottom(r), RgBottom(s))
             above == [x |-> r.x, y |-> r.y, w |-> r.w, h |-> s.y - r.y]
             left == [x |-> r.x, y |-> y1, w |-> s.x - r.x, h |-> y2 - y1]
             right == [x |-> RgRight(s), y |-> y1, w |-> RgRight(r) - RgRight(s), h |-> y2 - y1]
             below == [x |-> r.x, y |-> RgBottom(s), w |-> r.w, h |-> RgBottom(r) - RgBottom(s)]
  <2>1. SubtractRect(r, s) = {o \in {above, left, right, below} : o.w > 0 /\ o.h > 0}
    BY <1>2 DEF SubtractRect
  <2>2. y1 \in Int /\ y2 \in Int BY <1>0 DEF RgMax2, RgMin2, RgBottom
  <2>3. /\ RgInside(above, p) <=> r.x <= px /\ px < r.x + r.w /\ r.y <= py /\ py < s.y
        /\ RgInside(left, p) <=> r.x <= px /\ px < s.x /\ y1 <= py /\ py < y2
        /\ RgInside(right, p) <=> s.x + s.w <= px /\ px < r.x + r.w /\ y1 <= py /\ py < y2
        /\ RgInside(below, p) <=> r.x <= px /\ px < r.x + r.w /\ s.y + s.h <= py /\ py < r.y + r.h
    BY <1>0, <2>2 DEF RgInside, RgRight, RgBottom
  <2>4. /\ RgInside(above, p) => above.w > 0 /\ above.h > 0
        /\ RgInside(left, p) => left.w > 0 /\ left.h > 0
        /\ RgInside(right, p) => right.w > 0 /\ right.h > 0
        /\ RgInside(below, p) => below.w > 0 /\ below.h > 0
    BY <1>0, <2>2, <2>3 DEF RgRight, RgBottom
  <2>5. Covers(SubtractRect(r, s), p) <=> \/ RgInside(above, p) \/ RgInside(left, p)
                                          \/ RgInside(right, p) \/ RgInside(below, p)
    <3> HIDE DEF above, left, right, below
    <3> QED  BY <2>1, <2>4 DEF Covers
  <2>6. /\ y1 <= py <=> r.y <= py /\ s.y <= py
        /\ py < y2 <=> py < r.y + r.h /\ py < s.y + s.h
    BY <1>0 DEF RgMax2, RgMin2, RgBottom
  <2>7. ~(s.x >= r.x + r.w) /\ ~(s.x + s.w <= r.x) /\ ~(s.y >= r.y + r.h) /\ ~(s.y + s.h <= r.y)
    BY <1>2 DEF Disjoint, RgRight, RgBottom
  <2>8. /\ RgInside(r, p) <=> r.x <= px /\ px < r.x + r.w /\ r.y <= py /\ py < r.y + r.h
        /\ RgInside(s, p) <=> s.x <= px /\ px < s.x + s.w /\ s.y <= py /\ py < s.y + s.h
    BY DEF RgInside, RgRight, RgBottom
  <2> HIDE DEF y1, y2, above, left, right, below, px, py
  <2> QED  BY <1>0, <2>3, <2>5, <2>6, <2>7, <2>8
<1> QED  BY <1>1, <1>2

(* XFIXES' intersect works rectangle by rectangle and drops empty results:  *)
(* together they cover the points that are in both lists.                   *)
THEOREM IntersectExact ==
    ASSUME NEW a \in SUBSET Rectangles, NEW b \in SUBSET Rectangles, NEW p \in Int \X Int
    PROVE  Covers(IntersectLists(a, b), p) <=> Covers(a, p) /\ Covers(b, p)
<1> DEFINE Meet(ra, rb) ==
             [x |-> RgMax2(ra.x, rb.x), y |-> RgMax2(ra.y, rb.y),
              w |-> RgMin2(RgRight(ra), RgRight(rb)) - RgMax2(ra.x, rb.x),
              h |-> RgMin2(RgBottom(ra), RgBottom(rb)) - RgMax2(ra.y, rb.y)]
<1>1. IntersectLists(a, b) = {o \in {Meet(ra, rb) : ra \in a, rb \in b} : o.w > 0 /\ o.h > 0}
  BY DEF IntersectLists
<1>2. ASSUME NEW ra \in a, NEW rb \in b
      PROVE  /\ RgInside(Meet(ra, rb), p) <=> RgInside(ra, p) /\ RgInside(rb, p)
             /\ RgInside(Meet(ra, rb), p) => Meet(ra, rb).w > 0 /\ Meet(ra, rb).h > 0
  <2>0. /\ ra.x \in Int /\ ra.y \in Int /\ ra.w \in Nat /\ ra.h \in Nat
        /\ rb.x \in Int /\ rb.y \in Int /\ rb.w \in Nat /\ rb.h \in Nat
        /\ p[1] \in Int /\ p[2] \in Int
    BY DEF Rectangles
  <2> QED  BY <2>0 DEF RgInside, RgRight, RgBottom, RgMax2, RgMin2
<1> HIDE DEF Meet
<1> QED  BY <1>1, <1>2 DEF Covers

-----------------------------------------------------------------------------
(* XGlx: the contexts of a client. *)

(* An id names at most one context; its tag was given out, and its picture  *)
(* is made when it is bound, unless OSMesa refuses.                         *)
Context(S, tag) ==
    /\ \A x, y \in S : x = y
    /\ \A x \in S : /\ DOMAIN x = {"tag", "drw", "refused", "mesa"}
                    /\ x.tag \in Nat /\ x.tag < tag
                    /\ x.drw # GlNone => x.mesa # {} \/ x.refused

GlInv ==
    /\ DOMAIN glCtx = GlClients /\ DOMAIN glTag = GlClients
    /\ \A c \in GlClients :
         /\ DOMAIN glCtx[c] = GlIds /\ glTag[c] \in Nat
         /\ \A k \in GlIds : Context(glCtx[c][k], glTag[c])
         /\ \A j, k \in GlIds : j # k =>
              \A x \in glCtx[c][j], y \in glCtx[c][k] : x.tag # y.tag

LEMMA GlChosen == ASSUME NEW S, S # {} PROVE GlThe(S) \in S
  BY DEF GlThe

(* What every GL call and every binding does: no context gets a new tag or  *)
(* loses its picture.                                                       *)
Kept(old, new) ==
    /\ \A x, y \in new : x = y
    /\ \A y \in new : \E x \in old :
         /\ DOMAIN y = DOMAIN x /\ y.tag = x.tag
         /\ y.drw # GlNone => y.mesa # {} \/ y.refused

LEMMA ContextsKept ==
    ASSUME GlInv, glTag' = glTag, DOMAIN glCtx' = GlClients,
           \A c \in GlClients : /\ DOMAIN glCtx'[c] = GlIds
                                /\ \A k \in GlIds : Kept(glCtx[c][k], glCtx'[c][k])
    PROVE  GlInv'
<1>1. ASSUME NEW c \in GlClients, NEW k \in GlIds
      PROVE  Context(glCtx'[c][k], glTag[c])
  <2>1. Kept(glCtx[c][k], glCtx'[c][k]) /\ Context(glCtx[c][k], glTag[c]) BY <1>1 DEF GlInv
  <2> QED  BY <2>1 DEF Kept, Context
<1>2. ASSUME NEW c \in GlClients, NEW j \in GlIds, NEW k \in GlIds, j # k,
             NEW x \in glCtx'[c][j], NEW y \in glCtx'[c][k]
      PROVE  x.tag # y.tag
  <2>1. /\ \E u \in glCtx[c][j] : x.tag = u.tag
        /\ \E v \in glCtx[c][k] : y.tag = v.tag
    BY <1>2 DEF Kept
  <2> QED  BY <1>2, <2>1 DEF GlInv
<1> QED  BY <1>1, <1>2 DEF GlInv

(* Contexts come and go. *)
LEMMA ContextsMade ==
    ASSUME GlInv, NEW c \in GlClients, NEW k \in GlIds, NEW t \in GlThreads,
           CreateContext(c, k, t) \/ DestroyContext(c, k, t)
    PROVE  GlInv'
<1>1. CASE CreateContext(c, k, t)
  <2> DEFINE n == [tag |-> glTag[c], drw |-> GlNone, refused |-> FALSE, mesa |-> {}]
  <2>1. /\ glCtx' = [glCtx EXCEPT ![c][k] = {n}]
        /\ glTag' = [glTag EXCEPT ![c] = @ + 1]
    BY <1>1 DEF CreateContext
  <2>2. /\ DOMAIN glCtx' = GlClients /\ DOMAIN glTag' = GlClients
        /\ \A d \in GlClients : DOMAIN glCtx'[d] = GlIds
        /\ glTag'[c] = glTag[c] + 1
        /\ \A d \in GlClients : d # c => glTag'[d] = glTag[d] /\ glCtx'[d] = glCtx[d]
        /\ glCtx'[c][k] = {n}
        /\ \A j \in GlIds : j # k => glCtx'[c][j] = glCtx[c][j]
    BY <2>1 DEF GlInv
  <2>3. \A d \in GlClients : glTag[d] \in Nat BY DEF GlInv
  <2>4. /\ DOMAIN n = {"tag", "drw", "refused", "mesa"} /\ n.tag = glTag[c] /\ n.drw = GlNone OBVIOUS
  <2> HIDE DEF n
  <2>5. Context({n}, glTag[c] + 1) BY <2>3, <2>4 DEF Context
  <2>6. ASSUME NEW d \in GlClients, NEW j \in GlIds
        PROVE  Context(glCtx'[d][j], glTag'[d])
    <3>1. Context(glCtx[d][j], glTag[d]) BY DEF GlInv
    <3>2. CASE d # c BY <2>2, <3>1, <3>2
    <3>3. CASE d = c /\ j = k BY <2>2, <2>5, <3>3
    <3>4. CASE d = c /\ j # k BY <2>2, <2>3, <3>1, <3>4 DEF Context
    <3> QED  BY <3>2, <3>3, <3>4
  <2>7. ASSUME NEW j \in GlIds, NEW x \in glCtx[c][j] PROVE x.tag # n.tag
    BY <2>3, <2>4 DEF GlInv, Context
  <2>8. ASSUME NEW d \in GlClients, NEW i \in GlIds, NEW j \in GlIds, i # j,
               NEW x \in glCtx'[d][i], NEW y \in glCtx'[d][j]
        PROVE  x.tag # y.tag
    <3>1. CASE d # c \/ (i # k /\ j # k) BY <2>2, <2>8, <3>1 DEF GlInv
    <3>2. CASE d = c /\ i = k BY <2>2, <2>7, <2>8, <3>2
    <3>3. CASE d = c /\ j = k BY <2>2, <2>7, <2>8, <3>3
    <3> QED  BY <3>1, <3>2, <3>3
  <2>9. \A d \in GlClients : glTag'[d] \in Nat BY <2>2, <2>3
  <2> QED  BY <2>2, <2>6, <2>8, <2>9 DEF GlInv
<1>2. CASE DestroyContext(c, k, t)
  <2>1. glCtx' = [glCtx EXCEPT ![c][k] = {}] /\ glTag' = glTag BY <1>2 DEF DestroyContext
  <2>2. /\ DOMAIN glCtx' = GlClients
        /\ \A d \in GlClients : DOMAIN glCtx'[d] = GlIds
        /\ \A d \in GlClients, j \in GlIds :
             glCtx'[d][j] = glCtx[d][j] \/ glCtx'[d][j] = {}
    BY <2>1 DEF GlInv
  <2>3. \A d \in GlClients, j \in GlIds : Kept(glCtx[d][j], glCtx'[d][j])
    BY <2>2 DEF GlInv, Context, Kept
  <2> QED  BY <2>1, <2>2, <2>3, ContextsKept
<1> QED  BY <1>1, <1>2

(* A context is bound, the GL executes in one, or a window's pixels become  *)
(* its picture.                                                             *)
LEMMA ContextsUsed ==
    ASSUME GlInv, NEW c \in GlClients, NEW t \in GlThreads,
           \/ \E k \in GlIds, d \in GlDrawables, ok \in BOOLEAN : DoMakeCurrent(c, k, d, t, ok)
           \/ WaitX(c, t)
           \/ \E on, g : Executes(c, on, g) /\ glTag' = glTag
    PROVE  GlInv'
<1>0. \A d \in GlClients, j \in GlIds : Kept(glCtx[d][j], glCtx[d][j]) BY DEF GlInv, Context, Kept
<1>1. ASSUME NEW k \in GlIds, NEW d \in GlDrawables, NEW ok \in BOOLEAN, DoMakeCurrent(c, k, d, t, ok)
      PROVE  GlInv'
  <2>1. glTag' = glTag BY <1>1 DEF DoMakeCurrent
  <2>2. CASE glCtx[c][k] = {}
    <3>1. glCtx' = glCtx BY <1>1, <2>2 DEF DoMakeCurrent
    <3> QED  BY <1>0, <2>1, <3>1, ContextsKept DEF GlInv
  <2>3. CASE glCtx[c][k] # {}
    <3> DEFINE o == GlCtx(c, k)
               p == IF ok \/ o.mesa # {} THEN Sized(o.mesa, GetDrawableSize(c, d)) ELSE {}
               n == [o EXCEPT !.drw = d, !.refused = ~ok, !.mesa = p]
    <3>1. glCtx' = [glCtx EXCEPT ![c][k] = {n}] BY <1>1, <2>3 DEF DoMakeCurrent
    <3>2. o \in glCtx[c][k] BY <2>3, GlChosen DEF GlCtx
    <3>3. DOMAIN o = {"tag", "drw", "refused", "mesa"} BY <3>2 DEF GlInv, Context
    <3>4. \A M, w : Sized(M, w) # {} BY DEF Sized
    <3> HIDE DEF o
    <3>5. DOMAIN n = DOMAIN o /\ n.tag = o.tag /\ (n.mesa # {} \/ n.refused) BY <3>3, <3>4
    <3> HIDE DEF n
    <3>6. Kept(glCtx[c][k], {n}) BY <3>2, <3>5 DEF Kept
    <3>7. /\ DOMAIN glCtx' = GlClients
          /\ \A e \in GlClients : DOMAIN glCtx'[e] = GlIds
          /\ \A e \in GlClients, j \in GlIds :
               \/ glCtx'[e][j] = glCtx[e][j]
               \/ e = c /\ j = k /\ glCtx'[e][j] = {n}
      BY <3>1 DEF GlInv
    <3>8. \A e \in GlClients, j \in GlIds : Kept(glCtx[e][j], glCtx'[e][j]) BY <1>0, <3>6, <3>7
    <3> QED  BY <2>1, <3>7, <3>8, ContextsKept
  <2> QED  BY <2>2, <2>3
<1>2. \A e \in GlClients, j \in GlIds : \A x, y \in glCtx[e][j] : x = y BY DEF GlInv, Context
<1>3. CASE WaitX(c, t)
  <2> DEFINE n == Min({Wide(Picture(c).px), Wide(glWin[c])})
             Paint(m) == [m EXCEPT !.px = [i \in DOMAIN @ |->
                             IF i < n THEN Swapped(glWin[c][i]) ELSE @[i]]]
             Paints(M) == {Paint(m) : m \in M}
             k == glCur[c]
             P(x) == [x EXCEPT !.mesa = Paints(@)]
             T == {P(x) : x \in glCtx[c][k]}
  <2>1. glCtx' = [glCtx EXCEPT ![c][k] = T] /\ glTag' = glTag BY <1>3 DEF WaitX, BindingKept
  <2> HIDE DEF n, Paint
  <2>2. \A M : M # {} => Paints(M) # {} OBVIOUS
  <2> HIDE DEF Paints
  <2>3. ASSUME k \in GlIds PROVE Kept(glCtx[c][k], T)
    <3>1. ASSUME NEW x \in glCtx[c][k]
          PROVE  /\ DOMAIN P(x) = DOMAIN x /\ P(x).tag = x.tag
                 /\ P(x).drw # GlNone => P(x).mesa # {} \/ P(x).refused
      <4>1. /\ DOMAIN x = {"tag", "drw", "refused", "mesa"}
            /\ x.drw # GlNone => x.mesa # {} \/ x.refused
        BY <2>3 DEF GlInv, Context
      <4> QED  BY <4>1, <2>2
    <3> HIDE DEF P
    <3> QED  BY <1>2, <2>3, <3>1 DEF Kept
  <2> HIDE DEF T, k
  <2>4. /\ DOMAIN glCtx' = GlClients
        /\ \A e \in GlClients : DOMAIN glCtx'[e] = GlIds
        /\ \A e \in GlClients, j \in GlIds :
             \/ glCtx'[e][j] = glCtx[e][j]
             \/ e = c /\ j = k /\ glCtx'[e][j] = T
    BY <2>1 DEF GlInv
  <2>5. \A e \in GlClients, j \in GlIds : Kept(glCtx[e][j], glCtx'[e][j]) BY <1>0, <2>3, <2>4
  <2> QED  BY <2>1, <2>4, <2>5, ContextsKept
<1>4. ASSUME NEW on, NEW g, Executes(c, on, g), glTag' = glTag PROVE GlInv'
  <2> DEFINE Calls(M) == {[Called(m, g) EXCEPT !.by = @ \cup {c}] : m \in M}
             P(x) == [x EXCEPT !.mesa = Calls(@)]
             T(e, j) == {P(x) : x \in glCtx[e][j]}
  <2>1. /\ DOMAIN glCtx' = GlClients
        /\ \A e \in GlClients : DOMAIN glCtx'[e] = GlIds
        /\ \A e \in GlClients, j \in GlIds :
             glCtx'[e][j] = glCtx[e][j] \/ glCtx'[e][j] = T(e, j)
    BY <1>4 DEF Executes
  <2>2. \A M : M # {} => Calls(M) # {} OBVIOUS
  <2> HIDE DEF Calls
  <2>3. ASSUME NEW e \in GlClients, NEW j \in GlIds
        PROVE  Kept(glCtx[e][j], T(e, j))
    <3>1. ASSUME NEW x \in glCtx[e][j]
          PROVE  /\ DOMAIN P(x) = DOMAIN x /\ P(x).tag = x.tag
                 /\ P(x).drw # GlNone => P(x).mesa # {} \/ P(x).refused
      <4>1. /\ DOMAIN x = {"tag", "drw", "refused", "mesa"}
            /\ x.drw # GlNone => x.mesa # {} \/ x.refused
        BY DEF GlInv, Context
      <4> QED  BY <4>1, <2>2
    <3> HIDE DEF P
    <3> QED  BY <1>2, <3>1 DEF Kept
  <2> HIDE DEF T
  <2>4. \A e \in GlClients, j \in GlIds : Kept(glCtx[e][j], glCtx'[e][j]) BY <1>0, <2>1, <2>3
  <2> QED  BY <1>4, <2>1, <2>4, ContextsKept
<1> QED  BY <1>1, <1>3, <1>4

(* All requests. *)
LEMMA GlStep ==
    ASSUME GlInv, GlNext
    PROVE  GlInv'
<1>1. PICK c \in GlClients :
        \/ GlContexts(c)
        \/ \E t \in GlThreads : GlCalls(c, t)
        \/ XDraws(c) \/ GlFlush(c) \/ \E n \in GlWidths : XResizes(c, n)
  BY DEF GlNext
<1>2. ASSUME UNCHANGED <<glCtx, glTag>> PROVE GlInv'
  BY <1>2 DEF GlInv
<1>3. CASE GlContexts(c)
  <2>1. ASSUME NEW k \in GlIds, NEW t \in GlThreads, CreateContext(c, k, t) \/ DestroyContext(c, k, t)
        PROVE  GlInv'
    BY <2>1, ContextsMade
  <2>2. ASSUME NEW k \in GlIds, NEW d \in GlDrawables, NEW t \in GlThreads, NEW ok \in BOOLEAN,
               DoMakeCurrent(c, k, d, t, ok)
        PROVE  GlInv'
    BY <2>2, ContextsUsed
  <2>3. ReleaseCurrent(c) \/ CreateGlxWindow(c) \/ CreateGlxPixmap(c)
          \/ CreatePbuffer(c) \/ DestroyGlxPixmap(c) => UNCHANGED <<glCtx, glTag>>
    BY DEF ReleaseCurrent, CreateGlxWindow, CreateGlxPixmap, CreatePbuffer,
           DestroyGlxPixmap, GlxDrawable
  <2> QED  BY <1>2, <1>3, <2>1, <2>2, <2>3 DEF GlContexts
<1>4. ASSUME NEW t \in GlThreads, GlCalls(c, t) PROVE GlInv'
  <2>1. ASSUME NEW m \in GlCommands, Render(c, t, m[1], m[2]) PROVE GlInv'
    <3>1. /\ Executes(c, EnsureCurrent(c, t), Command(m[1], m[2]))
          /\ glTag' = glTag
      BY <2>1 DEF Render, BindingKept
    <3> QED  BY <3>1, ContextsUsed
  <2>2. CASE Single(c, t)
    <3>1. Executes(c, EnsureCurrent(c, t), Lists(FALSE)) /\ glTag' = glTag
      BY <2>2 DEF Single, BindingKept
    <3> QED  BY <3>1, ContextsUsed
  <2>3. CASE UseXFont(c, t)
    <3>1. Executes(c, glThread[t], Lists(TRUE)) /\ glTag' = glTag BY <2>3 DEF UseXFont, BindingKept
    <3> QED  BY <3>1, ContextsUsed
  <2>4. CASE WaitX(c, t) BY <2>4, ContextsUsed
  <2>5. CASE WaitGL(c, t) \/ \E d \in {"w", "g"} : SwapBuffers(c, d, t)
    <3>1. UNCHANGED <<glCtx, glTag>> BY <2>5 DEF WaitGL, SwapBuffers, BindingKept
    <3> QED  BY <1>2, <3>1
  <2> QED  BY <1>4, <2>1, <2>2, <2>3, <2>4, <2>5 DEF GlCalls
<1>5. XDraws(c) \/ GlFlush(c) \/ (\E n \in GlWidths : XResizes(c, n))
        => UNCHANGED <<glCtx, glTag>>
  BY DEF XDraws, GlFlush, XResizes, BindingKept
<1> QED  BY <1>1, <1>2, <1>3, <1>4, <1>5

(***************************************************************************)
(* SYNC.  A request is handled only while nothing is waited for, so only   *)
(* the frontend and the frame timer act on waits.  An alarm that has no    *)
(* delta and is still active has not been told of.                         *)
(***************************************************************************)
WaitInv ==
    /\ DOMAIN syCnt = SyCounters
    /\ \A w \in syAwaits : \A t \in w : t.cnt \in SyCounters
    /\ WaitsJustified

Alarm(S, told) ==
    /\ told \in Nat
    /\ \A x, y \in S : x = y
    /\ \A x \in S :
         /\ DOMAIN x = {"cnt", "val", "test", "delta", "events", "active"}
         /\ x.delta = 0 => told <= 1
         /\ x.delta = 0 /\ x.active => told = 0

AlarmInv ==
    /\ DOMAIN syAlarm = SyAlarms /\ DOMAIN syTold = SyAlarms
    /\ \A a \in SyAlarms : Alarm(syAlarm[a], syTold[a])

SyInv == WaitInv /\ AlarmInv

(* What a request leaves when it does not wait: nothing is waited for. *)
LEMMA NothingAwaited ==
    ASSUME WaitInv, ~syBlocked, DOMAIN syCnt' = SyCounters, ~syBlocked',
           syAwaits' \subseteq syAwaits, syFenceAwaits' \subseteq syFenceAwaits
    PROVE  WaitInv'
<1>1. syAwaits = {} /\ syFenceAwaits = {} BY DEF WaitInv, WaitsJustified
<1>2. syAwaits' = {} /\ syFenceAwaits' = {} BY <1>1
<1> QED  BY <1>2 DEF WaitInv, WaitsJustified

(* Requests on counters, fences and alarms. *)
LEMMA RequestsDoNotWait ==
    ASSUME WaitInv,
           \/ \E a \in SyAlarms : \E x \in AlarmsToMake : CreateAlarm(a, x)
           \/ \E a \in SyAlarms : DestroyAlarm(a) \/ \E d \in SyDeltas : ChangeAlarm(a, d)
           \/ \E i \in SyCounters :
                  \/ \E v \in {0, 3} : CreateCounter(i, v) \/ SetCounter(i, v)
                  \/ \E d \in SyDeltas : ChangeCounter(i, d)
                  \/ DestroyCounter(i)
           \/ \E f \in SyFences : TriggerFence(f) \/ ResetFence(f) \/ DestroyFence(f)
                                  \/ \E b \in BOOLEAN : CreateFence(f, b)
    PROVE  WaitInv'
<1>0. DOMAIN syCnt = SyCounters BY DEF WaitInv
<1>1. ASSUME NEW a, (\E x : CreateAlarm(a, x)) \/ DestroyAlarm(a) \/ \E d : ChangeAlarm(a, d)
      PROVE  WaitInv'
  <2>1. ~syBlocked /\ UNCHANGED <<syCnt, syAwaits, syFenceAwaits, syBlocked>>
    BY <1>1 DEF CreateAlarm, DestroyAlarm, ChangeAlarm, SyRequest
  <2> QED  BY <1>0, <2>1, NothingAwaited
<1>2. ASSUME NEW i \in SyCounters, NEW v, CreateCounter(i, v) PROVE WaitInv'
  <2>1. /\ ~syBlocked /\ UNCHANGED <<syAwaits, syFenceAwaits, syBlocked>>
        /\ DOMAIN syCnt' = DOMAIN syCnt
    BY <1>2 DEF CreateCounter, SyRequest
  <2> QED  BY <1>0, <2>1, NothingAwaited
<1>3. ASSUME NEW i \in SyCounters, NEW v, CounterSet(i, v) PROVE WaitInv'
  <2>1. /\ ~syBlocked /\ ~syBlocked' /\ UNCHANGED syFenceAwaits
        /\ DOMAIN syCnt' = DOMAIN syCnt /\ syAwaits' \subseteq syAwaits
    BY <1>3 DEF CounterSet, SyRequest, CheckPendingAwaits, LetGo, StillWaiting
  <2> QED  BY <1>0, <2>1, NothingAwaited
<1>4. ASSUME NEW i \in SyCounters, DestroyCounter(i) PROVE WaitInv'
  <2>1. /\ ~syBlocked /\ ~syBlocked' /\ UNCHANGED syFenceAwaits
        /\ DOMAIN syCnt' = DOMAIN syCnt /\ syAwaits' \subseteq syAwaits
    BY <1>4 DEF DestroyCounter, SyRequest, LetGo
  <2> QED  BY <1>0, <2>1, NothingAwaited
<1>5. ASSUME NEW f \in SyFences,
             TriggerFence(f) \/ ResetFence(f) \/ DestroyFence(f)
             \/ \E b \in BOOLEAN : CreateFence(f, b)
      PROVE  WaitInv'
  <2>1. /\ ~syBlocked /\ ~syBlocked' /\ UNCHANGED <<syCnt, syAwaits>>
        /\ syFenceAwaits' \subseteq syFenceAwaits
    <3>1. CASE TriggerFence(f) BY <3>1 DEF TriggerFence, FencesSet, SyRequest, LetGo, StillFenced
    <3>2. CASE ResetFence(f) BY <3>2 DEF ResetFence, FencesSet, SyRequest
    <3>3. CASE DestroyFence(f) BY <3>3 DEF DestroyFence, FencesSet, SyRequest, LetGo
    <3>4. ASSUME NEW b \in BOOLEAN, CreateFence(f, b)
          PROVE  ~syBlocked /\ ~syBlocked' /\ UNCHANGED <<syCnt, syAwaits, syFenceAwaits>>
      BY <3>4 DEF CreateFence, FencesSet, SyRequest
    <3> QED  BY <1>5, <3>1, <3>2, <3>3, <3>4
  <2>2. DOMAIN syCnt' = SyCounters /\ syAwaits' \subseteq syAwaits BY <1>0, <2>1
  <2> QED  BY <2>1, <2>2, NothingAwaited
<1> QED  BY <1>1, <1>2, <1>3, <1>4, <1>5 DEF SetCounter, ChangeCounter

(* The two Await requests: a wait is added only when nothing it names has come. *)
LEMMA AwaitsWait ==
    ASSUME WaitInv,
           \/ \E t, u \in SyTriggers : Await({t, u})
           \/ \E w \in SUBSET SyFences : w # {} /\ AwaitFence(w)
    PROVE  WaitInv'
<1>0. ~syBlocked => syAwaits = {} /\ syFenceAwaits = {} BY DEF WaitInv, WaitsJustified
<1>1. ASSUME NEW t \in SyTriggers, NEW u \in SyTriggers, Await({t, u}) PROVE WaitInv'
  <2>1. /\ ~syBlocked /\ UNCHANGED <<syCnt, syFence, syFenceAwaits, syTime, syStale>>
        /\ sySeen' = syTime
    BY <1>1 DEF Await, SyRequest
  <2>2. CASE \E z \in {t, u} : SatisfiedNow(z, syCnt, syTime)
    <3>1. UNCHANGED <<syAwaits, syBlocked>> BY <1>1, <2>2 DEF Await
    <3> QED  BY <2>1, <3>1, NothingAwaited DEF WaitInv
  <2>3. CASE ~\E z \in {t, u} : SatisfiedNow(z, syCnt, syTime)
    <3>1. syAwaits' = {{t, u}} /\ syBlocked' = TRUE /\ syFenceAwaits' = {}
      BY <1>0, <1>1, <2>1, <2>3 DEF Await
    <3>2. t.cnt \in SyCounters /\ u.cnt \in SyCounters BY DEF SyTriggers
    <3>3. \A z \in {t, u} : ~SatisfiedNow(z, syCnt', sySeen') BY <2>1, <2>3
    <3> QED  BY <2>1, <3>1, <3>2, <3>3 DEF WaitInv, WaitsJustified
  <2> QED  BY <2>2, <2>3
<1>2. ASSUME NEW w \in SUBSET SyFences, AwaitFence(w) PROVE WaitInv'
  <2>1. ~syBlocked /\ UNCHANGED <<syCnt, syFence, syAwaits, sySeen, syStale>>
    BY <1>2 DEF AwaitFence, SyRequest
  <2>2. CASE \E f \in w : TRUE \in syFence[f]
    <3>1. UNCHANGED <<syFenceAwaits, syBlocked>> BY <1>2, <2>2 DEF AwaitFence
    <3> QED  BY <2>1, <3>1, NothingAwaited DEF WaitInv
  <2>3. CASE ~\E f \in w : TRUE \in syFence[f]
    <3>1. syFenceAwaits' = {w} /\ syBlocked' = TRUE /\ syAwaits' = {}
      BY <1>0, <1>2, <2>1, <2>3 DEF AwaitFence
    <3> QED  BY <2>1, <2>3, <3>1 DEF WaitInv, WaitsJustified
  <2> QED  BY <2>2, <2>3
<1> QED  BY <1>1, <1>2

(* What happens behind a stopped connection. *)
LEMMA OutsideKeepsWaits ==
    ASSUME WaitInv, (\E i \in SyCounters : FrontendResizes(i)) \/ SyClock \/ SyTick
    PROVE  WaitInv'
<1>1. ASSUME NEW i \in SyCounters, FrontendResizes(i) PROVE WaitInv'
  <2>1. /\ UNCHANGED <<syFence, syAwaits, syFenceAwaits, syBlocked, sySeen>>
        /\ DOMAIN syCnt' = SyCounters /\ syStale' = syStale \cup {i}
        /\ \A j \in SyCounters : j # i => syCnt'[j] = syCnt[j]
    BY <1>1 DEF FrontendResizes, WaitInv
  <2>2. ASSUME NEW w \in syAwaits, NEW t \in w, SatisfiedNow(t, syCnt', sySeen)
        PROVE  t.cnt \in syStale'
    <3>1. CASE t.cnt = i BY <2>1, <3>1
    <3>2. CASE t.cnt # i
      <4>1. t.cnt \in SyCounters BY DEF WaitInv
      <4>2. syCnt'[t.cnt] = syCnt[t.cnt] BY <2>1, <3>2, <4>1
      <4>3. SatisfiedNow(t, syCnt, sySeen) BY <2>2, <4>2 DEF SatisfiedNow, ValueOf
      <4> QED  BY <2>1, <4>3 DEF WaitInv, WaitsJustified
    <3> QED  BY <3>1, <3>2
  <2> QED  BY <2>1, <2>2 DEF WaitInv, WaitsJustified
<1>2. CASE SyClock
  <2>1. UNCHANGED <<syCnt, syFence, syAwaits, syFenceAwaits, syBlocked, sySeen, syStale>>
    BY <1>2 DEF SyClock
  <2> QED  BY <2>1 DEF WaitInv, WaitsJustified
<1>3. CASE SyTick
  <2>1. DOMAIN syCnt' = SyCounters /\ sySeen' = syTime /\ syStale' = {} /\ syFence' = syFence
    BY <1>3 DEF SyTick, WaitInv
  <2>2. CASE syBlocked
    <3>1. /\ syAwaits' = StillWaiting(syCnt', syTime)
          /\ syFenceAwaits' = StillFenced(syFence)
          /\ syBlocked' = LetGo(syAwaits', syFenceAwaits')
      BY <1>3, <2>2 DEF SyTick
    <3>2. syBlocked' <=> syAwaits' \cup syFenceAwaits' # {}
      BY <2>2, <3>1 DEF LetGo, WaitInv, WaitsJustified
    <3>3. syAwaits' \subseteq syAwaits
            /\ \A w \in syAwaits' : \A t \in w : ~SatisfiedNow(t, syCnt', sySeen')
      BY <2>1, <3>1 DEF StillWaiting
    <3>4. \A w \in syFenceAwaits' : \A f \in w : TRUE \notin syFence'[f]
      BY <2>1, <3>1 DEF StillFenced
    <3> QED  BY <2>1, <3>2, <3>3, <3>4 DEF WaitInv, WaitsJustified
  <2>3. CASE ~syBlocked
    <3>1. UNCHANGED <<syAwaits, syFenceAwaits, syBlocked>> BY <1>3, <2>3 DEF SyTick
    <3> QED  BY <2>1, <2>3, <3>1, NothingAwaited
  <2> QED  BY <2>2, <2>3
<1> QED  BY <1>1, <1>2, <1>3

(* check_alarms: an alarm without a delta that is told of is done. *)
LEMMA FiringOnce ==
    ASSUME AlarmInv, NEW i, NEW old, NEW new, CheckAlarms(i, old, new)
    PROVE  AlarmInv'
<1> DEFINE t == Triggered(i, old, new)
           F(S) == {AfterFiring(x) : x \in S}
<1>1. /\ DOMAIN syAlarm' = SyAlarms /\ DOMAIN syTold' = SyAlarms
      /\ \A a \in SyAlarms :
           IF a \in t THEN syAlarm'[a] = F(syAlarm[a]) /\ syTold'[a] = syTold[a] + 1
           ELSE syAlarm'[a] = syAlarm[a] /\ syTold'[a] = syTold[a]
  BY DEF CheckAlarms
<1>2. ASSUME NEW a \in SyAlarms, a \in t PROVE Alarm(F(syAlarm[a]), syTold[a] + 1)
  <2>1. Alarm(syAlarm[a], syTold[a]) BY DEF AlarmInv
  <2>2. PICK x \in syAlarm[a] : x.active
    BY <1>2 DEF Triggered
  <2>3. syAlarm[a] = {x} BY <2>1, <2>2 DEF Alarm
  <2> DEFINE y == AfterFiring(x)
  <2>4. F(syAlarm[a]) = {y} BY <2>3
  <2>5. /\ DOMAIN x = {"cnt", "val", "test", "delta", "events", "active"}
        /\ syTold[a] \in Nat /\ (x.delta = 0 => syTold[a] = 0)
    BY <2>1, <2>2 DEF Alarm
  <2>6. /\ DOMAIN y = DOMAIN x /\ y.delta = x.delta
        /\ x.delta = 0 => y.active = FALSE
    BY <2>5 DEF AfterFiring
  <2> HIDE DEF y, F
  <2> QED  BY <2>4, <2>5, <2>6 DEF Alarm
<1> HIDE DEF t, F
<1> QED  BY <1>1, <1>2 DEF AlarmInv

LEMMA AlarmsStep ==
    ASSUME AlarmInv, SyNext
    PROVE  AlarmInv'
<1>0. ASSUME AlarmsKept PROVE AlarmInv'
  BY <1>0 DEF AlarmsKept, AlarmInv
<1>1. ASSUME NEW a \in SyAlarms, NEW S, Alarm(S, 0),
             syAlarm' = [syAlarm EXCEPT ![a] = S], syTold' = [syTold EXCEPT ![a] = 0]
      PROVE  AlarmInv'
  BY <1>1 DEF AlarmInv
<1>2. ASSUME NEW a \in SyAlarms, NEW x \in AlarmsToMake, CreateAlarm(a, x) PROVE AlarmInv'
  <2>1. Alarm({x}, 0) BY DEF Alarm, AlarmsToMake
  <2> QED  BY <1>1, <1>2, <2>1 DEF CreateAlarm
<1>3. ASSUME NEW a \in SyAlarms, DestroyAlarm(a) PROVE AlarmInv'
  <2>1. Alarm({}, 0) BY DEF Alarm
  <2> QED  BY <1>1, <1>3, <2>1 DEF DestroyAlarm
<1>4. ASSUME NEW a \in SyAlarms, NEW d \in SyDeltas, ChangeAlarm(a, d) PROVE AlarmInv'
  <2> DEFINE C(x) == [x EXCEPT !.delta = d, !.active = TRUE]
             S == {C(x) : x \in syAlarm[a]}
  <2>1. syAlarm' = [syAlarm EXCEPT ![a] = S] /\ syTold' = [syTold EXCEPT ![a] = 0]
    BY <1>4 DEF ChangeAlarm
  <2>2. \A x \in syAlarm[a] : DOMAIN C(x) = DOMAIN x OBVIOUS
  <2> HIDE DEF C
  <2>3. Alarm(S, 0) BY <2>2 DEF AlarmInv, Alarm
  <2> HIDE DEF S
  <2> QED  BY <1>1, <2>1, <2>3
<1>5. ASSUME NEW i \in SyCounters, DestroyCounter(i) PROVE AlarmInv'
  <2> DEFINE C(x) == [x EXCEPT !.active = @ /\ x.cnt # i]
  <2>1. syAlarm' = [a \in SyAlarms |-> {C(x) : x \in syAlarm[a]}] /\ syTold' = syTold
    BY <1>5 DEF DestroyCounter
  <2>2. ASSUME NEW a \in SyAlarms, NEW x \in syAlarm[a]
        PROVE  DOMAIN C(x) = DOMAIN x /\ C(x).delta = x.delta /\ (C(x).active => x.active)
    <3>1. DOMAIN x = {"cnt", "val", "test", "delta", "events", "active"} BY DEF AlarmInv, Alarm
    <3> QED  BY <3>1
  <2> HIDE DEF C
  <2>3. ASSUME NEW a \in SyAlarms PROVE Alarm({C(x) : x \in syAlarm[a]}, syTold[a])
    BY <2>2 DEF AlarmInv, Alarm
  <2> QED  BY <2>1, <2>3 DEF AlarmInv
<1>6. ASSUME NEW i \in SyCounters, NEW v, CounterSet(i, v) PROVE AlarmInv'
  <2>1. CheckAlarms(i, ValueOf(syCnt, i), v) BY <1>6 DEF CounterSet
  <2> QED  BY <2>1, FiringOnce
<1>7. CASE SyTick
  <2>1. AlarmsKept \/ CheckAlarms(SyTimeId, SyThe(syCnt[SyTimeId]), syTime) BY <1>7 DEF SyTick
  <2> QED  BY <1>0, <2>1, FiringOnce
<1>8. ASSUME \/ \E i \in SyCounters : FrontendResizes(i) \/ \E v \in {0, 3} : CreateCounter(i, v)
             \/ \E t, u \in SyTriggers : Await({t, u})
             \/ \E f \in SyFences : TriggerFence(f) \/ ResetFence(f) \/ DestroyFence(f)
                                    \/ \E b \in BOOLEAN : CreateFence(f, b)
             \/ \E w \in SUBSET SyFences : w # {} /\ AwaitFence(w)
             \/ SyClock
      PROVE  AlarmsKept
  <2>1. ASSUME NEW i \in SyCounters, FrontendResizes(i) \/ \E v \in {0, 3} : CreateCounter(i, v)
        PROVE  AlarmsKept
    BY <2>1 DEF FrontendResizes, CreateCounter
  <2>2. ASSUME NEW w, Await(w) \/ AwaitFence(w) PROVE AlarmsKept
    BY <2>2 DEF Await, AwaitFence
  <2>3. ASSUME NEW f \in SyFences, TriggerFence(f) \/ ResetFence(f) \/ DestroyFence(f)
                                   \/ \E b \in BOOLEAN : CreateFence(f, b)
        PROVE  AlarmsKept
    BY <2>3 DEF TriggerFence, ResetFence, DestroyFence, CreateFence, FencesSet
  <2>4. SyClock => AlarmsKept BY DEF SyClock, AlarmsKept
  <2> QED  BY <1>8, <2>1, <2>2, <2>3, <2>4
<1> QED  BY <1>0, <1>2, <1>3, <1>4, <1>5, <1>6, <1>7, <1>8 DEF SyNext, SetCounter, ChangeCounter

LEMMA SyStep ==
    ASSUME SyInv, SyNext
    PROVE  SyInv'
<1>1. AlarmInv' BY AlarmsStep DEF SyInv
<1>2. WaitInv' BY RequestsDoNotWait, AwaitsWait, OutsideKeepsWaits DEF SyInv, SyNext
<1> QED  BY <1>1, <1>2 DEF SyInv

(* The frame of a step of another component. *)
LEMMA SyUntouched ==
    ASSUME SyInv, UNCHANGED syVars
    PROVE  SyInv'
<1>1. UNCHANGED <<syCnt, syAlarm, syFence, syAwaits, syFenceAwaits, syBlocked, sySeen, syTold,
                  syStale>>
  BY DEF syVars
<1> QED  BY <1>1 DEF SyInv, WaitInv, WaitsJustified, AlarmInv

(***************************************************************************)
(* Colormaps and cursors.  A table has four cells, so the cardinality of a *)
(* set of cells is a sum of four bits.                                     *)
(***************************************************************************)
Colormaps == [class : VisualClasses, entry : [ClCells -> 0..15], next : ClCells,
              alloc : SUBSET ClCells]

Bit(S, i) == IF i \in S THEN 1 ELSE 0

LEMMA CellCount ==
    ASSUME NEW S \in SUBSET ClCells
    PROVE  Cardinality(S) = Bit(S, 0) + Bit(S, 1) + Bit(S, 2) + Bit(S, 3)
<1> DEFINE S1 == S \cap {0}
           S2 == S \cap {0, 1}
           S3 == S \cap {0, 1, 2}
<1>0. IsFiniteSet({}) /\ Cardinality({}) = 0 BY FS_EmptySet
<1>1. IsFiniteSet(S1) /\ Cardinality(S1) = Bit(S, 0)
  <2>1. S1 = IF 0 \in S THEN {} \cup {0} ELSE {} OBVIOUS
  <2>2. IsFiniteSet({} \cup {0}) /\ Cardinality({} \cup {0}) = 1 BY <1>0, FS_AddElement
  <2> HIDE DEF S1
  <2> QED  BY <1>0, <2>1, <2>2 DEF Bit
<1>2. IsFiniteSet(S2) /\ Cardinality(S2) = Bit(S, 0) + Bit(S, 1)
  <2>1. S2 = IF 1 \in S THEN S1 \cup {1} ELSE S1 OBVIOUS
  <2>2. 1 \notin S1 /\ Bit(S, 0) \in Int BY DEF Bit
  <2> HIDE DEF S1, S2
  <2> QED  BY <1>1, <2>1, <2>2, FS_AddElement DEF Bit
<1>3. IsFiniteSet(S3) /\ Cardinality(S3) = Bit(S, 0) + Bit(S, 1) + Bit(S, 2)
  <2>1. S3 = IF 2 \in S THEN S2 \cup {2} ELSE S2 OBVIOUS
  <2>2. 2 \notin S2 /\ Bit(S, 0) \in Int /\ Bit(S, 1) \in Int BY DEF Bit
  <2> HIDE DEF S2, S3
  <2> QED  BY <1>2, <2>1, <2>2, FS_AddElement DEF Bit
<1>4. S = IF 3 \in S THEN S3 \cup {3} ELSE S3
  <2>1. \A i \in S : i \in {0, 1, 2, 3} BY DEF ClCells
  <2> QED  BY <2>1
<1>5. 3 \notin S3 /\ Bit(S, 0) \in Int /\ Bit(S, 1) \in Int /\ Bit(S, 2) \in Int BY DEF Bit
<1> HIDE DEF S3
<1>6. CASE 3 \in S
  <2>1. Cardinality(S3 \cup {3}) = Cardinality(S3) + 1 BY <1>3, <1>5, FS_AddElement
  <2> QED  BY <1>3, <1>4, <1>5, <1>6, <2>1 DEF Bit
<1>7. CASE 3 \notin S BY <1>3, <1>4, <1>5, <1>7 DEF Bit
<1> QED  BY <1>6, <1>7

(* A set of cells that is not empty has a least one. *)
LEMMA LeastCellIn ==
    ASSUME NEW S \in SUBSET ClCells, S # {}
    PROVE  LeastCell(S) \in S
<1>1. \E i \in S : \A j \in S : i <= j
  <2>1. CASE 0 \in S BY <2>1 DEF ClCells
  <2>2. CASE 0 \notin S /\ 1 \in S BY <2>2 DEF ClCells
  <2>3. CASE 0 \notin S /\ 1 \notin S /\ 2 \in S BY <2>3 DEF ClCells
  <2>4. CASE 0 \notin S /\ 1 \notin S /\ 2 \notin S
    <3>1. \A i \in S : i = 3 BY <2>4 DEF ClCells
    <3>2. 3 \in S /\ \A j \in S : 3 <= j BY <3>1
    <3> QED  BY <3>2
  <2> QED  BY <2>1, <2>2, <2>3, <2>4
<1> QED  BY <1>1 DEF LeastCell

(* The first n free cells are n, or all of them. *)
LEMMA FirstFreeCount ==
    ASSUME NEW c \in Colormaps, NEW n \in 1..5
    PROVE  /\ FirstFree(c, n) \subseteq ClCells \ c.alloc
           /\ Cardinality(FirstFree(c, n)) < n => Cardinality(ClCells \ c.alloc) < n
           /\ Cardinality(FirstFree(c, n)) \in Nat /\ Cardinality(FirstFree(c, n)) <= n
<1> DEFINE S == ClCells \ c.alloc
           F == FirstFree(c, n)
           L(i) == {j \in S : j < i}
<1>1. /\ Cardinality(L(0)) = 0 /\ Cardinality(L(1)) = Bit(S, 0)
      /\ Cardinality(L(2)) = Bit(S, 0) + Bit(S, 1)
      /\ Cardinality(L(3)) = Bit(S, 0) + Bit(S, 1) + Bit(S, 2)
  <2>1. \A i \in ClCells : Cardinality(L(i)) =
            Bit(L(i), 0) + Bit(L(i), 1) + Bit(L(i), 2) + Bit(L(i), 3)
    BY CellCount
  <2>2. \A i \in ClCells, j \in ClCells : Bit(L(i), j) = IF j < i THEN Bit(S, j) ELSE 0 BY DEF Bit
  <2>3. \A j \in ClCells : Bit(S, j) \in Int BY DEF Bit
  <2> HIDE DEF L, S
  <2>4. 0 \in ClCells /\ 1 \in ClCells /\ 2 \in ClCells /\ 3 \in ClCells BY DEF ClCells
  <2>5. Cardinality(L(0)) = 0 BY <2>1, <2>2, <2>3, <2>4
  <2>6. Cardinality(L(1)) = Bit(S, 0) BY <2>1, <2>2, <2>3, <2>4
  <2>7. Cardinality(L(2)) = Bit(S, 0) + Bit(S, 1) BY <2>1, <2>2, <2>3, <2>4
  <2>8. Cardinality(L(3)) = Bit(S, 0) + Bit(S, 1) + Bit(S, 2) BY <2>1, <2>2, <2>3, <2>4
  <2> QED  BY <2>5, <2>6, <2>7, <2>8
<1>2. \A i \in ClCells : i \in F <=> i \in S /\ Cardinality(L(i)) < n BY DEF FirstFree
<1>3. F \in SUBSET ClCells /\ S \in SUBSET ClCells /\ F \subseteq S BY DEF FirstFree
<1>4. /\ Cardinality(F) = Bit(F, 0) + Bit(F, 1) + Bit(F, 2) + Bit(F, 3)
      /\ Cardinality(S) = Bit(S, 0) + Bit(S, 1) + Bit(S, 2) + Bit(S, 3)
  BY <1>3, CellCount
<1> HIDE DEF F, S, L
<1>5. /\ 0 \in F <=> 0 \in S /\ 0 < n
      /\ 1 \in F <=> 1 \in S /\ Bit(S, 0) < n
      /\ 2 \in F <=> 2 \in S /\ Bit(S, 0) + Bit(S, 1) < n
      /\ 3 \in F <=> 3 \in S /\ Bit(S, 0) + Bit(S, 1) + Bit(S, 2) < n
  BY <1>1, <1>2 DEF ClCells
<1>6. /\ Cardinality(F) \in Nat /\ Cardinality(F) <= n
      /\ Cardinality(F) < n => Cardinality(S) < n
  BY <1>4, <1>5 DEF Bit
<1> QED  BY <1>3, <1>6 DEF F, S

(* alloc_cells and alloc_cells_contiguous, on any colormap. *)
LEMMA CellsHandedOut ==
    ASSUME NEW c \in Colormaps, NEW n \in 1..5, Writable(c)
    PROVE  LET free == ClCells \ c.alloc
               sound(r) == \/ r.got = {} /\ r.map = c
                           \/ \E cells \in r.got : /\ Cardinality(cells) = n /\ cells \subseteq free
                                                   /\ r.map.alloc = c.alloc \cup cells
               a == AllocCells(c, n)
               b == AllocCellsContiguous(c, n)
           IN  /\ sound(a) /\ (a.got = {} => Cardinality(free) < n)
               /\ sound(b) /\ (b.got = {} => \A s \in ClCells :
                                  s + n > 4 \/ ~ (s..(s + n - 1) \subseteq free))
<1> DEFINE free == ClCells \ c.alloc
           sound(r) == \/ r.got = {} /\ r.map = c
                       \/ \E cells \in r.got : /\ Cardinality(cells) = n /\ cells \subseteq free
                                               /\ r.map.alloc = c.alloc \cup cells
           a == AllocCells(c, n)
           b == AllocCellsContiguous(c, n)
<1>1. sound(a) /\ (a.got = {} => Cardinality(free) < n)
  <2> DEFINE cells == FirstFree(c, n)
             marked == [c EXCEPT !.alloc = @ \cup cells]
  <2>1. /\ cells \subseteq free /\ Cardinality(cells) \in Nat /\ Cardinality(cells) <= n
        /\ Cardinality(cells) < n => Cardinality(free) < n
    BY FirstFreeCount
  <2>2. CASE Cardinality(cells) < n
    <3>1. a = [map |-> [marked EXCEPT !.alloc = @ \ cells], got |-> {}] BY <2>2 DEF AllocCells
    <3> HIDE DEF cells
    <3>2. [marked EXCEPT !.alloc = @ \ cells] = c BY <2>1 DEF Colormaps
    <3> HIDE DEF a, free, marked
    <3> QED  BY <2>1, <2>2, <3>1, <3>2
  <2>3. CASE ~(Cardinality(cells) < n)
    <3>1. a = [map |-> marked, got |-> {cells}] BY <2>3 DEF AllocCells
    <3>2. Cardinality(cells) = n BY <2>1, <2>3
    <3> HIDE DEF cells
    <3>3. marked.alloc = c.alloc \cup cells BY DEF Colormaps
    <3> HIDE DEF a, free, marked
    <3> QED  BY <2>1, <3>1, <3>2, <3>3
  <2> QED  BY <2>2, <2>3
<1>2. sound(b) /\ (b.got = {} => \A s \in ClCells :
                      s + n > 4 \/ ~ (s..(s + n - 1) \subseteq free))
  <2> DEFINE starts == {s \in ClCells : s + n <= 4 /\ s..(s + n - 1) \cap c.alloc = {}}
             s0 == LeastCell(starts)
             run == s0..(s0 + n - 1)
  <2>1. CASE starts = {}
    <3>1. b = [map |-> c, got |-> {}] BY <2>1 DEF AllocCellsContiguous
    <3>2. \A s \in ClCells : s + n > 4 \/ ~ (s..(s + n - 1) \subseteq free)
      <4> SUFFICES ASSUME NEW s \in ClCells, s..(s + n - 1) \subseteq free PROVE s + n > 4
        OBVIOUS
      <4>1. s..(s + n - 1) \cap c.alloc = {} OBVIOUS
      <4>2. ~(s + n <= 4) BY <2>1, <4>1
      <4> QED  BY <4>2 DEF ClCells
    <3> HIDE DEF b, free
    <3> QED  BY <3>1, <3>2
  <2>2. CASE starts # {}
    <3>1. s0 \in starts BY <2>2, LeastCellIn
    <3>2. b = [map |-> [c EXCEPT !.alloc = @ \cup run], got |-> {run}]
      BY <2>2 DEF AllocCellsContiguous
    <3>3. s0 \in ClCells /\ s0 + n <= 4 /\ run \cap c.alloc = {} BY <3>1
    <3> HIDE DEF s0, starts
    <3>4. Cardinality(run) = n BY <3>3, FS_Interval DEF ClCells
    <3>5. run \subseteq free BY <3>3 DEF ClCells
    <3> HIDE DEF run
    <3>6. [c EXCEPT !.alloc = @ \cup run].alloc = c.alloc \cup run BY DEF Colormaps
    <3> HIDE DEF b, free
    <3> QED  BY <3>2, <3>4, <3>5, <3>6
  <2> QED  BY <2>1, <2>2
<1> QED  BY <1>1, <1>2

(* Some cell of a table is nearest to a colour. *)
LEMMA NearestIs ==
    ASSUME NEW c \in Colormaps, NEW v \in 0..15
    PROVE  /\ Nearest(c, v) \in ClCells
           /\ \A j \in ClCells :
                Distance(v, c.entry[Nearest(c, v)]) <= Distance(v, c.entry[j])
<1> DEFINE d(i) == Distance(v, c.entry[i])
           S == {i \in ClCells : \A j \in ClCells : d(i) <= d(j)}
<1>1. \A i \in ClCells : d(i) \in Int BY DEF Distance, Colormaps
<1> HIDE DEF d
<1>2. S # {}
  <2>1. d(0) \in Int /\ d(1) \in Int /\ d(2) \in Int /\ d(3) \in Int BY <1>1 DEF ClCells
  <2>2. PICK i \in {0, 1, 2, 3} : d(i) <= d(0) /\ d(i) <= d(1) /\ d(i) <= d(2) /\ d(i) <= d(3)
    BY <2>1
  <2>3. i \in S BY <2>2 DEF ClCells
  <2> QED  BY <2>3
<1>3. Nearest(c, v) = LeastCell(S) BY DEF Nearest, d
<1>4. LeastCell(S) \in S BY <1>2, LeastCellIn
<1> QED  BY <1>3, <1>4 DEF d

(* The search that starts at next meets every cell. *)
LEMMA SearchMeetsAll ==
    ASSUME NEW c \in Colormaps
    PROVE  {k \in ClCells : (c.next + k) % 4 \notin c.alloc} = {} <=> c.alloc = ClCells
<1>1. \A k \in ClCells : (c.next + k) % 4 \in ClCells BY DEF Colormaps, ClCells
<1>2. ASSUME NEW i \in ClCells PROVE \E k \in ClCells : (c.next + k) % 4 = i
  <2>1. c.next \in {0, 1, 2, 3} /\ i \in {0, 1, 2, 3} BY DEF Colormaps, ClCells
  <2>2. CASE i >= c.next
    <3>1. i - c.next \in ClCells /\ (c.next + (i - c.next)) % 4 = i BY <2>1, <2>2 DEF ClCells
    <3> QED  BY <3>1
  <2>3. CASE i < c.next
    <3>1. i + 4 - c.next \in ClCells /\ (c.next + (i + 4 - c.next)) % 4 = i
      BY <2>1, <2>3 DEF ClCells
    <3> QED  BY <3>1
  <2> QED  BY <2>1, <2>2, <2>3
<1>3. c.alloc \subseteq ClCells BY DEF Colormaps
<1> QED  BY <1>1, <1>2, <1>3

LEMMA Wraps == \A i \in ClCells, j \in ClCells : (i + j) % 4 \in ClCells
  BY DEF ClCells

(* alloc_color on any colormap: what it grants, and that it leaves a colormap. *)
LEMMA ColourGranted ==
    ASSUME NEW c \in Colormaps, NEW v \in 0..15
    PROVE  LET r == AllocColor(c, v)
           IN  CASE c.class = "true_color" -> \A p \in r.got : Distance(Lookup(r.map, p), v) < 4
                 [] c.class \in {"static_gray", "static_color"} ->
                      \A p \in r.got, i \in ClCells : Distance(c.entry[p], v) <= Distance(c.entry[i], v)
                 [] c.class = "direct_color" -> \A p \in r.got :
                      Distance(Lookup(r.map, p), v) < 5 \/ c.entry[p] # InitialEntry(c.class)[p]
                 [] OTHER -> /\ \A p \in r.got : Lookup(r.map, p) = v /\ p \in r.map.alloc
                             /\ (r.got = {}) = (c.alloc = ClCells /\ \A i \in ClCells : c.entry[i] # v)
<1> DEFINE r == AllocColor(c, v)
           same == {i \in c.alloc : c.entry[i] = v}
           free == {k \in ClCells : (c.next + k) % 4 \notin c.alloc}
           i0 == (c.next + LeastCell(free)) % 4
<1>1. CASE c.class = "true_color"
  <2>1. r = [map |-> c, got |-> {v \div 4}] BY <1>1 DEF AllocColor
  <2>2. Lookup(c, v \div 4) = (v \div 4) * 5 BY <1>1 DEF Lookup
  <2>3. Distance((v \div 4) * 5, v) < 4 BY DEF Distance
  <2>4. \A p \in r.got : Distance(Lookup(r.map, p), v) < 4 BY <2>1, <2>2, <2>3
  <2> QED  BY <1>1, <2>4
<1>2. CASE c.class \in {"static_gray", "static_color"}
  <2>1. r = [map |-> c, got |-> {Nearest(c, v)}] BY <1>2 DEF AllocColor
  <2>2. \A i \in ClCells : Distance(c.entry[i], v) = Distance(v, c.entry[i])
    BY DEF Distance, Colormaps
  <2>3. \A p \in r.got, i \in ClCells : Distance(c.entry[p], v) <= Distance(c.entry[i], v)
    BY <2>1, <2>2, NearestIs
  <2> QED  BY <1>2, <2>3
<1>3. CASE c.class = "direct_color"
  <2>1. r = [map |-> c, got |-> {v \div 4}] BY <1>3 DEF AllocColor
  <2>2. v \div 4 \in ClCells /\ Distance(((v \div 4) * 15) \div 4, v) < 5 BY DEF ClCells, Distance
  <2>3. Lookup(c, v \div 4) = c.entry[v \div 4] BY <1>3 DEF Lookup
  <2>4. InitialEntry(c.class)[v \div 4] = ((v \div 4) * 15) \div 4 BY <1>3, <2>2 DEF InitialEntry
  <2>5. \A p \in r.got :
          Distance(Lookup(r.map, p), v) < 5 \/ c.entry[p] # InitialEntry(c.class)[p]
    BY <2>1, <2>2, <2>3, <2>4
  <2> QED  BY <1>3, <2>5
<1>4. CASE c.class \notin {"true_color", "direct_color", "static_gray", "static_color"}
  <2>0. r = IF same # {} THEN [map |-> c, got |-> {LeastCell(same)}]
            ELSE IF free = {} THEN [map |-> c, got |-> {}]
            ELSE [map |-> Taken(c, i0, v), got |-> {i0}]
    BY <1>4 DEF AllocColor
  <2>1. /\ \A p \in r.got : Lookup(r.map, p) = v /\ p \in r.map.alloc
        /\ (r.got = {}) = (c.alloc = ClCells /\ \A i \in ClCells : c.entry[i] # v)
    <3>1. CASE same # {}
      <4>1. same \in SUBSET ClCells BY DEF Colormaps
      <4>2. r = [map |-> c, got |-> {LeastCell(same)}] /\ LeastCell(same) \in same
        BY <2>0, <3>1, <4>1, LeastCellIn
      <4>3. LeastCell(same) \in ClCells /\ c.entry[LeastCell(same)] = v
              /\ LeastCell(same) \in c.alloc
        BY <4>1, <4>2
      <4> HIDE DEF r, same
      <4> QED  BY <1>4, <4>2, <4>3 DEF Lookup
    <3>2. CASE same = {} /\ free = {}
      <4>1. r = [map |-> c, got |-> {}] BY <2>0, <3>2
      <4>2. c.alloc = ClCells BY <3>2, SearchMeetsAll
      <4>3. \A i \in ClCells : c.entry[i] # v BY <3>2, <4>2
      <4> HIDE DEF r
      <4> QED  BY <4>1, <4>2, <4>3
    <3>3. CASE same = {} /\ free # {}
      <4>1. r = [map |-> Taken(c, i0, v), got |-> {i0}] BY <2>0, <3>3
      <4>2. LeastCell(free) \in free BY <3>3, LeastCellIn
      <4>3. c.alloc # ClCells BY <3>3, SearchMeetsAll
      <4>4. i0 \in ClCells BY <4>2, Wraps DEF Colormaps
      <4> HIDE DEF i0, free
      <4>5. /\ Taken(c, i0, v).class = c.class /\ Taken(c, i0, v).entry[i0] = v
            /\ i0 \in Taken(c, i0, v).alloc
        BY <4>4 DEF Taken, Colormaps
      <4> HIDE DEF r
      <4> QED  BY <1>4, <4>1, <4>3, <4>5 DEF Lookup
    <3> QED  BY <3>1, <3>2, <3>3
  <2> QED  BY <1>4, <2>1
<1> QED  BY <1>1, <1>2, <1>3, <1>4

LEMMA AllocationsTyped ==
    ASSUME NEW c \in Colormaps, NEW v \in 0..15, NEW n \in Nat
    PROVE  /\ AllocColor(c, v).map \in Colormaps
           /\ AllocCells(c, n).map \in Colormaps
           /\ AllocCellsContiguous(c, n).map \in Colormaps
<1>1. AllocColor(c, v).map \in Colormaps
  <2> DEFINE free == {k \in ClCells : (c.next + k) % 4 \notin c.alloc}
             i0 == (c.next + LeastCell(free)) % 4
  <2>1. AllocColor(c, v).map = c \/ (free # {} /\ AllocColor(c, v).map = Taken(c, i0, v))
    BY DEF AllocColor
  <2>2. ASSUME free # {} PROVE Taken(c, i0, v) \in Colormaps
    <3>1. LeastCell(free) \in ClCells BY <2>2, LeastCellIn
    <3>2. i0 \in ClCells BY <3>1, Wraps DEF Colormaps
    <3> HIDE DEF i0
    <3>3. (i0 + 1) % 4 \in ClCells BY <3>2 DEF ClCells
    <3> QED  BY <3>2, <3>3 DEF Taken, Colormaps
  <2> QED  BY <2>1, <2>2
<1>2. AllocCells(c, n).map \in Colormaps
  <2>1. FirstFree(c, n) \subseteq ClCells BY DEF FirstFree
  <2> QED  BY <2>1 DEF AllocCells, Colormaps
<1>3. AllocCellsContiguous(c, n).map \in Colormaps
  <2> DEFINE starts == {s \in ClCells : s + n <= 4 /\ s..(s + n - 1) \cap c.alloc = {}}
             s0 == LeastCell(starts)
             run == s0..(s0 + n - 1)
  <2>1. \/ AllocCellsContiguous(c, n).map = c
        \/ starts # {} /\ AllocCellsContiguous(c, n).map = [c EXCEPT !.alloc = @ \cup run]
    BY DEF AllocCellsContiguous
  <2>2. ASSUME starts # {} PROVE run \subseteq ClCells
    <3>1. s0 \in starts BY <2>2, LeastCellIn
    <3> QED  BY <3>1 DEF ClCells
  <2> HIDE DEF run, starts
  <2>3. ASSUME starts # {} PROVE [c EXCEPT !.alloc = @ \cup run] \in Colormaps
    BY <2>2, <2>3 DEF Colormaps
  <2> QED  BY <2>1, <2>3
<1> QED  BY <1>1, <1>2, <1>3

MapInv ==
    /\ clMap \in [ClMaps -> SUBSET Colormaps]
    /\ \A m \in clInstalled : Known(m)

Cursor(i) ==
    /\ DOMAIN i = {"src", "mask", "fg", "bg", "image", "name"}
    /\ i.src # {} => i.image \subseteq {i.fg, i.bg, ClClear}

CursorInv ==
    /\ clCss \subseteq ClCursors /\ clBare \subseteq clCss /\ DOMAIN clInfo = ClCursors
    /\ \A c \in clCss : clInfo[c] # {} \/ c \in clBare
    /\ \A c \in ClCursors : \A i \in clInfo[c] : Cursor(i)

ClInv == MapInv /\ CursorInv

LEMMA NewTyped ==
    ASSUME NEW class \in VisualClasses
    PROVE  /\ NewColormap(class) \in Colormaps
           /\ [NewColormap(class) EXCEPT !.alloc = ClCells] \in Colormaps
<1>1. InitialEntry(class) \in [ClCells -> 0..15]
  <2>1. \A i \in ClCells : (i \div 2) * 15 \in 0..15 /\ (i * 15) \div 4 \in 0..15 BY DEF ClCells
  <2> QED  BY <2>1 DEF InitialEntry
<1>2. 0 \in ClCells BY DEF ClCells
<1> QED  BY <1>1, <1>2 DEF NewColormap, Colormaps

(* A colormap gets another value: it stays a colormap, and stays known. *)
LEMMA MapsTo ==
    ASSUME MapInv, NEW m \in ClMaps, NEW c \in Colormaps, MapTo(m, c), clInstalled' = clInstalled
    PROVE  MapInv'
<1>1. clMap' \in [ClMaps -> SUBSET Colormaps] BY DEF MapTo, MapInv
<1>2. \A k \in ClMaps : clMap[k] # {} => clMap'[k] # {} BY DEF MapTo, MapInv
<1> QED  BY <1>1, <1>2 DEF MapInv, Known, Live

LEMMA MapsStep ==
    ASSUME MapInv, ClMapNext
    PROVE  MapInv'
<1>1. ASSUME NEW m \in ClMaps \cup {ClRoot}, FreeColormap(m) PROVE MapInv'
  <2>1. /\ clMap' = [k \in ClMaps |-> IF k = m THEN {} ELSE clMap[k]]
        /\ clInstalled' = clInstalled \ {m}
    BY <1>1 DEF FreeColormap
  <2>2. clMap' \in [ClMaps -> SUBSET Colormaps] BY <2>1 DEF MapInv
  <2>3. \A k \in clInstalled' : Known(k)' BY <2>1 DEF MapInv, Known, Live
  <2> QED  BY <2>2, <2>3 DEF MapInv
<1>2. ASSUME NEW m \in ClMaps \cup {ClRoot}, InstallColormap(m) \/ UninstallColormap(m)
      PROVE  MapInv'
  <2>1. clMap' = clMap /\ Known(m) /\ clInstalled' \subseteq clInstalled \cup {m}
    BY <1>2 DEF InstallColormap, UninstallColormap
  <2> QED  BY <2>1 DEF MapInv, Known, Live
<1>3. ASSUME NEW m \in ClMaps, NEW class \in ClClasses, NEW all \in BOOLEAN,
             CreateColormap(m, class, all)
      PROVE  MapInv'
  <2>1. class \in VisualClasses BY ClAssumption
  <2> DEFINE c == NewColormap(class)
             d == IF all /\ Writable(c) THEN [c EXCEPT !.alloc = ClCells] ELSE c
  <2>2. MapTo(m, d) /\ clInstalled' = clInstalled BY <1>3 DEF CreateColormap
  <2>3. d \in Colormaps BY <2>1, NewTyped
  <2> HIDE DEF d
  <2> QED  BY <2>2, <2>3, MapsTo
<1>4. ASSUME NEW m \in ClMaps, NEW src \in ClMaps \cup {ClRoot}, CopyColormapAndFree(m, src)
      PROVE  MapInv'
  <2> DEFINE copies == IF src = ClRoot THEN {NewColormap("true_color")} ELSE clMap[src]
             copied == [clMap EXCEPT ![m] = copies]
             Freed(c) == [c EXCEPT !.alloc = {}]
  <2>1. /\ clMap' = [k \in ClMaps |-> IF k = src THEN {Freed(c) : c \in copied[k]} ELSE copied[k]]
        /\ clInstalled' = clInstalled /\ Known(src)
    BY <1>4 DEF CopyColormapAndFree
  <2>2. copies \in SUBSET Colormaps /\ copies # {}
    <3>1. NewColormap("true_color") \in Colormaps BY NewTyped DEF VisualClasses
    <3> QED  BY <2>1, <3>1 DEF Known, Live, MapInv
  <2>3. \A c \in Colormaps : Freed(c) \in Colormaps BY DEF Colormaps
  <2> HIDE DEF copies, Freed
  <2>4. copied \in [ClMaps -> SUBSET Colormaps] /\ \A k \in ClMaps : clMap[k] # {} => copied[k] # {}
    BY <2>2 DEF MapInv
  <2> HIDE DEF copied
  <2>5. clMap' \in [ClMaps -> SUBSET Colormaps] /\ \A k \in ClMaps : clMap[k] # {} => clMap'[k] # {}
    BY <2>1, <2>3, <2>4
  <2> QED  BY <2>1, <2>5 DEF MapInv, Known, Live
<1>5. ASSUME NEW m \in ClMaps, NEW v \in ClColours, AllocColorIn(m, v) PROVE MapInv'
  <2>1. PICK c \in clMap[m] : MapTo(m, AllocColor(c, v).map)
    BY <1>5 DEF AllocColorIn
  <2>2. c \in Colormaps /\ v \in 0..15 /\ clInstalled' = clInstalled
    BY <1>5, <2>1, ClAssumption DEF MapInv, AllocColorIn
  <2> QED  BY <2>1, <2>2, AllocationsTyped, MapsTo
<1>6. ASSUME NEW m \in ClMaps, NEW n \in ClCounts, NEW contiguous \in BOOLEAN,
             AllocColorCells(m, n[1], n[2], contiguous)
      PROVE  MapInv'
  <2> DEFINE t == TotalColors(n[1], n[2])
  <2>1. PICK c \in clMap[m] :
          MapTo(m, IF contiguous THEN AllocCellsContiguous(c, t).map ELSE AllocCells(c, t).map)
    BY <1>6 DEF AllocColorCells
  <2>2. c \in Colormaps /\ clInstalled' = clInstalled BY <1>6, <2>1 DEF MapInv, AllocColorCells
  <2>3. t \in Nat BY ClAssumption DEF TotalColors
  <2> HIDE DEF t
  <2>4. \A u \in 0..15 : /\ AllocCells(c, t).map \in Colormaps
                         /\ AllocCellsContiguous(c, t).map \in Colormaps
    BY <2>2, <2>3, AllocationsTyped
  <2>5. AllocCells(c, t).map \in Colormaps /\ AllocCellsContiguous(c, t).map \in Colormaps BY <2>4
  <2> QED  BY <2>1, <2>2, <2>5, MapsTo
<1>7. ASSUME NEW m \in ClMaps, NEW i \in ClCells,
             \/ FreeColors(m, i) \/ \E v \in ClColours : StoreColors(m, i, v)
             \/ \E named \in {{}, {"red"}} : StoreNamedColor(m, i, named)
      PROVE  MapInv'
  <2>1. clInstalled' = clInstalled /\ \E c \in clMap[m] :
             \/ MapTo(m, [c EXCEPT !.alloc = @ \ {i}]) \/ MapTo(m, c)
             \/ \E v \in ClColours \cup {15} : MapTo(m, [c EXCEPT !.entry[i] = v])
    BY <1>7 DEF FreeColors, StoreColors, StoreNamedColor
  <2>2. PICK c \in clMap[m] :
             \/ MapTo(m, [c EXCEPT !.alloc = @ \ {i}]) \/ MapTo(m, c)
             \/ \E v \in ClColours \cup {15} : MapTo(m, [c EXCEPT !.entry[i] = v])
    BY <2>1
  <2>3. c \in Colormaps BY <2>2 DEF MapInv
  <2>4. [c EXCEPT !.alloc = @ \ {i}] \in Colormaps BY <2>3 DEF Colormaps
  <2>5. \A v \in ClColours \cup {15} : [c EXCEPT !.entry[i] = v] \in Colormaps
    <3>1. \A v \in ClColours \cup {15} : v \in 0..15
      <4>1. (\A v \in ClColours : v \in 0..15) /\ 15 \in 0..15 BY ClAssumption
      <4> QED  BY <4>1
    <3> QED  BY <2>3, <3>1 DEF Colormaps
  <2> QED  BY <2>1, <2>2, <2>3, <2>4, <2>5, MapsTo
<1> QED  BY <1>1, <1>2, <1>3, <1>4, <1>5, <1>6, <1>7 DEF ClMapNext, AllocColorPlanes

(* One entry of cursor_info is replaced, or several take over another one's. *)
LEMMA CursorsStep ==
    ASSUME CursorInv, ClCursorNext
    PROVE  CursorInv'
<1>1. ASSUME NEW c \in ClCursors, NEW S, clInfo' = [clInfo EXCEPT ![c] = S],
             \A i \in S : Cursor(i), clCss' \subseteq clCss \cup {c}, clBare' \subseteq clCss',
             clBare \subseteq clBare' \cup {c}, c \in clCss' => S # {} \/ c \in clBare'
      PROVE  CursorInv'
  BY <1>1 DEF CursorInv
<1>2. ASSUME NEW src, NEW mask, NEW fg, NEW bg
      PROVE  BuildCursorArgb(src, mask, fg, bg) \subseteq {fg, bg, ClClear}
  BY DEF BuildCursorArgb
<1>e. ASSUME NEW c \in ClCursors, NEW i, Entered(c, i), Cursor(i) PROVE CursorInv'
  <2>1. clInfo' = [clInfo EXCEPT ![c] = {i}] /\ clCss' = clCss \cup {c} /\ clBare' = clBare \ {c}
    BY <1>e DEF Entered
  <2>2. {i} # {} /\ (\A j \in {i} : Cursor(j)) /\ clBare \subseteq clCss BY <1>e DEF CursorInv
  <2> QED  BY <1>1, <2>1, <2>2
<1>p. \A image, name : Cursor(OwnPicture(image, name)) BY DEF Cursor, OwnPicture
<1>3. ASSUME NEW c \in ClCursors, NEW p \in ClPixmaps, NEW mask, CreateBitmapCursor(c, {p}, mask, 1, 2)
      PROVE  CursorInv'
  <2> DEFINE i == [src |-> {p}, mask |-> mask, fg |-> 1, bg |-> 2,
                   image |-> BuildCursorArgb({p}, mask, 1, 2), name |-> ""]
  <2>1. Entered(c, i) BY <1>3 DEF CreateBitmapCursor
  <2>2. Cursor(i) BY <1>2 DEF Cursor
  <2> HIDE DEF i
  <2> QED  BY <1>e, <2>1, <2>2
<1>4. ASSUME NEW c \in ClCursors, CreateGlyphCursor(c, 1, 2) PROVE CursorInv'
  <2> DEFINE i == [OwnPicture({}, "") EXCEPT !.fg = 1, !.bg = 2]
  <2>1. Entered(c, i) BY <1>4 DEF CreateGlyphCursor
  <2>2. Cursor(i) BY DEF Cursor, OwnPicture
  <2> HIDE DEF i
  <2> QED  BY <1>e, <2>1, <2>2
<1>r. ASSUME NEW c \in ClCursors, NEW image, RenderCursor(c, image) PROVE CursorInv'
  BY <1>e, <1>p, <1>r DEF RenderCursor
<1>a. ASSUME NEW c \in ClCursors, NEW n \in 0..2, NEW frames \in [1..n -> ClCursors],
             RenderAnimCursor(c, frames)
      PROVE  CursorInv'
  <2>1. PICK S : /\ clInfo' = (IF S = {} THEN clInfo ELSE [clInfo EXCEPT ![c] = S])
                 /\ clCss' = clCss \cup {c}
                 /\ clBare' = (IF S = {} THEN clBare \cup {c} ELSE clBare \ {c})
                 /\ \/ \E k : S = {OwnPicture(i.image, "") : i \in clInfo[frames[k]]}
                    \/ frames # <<>> /\ S = clInfo[frames[1]]
                    \/ S = {}
    BY <1>a, Zenon DEF RenderAnimCursor
  <2>2. frames # <<>> => frames[1] \in ClCursors
    <3>1. n = 0 => frames = <<>> OBVIOUS
    <3> QED  BY <3>1
  <2>3. \A i \in S : Cursor(i)
    <3>1. \A c1 \in ClCursors : \A i \in clInfo[c1] : Cursor(i) BY DEF CursorInv
    <3>2. ASSUME NEW k, S = {OwnPicture(i.image, "") : i \in clInfo[frames[k]]}
          PROVE  \A i \in S : Cursor(i)
      BY <1>p, <3>2, Zenon
    <3>3. ASSUME frames # <<>>, S = clInfo[frames[1]] PROVE \A i \in S : Cursor(i)
      BY <2>2, <3>1, <3>3, Zenon
    <3> QED  BY <2>1, <3>2, <3>3, Zenon
  <2>4. CASE S = {}
    <3>1. clInfo' = clInfo /\ clBare' = clBare \cup {c} BY <2>1, <2>4
    <3> QED  BY <2>1, <3>1 DEF CursorInv
  <2>5. CASE S # {}
    <3>1. clInfo' = [clInfo EXCEPT ![c] = S] /\ clBare' = clBare \ {c} /\ clBare \subseteq clCss
      BY <2>1, <2>5 DEF CursorInv
    <3> QED  BY <1>1, <2>1, <2>3, <2>5, <3>1
  <2> QED  BY <2>4, <2>5
<1>5. ASSUME NEW c \in ClCursors, FreeCursor(c) PROVE CursorInv'
  <2>1. clBare \subseteq clCss BY DEF CursorInv
  <2> QED  BY <1>1, <1>5, <2>1 DEF FreeCursor
<1>6. ASSUME NEW c \in ClCursors, RecolorCursor(c, 3, 4) PROVE CursorInv'
  <2> DEFINE R(i) == [i EXCEPT !.fg = 3, !.bg = 4,
                         !.image = IF i.src = {} THEN @ ELSE BuildCursorArgb(i.src, i.mask, 3, 4)]
             S == {R(i) : i \in clInfo[c]}
  <2>1. clInfo' = [clInfo EXCEPT ![c] = S] /\ clCss' = clCss /\ clBare' = clBare /\ c \in clCss
    BY <1>6 DEF RecolorCursor
  <2>2. ASSUME NEW i \in clInfo[c] PROVE Cursor(R(i))
    <3>1. DOMAIN i = {"src", "mask", "fg", "bg", "image", "name"} BY DEF CursorInv, Cursor
    <3>2. /\ DOMAIN R(i) = DOMAIN i /\ R(i).src = i.src /\ R(i).fg = 3 /\ R(i).bg = 4
          /\ R(i).image = IF i.src = {} THEN i.image ELSE BuildCursorArgb(i.src, i.mask, 3, 4)
      BY <3>1
    <3> HIDE DEF R
    <3> QED  BY <1>2, <3>1, <3>2 DEF Cursor
  <2> HIDE DEF R
  <2>3. \A i \in S : Cursor(i) BY <2>2
  <2>4. (S # {} \/ c \in clBare) /\ clBare \subseteq clCss BY <2>1 DEF CursorInv
  <2> HIDE DEF S
  <2> QED  BY <1>1, <2>1, <2>3, <2>4
<1>7. ASSUME NEW c \in ClCursors, SetCursorName(c, "n") PROVE CursorInv'
  <2> DEFINE N(i) == [i EXCEPT !.name = "n"]
             e == OwnPicture({}, "n")
             S == IF clInfo[c] # {} THEN {N(i) : i \in clInfo[c]} ELSE {e}
  <2>1. clInfo' = [clInfo EXCEPT ![c] = S] /\ clCss' = clCss /\ clBare' = clBare
    BY <1>7 DEF SetCursorName
  <2>2. ASSUME NEW i \in clInfo[c] PROVE Cursor(N(i))
    <3>1. Cursor(i) BY DEF CursorInv
    <3> QED  BY <3>1 DEF Cursor
  <2>3. Cursor(e) /\ clBare \subseteq clCss BY <1>p DEF CursorInv
  <2> HIDE DEF N, e
  <2>4. S # {} /\ \A i \in S : Cursor(i) BY <2>2, <2>3
  <2> HIDE DEF S
  <2> QED  BY <1>1, <2>1, <2>3, <2>4
<1>8. ASSUME NEW src \in ClCursors, NEW ds \in SUBSET ClCursors, Replaced(src, ds)
      PROVE  CursorInv'
  <2>1. /\ DOMAIN clInfo' = ClCursors /\ clCss' = IF src \in clCss THEN clCss \cup ds ELSE clCss
        /\ clBare' = IF src \in clBare THEN clBare \cup ds ELSE clBare
        /\ \A c \in ClCursors :
             clInfo'[c] = IF c \in ds /\ clInfo[src] # {} THEN clInfo[src] ELSE clInfo[c]
    BY <1>8 DEF Replaced
  <2> QED  BY <2>1 DEF CursorInv
<1>9. ASSUME NEW p \in ClPixmaps, NEW bits, ChangePixmap(p, bits) PROVE CursorInv'
  <2>1. clInfo' = clInfo /\ clCss' = clCss /\ clBare' = clBare BY <1>9 DEF ChangePixmap
  <2> QED  BY <2>1 DEF CursorInv
<1> QED
  BY <1>3, <1>4, <1>r, <1>a, <1>5, <1>6, <1>7, <1>8, <1>9
  DEF ClCursorNext, ChangeCursor, ChangeCursorByName

(* Requests on colormaps leave the cursors alone, and the other way round. *)
LEMMA ClStepKeeps ==
    ASSUME ClInv, ClNext
    PROVE  ClInv'
<1>0. MapInv /\ CursorInv BY DEF ClInv
<1>1. CASE ClMapNext
  <2>1. UNCHANGED <<clCss, clInfo, clBare>>
    <3>1. ASSUME NEW m, FreeColormap(m) \/ InstallColormap(m) \/ UninstallColormap(m)
          PROVE  UNCHANGED <<clCss, clInfo, clBare>>
      BY <3>1 DEF FreeColormap, InstallColormap, UninstallColormap, clCursorVars
    <3>2. ASSUME NEW m, \/ \E class, all : CreateColormap(m, class, all)
                        \/ \E src : CopyColormapAndFree(m, src)
                        \/ \E v : AllocColorIn(m, v)
          PROVE  UNCHANGED <<clCss, clInfo, clBare>>
      BY <3>2 DEF CreateColormap, CopyColormapAndFree, AllocColorIn, clCursorVars
    <3>3. ASSUME NEW m, NEW n, NEW pl, NEW contiguous, AllocColorCells(m, n, pl, contiguous)
          PROVE  UNCHANGED <<clCss, clInfo, clBare>>
      BY <3>3 DEF AllocColorCells, clCursorVars
    <3>4. ASSUME NEW m, NEW i, \/ FreeColors(m, i) \/ \E v : StoreColors(m, i, v)
                               \/ \E named : StoreNamedColor(m, i, named)
          PROVE  UNCHANGED <<clCss, clInfo, clBare>>
      BY <3>4 DEF FreeColors, StoreColors, StoreNamedColor, clCursorVars
    <3> QED  BY <1>1, <3>1, <3>2, <3>3, <3>4 DEF ClMapNext, AllocColorPlanes
  <2>2. CursorInv' BY <1>0, <2>1 DEF CursorInv
  <2> QED  BY <1>0, <1>1, <2>2, MapsStep DEF ClInv
<1>2. CASE ClCursorNext
  <2>1. clMap' = clMap /\ clInstalled' = clInstalled
    BY <1>2 DEF ClCursorNext, CreateBitmapCursor, CreateGlyphCursor, FreeCursor, RecolorCursor,
                RenderCursor, RenderAnimCursor, Entered, SetCursorName, ChangeCursor, ChangeCursorByName, Replaced, ChangePixmap,
                clColourVars
  <2>2. MapInv' BY <1>0, <2>1 DEF MapInv, Known, Live
  <2> QED  BY <1>0, <1>2, <2>2, CursorsStep DEF ClInv
<1> QED  BY <1>1, <1>2 DEF ClNext

(* MCXResources, for any colormaps, cursors, pixmaps and colours and any      *)
(* number of requests: a colour that alloc_color grants is the one its pixel  *)
(* shows up to the precision of the class, and is refused only by a full      *)
(* table that does not have it; cells that are handed out were free; a        *)
(* refusal changes nothing and comes only when there is no room; only known   *)
(* colormaps are installed; a named cursor has its entry unless it stands for *)
(* an animation without a known frame, and a picture drawn from bitmaps has   *)
(* only its own two colours.  A direct colour shows while nobody stored       *)
(* another one in its cell.                                                   *)
THEOREM ColoursHold == MCSpec => []ColourCells
<1>1. MCInit => ClInv
  <2> SUFFICES ASSUME MCInit PROVE ClInv
    OBVIOUS
  <2>1. MapInv BY DEF MCInit, ClInit, MapInv, Known
  <2>2. CursorInv BY DEF MCInit, ClInit, CursorInv
  <2> QED  BY <2>1, <2>2 DEF ClInv
<1>2. ClInv /\ [MCNext]_mcVars => ClInv'
  <2> SUFFICES ASSUME ClInv, [MCNext]_mcVars PROVE ClInv'
    OBVIOUS
  <2>1. ClNext \/ UNCHANGED clVars BY DEF MCNext, mcVars
  <2>2. CASE UNCHANGED clVars
    <3>1. UNCHANGED <<clMap, clInstalled, clCss, clInfo, clBare>> BY <2>2 DEF clVars
    <3> QED  BY <3>1 DEF ClInv, MapInv, CursorInv, Known, Live
  <2> QED  BY <2>1, <2>2, ClStepKeeps
<1>3. ClInv => ColourCells
  <2> SUFFICES ASSUME ClInv PROVE ColoursShown /\ CellsSound /\ CursorsKnown
    BY DEF ColourCells
  <2>1. \A m \in ClMaps : \A c \in clMap[m] : c \in Colormaps BY DEF ClInv, MapInv
  <2>2. ColoursShown
    <3> SUFFICES ASSUME NEW m \in ClMaps, NEW c \in clMap[m], NEW v \in ClColours
                 PROVE  ColoursShown!(m)!(c)!(v)
      BY DEF ColoursShown
    <3>1. c \in Colormaps /\ v \in 0..15 BY <2>1, ClAssumption
    <3> QED  BY <3>1, ColourGranted
  <2>3. CellsSound
    <3> SUFFICES ASSUME NEW m \in ClMaps, NEW c \in clMap[m], NEW n \in 1..5, Writable(c)
                 PROVE  CellsSound!(m)!(c)!(n)
      BY DEF CellsSound
    <3>1. c \in Colormaps BY <2>1
    <3> QED  BY <3>1, CellsHandedOut
  <2>4. CursorsKnown BY DEF ClInv, MapInv, CursorInv, Cursor, CursorsKnown
  <2> QED  BY <2>2, <2>3, <2>4
<1> QED  BY <1>1, <1>2, <1>3, PTL DEF MCSpec

-----------------------------------------------------------------------------
(***************************************************************************)
(* Folds over finite sets: the recursive function exists, and what every   *)
(* step keeps holds at the end.                                            *)
(***************************************************************************)
LEMMA NumInduction ==
  ASSUME NEW T, 0 \in T, \A n \in Nat : n \in T => n + 1 \in T
  PROVE  Nat \subseteq T
<1> DEFINE R == OpToRel(<, Nat)
           U == Nat \ T
<1> SUFFICES ASSUME U # {} PROVE FALSE
  OBVIOUS
<1>1. IsWellFoundedOn(R, Nat) BY NatLessThanWellFounded
<1>2. \A x, y \in Nat : <<x, y>> \in R <=> x < y BY DEF OpToRel
<1>3. U \subseteq Nat OBVIOUS
<1> HIDE DEF R, U
<1>4. PICK x \in U : \A y \in U : ~(<<y, x>> \in R)
  BY <1>1, <1>3, WFMin
<1>5. x \in Nat /\ x \notin T /\ x # 0 BY <1>4 DEF U
<1>6. x - 1 \in Nat /\ x - 1 < x BY <1>5
<1>7. x - 1 \notin U BY <1>2, <1>3, <1>4, <1>6
<1>8. x - 1 \in T BY <1>6, <1>7 DEF U
<1>9. (x - 1) + 1 \in T BY <1>6, <1>8
<1> QED  BY <1>5, <1>9

Pick(s) == CHOOSE x \in s : TRUE

LEMMA Picked ==
  ASSUME NEW s, IsFiniteSet(s), s # {}
  PROVE  /\ Pick(s) \in s /\ IsFiniteSet(s \ {Pick(s)})
         /\ Cardinality(s) \in Nat /\ Cardinality(s \ {Pick(s)}) = Cardinality(s) - 1
<1>1. Pick(s) \in s BY DEF Pick
<1>2. IsFiniteSet(s \ {Pick(s)}) /\ Cardinality(s \ {Pick(s)}) = Cardinality(s) - 1
  BY <1>1, FS_RemoveElement
<1> QED  BY <1>1, <1>2, FS_CardinalityType

(* The equation of the fold at s. *)
Folds(f, a, H, s) == f[s] = IF s = {} THEN a ELSE H[<<Pick(s), f[s \ {Pick(s)}]>>]

(* Start and steps of a fold over S stay in V, and f is that fold. *)
Foldable(S, V, a, H) == IsFiniteSet(S) /\ a \in V /\ H \in [S \X V -> V]
FoldsAll(f, S, V, a, H) == f \in [SUBSET S -> V] /\ \A s \in SUBSET S : Folds(f, a, H, s)

LEMMA FoldExists ==
  ASSUME NEW S, NEW V, NEW a, NEW H, Foldable(S, V, a, H)
  PROVE  \E f : FoldsAll(f, S, V, a, H)
<1> USE DEF Foldable
<1> DEFINE T == {m \in Nat : \E f \in [SUBSET S -> V] : \A s \in SUBSET S :
                                Cardinality(s) <= m => Folds(f, a, H, s)}
<1>0. \A s \in SUBSET S : IsFiniteSet(s) /\ Cardinality(s) \in Nat /\ Cardinality(s) <= Cardinality(S)
  BY FS_Subset, FS_CardinalityType
<1>1. 0 \in T
  <2> DEFINE f == [s \in SUBSET S |-> a]
  <2>1. f \in [SUBSET S -> V] OBVIOUS
  <2>2. ASSUME NEW s \in SUBSET S, Cardinality(s) <= 0 PROVE Folds(f, a, H, s)
    <3>1. Cardinality(s) = 0 BY <1>0, <2>2
    <3>2. s = {} BY <1>0, <3>1, FS_EmptySet
    <3> QED  BY <3>2 DEF Folds
  <2> HIDE DEF f
  <2> QED  BY <2>1, <2>2
<1>2. ASSUME NEW m \in Nat, m \in T PROVE m + 1 \in T
  <2>1. PICK f \in [SUBSET S -> V] : \A s \in SUBSET S : Cardinality(s) <= m => Folds(f, a, H, s)
    BY <1>2
  <2> DEFINE h == [s \in SUBSET S |-> IF Cardinality(s) <= m THEN f[s]
                                      ELSE H[<<Pick(s), f[s \ {Pick(s)}]>>]]
  <2>2. \A s \in SUBSET S : s # {} => Pick(s) \in s /\ s \ {Pick(s)} \in SUBSET S
                                       /\ Cardinality(s \ {Pick(s)}) = Cardinality(s) - 1
    BY <1>0, Picked
  <2>3. \A s \in SUBSET S : ~(Cardinality(s) <= m) => s # {} BY <1>0, FS_EmptySet
  <2>4. h \in [SUBSET S -> V]
    <3> SUFFICES ASSUME NEW s \in SUBSET S PROVE h[s] \in V
      OBVIOUS
    <3>1. CASE Cardinality(s) <= m BY <3>1
    <3>2. CASE ~(Cardinality(s) <= m)
      <4>1. Pick(s) \in S /\ f[s \ {Pick(s)}] \in V BY <2>2, <2>3, <3>2
      <4>2. H[<<Pick(s), f[s \ {Pick(s)}]>>] \in V BY <4>1
      <4> QED  BY <3>2, <4>2
    <3> QED  BY <3>1, <3>2
  <2>5. ASSUME NEW s \in SUBSET S, Cardinality(s) <= m + 1 PROVE Folds(h, a, H, s)
    <3>1. CASE s = {}
      <4>1. Cardinality(s) <= m BY <3>1, FS_EmptySet
      <4>2. h[s] = f[s] BY <4>1
      <4> QED  BY <2>1, <3>1, <4>1, <4>2 DEF Folds
    <3>2. CASE s # {}
      <4> DEFINE r == s \ {Pick(s)}
      <4>1. r \in SUBSET S /\ Cardinality(r) <= m BY <1>0, <2>2, <2>5, <3>2
      <4>2. h[r] = f[r] BY <4>1
      <4>3. h[s] = H[<<Pick(s), f[r]>>]
        <5>1. CASE Cardinality(s) <= m
          <6>1. h[s] = f[s] BY <5>1
          <6> QED  BY <2>1, <3>2, <5>1, <6>1 DEF Folds
        <5>2. CASE ~(Cardinality(s) <= m) BY <5>2
        <5> QED  BY <5>1, <5>2
      <4> QED  BY <3>2, <4>2, <4>3 DEF Folds
    <3> QED  BY <3>1, <3>2
  <2> HIDE DEF h
  <2> QED  BY <2>4, <2>5
<1> HIDE DEF T
<1>3. Cardinality(S) \in T BY <1>0, <1>1, <1>2, NumInduction
<1> QED  BY <1>0, <1>3 DEF T, FoldsAll

LEMMA FoldStays ==
  ASSUME NEW S, IsFiniteSet(S), NEW V, NEW g, g[{}] \in V,
         \A s \in SUBSET S : s # {} /\ g[s \ {Pick(s)}] \in V => g[s] \in V
  PROVE  g[S] \in V
<1> DEFINE T == {m \in Nat : \A s \in SUBSET S : Cardinality(s) <= m => g[s] \in V}
<1>0. \A s \in SUBSET S : IsFiniteSet(s) /\ Cardinality(s) \in Nat /\ Cardinality(s) <= Cardinality(S)
  BY FS_Subset, FS_CardinalityType
<1>1. 0 \in T
  <2>1. \A s \in SUBSET S : Cardinality(s) <= 0 => s = {}
    <3>1. \A s \in SUBSET S : Cardinality(s) <= 0 => Cardinality(s) = 0 BY <1>0
    <3> QED  BY <1>0, <3>1, FS_EmptySet
  <2> QED  BY <2>1
<1>2. ASSUME NEW m \in Nat, m \in T PROVE m + 1 \in T
  <2> SUFFICES ASSUME NEW s \in SUBSET S, Cardinality(s) <= m + 1 PROVE g[s] \in V
    OBVIOUS
  <2>1. CASE s = {} BY <2>1
  <2>2. CASE s # {}
    <3>1. Cardinality(s \ {Pick(s)}) <= m /\ s \ {Pick(s)} \in SUBSET S BY <1>0, <2>2, Picked
    <3> QED  BY <1>2, <2>2, <3>1
  <2> QED  BY <2>1, <2>2
<1> HIDE DEF T
<1>3. Cardinality(S) \in T BY <1>0, <1>1, <1>2, NumInduction
<1> QED  BY <1>0, <1>3 DEF T

-----------------------------------------------------------------------------
(***************************************************************************)
(* XDraw.  Framebuffers, and what a routine may do to one: it keeps the    *)
(* size, forgets nothing dirty, and marks what it changes, except loose.   *)
(***************************************************************************)
DrBits == {0, 1}
DrPx == [0..1 -> DrBits] \cup [0..2 -> DrBits]
Bufs == {b \in [px : DrPx, dirty : SUBSET (0..2)] : b.dirty = Hull(b.dirty)}
Grows(b, nb, loose) ==
    /\ nb \in Bufs /\ Cols(nb) = Cols(b) /\ b.dirty \subseteq nb.dirty
    /\ \A i \in Cols(b) : nb.px[i] # b.px[i] => i \in nb.dirty \cup loose
DrInks == {{}, {0}, {1}}
DrContexts == {gc \in [fn : DrFunctions, all : BOOLEAN, clip : SUBSET (Int \X Nat),
                       style : {"solid", "tiled", "stippled", "opaque"}, lw : Nat,
                       inferiors : BOOLEAN] : IsFiniteSet(gc.clip)}

LEMMA SpanSize ==
  ASSUME NEW n \in Nat
  PROVE  IsFiniteSet(0..(n - 1)) /\ Cardinality(0..(n - 1)) = n
<1>1. CASE n = 0
  <2>1. 0..(n - 1) = {} BY <1>1
  <2> QED  BY <1>1, <2>1, FS_EmptySet
<1>2. CASE n # 0
  <2>1. 0 \in Int /\ n - 1 \in Int /\ ~(0 > n - 1) BY <1>2
  <2> QED  BY <2>1, FS_Interval
<1> QED  BY <1>1, <1>2

LEMMA HullIs ==
  ASSUME NEW S, S \subseteq 0..2
  PROVE  Hull(S) \subseteq 0..2 /\ S \subseteq Hull(S) /\ Hull(Hull(S)) = Hull(S)
<1>1. CASE S = {} BY <1>1 DEF Hull
<1>2. CASE S # {}
  <2>0. PICK e \in S : e \in {0, 1, 2}
    <3>1. PICK e : e \in S BY <1>2
    <3>2. e \in {0, 1, 2} BY <3>1
    <3> QED  BY <3>1, <3>2
  <2>1. Min(S) \in S /\ \A y \in S : Min(S) <= y
    <3>1. \E x \in S : \A y \in S : x <= y
      <4>1. CASE 0 \in S  BY <4>1
      <4>2. CASE 0 \notin S /\ 1 \in S  BY <4>2
      <4>3. CASE 0 \notin S /\ 1 \notin S
        <5>1. 2 \in S BY <2>0, <4>3
        <5> QED  BY <4>3, <5>1
      <4> QED  BY <4>1, <4>2, <4>3
    <3> QED  BY <3>1 DEF Min
  <2>2. Max(S) \in S /\ \A y \in S : Max(S) >= y
    <3>1. \E x \in S : \A y \in S : x >= y
      <4>1. CASE 2 \in S  BY <4>1
      <4>2. CASE 2 \notin S /\ 1 \in S  BY <4>2
      <4>3. CASE 2 \notin S /\ 1 \notin S
        <5>1. 0 \in S BY <2>0, <4>3
        <5> QED  BY <4>3, <5>1
      <4> QED  BY <4>1, <4>2, <4>3
    <3> QED  BY <3>1 DEF Max
  <2> DEFINE lo == Min(S)
             hi == Max(S)
             I == lo..hi
  <2>3. Hull(S) = I BY <1>2 DEF Hull
  <2>8. lo \in S /\ hi \in S /\ \A y \in S : lo <= y /\ hi >= y BY <2>1, <2>2
  <2> HIDE DEF lo, hi
  <2>4. lo \in 0..2 /\ hi \in 0..2 /\ lo <= hi /\ S \subseteq I BY <2>8
  <2>5. Min(I) = lo /\ Max(I) = hi
    <3>1. lo \in I /\ hi \in I /\ \A y \in I : lo <= y /\ hi >= y BY <2>4
    <3>2. \E x \in I : \A y \in I : x <= y BY <3>1
    <3>3. \E x \in I : \A y \in I : x >= y BY <3>1
    <3> DEFINE p == CHOOSE x \in I : \A y \in I : x <= y
               q == CHOOSE x \in I : \A y \in I : x >= y
    <3>4. p \in I /\ \A y \in I : p <= y BY <3>2
    <3>5. q \in I /\ \A y \in I : q >= y BY <3>3
    <3>6. p = Min(I) /\ q = Max(I) BY DEF Min, Max
    <3> HIDE DEF p, q
    <3>7. p <= lo /\ lo <= p /\ q >= hi /\ hi >= q BY <3>1, <3>4, <3>5
    <3> QED  BY <2>4, <3>4, <3>5, <3>6, <3>7
  <2>6. Hull(I) = I BY <2>4, <2>5 DEF Hull
  <2>7. I \subseteq 0..2 BY <2>4
  <2> HIDE DEF I
  <2> QED  BY <2>3, <2>4, <2>6, <2>7
<1> QED  BY <1>1, <1>2

LEMMA BufHas ==
  ASSUME NEW b \in Bufs
  PROVE  /\ b = [px |-> b.px, dirty |-> b.dirty]
         /\ b.px \in [Cols(b) -> DrBits] /\ b.dirty \subseteq 0..2 /\ b.dirty = Hull(b.dirty)
         /\ Size(b) \in {2, 3} /\ Cols(b) = 0..(Size(b) - 1) /\ Cols(b) \subseteq 0..2
<1>1. /\ b = [px |-> b.px, dirty |-> b.dirty] /\ b.dirty \subseteq 0..2 /\ b.dirty = Hull(b.dirty)
      /\ b.px \in DrPx
  BY DEF Bufs
<1>2. b.px \in [Cols(b) -> DrBits] /\ (Cols(b) = 0..(2 - 1) \/ Cols(b) = 0..(3 - 1))
  BY <1>1 DEF DrPx, Cols
<1>3. Cardinality(0..(2 - 1)) = 2 /\ Cardinality(0..(3 - 1)) = 3 BY SpanSize
<1> DEFINE z == Size(b)
<1>4. z \in {2, 3} /\ Cols(b) = 0..(z - 1) BY <1>2, <1>3 DEF Size
<1> HIDE DEF z
<1>5. Cols(b) \subseteq 0..2 BY <1>4
<1> QED  BY <1>1, <1>2, <1>4, <1>5 DEF z

LEMMA BufMade ==
  ASSUME NEW b \in Bufs, NEW px \in [Cols(b) -> DrBits], NEW D, D \subseteq 0..2
  PROVE  /\ [px |-> px, dirty |-> Hull(D)] \in Bufs
         /\ [b EXCEPT !.px = px] \in Bufs /\ [b EXCEPT !.px = px].px = px
         /\ [b EXCEPT !.px = px].dirty = b.dirty
         /\ Cols([b EXCEPT !.px = px]) = Cols(b)
<1>1. Cols(b) = 0..1 \/ Cols(b) = 0..2 BY BufHas
<1>2. px \in DrPx BY <1>1 DEF DrPx
<1>3. Hull(D) \subseteq 0..2 /\ Hull(Hull(D)) = Hull(D) BY HullIs
<1>4. [b EXCEPT !.px = px] = [px |-> px, dirty |-> b.dirty] BY BufHas
<1>5. [px |-> px, dirty |-> b.dirty] \in Bufs BY <1>2, BufHas DEF Bufs
<1>6. [px |-> px, dirty |-> Hull(D)] \in Bufs BY <1>2, <1>3 DEF Bufs
<1> QED  BY <1>4, <1>5, <1>6 DEF Cols

LEMMA MarkDirtyIs ==
  ASSUME NEW b \in Bufs, NEW x \in Int, NEW n \in Int
  PROVE  /\ MarkDirty(b, x, n) \in Bufs /\ MarkDirty(b, x, n).px = b.px
         /\ b.dirty \subseteq MarkDirty(b, x, n).dirty
         /\ \A i \in Cols(b) : i \in x..(x + n - 1) => i \in MarkDirty(b, x, n).dirty
<1> DEFINE lo == IF x < 0 THEN 0 ELSE x
           D == b.dirty \cup (Span(lo, n) \cap Cols(b))
<1>1. MarkDirty(b, x, n) = [px |-> b.px, dirty |-> Hull(D)] BY BufHas DEF MarkDirty
<1>2. D \subseteq 0..2 /\ \A i \in Cols(b) : i \in x..(x + n - 1) => i \in D BY BufHas DEF Span
<1> HIDE DEF D
<1>3. [px |-> b.px, dirty |-> Hull(D)] \in Bufs BY <1>2, BufHas, BufMade
<1>4. D \subseteq Hull(D) BY <1>2, HullIs
<1>5. b.dirty \subseteq D BY DEF D
<1> QED  BY <1>1, <1>2, <1>3, <1>4, <1>5

LEMMA Painted ==
  ASSUME NEW b \in Bufs, NEW px \in [Cols(b) -> DrBits], NEW x \in Int, NEW n \in Int, NEW loose,
         \A i \in Cols(b) : px[i] # b.px[i] => i \in x..(x + n - 1) \/ i \in loose
  PROVE  Grows(b, MarkDirty([b EXCEPT !.px = px], x, n), loose)
<1> DEFINE m == [b EXCEPT !.px = px]
<1>1. m \in Bufs /\ m.px = px /\ m.dirty = b.dirty /\ Cols(m) = Cols(b) BY BufHas, BufMade
<1> HIDE DEF m
<1> DEFINE nb == MarkDirty(m, x, n)
<1>2. /\ nb \in Bufs /\ nb.px = m.px /\ m.dirty \subseteq nb.dirty
      /\ \A i \in Cols(m) : i \in x..(x + n - 1) => i \in nb.dirty
  BY <1>1, MarkDirtyIs
<1> HIDE DEF nb
<1>3. Cols(nb) = Cols(b) BY <1>1, <1>2 DEF Cols
<1>4. Grows(b, nb, loose) BY <1>1, <1>2, <1>3 DEF Grows
<1> QED  BY <1>4 DEF nb, m

LEMMA GrowsSelf == ASSUME NEW b \in Bufs, NEW loose PROVE Grows(b, b, loose)
BY DEF Grows

LEMMA GrowsLoose ==
  ASSUME NEW b, NEW nb, NEW A, NEW B, A \subseteq B, Grows(b, nb, A) PROVE Grows(b, nb, B)
BY DEF Grows

LEMMA GrowsOn ==
  ASSUME NEW b, NEW m, NEW nb, Grows(b, m, {}), Grows(m, nb, {})
  PROVE  Grows(b, nb, {})
BY DEF Grows

LEMMA GcFunctionBit ==
  ASSUME NEW fn \in DrFunctions, NEW s \in DrBits, NEW d \in DrBits
  PROVE  ApplyGcFunction(fn, s, d) \in DrBits
BY DEF ApplyGcFunction, DrFunctions, DrBits

LEMMA RopBit ==
  ASSUME NEW gc \in DrContexts, NEW s \in DrBits, NEW d \in DrBits
  PROVE  Rop(gc, s, d) \in DrBits
<1>1. gc.fn \in DrFunctions BY DEF DrContexts
<1>2. ApplyGcFunction(gc.fn, s, d) \in DrBits BY <1>1, GcFunctionBit
<1> QED  BY <1>2 DEF Rop

LEMMA ColourOf ==
  ASSUME NEW e \in DrInks, e # {} PROVE The(e) \in DrBits
BY DEF DrInks, DrBits, The

-----------------------------------------------------------------------------
(* The drawing routines, one by one. *)
LEMMA PointsGrow ==
  ASSUME NEW b \in Bufs, NEW cols, NEW ink, NEW gc \in DrContexts, NEW loose,
         \A i \in Cols(b) : ink[i] \in DrInks
  PROVE  Grows(b, DrawPointGc(b, cols, ink, gc), loose)
<1> DEFINE at == {i \in cols \cap Cols(b) \cap Clip(gc) : ink[i] # {}}
           px == [i \in Cols(b) |-> IF i \in at THEN Rop(gc, The(ink[i]), b.px[i]) ELSE b.px[i]]
           D == b.dirty \cup at
           nb == [px |-> px, dirty |-> Hull(D)]
<1>1. DrawPointGc(b, cols, ink, gc) = nb BY DEF DrawPointGc
<1>2. at \subseteq Cols(b) /\ \A i \in at : ink[i] # {} OBVIOUS
<1> HIDE DEF at
<1>3. \A i \in Cols(b) : b.px[i] \in DrBits BY BufHas
<1>4. \A i \in at : Rop(gc, The(ink[i]), b.px[i]) \in DrBits
  <2> SUFFICES ASSUME NEW i \in at PROVE Rop(gc, The(ink[i]), b.px[i]) \in DrBits
    OBVIOUS
  <2>1. The(ink[i]) \in DrBits /\ b.px[i] \in DrBits BY <1>2, <1>3, ColourOf
  <2> QED  BY <2>1, RopBit
<1>5. px \in [Cols(b) -> DrBits] BY <1>3, <1>4
<1>6. \A i \in Cols(b) : px[i] # b.px[i] => i \in at OBVIOUS
<1>7. D \subseteq 0..2 /\ at \subseteq D /\ b.dirty \subseteq D BY <1>2, BufHas
<1> HIDE DEF px, D
<1>8. nb \in Bufs /\ D \subseteq Hull(D) BY <1>5, <1>7, BufMade, HullIs
<1>9. nb.px = px /\ nb.dirty = Hull(D) /\ Cols(nb) = Cols(b) BY <1>5 DEF Cols
<1> HIDE DEF nb
<1>10. Grows(b, nb, loose) BY <1>6, <1>7, <1>8, <1>9 DEF Grows
<1> QED  BY <1>1, <1>10

LEMMA SkiaMarked ==
  ASSUME NEW b \in Bufs, NEW cols, NEW ink, NEW gc, NEW x \in Int, NEW n \in Int, NEW loose,
         \A i \in Cols(b) : ink[i] \in DrInks,
         \A i \in Cols(b) : i \in cols => i \in x..(x + n - 1) \/ i \in loose
  PROVE  Grows(b, MarkDirty(SkiaPaint(b, cols, ink, gc), x, n), loose)
<1> DEFINE c == cols \cap BuildClipMask(gc)
           px == [i \in Cols(b) |-> IF i \in c /\ ink[i] # {} THEN The(ink[i]) ELSE b.px[i]]
<1>1. SkiaPaint(b, cols, ink, gc) = [b EXCEPT !.px = px] BY DEF SkiaPaint
<1>2. c \subseteq cols OBVIOUS
<1> HIDE DEF c
<1>3. \A i \in Cols(b) : b.px[i] \in DrBits /\ (ink[i] # {} => The(ink[i]) \in DrBits)
  BY BufHas, ColourOf
<1>4. px \in [Cols(b) -> DrBits] BY <1>3
<1>5. \A i \in Cols(b) : px[i] # b.px[i] => i \in x..(x + n - 1) \/ i \in loose BY <1>2
<1> HIDE DEF px
<1> QED  BY <1>1, <1>4, <1>5, Painted

LEMMA PutImageGrows ==
  ASSUME NEW b \in Bufs, NEW x \in Int, NEW n \in Nat, NEW data \in [0..(n - 1) -> DrBits]
  PROVE  Grows(b, PutImage(b, x, data), {})
<1>1. DOMAIN data = 0..(n - 1) /\ Cardinality(DOMAIN data) = n BY SpanSize
<1>2. CASE DOMAIN data = {} BY <1>2, GrowsSelf DEF PutImage
<1>3. CASE DOMAIN data # {}
  <2> DEFINE px == [i \in Cols(b) |-> IF i - x \in DOMAIN data THEN data[i - x] ELSE b.px[i]]
  <2>1. PutImage(b, x, data) = MarkDirty([b EXCEPT !.px = px], x, n) BY <1>1, <1>3 DEF PutImage
  <2>2. px \in [Cols(b) -> DrBits] BY <1>1, BufHas
  <2>3. \A i \in Cols(b) : px[i] # b.px[i] => i \in x..(x + n - 1) \/ i \in {} BY <1>1, BufHas
  <2> HIDE DEF px
  <2> QED  BY <2>1, <2>2, <2>3, Painted
<1> QED  BY <1>2, <1>3

LEMMA PutImageGcGrows ==
  ASSUME NEW b \in Bufs, NEW x \in Int, NEW n \in Nat, NEW data \in [0..(n - 1) -> DrBits],
         NEW gc \in DrContexts
  PROVE  Grows(b, PutImageGc(b, x, data, gc), {})
<1>1. DOMAIN data = 0..(n - 1) /\ Cardinality(DOMAIN data) = n BY SpanSize
<1>2. CASE SkiaEligible(gc) /\ gc.clip = {} BY <1>2, PutImageGrows DEF PutImageGc
<1>3. CASE ~(SkiaEligible(gc) /\ gc.clip = {})
  <2> DEFINE at == {i \in Cols(b) : i - x \in DOMAIN data /\ i \in Clip(gc)}
             px == [i \in Cols(b) |-> IF i - x \in DOMAIN data /\ i \in Clip(gc)
                                      THEN Rop(gc, data[i - x], b.px[i]) ELSE b.px[i]]
  <2>1. PutImageGc(b, x, data, gc) = MarkDirty([b EXCEPT !.px = px], x, n)
    BY <1>1, <1>3 DEF PutImageGc
  <2>2. px \in [Cols(b) -> DrBits]
    <3>1. \A i \in Cols(b) : b.px[i] \in DrBits BY BufHas
    <3>2. \A i \in Cols(b) : i - x \in DOMAIN data => Rop(gc, data[i - x], b.px[i]) \in DrBits
      BY <3>1, RopBit
    <3> QED  BY <3>1, <3>2
  <2>3. \A i \in Cols(b) : px[i] # b.px[i] => i \in x..(x + n - 1) \/ i \in {} BY <1>1, BufHas
  <2> HIDE DEF px
  <2> QED  BY <2>1, <2>2, <2>3, Painted
<1> QED  BY <1>2, <1>3

LEMMA PutImageOverGrows ==
  ASSUME NEW b \in Bufs, NEW x \in Int, NEW n \in Nat, NEW ink \in [0..(n - 1) -> DrInks],
         NEW gc \in DrContexts
  PROVE  Grows(b, PutImageOverGc(b, x, ink, gc), {})
<1>1. DOMAIN ink = 0..(n - 1) /\ Cardinality(DOMAIN ink) = n BY SpanSize
<1>2. \A i \in Cols(b) : b.px[i] \in DrBits BY BufHas
<1>3. \A i \in Cols(b) : i - x \in DOMAIN ink /\ ink[i - x] # {} =>
         The(ink[i - x]) \in DrBits /\ Rop(gc, The(ink[i - x]), b.px[i]) \in DrBits
  <2> SUFFICES ASSUME NEW i \in Cols(b), i - x \in DOMAIN ink, ink[i - x] # {}
               PROVE  The(ink[i - x]) \in DrBits /\ Rop(gc, The(ink[i - x]), b.px[i]) \in DrBits
    OBVIOUS
  <2>1. The(ink[i - x]) \in DrBits BY <1>1, ColourOf
  <2> QED  BY <1>2, <2>1, RopBit
<1>4. \A i \in Cols(b) : i - x \in DOMAIN ink => i \in x..(x + n - 1) BY <1>1, BufHas
<1>5. CASE SkiaEligible(gc) /\ gc.clip = {}
  <2> DEFINE px == [i \in Cols(b) |->
                  IF i - x \in DOMAIN ink /\ ink[i - x] # {} THEN The(ink[i - x]) ELSE b.px[i]]
  <2>1. PutImageOverGc(b, x, ink, gc) = MarkDirty([b EXCEPT !.px = px], x, n)
    BY <1>1, <1>5 DEF PutImageOverGc, PutImageOver
  <2>2. px \in [Cols(b) -> DrBits] BY <1>2, <1>3
  <2>3. \A i \in Cols(b) : px[i] # b.px[i] => i \in x..(x + n - 1) \/ i \in {} BY <1>4
  <2> HIDE DEF px
  <2> QED  BY <2>1, <2>2, <2>3, Painted
<1>6. CASE ~(SkiaEligible(gc) /\ gc.clip = {})
  <2> DEFINE px == [i \in Cols(b) |->
                  IF i - x \in DOMAIN ink /\ i \in Clip(gc) /\ ink[i - x] # {}
                  THEN Rop(gc, The(ink[i - x]), b.px[i]) ELSE b.px[i]]
  <2>1. PutImageOverGc(b, x, ink, gc) = MarkDirty([b EXCEPT !.px = px], x, n)
    BY <1>1, <1>6 DEF PutImageOverGc
  <2>2. px \in [Cols(b) -> DrBits] BY <1>2, <1>3
  <2>3. \A i \in Cols(b) : px[i] # b.px[i] => i \in x..(x + n - 1) \/ i \in {} BY <1>4
  <2> HIDE DEF px
  <2> QED  BY <2>1, <2>2, <2>3, Painted
<1> QED  BY <1>5, <1>6

LEMMA FillRectGrows ==
  ASSUME NEW b \in Bufs, NEW x \in Int, NEW n \in Int, NEW c \in DrBits
  PROVE  Grows(b, FillRect(b, x, n, c), {})
<1>1. CASE Span(x, n) \cap Cols(b) = {} BY <1>1, GrowsSelf DEF FillRect
<1>2. CASE Span(x, n) \cap Cols(b) # {}
  <2> DEFINE px == [i \in Cols(b) |-> IF i \in Span(x, n) THEN c ELSE b.px[i]]
  <2>1. FillRect(b, x, n, c) = MarkDirty([b EXCEPT !.px = px], x, n) BY <1>2 DEF FillRect
  <2>2. px \in [Cols(b) -> DrBits] BY BufHas
  <2>3. \A i \in Cols(b) : px[i] # b.px[i] => i \in x..(x + n - 1) \/ i \in {} BY DEF Span
  <2> HIDE DEF px
  <2> QED  BY <2>1, <2>2, <2>3, Painted
<1> QED  BY <1>1, <1>2

LEMMA FillRectRopGrows ==
  ASSUME NEW b \in Bufs, NEW x \in Int, NEW n \in Int, NEW c \in DrBits, NEW gc \in DrContexts
  PROVE  Grows(b, FillRectRop(b, x, n, c, gc), {})
<1>1. CASE SkiaEligible(gc) BY <1>1, FillRectGrows DEF FillRectRop
<1>2. CASE ~SkiaEligible(gc) /\ (gc.fn = "noop" \/ Span(x, n) \cap Cols(b) = {})
  BY <1>2, GrowsSelf DEF FillRectRop
<1>3. CASE ~SkiaEligible(gc) /\ ~(gc.fn = "noop" \/ Span(x, n) \cap Cols(b) = {})
  <2> DEFINE px == [i \in Cols(b) |-> IF i \in Span(x, n) THEN Rop(gc, c, b.px[i]) ELSE b.px[i]]
  <2>1. FillRectRop(b, x, n, c, gc) = MarkDirty([b EXCEPT !.px = px], x, n) BY <1>3 DEF FillRectRop
  <2>2. px \in [Cols(b) -> DrBits]
    <3>1. \A i \in Cols(b) : b.px[i] \in DrBits BY BufHas
    <3>2. \A i \in Cols(b) : Rop(gc, c, b.px[i]) \in DrBits BY <3>1, RopBit
    <3> QED  BY <3>1, <3>2
  <2>3. \A i \in Cols(b) : px[i] # b.px[i] => i \in x..(x + n - 1) \/ i \in {} BY DEF Span
  <2> HIDE DEF px
  <2> QED  BY <2>1, <2>2, <2>3, Painted
<1> QED  BY <1>1, <1>2, <1>3

-----------------------------------------------------------------------------
LEMMA ImageFinite ==
  ASSUME NEW S, IsFiniteSet(S), NEW T, NEW f \in [S -> T], \A t \in T : \E s \in S : f[s] = t
  PROVE  IsFiniteSet(T)
<1>1. f \in Surjection(S, T) BY DEF Surjection
<1> QED  BY <1>1, FS_Surjection

(* The least element of an interval of columns, and their number. *)
IsBox(box, b, x, n) == box = x..(x + n) \cap Cols(b) /\ box # {}
LEMMA BoxIs ==
  ASSUME NEW b \in Bufs, NEW x \in Int, NEW n \in Nat, NEW box, IsBox(box, b, x, n)
  PROVE  /\ Min(box) \in Int /\ Cardinality(box) \in Nat
         /\ box = Min(box)..(Min(box) + Cardinality(box) - 1)
<1>1. PICK z \in {2, 3} : Cols(b) = 0..(z - 1)
  BY BufHas
<1> DEFINE lo == IF x < 0 THEN 0 ELSE x
           hi == IF x + n < z - 1 THEN x + n ELSE z - 1
<1>2. lo \in Int /\ hi \in Int /\ box = lo..hi /\ lo <= hi BY <1>1 DEF IsBox
<1> HIDE DEF lo, hi
<1>3. Cardinality(box) = hi - lo + 1
  <2>1. Cardinality(lo..hi) = IF lo > hi THEN 0 ELSE hi - lo + 1 BY <1>2, FS_Interval
  <2>2. ~(lo > hi) BY <1>2
  <2> QED  BY <1>2, <2>1, <2>2
<1>4. Min(box) = lo
  <2>1. lo \in box /\ \A y \in box : lo <= y BY <1>2
  <2>2. \E m \in box : \A y \in box : m <= y BY <2>1
  <2> DEFINE p == CHOOSE m \in box : \A y \in box : m <= y
  <2>3. p \in box /\ \A y \in box : p <= y BY <2>2
  <2>4. p = Min(box) BY DEF Min
  <2> HIDE DEF p
  <2>5. p <= lo /\ lo <= p /\ p \in Int BY <1>2, <2>1, <2>3
  <2> QED  BY <1>2, <2>4, <2>5
<1> QED  BY <1>2, <1>3, <1>4

LEMMA SkiaLoose ==
  ASSUME NEW b \in Bufs, NEW cols, NEW ink, NEW gc, NEW loose,
         \A i \in Cols(b) : ink[i] \in DrInks, \A i \in Cols(b) : i \in cols => i \in loose
  PROVE  Grows(b, SkiaPaint(b, cols, ink, gc), loose) /\ SkiaPaint(b, cols, ink, gc) \in Bufs
<1> DEFINE c == cols \cap BuildClipMask(gc)
           px == [i \in Cols(b) |-> IF i \in c /\ ink[i] # {} THEN The(ink[i]) ELSE b.px[i]]
           m == [b EXCEPT !.px = px]
<1>1. SkiaPaint(b, cols, ink, gc) = m BY DEF SkiaPaint
<1>2. c \subseteq cols OBVIOUS
<1> HIDE DEF c
<1>3. \A i \in Cols(b) : b.px[i] \in DrBits /\ (ink[i] # {} => The(ink[i]) \in DrBits)
  BY BufHas, ColourOf
<1>4. px \in [Cols(b) -> DrBits] BY <1>3
<1>5. \A i \in Cols(b) : px[i] # b.px[i] => i \in loose BY <1>2
<1> HIDE DEF px
<1>6. m \in Bufs /\ m.px = px /\ m.dirty = b.dirty /\ Cols(m) = Cols(b) BY <1>4, BufHas, BufMade
<1> HIDE DEF m
<1>7. Grows(b, m, loose) BY <1>5, <1>6 DEF Grows
<1> QED  BY <1>1, <1>6, <1>7

LEMMA BoxMarked ==
  ASSUME NEW b \in Bufs, NEW x \in Int, NEW n \in Nat, NEW ink, NEW gc,
         \A i \in Cols(b) : ink[i] \in DrInks
  PROVE  Grows(b, MarkBox(SkiaPaint(b, Span(x, n), ink, gc), x, n), {})
<1> DEFINE m == SkiaPaint(b, Span(x, n), ink, gc)
           box == x..(x + n) \cap Cols(b)
<1>1. m \in Bufs /\ Cols(m) = Cols(b) BY SkiaLoose DEF Grows
<1>2. MarkBox(m, x, n) = IF box = {} THEN m ELSE MarkDirty(m, Min(box), Cardinality(box))
  BY <1>1 DEF MarkBox
<1>3. \A i \in Cols(b) : i \in Span(x, n) => i \in box BY DEF Span
<1>4. CASE box = {}
  <2>1. \A i \in Cols(b) : i \in Span(x, n) => i \in {} BY <1>3, <1>4
  <2>2. Grows(b, m, {}) BY <2>1, SkiaLoose
  <2> QED  BY <1>2, <1>4, <2>2
<1>5. CASE box # {}
  <2> DEFINE y == Min(box)
             k == Cardinality(box)
  <2>1. y \in Int /\ k \in Int /\ box = y..(y + k - 1)
    <3>1. IsBox(box, b, x, n) BY <1>5 DEF IsBox
    <3> HIDE DEF box
    <3> QED  BY <3>1, BoxIs
  <2> HIDE DEF y, k, box
  <2>2. \A i \in Cols(b) : i \in Span(x, n) => i \in y..(y + k - 1) \/ i \in {} BY <1>3, <2>1
  <2>3. Grows(b, MarkDirty(m, y, k), {}) BY <2>1, <2>2, SkiaMarked
  <2> QED  BY <1>2, <1>5, <2>3 DEF y, k
<1> QED  BY <1>4, <1>5

LEMMA MarkDirtyGrows ==
  ASSUME NEW b \in Bufs, NEW m, Grows(b, m, {}), NEW x \in Int, NEW n \in Int
  PROVE  Grows(b, MarkDirty(m, x, n), {})
<1> DEFINE nb == MarkDirty(m, x, n)
<1>1. m \in Bufs BY DEF Grows
<1>2. nb \in Bufs /\ nb.px = m.px /\ m.dirty \subseteq nb.dirty BY <1>1, MarkDirtyIs
<1> HIDE DEF nb
<1>3. Grows(b, nb, {}) BY <1>2 DEF Grows, Cols
<1> QED  BY <1>3 DEF nb

LEMMA NoClip ==
  ASSUME NEW gc \in DrContexts
  PROVE  /\ [gc EXCEPT !.clip = {}] \in DrContexts /\ [gc EXCEPT !.all = TRUE] \in DrContexts
         /\ [gc EXCEPT !.fn = "copy", !.all = TRUE] \in DrContexts
<1>1. "copy" \in DrFunctions BY DEF DrFunctions
<1>2. IsFiniteSet({}) BY FS_EmptySet
<1> QED  BY <1>1, <1>2 DEF DrContexts

LEMMA FillRectTiledGrows ==
  ASSUME NEW b \in Bufs, NEW x \in Int, NEW n \in Nat, NEW ink, NEW gc \in DrContexts,
         \A i \in Cols(b) : ink[i] \in DrInks
  PROVE  Grows(b, FillRectTiled(b, x, n, ink, gc), {})
<1> DEFINE g == [gc EXCEPT !.clip = {}]
<1>1. g \in DrContexts BY NoClip
<1>2. FillRectTiled(b, x, n, ink, gc) =
         IF n = 0 THEN b
         ELSE IF SkiaEligible(gc) THEN MarkDirty(SkiaPaint(b, Span(x, n), ink, g), x, n)
         ELSE IF Span(x, n) \cap Cols(b) = {} THEN b
         ELSE MarkDirty(DrawPointGc(b, Span(x, n), ink, g), x, n)
  BY DEF FillRectTiled
<1> HIDE DEF g
<1>3. Grows(b, MarkDirty(SkiaPaint(b, Span(x, n), ink, g), x, n), {}) BY SkiaMarked DEF Span
<1>4. Grows(b, MarkDirty(DrawPointGc(b, Span(x, n), ink, g), x, n), {})
  <2>1. Grows(b, DrawPointGc(b, Span(x, n), ink, g), {}) BY <1>1, PointsGrow
  <2> QED  BY <2>1, MarkDirtyGrows
<1> QED  BY <1>2, <1>3, <1>4, GrowsSelf

LEMMA PiecesAre ==
  ASSUME NEW x \in Int, NEW n \in Int, NEW gc \in DrContexts
  PROVE  IsFiniteSet(Pieces(x, n, gc)) /\ Pieces(x, n, gc) \subseteq Int \X Nat
<1>1. gc.clip \subseteq Int \X Nat /\ IsFiniteSet(gc.clip) BY DEF DrContexts
<1> DEFINE I == {IntersectRects(x, n, r) : r \in gc.clip}
           f == [r \in gc.clip |-> IntersectRects(x, n, r)]
<1>2. IsFiniteSet(I)
  <2>1. f \in [gc.clip -> I] /\ \A t \in I : \E r \in gc.clip : f[r] = t OBVIOUS
  <2> HIDE DEF f, I
  <2> QED  BY <1>1, <2>1, ImageFinite
<1>3. ASSUME NEW r \in gc.clip PROVE IntersectRects(x, n, r) \in Int \X Nat
  <2>1. r[1] \in Int /\ r[2] \in Nat BY <1>1
  <2> DEFINE c == Span(x, n) \cap Span(r[1], r[2])
             lo == IF x < r[1] THEN r[1] ELSE x
             hi == IF x + n < r[1] + r[2] THEN x + n - 1 ELSE r[1] + r[2] - 1
  <2>2. IntersectRects(x, n, r) = IF c = {} THEN <<0, 0>> ELSE <<Min(c), Cardinality(c)>>
    BY DEF IntersectRects
  <2>3. c = lo..hi /\ lo \in Int /\ hi \in Int BY <2>1 DEF Span
  <2> HIDE DEF c, lo, hi
  <2>4. CASE c = {} BY <2>2, <2>4
  <2>5. CASE c # {}
    <3>1. \E m \in c : \A y \in c : m <= y
      <4>1. lo \in c /\ \A y \in c : lo <= y BY <2>3, <2>5
      <4> QED  BY <4>1
    <3>2. Min(c) \in c BY <3>1 DEF Min
    <3>3. Min(c) \in Int BY <2>3, <3>2
    <3>4. Cardinality(c) \in Nat
      <4>1. IsFiniteSet(c) BY <2>3, FS_Interval
      <4> QED  BY <4>1, FS_CardinalityType
    <3> QED  BY <2>2, <2>5, <3>3, <3>4
  <2> QED  BY <2>4, <2>5
<1>4. I \subseteq Int \X Nat BY <1>3
<1>5. Pieces(x, n, gc) = I \ {<<0, 0>>} BY DEF Pieces
<1> HIDE DEF I
<1> QED  BY <1>2, <1>4, <1>5, FS_RemoveElement

-----------------------------------------------------------------------------
(* A fold of a routine that marks what it changes marks what it changes.  The  *)
(* three folds differ in the routine, so each unfolds its own recursion.       *)
LEMMA FillRectRopClippedGrows ==
  ASSUME NEW b \in Bufs, NEW x \in Int, NEW n \in Int, NEW c \in DrBits, NEW gc \in DrContexts
  PROVE  Grows(b, FillRectRopClipped(b, x, n, c, gc), {})
<1> DEFINE S == Pieces(x, n, gc)
           V == {nb \in Bufs : Grows(b, nb, {})}
           H == [z \in S \X V |-> FillRectRop(z[2], z[1][1], z[1][2], c, gc)]
           At(g, s) == IF s = {} THEN b
                       ELSE FillRectRop(g[s \ {Pick(s)}], Pick(s)[1], Pick(s)[2], c, gc)
           iter == CHOOSE g : g = [s \in SUBSET S |-> At(g, s)]
<1>1. FillRectRopClipped(b, x, n, c, gc) =
         IF gc.clip = {} THEN FillRectRop(b, x, n, c, gc) ELSE iter[S]
  BY DEF FillRectRopClipped, FoldSet, MapThenFoldSet, Pick
<1>2. IsFiniteSet(S) /\ S \subseteq Int \X Nat BY PiecesAre
<1> HIDE DEF S
<1>3. b \in V BY GrowsSelf
<1>4. ASSUME NEW r \in S, NEW v \in V PROVE FillRectRop(v, r[1], r[2], c, gc) \in V
  <2>1. r[1] \in Int /\ r[2] \in Int BY <1>2
  <2>2. Grows(v, FillRectRop(v, r[1], r[2], c, gc), {}) BY <2>1, FillRectRopGrows
  <2>3. Grows(b, FillRectRop(v, r[1], r[2], c, gc), {}) BY <2>2, GrowsOn
  <2> QED  BY <2>3 DEF Grows
<1>5. H \in [S \X V -> V] BY <1>4
<1>6. \A r \in S, v \in V : H[<<r, v>>] = FillRectRop(v, r[1], r[2], c, gc) OBVIOUS
<1> HIDE DEF V, H
<1>7. PICK f : FoldsAll(f, S, V, b, H)
  <2>1. Foldable(S, V, b, H) BY <1>2, <1>3, <1>5 DEF Foldable
  <2> QED  BY <2>1, FoldExists
<1>8. \A s \in SUBSET S : f[s] = At(f, s)
  <2> SUFFICES ASSUME NEW s \in SUBSET S PROVE f[s] = At(f, s)
    OBVIOUS
  <2>1. CASE s = {} BY <1>7, <2>1 DEF Folds, FoldsAll
  <2>2. CASE s # {}
    <3>1. Pick(s) \in S /\ f[s \ {Pick(s)}] \in V BY <1>7, <2>2 DEF Pick, FoldsAll
    <3>2. f[s] = H[<<Pick(s), f[s \ {Pick(s)}]>>] BY <1>7, <2>2 DEF Folds, FoldsAll
    <3> QED  BY <1>6, <2>2, <3>1, <3>2
  <2> QED  BY <2>1, <2>2
<1>9. f = [s \in SUBSET S |-> At(f, s)] BY <1>7, <1>8 DEF FoldsAll
<1>10. iter = [s \in SUBSET S |-> At(iter, s)]
  <2>1. \E g : g = [s \in SUBSET S |-> At(g, s)] BY <1>9
  <2> QED  BY <2>1
<1> HIDE DEF iter
<1>11. iter[S] \in V
  <2>1. iter[{}] \in V BY <1>3, <1>10
  <2>2. \A s \in SUBSET S : s # {} /\ iter[s \ {Pick(s)}] \in V => iter[s] \in V
    <3> SUFFICES ASSUME NEW s \in SUBSET S, s # {}, iter[s \ {Pick(s)}] \in V PROVE iter[s] \in V
      OBVIOUS
    <3>1. Pick(s) \in S BY DEF Pick
    <3>2. iter[s] = FillRectRop(iter[s \ {Pick(s)}], Pick(s)[1], Pick(s)[2], c, gc) BY <1>10
    <3> QED  BY <1>4, <3>1, <3>2
  <2> QED  BY <1>2, <2>1, <2>2, FoldStays
<1>12. Grows(b, FillRectRop(b, x, n, c, gc), {}) BY FillRectRopGrows
<1> QED  BY <1>1, <1>11, <1>12 DEF V

-----------------------------------------------------------------------------
LEMMA FillRectStippledGrows ==
  ASSUME NEW b \in Bufs, NEW x \in Int, NEW n \in Nat, NEW ink, NEW gc \in DrContexts,
         \A i \in 0..2 : ink[i] \in DrInks
  PROVE  Grows(b, FillRectStippled(b, x, n, ink, gc), {})
<1>1. \A i \in Cols(b) : ink[i] \in DrInks BY BufHas
<1> QED  BY <1>1, FillRectTiledGrows DEF FillRectStippled

LEMMA FillRectPatternGrows ==
  ASSUME NEW b \in Bufs, NEW x \in Int, NEW n \in Nat, NEW ink, NEW gc \in DrContexts,
         \A i \in 0..2 : ink[i] \in DrInks
  PROVE  Grows(b, FillRectPattern(b, x, n, ink, gc), {})
<1> DEFINE S == Pieces(x, n, gc)
           V == {nb \in Bufs : Grows(b, nb, {})}
           H == [z \in S \X V |-> FillRectStippled(z[2], z[1][1], z[1][2], ink, gc)]
           At(g, s) == IF s = {} THEN b
                       ELSE FillRectStippled(g[s \ {Pick(s)}], Pick(s)[1], Pick(s)[2], ink, gc)
           iter == CHOOSE g : g = [s \in SUBSET S |-> At(g, s)]
<1>1. FillRectPattern(b, x, n, ink, gc) =
         IF gc.clip = {} THEN FillRectStippled(b, x, n, ink, gc) ELSE iter[S]
  BY DEF FillRectPattern, FoldSet, MapThenFoldSet, Pick
<1>2. IsFiniteSet(S) /\ S \subseteq Int \X Nat BY PiecesAre
<1> HIDE DEF S
<1>3. b \in V BY GrowsSelf
<1>4. ASSUME NEW r \in S, NEW v \in V PROVE FillRectStippled(v, r[1], r[2], ink, gc) \in V
  <2>1. r[1] \in Int /\ r[2] \in Nat BY <1>2
  <2>2. Grows(v, FillRectStippled(v, r[1], r[2], ink, gc), {}) BY <2>1, FillRectStippledGrows
  <2>3. Grows(b, FillRectStippled(v, r[1], r[2], ink, gc), {}) BY <2>2, GrowsOn
  <2> QED  BY <2>3 DEF Grows
<1>5. H \in [S \X V -> V] BY <1>4
<1>6. \A r \in S, v \in V : H[<<r, v>>] = FillRectStippled(v, r[1], r[2], ink, gc) OBVIOUS
<1> HIDE DEF V, H
<1>7. PICK f : FoldsAll(f, S, V, b, H)
  <2>1. Foldable(S, V, b, H) BY <1>2, <1>3, <1>5 DEF Foldable
  <2> QED  BY <2>1, FoldExists
<1>8. \A s \in SUBSET S : f[s] = At(f, s)
  <2> SUFFICES ASSUME NEW s \in SUBSET S PROVE f[s] = At(f, s)
    OBVIOUS
  <2>1. CASE s = {} BY <1>7, <2>1 DEF Folds, FoldsAll
  <2>2. CASE s # {}
    <3>1. Pick(s) \in S /\ f[s \ {Pick(s)}] \in V BY <1>7, <2>2 DEF Pick, FoldsAll
    <3>2. f[s] = H[<<Pick(s), f[s \ {Pick(s)}]>>] BY <1>7, <2>2 DEF Folds, FoldsAll
    <3> QED  BY <1>6, <2>2, <3>1, <3>2
  <2> QED  BY <2>1, <2>2
<1>9. f = [s \in SUBSET S |-> At(f, s)] BY <1>7, <1>8 DEF FoldsAll
<1>10. iter = [s \in SUBSET S |-> At(iter, s)]
  <2>1. \E g : g = [s \in SUBSET S |-> At(g, s)] BY <1>9
  <2> QED  BY <2>1
<1> HIDE DEF iter
<1>11. iter[S] \in V
  <2>1. iter[{}] \in V BY <1>3, <1>10
  <2>2. \A s \in SUBSET S : s # {} /\ iter[s \ {Pick(s)}] \in V => iter[s] \in V
    <3> SUFFICES ASSUME NEW s \in SUBSET S, s # {}, iter[s \ {Pick(s)}] \in V PROVE iter[s] \in V
      OBVIOUS
    <3>1. Pick(s) \in S BY DEF Pick
    <3>2. iter[s] = FillRectStippled(iter[s \ {Pick(s)}], Pick(s)[1], Pick(s)[2], ink, gc) BY <1>10
    <3> QED  BY <1>4, <3>1, <3>2
  <2> QED  BY <1>2, <2>1, <2>2, FoldStays
<1>12. Grows(b, FillRectStippled(b, x, n, ink, gc), {}) BY FillRectStippledGrows
<1> QED  BY <1>1, <1>11, <1>12 DEF V

Inside(rects, src) ==
    /\ IsFiniteSet(rects) /\ rects \subseteq Int \X Nat
    /\ \A r \in rects : \A i \in 0..(r[2] - 1) : r[1] + i \in Cols(src)
LEMMA PutRectsGrows ==
  ASSUME NEW b \in Bufs, NEW src \in Bufs, NEW S, Inside(S, src), NEW x \in Int
  PROVE  Grows(b, PutRects(b, src, S, x), {})
<1> DEFINE Part(r) == [i \in 0..(r[2] - 1) |-> src.px[r[1] + i]]
           V == {nb \in Bufs : Grows(b, nb, {})}
           H == [z \in S \X V |-> PutImage(z[2], x + z[1][1], Part(z[1]))]
           At(g, s) == IF s = {} THEN b
                       ELSE PutImage(g[s \ {Pick(s)}], x + Pick(s)[1], Part(Pick(s)))
           iter == CHOOSE g : g = [s \in SUBSET S |-> At(g, s)]
<1>1. PutRects(b, src, S, x) =
         iter[S]
  BY DEF PutRects, FoldSet, MapThenFoldSet, Pick
<1>2. IsFiniteSet(S) /\ S \subseteq Int \X Nat BY DEF Inside
<1>3. b \in V BY GrowsSelf
<1>4. ASSUME NEW r \in S, NEW v \in V PROVE PutImage(v, x + r[1], Part(r)) \in V
  <2>1. r[1] \in Int /\ r[2] \in Nat BY <1>2
  <2>0. Part(r) \in [0..(r[2] - 1) -> DrBits] BY BufHas DEF Inside
  <2>2. Grows(v, PutImage(v, x + r[1], Part(r)), {})
    <3> DEFINE k == r[2]
               y == x + r[1]
               d == Part(r)
    <3>1. k \in Nat /\ y \in Int /\ d \in [0..(k - 1) -> DrBits] BY <2>0, <2>1
    <3> HIDE DEF k, y, d
    <3>2. Grows(v, PutImage(v, y, d), {}) BY <3>1, PutImageGrows
    <3> QED  BY <3>2 DEF y, d
  <2>3. Grows(b, PutImage(v, x + r[1], Part(r)), {}) BY <2>2, GrowsOn
  <2> QED  BY <2>3 DEF Grows
<1>5. H \in [S \X V -> V] BY <1>4
<1>6. \A r \in S, v \in V : H[<<r, v>>] = PutImage(v, x + r[1], Part(r)) OBVIOUS
<1> HIDE DEF V, H
<1>7. PICK f : FoldsAll(f, S, V, b, H)
  <2>1. Foldable(S, V, b, H) BY <1>2, <1>3, <1>5 DEF Foldable
  <2> QED  BY <2>1, FoldExists
<1>8. \A s \in SUBSET S : f[s] = At(f, s)
  <2> SUFFICES ASSUME NEW s \in SUBSET S PROVE f[s] = At(f, s)
    OBVIOUS
  <2>1. CASE s = {} BY <1>7, <2>1 DEF Folds, FoldsAll
  <2>2. CASE s # {}
    <3>1. Pick(s) \in S /\ f[s \ {Pick(s)}] \in V BY <1>7, <2>2 DEF Pick, FoldsAll
    <3>2. f[s] = H[<<Pick(s), f[s \ {Pick(s)}]>>] BY <1>7, <2>2 DEF Folds, FoldsAll
    <3> QED  BY <1>6, <2>2, <3>1, <3>2
  <2> QED  BY <2>1, <2>2
<1>9. f = [s \in SUBSET S |-> At(f, s)] BY <1>7, <1>8 DEF FoldsAll
<1>10. iter = [s \in SUBSET S |-> At(iter, s)]
  <2>1. \E g : g = [s \in SUBSET S |-> At(g, s)] BY <1>9
  <2> QED  BY <2>1
<1> HIDE DEF iter
<1>11. iter[S] \in V
  <2>1. iter[{}] \in V BY <1>3, <1>10
  <2>2. \A s \in SUBSET S : s # {} /\ iter[s \ {Pick(s)}] \in V => iter[s] \in V
    <3> SUFFICES ASSUME NEW s \in SUBSET S, s # {}, iter[s \ {Pick(s)}] \in V PROVE iter[s] \in V
      OBVIOUS
    <3>1. Pick(s) \in S BY DEF Pick
    <3>2. iter[s] = PutImage(iter[s \ {Pick(s)}], x + Pick(s)[1], Part(Pick(s))) BY <1>10
    <3> QED  BY <1>4, <3>1, <3>2
  <2> QED  BY <1>2, <2>1, <2>2, FoldStays
<1> QED  BY <1>1, <1>11 DEF V

-----------------------------------------------------------------------------
(* Inks, strokes, arcs and polygons. *)
Inked(ink) == \A i \in 0..2 : ink[i] \in DrInks

LEMMA InkedOn == ASSUME NEW b \in Bufs, NEW ink, Inked(ink) PROVE \A i \in Cols(b) : ink[i] \in DrInks
BY BufHas DEF Inked

LEMMA ReachPad ==
  ASSUME NEW gc \in DrContexts
  PROVE  Reach(gc) \in Nat /\ Pad(gc) \in Nat /\ Reach(gc) <= Pad(gc) /\ gc.lw \in Nat
<1>1. gc.lw \in Nat BY DEF DrContexts
<1>2. \A k \in Nat : /\ (k + 1) \div 2 \in Nat /\ k \div 2 + 1 \in Nat /\ (k + 1) \div 2 <= k \div 2 + 1
                     /\ (1 + 1) \div 2 <= k \div 2 + 1 /\ (1 + 1) \div 2 \in Nat
  OBVIOUS
<1> QED  BY <1>1, <1>2 DEF Reach, Thick, Pad

LEMMA StrokeGrows ==
  ASSUME NEW b \in Bufs, NEW x \in Int, NEW n \in Nat, NEW kind, NEW ink, Inked(ink),
         NEW gc \in DrContexts, NEW last \in Nat, NEW loose,
         StrokePathSkia(x, n, kind, gc) \ Span(x - Pad(gc), n + 2 * Pad(gc) + last) \subseteq loose
  PROVE  /\ Grows(b, MarkDirty(SkiaPaint(b, StrokePathSkia(x, n, kind, gc), ink, gc),
                               x - Pad(gc), n + 2 * Pad(gc) + last), loose)
         /\ Grows(b, BresenhamLineGc(b, x, n, ink, gc), loose)
<1>1. \A i \in Cols(b) : ink[i] \in DrInks BY InkedOn
<1>2. Grows(b, BresenhamLineGc(b, x, n, ink, gc), loose) BY <1>1, PointsGrow DEF BresenhamLineGc
<1> DEFINE cols == StrokePathSkia(x, n, kind, gc)
           y == x - Pad(gc)
           k == n + 2 * Pad(gc) + last
<1>3. y \in Int /\ k \in Int BY ReachPad
<1>4. \A i \in Cols(b) : i \in cols => i \in y..(y + k - 1) \/ i \in loose BY DEF Span
<1> HIDE DEF cols, y, k
<1>5. Grows(b, MarkDirty(SkiaPaint(b, cols, ink, gc), y, k), loose) BY <1>1, <1>3, <1>4, SkiaMarked
<1> QED  BY <1>2, <1>5 DEF cols, y, k

LEMMA LineGrows ==
  ASSUME NEW b \in Bufs, NEW x \in Int, NEW n \in Nat, NEW kind, NEW ink, Inked(ink), NEW gc \in DrContexts,
         NEW loose, StrokePathSkia(x, n, kind, gc) \ Span(x - Pad(gc), n + 2 * Pad(gc) + 1) \subseteq loose
  PROVE  Grows(b, DrawLineGc(b, x, n, kind, ink, gc), loose)
BY StrokeGrows DEF DrawLineGc

LEMMA PolylineGrows ==
  ASSUME NEW b \in Bufs, NEW x \in Int, NEW n \in Nat, NEW kind, NEW ink, Inked(ink), NEW gc \in DrContexts,
         NEW loose, StrokePathSkia(x, n, kind, gc) \ Span(x - Pad(gc), n + 2 * Pad(gc) + 0) \subseteq loose
  PROVE  Grows(b, DrawPolylineGc(b, x, n, kind, ink, gc), loose)
<1> DEFINE k == n + 2 * Pad(gc)
           last == 0
<1>1. k + last = k /\ last \in Nat BY ReachPad DEF last
<1> HIDE DEF last
<1>2. StrokePathSkia(x, n, kind, gc) \ Span(x - Pad(gc), n + 2 * Pad(gc) + last) \subseteq loose BY DEF last
<1>3. /\ Grows(b, MarkDirty(SkiaPaint(b, StrokePathSkia(x, n, kind, gc), ink, gc),
                            x - Pad(gc), n + 2 * Pad(gc) + last), loose)
      /\ Grows(b, BresenhamLineGc(b, x, n, ink, gc), loose)
  BY <1>1, <1>2, StrokeGrows
<1> QED  BY <1>1, <1>3 DEF DrawPolylineGc

(* A plain stroke paints nothing beyond its pads. *)
LEMMA PlainMarked ==
  ASSUME NEW x \in Int, NEW n \in Nat, NEW gc \in DrContexts
  PROVE  StrokePathSkia(x, n, "plain", gc) \ Span(x - Pad(gc), n + 2 * Pad(gc) + 1) = {}
<1>1. Reach(gc) \in Nat /\ Pad(gc) \in Nat /\ Reach(gc) <= Pad(gc) BY ReachPad
<1>2. StrokePathSkia(x, n, "plain", gc) = (x - Reach(gc))..(x + n + Reach(gc) - 1) BY DEF StrokePathSkia
<1> QED  BY <1>1, <1>2 DEF Span

LEMMA LineTiledGrows ==
  ASSUME NEW b \in Bufs, NEW x \in Int, NEW n \in Nat, NEW ink, Inked(ink), NEW gc \in DrContexts
  PROVE  Grows(b, DrawLineTiled(b, x, n, ink, gc), {})
<1> DEFINE solid == [i \in Pos |-> IF ink[i] = {} THEN {0} ELSE ink[i]]
<1>1. \A i \in Cols(b) : ink[i] \in DrInks BY InkedOn
<1>2. Inked(solid) BY DEF Inked, Pos, DrInks
<1>7. DrawLineTiled(b, x, n, ink, gc) =
         IF SkiaEligible(gc) THEN MarkDirty(SkiaPaint(b, (x - 1)..(x + n), ink, gc), x - 1, n + 3)
         ELSE DrawPointGc(b, x..(x + n), solid, gc)
  BY DEF DrawLineTiled
<1> HIDE DEF solid
<1>3. \A i \in Cols(b) : solid[i] \in DrInks BY <1>2, InkedOn
<1>4. Grows(b, DrawPointGc(b, x..(x + n), solid, gc), {}) BY <1>3, PointsGrow
<1> DEFINE cols == (x - 1)..(x + n)
           y == x - 1
           k == n + 3
<1>5. y \in Int /\ k \in Int /\ \A i \in Cols(b) : i \in cols => i \in y..(y + k - 1) \/ i \in {}
  OBVIOUS
<1> HIDE DEF cols, y, k
<1>6. Grows(b, MarkDirty(SkiaPaint(b, cols, ink, gc), y, k), {}) BY <1>1, <1>5, SkiaMarked
<1> QED  BY <1>4, <1>6, <1>7 DEF cols, y, k

LEMMA LineStippledGrows ==
  ASSUME NEW b \in Bufs, NEW x \in Int, NEW n \in Nat, NEW bits, NEW gc \in DrContexts
  PROVE  Grows(b, DrawLineStippled(b, x, n, bits, gc), {})
<1> DEFINE ink == [i \in Pos |-> StippleToTile(bits[i], gc.style = "opaque")]
<1>1. Inked(ink) BY DEF Inked, Pos, DrInks, StippleToTile
<1>2. DrawLineStippled(b, x, n, bits, gc) = DrawLineTiled(b, x, n, ink, gc) BY DEF DrawLineStippled
<1> HIDE DEF ink
<1> QED  BY <1>1, <1>2, LineTiledGrows

LEMMA ArcGrows ==
  ASSUME NEW b \in Bufs, NEW x \in Int, NEW n \in Nat, NEW ink, Inked(ink), NEW gc \in DrContexts,
         NEW loose, loose = ArcStroke(x, n, gc) \ Span(x, n)
  PROVE  Grows(b, DrawArcGc(b, x, n, ink, gc), loose)
<1>1. \A i \in Cols(b) : ink[i] \in DrInks BY InkedOn
<1> DEFINE cols == ArcStroke(x, n, gc)
<1>2. \A i \in Cols(b) : i \in cols => i \in x..(x + n - 1) \/ i \in loose BY DEF Span
<1> HIDE DEF cols
<1>3. Grows(b, MarkDirty(SkiaPaint(b, cols, ink, gc), x, n), loose) BY <1>1, <1>2, SkiaMarked
<1>4. Grows(b, DrawPointGc(b, BuildArcPolyline(x, n), ink, gc), loose) BY <1>1, PointsGrow
<1> QED  BY <1>3, <1>4, GrowsSelf DEF DrawArcGc, cols

LEMMA FillArcGrows ==
  ASSUME NEW b \in Bufs, NEW x \in Int, NEW n \in Nat, NEW ink, Inked(ink), NEW gc \in DrContexts
  PROVE  Grows(b, FillArcGc(b, x, n, ink, gc), {})
<1>1. \A i \in Cols(b) : ink[i] \in DrInks BY InkedOn
<1>3. Grows(b, MarkDirty(SkiaPaint(b, BuildArcPath(x, n), ink, gc), x, n), {})
  BY <1>1, SkiaMarked DEF BuildArcPath, Span
<1> DEFINE cols == {i \in Pos : PixelInFilledArc(i, x, n)}
<1>4. Grows(b, DrawPointGc(b, cols, ink, gc), {}) BY <1>1, PointsGrow
<1> QED  BY <1>3, <1>4, GrowsSelf DEF FillArcGc

LEMMA PolygonGrows ==
  ASSUME NEW b \in Bufs, NEW x \in Int, NEW n \in Nat, NEW ink, Inked(ink), NEW gc \in DrContexts,
         The(ink[x]) \in DrBits
  PROVE  Grows(b, FillPolygonGc(b, x, n, ink, gc), {})
<1>1. \A i \in Cols(b) : ink[i] \in DrInks BY InkedOn
<1>2. Grows(b, MarkBox(SkiaPaint(b, Span(x, n), ink, gc), x, n), {}) BY <1>1, BoxMarked
<1>3. Grows(b, FillRectRopClipped(b, x, n + 1, The(ink[x]), gc), {})
  <2> DEFINE k == n + 1
             c == The(ink[x])
  <2>1. k \in Int OBVIOUS
  <2> HIDE DEF k, c
  <2>2. c \in DrBits BY DEF c
  <2> QED  BY <2>1, <2>2, FillRectRopClippedGrows DEF k, c
<1> QED  BY <1>2, <1>3, GrowsSelf DEF FillPolygonGc

LEMMA PolygonTiledGrows ==
  ASSUME NEW b \in Bufs, NEW x \in Int, NEW n \in Nat, NEW ink, Inked(ink), NEW gc \in DrContexts
  PROVE  Grows(b, FillPolygonTiled(b, x, n, ink, gc), {})
<1>1. \A i \in Cols(b) : ink[i] \in DrInks BY InkedOn
<1>2. Grows(b, MarkBox(SkiaPaint(b, Span(x, n), ink, gc), x, n), {}) BY <1>1, BoxMarked
<1>3. Grows(b, DrawPointGc(b, PolygonScanlines(b, x, n), ink, gc), {}) BY <1>1, PointsGrow
<1> QED  BY <1>2, <1>3 DEF FillPolygonTiled

-----------------------------------------------------------------------------
(* The inductive invariant.  SavedKnown: the pixels a window was unmapped with *)
(* differ from those it has only where the window is dirty, or where a routine *)
(* wrote them unmarked.                                                        *)
Backings == [px : DrPx, whole : BOOLEAN]
DrShapes ==
    /\ drBuf \in [Drawables -> Bufs]
    /\ drGc \in DrGcs /\ drPix \in {"none", "own", "bitmap", "alias", "shm"}
    /\ drMapped \subseteq {"w", "k"} /\ drSeg \in DrBits
    /\ drSaved \in [{"w", "k"} -> SUBSET Backings] /\ \A d \in {"w", "k"} : \A p, q \in drSaved[d] : p = q
    /\ drShown \in [Cols(drBuf["w"]) -> 0..2]
    /\ drAcc \subseteq 0..2 /\ drMissed \subseteq 0..2
SavedKnown ==
    \A r \in drSaved["w"] : r.whole =>
        /\ "w" \notin drMapped
        /\ DOMAIN r.px = Cols(drBuf["w"]) =>
              \A i \in DOMAIN r.px : r.px[i] # drBuf["w"].px[i] => i \in drBuf["w"].dirty \cup drMissed
TouchedInside == drDmg => drTouched \subseteq Cols(drBuf["w"])
DrInv == DrShapes /\ SavedKnown /\ TouchedInside /\ PixelsReported /\ DamageCovers

LEMMA GcContext == ASSUME DrShapes PROVE drGc \in DrContexts
BY DrAssumption DEF DrShapes, DrContexts

LEMMA NewBufIs ==
  ASSUME NEW n \in {2, 3}
  PROVE  NewBuf(n) \in Bufs /\ Cols(NewBuf(n)) = 0..(n - 1) /\ NewBuf(n).dirty = {}
<1>1. [i \in 0..(n - 1) |-> 0] \in DrPx
  <2>1. n - 1 = 1 \/ n - 1 = 2 OBVIOUS
  <2> DEFINE k == n - 1
  <2> HIDE DEF k
  <2>2. [i \in 0..k |-> 0] \in [0..k -> DrBits] BY DEF DrBits
  <2> QED  BY <2>1, <2>2 DEF DrPx, k
<1>2. Hull({}) = {} BY DEF Hull
<1> QED  BY <1>1, <1>2 DEF NewBuf, Bufs, Cols

LEMMA DrStarts == DrInit => DrInv
<1> SUFFICES ASSUME DrInit PROVE DrInv
  OBVIOUS
<1>1. NewBuf(2) \in Bufs /\ NewBuf(3) \in Bufs BY NewBufIs
<1>2. drBuf \in [Drawables -> Bufs] /\ drBuf["w"] = NewBuf(3) BY <1>1 DEF DrInit, Drawables
<1>3. drShown \in [Cols(drBuf["w"]) -> 0..2] /\ drShown = drBuf["w"].px
  BY <1>2, BufHas DEF DrInit, DrBits, Drawables
<1>4. DrShapes BY <1>2, <1>3 DEF DrInit, DrShapes, DrBits
<1>5. SavedKnown /\ TouchedInside /\ DamageCovers
  BY DEF DrInit, SavedKnown, TouchedInside, DamageCovers
<1>6. PixelsReported BY <1>3 DEF PixelsReported, Displayed, DrInit
<1> QED  BY <1>4, <1>5, <1>6 DEF DrInv

LEMMA Shows ==
  ASSUME NEW px, NEW qx, NEW shape, NEW i, px[i] = qx[i] PROVE Displayed(px, shape, i) = Displayed(qx, shape, i)
BY DEF Displayed

(* Whatever a request draws, the invariant is kept when the routine marked it. *)
LEMMA DrawnKeeps ==
  ASSUME DrInv, NEW base \in [Drawables -> Bufs], base["w"] = drBuf["w"], NEW d \in Drawables,
         NEW nb, NEW loose, NEW x, NEW n,
         Grows(base[Resolve(d)], nb, loose), Drawn(base, d, nb, x, n, loose)
  PROVE  DrInv'
<1> DEFINE t == Resolve(d)
           changed == {i \in Cols(nb) : t = "w" /\ nb.px[i] # drBuf["w"].px[i]}
           w == drBuf["w"]
<1>0. t \in Drawables BY DEF Resolve, Drawables
<1>1. /\ drBuf' = [base EXCEPT ![t] = nb]
      /\ drTouched' = IF drDmg THEN drTouched \cup changed ELSE drTouched
      /\ drMissed' = (drMissed \cup (loose \cap changed)) \ (IF t = "w" THEN nb.dirty ELSE {})
      /\ UNCHANGED <<drPix, drGc, drMapped, drSaved, drShape, drSeg, drShown, drDmg>>
  BY DEF Drawn
<1>2. drAcc' = IF t = "w" /\ drDmg THEN drAcc \cup (Span(x, n) \cap 0..2) ELSE drAcc
  BY DEF Drawn, NotifyDamage
<1>3. nb \in Bufs /\ (t = "w" => /\ Cols(nb) = Cols(w) /\ w.dirty \subseteq nb.dirty
                                 /\ \A i \in Cols(w) : nb.px[i] # w.px[i] => i \in nb.dirty \cup loose)
  BY DEF Grows
<1>4. drBuf' \in [Drawables -> Bufs] BY <1>0, <1>1, <1>3
<1>5. w \in Bufs /\ drBuf'["w"] \in Bufs /\ "w" \in Drawables BY <1>4 DEF Drawables, DrInv, DrShapes
<1>6. drBuf'["w"] = IF t = "w" THEN nb ELSE w BY <1>0, <1>1, <1>5
<1>7. Cols(drBuf'["w"]) = Cols(w) /\ Cols(w) \subseteq 0..2 BY <1>3, <1>5, <1>6, BufHas
<1>8. changed \subseteq Cols(w) /\ (t # "w" => changed = {}) BY <1>3
<1>9. t = "w" => \A i \in Cols(w) : nb.px[i] # w.px[i] => i \in changed BY <1>3
<1>10. \A i \in changed : i \in nb.dirty \cup loose BY <1>3
<1> HIDE DEF changed, t, w
<1>11. w.dirty \cup drMissed \subseteq drBuf'["w"].dirty \cup drMissed' BY <1>1, <1>3, <1>6, <1>8
<1>12. changed \subseteq drBuf'["w"].dirty \cup drMissed' BY <1>1, <1>3, <1>6, <1>8, <1>10
<1>13. \A i \in Cols(w) : drBuf'["w"].px[i] # w.px[i] => i \in changed BY <1>6, <1>9
<1>14. DrShapes'
  <2>1. drMissed' \subseteq 0..2 BY <1>1, <1>7, <1>8 DEF DrInv, DrShapes
  <2>2. drAcc' \subseteq 0..2 BY <1>2 DEF DrInv, DrShapes
  <2>3. drShown' \in [Cols(drBuf'["w"]) -> 0..2] BY <1>1, <1>7 DEF DrInv, DrShapes, w
  <2>4. Cols(drBuf["w"])' = Cols(drBuf'["w"]) BY DEF Cols
  <2> QED  BY <1>1, <1>4, <2>1, <2>2, <2>3, <2>4 DEF DrInv, DrShapes
<1>15. SavedKnown'
  <2> SUFFICES ASSUME NEW q \in drSaved["w"], q.whole
               PROVE  /\ "w" \notin drMapped
                      /\ DOMAIN q.px = Cols(w) => \A i \in DOMAIN q.px :
                            q.px[i] # drBuf'["w"].px[i] => i \in drBuf'["w"].dirty \cup drMissed'
    BY <1>1, <1>7 DEF SavedKnown, Cols
  <2>1. /\ "w" \notin drMapped
        /\ DOMAIN q.px = Cols(w) => \A i \in DOMAIN q.px : q.px[i] # w.px[i] => i \in w.dirty \cup drMissed
    BY DEF DrInv, SavedKnown, w
  <2> QED  BY <1>11, <1>12, <1>13, <2>1
<1>16. TouchedInside' BY <1>1, <1>7, <1>8 DEF DrInv, TouchedInside, w, Cols
<1>17. PixelsReported'
  <2> SUFFICES ASSUME NEW i \in Cols(w), Displayed(drBuf'["w"].px, drShape, i) # drShown[i]
               PROVE  i \in drBuf'["w"].dirty \cup drMissed'
    BY <1>1, <1>7 DEF PixelsReported, Cols, Displayed
  <2>1. CASE i \in changed BY <1>12, <2>1
  <2>2. CASE i \notin changed
    <3>1. Displayed(w.px, drShape, i) # drShown[i] BY <1>13, <2>2, Shows
    <3>2. i \in w.dirty \cup drMissed BY <3>1 DEF DrInv, PixelsReported, w
    <3> QED  BY <1>11, <3>2
  <2> QED  BY <2>1, <2>2
<1>18. DamageCovers'
  <2>1. drAcc \subseteq drAcc' BY <1>2
  <2> QED  BY <1>1, <1>11, <1>12, <2>1 DEF DrInv, DamageCovers, w
<1> QED  BY <1>14, <1>15, <1>16, <1>17, <1>18 DEF DrInv

-----------------------------------------------------------------------------
LEMMA DrFacts ==
  ASSUME DrInv
  PROVE  /\ drGc \in DrContexts /\ drBuf \in [Drawables -> Bufs] /\ drSeg \in DrBits
         /\ \A d \in Drawables : Resolve(d) \in Drawables /\ Target(d) \in Bufs /\ drBuf[d] \in Bufs
         /\ \A d \in Drawables : Target(d) = drBuf[Resolve(d)]
         /\ "w" \in Drawables /\ "k" \in Drawables /\ "p" \in Drawables /\ "b" \in Drawables
<1>1. drGc \in DrContexts BY GcContext DEF DrInv
<1>2. drBuf \in [Drawables -> Bufs] /\ drSeg \in DrBits BY DEF DrInv, DrShapes
<1>3. \A d \in Drawables : Resolve(d) \in Drawables BY DEF Resolve, Drawables
<1> QED  BY <1>1, <1>2, <1>3 DEF Target, Drawables

LEMMA Synced ==
  ASSUME DrInv, NEW d
  PROVE  SyncShmPixmap(d) \in [Drawables -> Bufs] /\ SyncShmPixmap(d)["w"] = drBuf["w"]
<1>1. CASE d = "p" /\ drPix = "shm"
  <2> DEFINE p == drBuf["p"]
             px == [i \in DOMAIN p.px |-> drSeg]
             nb == [p EXCEPT !.px = px]
  <2>1. p \in Bufs BY DrFacts
  <2>2. px \in [Cols(p) -> DrBits] BY DrFacts DEF Cols
  <2>3. SyncShmPixmap(d) = [drBuf EXCEPT !["p"] = nb] BY <1>1 DEF SyncShmPixmap
  <2> HIDE DEF p, px
  <2>4. nb \in Bufs
    <3>1. {} \subseteq 0..2 OBVIOUS
    <3> QED  BY <2>1, <2>2, <3>1, BufMade
  <2> HIDE DEF nb
  <2> QED  BY <2>3, <2>4, DrFacts DEF Drawables
<1>2. CASE ~(d = "p" /\ drPix = "shm") BY <1>2, DrFacts DEF SyncShmPixmap
<1> QED  BY <1>1, <1>2

LEMMA InksAre ==
  ASSUME DrInv
  PROVE  /\ Inked(Solid) /\ Inked(TileInk) /\ Inked(StippleInk)
         /\ \A x \in Pos : The(Solid[x]) \in DrBits
<1>1. Inked(Solid) BY DEF Inked, Solid, Pos, DrInks
<1>2. \A x \in Pos : The(Solid[x]) \in DrBits
  <2>1. {1} \in DrInks BY DEF DrInks
  <2> QED  BY <2>1, ColourOf DEF Solid
<1>3. \A i \in 0..2 : PatternAt(i) \in DrBits
  <2> DEFINE p == drBuf["p"]
             z == Size(p)
  <2>1. z \in {2, 3} /\ p.px \in [0..(z - 1) -> DrBits] BY DrFacts, BufHas
  <2> HIDE DEF p, z
  <2>2. \A i \in 0..2 : i % z \in 0..(z - 1) BY <2>1
  <2>3. \A i \in 0..2 : p.px[i % z] \in DrBits BY <2>1, <2>2
  <2> QED  BY <2>3 DEF PatternAt, p, z
<1>4. Inked(TileInk) BY <1>3 DEF Inked, TileInk, Pos, DrInks, DrBits
<1>5. Inked(StippleInk) BY DEF Inked, StippleInk, StippleToTile, Pos, DrInks
<1> QED  BY <1>1, <1>2, <1>4, <1>5

LEMMA Extracted ==
  ASSUME NEW b \in Bufs, NEW x \in Int, NEW n \in Nat
  PROVE  ExtractPixels(b, x, n) \in [0..(n - 1) -> DrBits]
<1> DEFINE s == IF x < 0 THEN 0 ELSE x
<1>1. ExtractPixels(b, x, n) = [i \in 0..(n - 1) |-> IF s + i \in Cols(b) THEN b.px[s + i] ELSE 0]
  BY DEF ExtractPixels
<1> HIDE DEF s
<1>2. \A j \in Cols(b) : b.px[j] \in DrBits BY BufHas
<1> QED  BY <1>1, <1>2 DEF DrBits

LEMMA ExtractedAll ==
  ASSUME DrInv, NEW base \in [Drawables -> Bufs], NEW d \in Drawables, NEW x \in Int, NEW n \in Nat
  PROVE  ExtractIncludeInferiors(base, d, x, n) \in [0..(n - 1) -> DrBits]
<1> DEFINE own == ExtractPixels(base[d], x, n)
           kid == base["k"].px
<1>1. own \in [0..(n - 1) -> DrBits] BY Extracted
<1>2. \A j \in DOMAIN kid : kid[j] \in DrBits
  <2>1. base["k"] \in Bufs BY DEF Drawables
  <2> QED  BY <2>1, BufHas DEF Cols
<1>3. ExtractIncludeInferiors(base, d, x, n) =
        IF d # "w" \/ "k" \notin drMapped THEN own
        ELSE [i \in DOMAIN own |-> IF i + x - KidX \in DOMAIN kid THEN kid[i + x - KidX] ELSE own[i]]
  BY DEF ExtractIncludeInferiors
<1> HIDE DEF own, kid
<1> QED  BY <1>1, <1>2, <1>3

LEMMA OneLineGrows ==
  ASSUME DrInv, NEW b \in Bufs, NEW x \in Int, NEW n \in Nat, NEW kind, NEW loose, Unmarked(x, n, kind, 1) \subseteq loose
  PROVE  Grows(b, OneLine(b, x, n, kind), loose)
<1>0. drGc \in DrContexts BY DrFacts
<1>1. Grows(b, DrawLineTiled(b, x, n, TileInk, drGc), loose) BY <1>0, InksAre, LineTiledGrows, GrowsLoose
<1>2. Grows(b, DrawLineGc(b, x, n, kind, Solid, drGc), loose) BY <1>0, InksAre, LineGrows DEF Unmarked
<1> DEFINE bits == [i \in Pos |-> PatternAt(i)]
<1>3. Grows(b, DrawLineStippled(b, x, n, bits, drGc), loose) BY <1>0, LineStippledGrows, GrowsLoose
<1>4. CASE Tiled
  <2>1. ~Stippled BY <1>4 DEF Tiled, Stippled
  <2> QED  BY <1>1, <1>4, <2>1 DEF OneLine
<1>5. CASE ~Tiled /\ Stippled BY <1>3, <1>5 DEF OneLine
<1>6. CASE ~Tiled /\ ~Stippled BY <1>2, <1>6 DEF OneLine
<1> QED  BY <1>4, <1>5, <1>6

(* A request that draws with the framebuffers as they are. *)
LEMMA DrawOnKeeps ==
  ASSUME DrInv, NEW d \in Drawables, NEW nb, NEW x \in Int, NEW n \in Int,
         Grows(Target(d), nb, {}), DrawOn(d, nb, x, n)
  PROVE  DrInv'
<1> DEFINE e == {}
<1>1. drBuf \in [Drawables -> Bufs] /\ Target(d) = drBuf[Resolve(d)] BY DrFacts
<1>2. Drawn(drBuf, d, nb, x, n, e) BY DEF DrawOn
<1>3. Grows(drBuf[Resolve(d)], nb, e) BY <1>1
<1> HIDE DEF e
<1> QED  BY <1>1, <1>2, <1>3, DrawnKeeps

-----------------------------------------------------------------------------
LEMMA ClearAreaKeeps ==
  ASSUME DrInv, NEW d \in {"w", "k"}, NEW x \in Int, NEW n \in Nat, ClearArea(d, x, n)
  PROVE  DrInv'
<1> DEFINE len == IF n = 0 THEN Size(drBuf[d]) ELSE n
           nb == FillRect(drBuf[d], x, len, 0)
<1>1. d \in Drawables /\ Resolve(d) = d BY DEF Drawables, Resolve
<1>2. drBuf[d] \in Bufs /\ Target(d) = drBuf[d] BY <1>1, DrFacts
<1>3. len \in Int BY <1>2, BufHas
<1>4. DrawOn(d, nb, x, len) BY DEF ClearArea
<1> HIDE DEF len
<1>5. Grows(Target(d), nb, {})
  <2>1. 0 \in DrBits BY DEF DrBits
  <2> QED  BY <1>2, <1>3, <2>1, FillRectGrows
<1> HIDE DEF nb
<1> QED  BY <1>1, <1>3, <1>4, <1>5, DrawOnKeeps

LEMMA CopiesKeep ==
  ASSUME DrInv, NEW s \in Drawables, NEW d \in Drawables, NEW sx \in Int, NEW dx \in Int, NEW n \in Nat,
         CopyArea(s, d, sx, dx, n) \/ CopyPlane(s, d, sx, dx, n)
  PROVE  DrInv'
<1> DEFINE base == SyncShmPixmap(s)
           b == base[Resolve(d)]
           inf == drGc.inferiors /\ s \in {"w", "k"}
           plain == ExtractPixels(base[Resolve(s)], sx, n)
           data == IF inf THEN ExtractIncludeInferiors(base, s, sx, n) ELSE plain
           Ink(v) == [i \in Pos |-> IF i - dx \in DOMAIN v THEN {v[i - dx]} ELSE {}]
           all == [drGc EXCEPT !.all = TRUE]
           e == {}
<1>1. base \in [Drawables -> Bufs] /\ base["w"] = drBuf["w"] BY Synced
<1>2. b \in Bufs /\ base[Resolve(s)] \in Bufs BY <1>1, DrFacts
<1>3. plain \in [0..(n - 1) -> DrBits] BY <1>2, Extracted
<1>4. data \in [0..(n - 1) -> DrBits] BY <1>1, <1>3, ExtractedAll
<1>5. drGc \in DrContexts /\ all \in DrContexts BY DrFacts, NoClip
<1>6. \A v \in [0..(n - 1) -> DrBits] : Grows(b, DrawPointGc(b, Span(dx, n), Ink(v), all), e)
  <2> SUFFICES ASSUME NEW v \in [0..(n - 1) -> DrBits]
               PROVE  Grows(b, DrawPointGc(b, Span(dx, n), Ink(v), all), e)
    OBVIOUS
  <2>1. Inked(Ink(v)) BY DEF Inked, Pos, DrInks, DrBits
  <2> DEFINE ink == Ink(v)
  <2> HIDE DEF ink, all, base, b, e
  <2>2. Inked(ink) BY <2>1 DEF ink
  <2>3. \A i \in Cols(b) : ink[i] \in DrInks BY <1>2, <2>2, InkedOn
  <2>4. Grows(b, DrawPointGc(b, Span(dx, n), ink, all), e) BY <1>2, <1>5, <2>3, PointsGrow
  <2> QED  BY <2>4 DEF ink
<1>7. CASE CopyPlane(s, d, sx, dx, n)
  <2> DEFINE nb == DrawPointGc(b, Span(dx, n), Ink(plain), all)
  <2>1. Drawn(base, d, nb, dx, n, e) BY <1>7 DEF CopyPlane
  <2>2. Grows(b, nb, e) BY <1>3, <1>6
  <2> HIDE DEF nb, base, e
  <2> QED  BY <1>1, <2>1, <2>2, DrawnKeeps
<1>8. CASE CopyArea(s, d, sx, dx, n)
  <2> DEFINE nb == IF s = d /\ ~inf
                   THEN IF drGc.clip = {} THEN CopyAreaSelf(b, sx, dx, n) ELSE PutImageGc(b, dx, data, drGc)
                   ELSE IF s = "p" /\ drPix = "bitmap" /\ drGc.fn # "copy"
                   THEN DrawPointGc(b, Span(dx, n), Ink(data), all)
                   ELSE IF drGc.fn # "copy" \/ drGc.clip # {} THEN PutImageGc(b, dx, data, drGc)
                   ELSE PutImage(b, dx, data)
  <2>1. Drawn(base, d, nb, dx, n, e) BY <1>8 DEF CopyArea
  <2>2. Grows(b, DrawPointGc(b, Span(dx, n), Ink(data), all), e) BY <1>4, <1>6
  <2>3. Grows(b, CopyAreaSelf(b, sx, dx, n), e)
    <3> DEFINE own == ExtractPixels(b, sx, n)
    <3>1. own \in [0..(n - 1) -> DrBits] BY <1>2, Extracted
    <3>2. CopyAreaSelf(b, sx, dx, n) = PutImage(b, dx, own) BY DEF CopyAreaSelf
    <3> HIDE DEF own, b
    <3> QED  BY <1>2, <3>1, <3>2, PutImageGrows
  <2>4. Grows(b, PutImageGc(b, dx, data, drGc), e) /\ Grows(b, PutImage(b, dx, data), e)
    <3> HIDE DEF data, b
    <3> QED  BY <1>2, <1>4, <1>5, PutImageGcGrows, PutImageGrows
  <2>5. Grows(b, nb, e)
    <3> HIDE DEF data, b, inf, e, all
    <3> QED  BY <2>2, <2>3, <2>4
  <2> HIDE DEF nb, base, e
  <2> QED  BY <1>1, <2>1, <2>5, DrawnKeeps
<1> QED  BY <1>7, <1>8

LEMMA LinesKeep ==
  ASSUME DrInv, NEW d \in Drawables, NEW x \in Int, NEW n \in Nat, NEW kind,
         PolyPoint(d, x) \/ PolyLine(d, x, n, kind) \/ PolySegment(d, x, n, kind) \/ PolyRectangle(d, x, n)
  PROVE  DrInv'
<1> DEFINE b == Target(d)
           lw == drGc.lw
<1>1. drGc \in DrContexts /\ b \in Bufs /\ lw \in Nat BY DrFacts, ReachPad
<1>2. Inked(Solid) BY InksAre
<1>3. \A i \in Cols(b) : Solid[i] \in DrInks BY <1>1, <1>2, InkedOn
<1> DEFINE y == x - lw
           k == n + 2 * lw
<1>4. y \in Int /\ k \in Int BY <1>1
<1>5. CASE PolyPoint(d, x)
  <2> DEFINE nb == DrawPointGc(b, {x}, Solid, drGc)
  <2>1. Grows(b, nb, {}) BY <1>1, <1>3, PointsGrow
  <2>2. DrawOn(d, nb, x, 1) /\ 1 \in Int BY <1>5 DEF PolyPoint
  <2> HIDE DEF nb
  <2> QED  BY <2>1, <2>2, DrawOnKeeps
<1>6. CASE PolySegment(d, x, n, kind)
  <2> DEFINE nb == OneLine(b, x, n, kind)
             loose == Unmarked(x, n, kind, 1)
  <2>1. Drawn(drBuf, d, nb, y, k, loose) BY <1>6 DEF PolySegment
  <2>2. Grows(drBuf[Resolve(d)], nb, loose) BY <1>1, OneLineGrows, DrFacts
  <2> HIDE DEF nb, y, k, loose
  <2> QED  BY <1>4, <2>1, <2>2, DrFacts, DrawnKeeps
<1>7. CASE PolyRectangle(d, x, n)
  <2> DEFINE b1 == OneLine(b, x, n, "plain")
             b2 == OneLine(b1, x + n, 0, "plain")
             nb == OneLine(b2, x, 0, "plain")
  <2>1. DrawOn(d, nb, y, k) BY <1>7 DEF PolyRectangle
  <2>0. x + n \in Int /\ 0 \in Nat OBVIOUS
  <2>8. \A c \in Bufs, i \in Int, m \in Nat : Grows(c, OneLine(c, i, m, "plain"), {})
    <3>1. \A i \in Int, m \in Nat : Unmarked(i, m, "plain", 1) = {} BY <1>1, PlainMarked DEF Unmarked
    <3> QED  BY <3>1, OneLineGrows
  <2>2. Grows(b, b1, {}) BY <1>1, <2>8
  <2>3. b1 \in Bufs BY <2>2 DEF Grows
  <2> HIDE DEF b1
  <2>4. Grows(b1, b2, {}) BY <2>0, <2>3, <2>8
  <2>5. b2 \in Bufs BY <2>4 DEF Grows
  <2> HIDE DEF b2
  <2>6. Grows(b2, nb, {}) BY <2>0, <2>5, <2>8
  <2> HIDE DEF nb, y, k, b
  <2>7. Grows(b, nb, {}) BY <2>2, <2>4, <2>6, GrowsOn
  <2> QED  BY <1>4, <2>1, <2>7, DrawOnKeeps DEF b
<1>8. CASE PolyLine(d, x, n, kind)
  <2> DEFINE nb == IF Tiled \/ Stippled THEN OneLine(b, x, n, kind)
                   ELSE DrawPolylineGc(b, x, n, kind, Solid, drGc)
             loose == Unmarked(x, n, kind, 0)
  <2>1. Drawn(drBuf, d, nb, y, k, loose) BY <1>8 DEF PolyLine
  <2>2. Unmarked(x, n, kind, 1) \subseteq loose
    <3>1. Pad(drGc) \in Nat BY <1>1, ReachPad
    <3>2. Span(x - Pad(drGc), n + 2 * Pad(drGc) + 0) \subseteq Span(x - Pad(drGc), n + 2 * Pad(drGc) + 1)
      BY <3>1 DEF Span
    <3> QED  BY <3>2 DEF Unmarked
  <2>3. Grows(b, DrawPolylineGc(b, x, n, kind, Solid, drGc), loose)
    BY <1>1, <1>2, PolylineGrows DEF Unmarked
  <2> HIDE DEF loose
  <2>4. Grows(b, OneLine(b, x, n, kind), loose) BY <1>1, <2>2, OneLineGrows
  <2>5. Grows(drBuf[Resolve(d)], nb, loose) BY <2>3, <2>4, DrFacts
  <2> HIDE DEF nb, y, k
  <2> QED  BY <1>4, <2>1, <2>5, DrFacts, DrawnKeeps
<1> QED  BY <1>5, <1>6, <1>7, <1>8

LEMMA ShapesKeep ==
  ASSUME DrInv, NEW d \in Drawables, NEW x \in Pos, NEW n \in Nat,
         PolyArc(d, x, n) \/ FillPoly(d, x, n) \/ PolyFillRectangle(d, x, n) \/ PolyFillArc(d, x, n)
  PROVE  DrInv'
<1> DEFINE b == Target(d)
           lw == drGc.lw
<1>0. x \in Int BY DEF Pos
<1>1. drGc \in DrContexts /\ b \in Bufs /\ lw \in Nat BY DrFacts, ReachPad
<1>2. Inked(Solid) /\ Inked(TileInk) /\ Inked(StippleInk) /\ The(Solid[x]) \in DrBits BY InksAre
<1> DEFINE y == x - lw
           k == n + 2 * lw
<1>3. y \in Int /\ k \in Int BY <1>0, <1>1
<1>4. Tiled => ~Stippled BY DEF Tiled, Stippled
<1>5. CASE PolyArc(d, x, n)
  <2> DEFINE nb == DrawArcGc(b, x, n, Solid, drGc)
             loose == ArcStroke(x, n, drGc) \ Span(x, n)
  <2>1. Drawn(drBuf, d, nb, y, k, loose) BY <1>5 DEF PolyArc
  <2>2. Grows(b, nb, loose) BY <1>0, <1>1, <1>2, ArcGrows
  <2> HIDE DEF nb, loose, y, k
  <2>3. Grows(drBuf[Resolve(d)], nb, loose) BY <2>2, DrFacts
  <2> QED  BY <1>3, <2>1, <2>3, DrFacts, DrawnKeeps
<1>6. CASE FillPoly(d, x, n)
  <2> DEFINE nb == CASE Tiled -> FillPolygonTiled(b, x, n, TileInk, drGc)
                     [] Stippled -> FillPolygonStippled(b, x, n, StippleInk, drGc)
                     [] OTHER -> FillPolygonGc(b, x, n, Solid, drGc)
  <2>1. DrawOn(d, nb, x, n + 1) /\ n + 1 \in Int BY <1>6 DEF FillPoly
  <2>2. Grows(b, FillPolygonTiled(b, x, n, TileInk, drGc), {})
    BY <1>0, <1>1, <1>2, PolygonTiledGrows
  <2>3. Grows(b, FillPolygonStippled(b, x, n, StippleInk, drGc), {})
    BY <1>0, <1>1, <1>2, PolygonTiledGrows DEF FillPolygonStippled
  <2>4. Grows(b, FillPolygonGc(b, x, n, Solid, drGc), {}) BY <1>0, <1>1, <1>2, PolygonGrows
  <2>5. Grows(b, nb, {})
    <3> HIDE DEF b
    <3> QED  BY <1>4, <2>2, <2>3, <2>4
  <2> HIDE DEF nb
  <2> DEFINE m == n + 1
  <2> HIDE DEF m
  <2>6. DrawOn(d, nb, x, m) /\ m \in Int BY <2>1 DEF m
  <2> QED  BY <1>0, <2>5, <2>6, DrawOnKeeps
<1>7. CASE PolyFillRectangle(d, x, n)
  <2> DEFINE nb == CASE Tiled -> FillRectPattern(b, x, n, TileInk, drGc)
                     [] Stippled -> FillRectPattern(b, x, n, StippleInk, drGc)
                     [] OTHER -> FillRectRopClipped(b, x, n, 1, drGc)
  <2>1. DrawOn(d, nb, x, n) BY <1>7 DEF PolyFillRectangle
  <2>2. \A ink : Inked(ink) => Grows(b, FillRectPattern(b, x, n, ink, drGc), {})
    BY <1>0, <1>1, FillRectPatternGrows DEF Inked
  <2>4. Grows(b, FillRectRopClipped(b, x, n, 1, drGc), {})
    <3>1. 1 \in DrBits BY DEF DrBits
    <3> QED  BY <1>0, <1>1, <3>1, FillRectRopClippedGrows
  <2>5. Grows(b, nb, {})
    <3> HIDE DEF b
    <3> QED  BY <1>2, <1>4, <2>2, <2>4
  <2> HIDE DEF nb
  <2> QED  BY <1>0, <2>1, <2>5, DrawOnKeeps
<1>8. CASE PolyFillArc(d, x, n)
  <2> DEFINE nb == CASE Tiled -> FillArcTiled(b, x, n, TileInk, drGc)
                     [] Stippled -> FillArcStippled(b, x, n, StippleInk, drGc)
                     [] OTHER -> FillArcGc(b, x, n, Solid, drGc)
  <2>1. DrawOn(d, nb, x, n) BY <1>8 DEF PolyFillArc
  <2>2. \A ink : Inked(ink) => Grows(b, FillArcGc(b, x, n, ink, drGc), {})
    BY <1>0, <1>1, FillArcGrows
  <2>5. Grows(b, nb, {})
    <3> HIDE DEF b
    <3> QED  BY <1>2, <1>4, <2>2 DEF FillArcTiled, FillArcStippled
  <2> HIDE DEF nb
  <2> QED  BY <1>0, <2>1, <2>5, DrawOnKeeps
<1> QED  BY <1>5, <1>6, <1>7, <1>8

-----------------------------------------------------------------------------
LEMMA MinOf ==
  ASSUME NEW a \in Int, NEW c \in Int
  PROVE  Min({a, c}) = IF a <= c THEN a ELSE c
<1> DEFINE S == {a, c}
           p == CHOOSE m \in S : \A y \in S : m <= y
<1>1. \E m \in S : \A y \in S : m <= y
  <2>1. CASE a <= c BY <2>1
  <2>2. CASE ~(a <= c) BY <2>2
  <2> QED  BY <2>1, <2>2
<1>2. p \in S /\ \A y \in S : p <= y BY <1>1
<1>3. p = Min({a, c}) BY DEF Min
<1> HIDE DEF p
<1> QED  BY <1>2, <1>3

LEMMA ImagesKeep ==
  ASSUME DrInv, NEW d \in Drawables, NEW x \in Int, NEW n \in Nat, NEW c \in DrBits,
         \/ PutImageDeep(d, x, n, c) \/ PutImageShallow(d, x, n, c) \/ PutImageBitmap(d, x, n, c)
         \/ PolyText(d, x, n) \/ ImageText(d, x, n) \/ ShmPutImage(d, x, n)
  PROVE  DrInv'
<1> DEFINE b == Target(d)
<1>1. drGc \in DrContexts /\ b \in Bufs /\ drSeg \in DrBits BY DrFacts
<1>2. \A data \in [0..(n - 1) -> DrBits] : /\ Grows(b, PutImageGc(b, x, data, drGc), {})
                                           /\ Grows(b, PutImage(b, x, data), {})
  BY <1>1, PutImageGcGrows, PutImageGrows
<1>3. CASE PutImageDeep(d, x, n, c)
  <2> DEFINE data == [i \in 0..(n - 1) |-> c]
             nb == PutImageGc(b, x, data, drGc)
  <2>1. DrawOn(d, nb, x, n) BY <1>3 DEF PutImageDeep
  <2>2. data \in [0..(n - 1) -> DrBits] OBVIOUS
  <2>3. Grows(b, nb, {}) BY <1>2, <2>2
  <2> HIDE DEF nb
  <2> QED  BY <2>1, <2>3, DrawOnKeeps
<1>4. CASE ImageText(d, x, n)
  <2> DEFINE data == [i \in 0..(n - 1) |-> (i + 1) % 2]
             nb == PutImageGc(b, x, data, drGc)
  <2>1. DrawOn(d, nb, x, n) BY <1>4 DEF ImageText
  <2>2. data \in [0..(n - 1) -> DrBits] BY DEF DrBits
  <2>3. Grows(b, nb, {}) BY <1>2, <2>2
  <2> HIDE DEF nb
  <2> QED  BY <2>1, <2>3, DrawOnKeeps
<1>5. CASE ShmPutImage(d, x, n)
  <2> DEFINE data == [i \in 0..(n - 1) |-> drSeg]
             nb == PutImage(b, x, data)
  <2>1. DrawOn(d, nb, x, 0) /\ 0 \in Int BY <1>5 DEF ShmPutImage
  <2>2. data \in [0..(n - 1) -> DrBits] BY <1>1
  <2>3. Grows(b, nb, {}) BY <1>2, <2>2
  <2> HIDE DEF nb
  <2> QED  BY <2>1, <2>3, DrawOnKeeps
<1>6. CASE PolyText(d, x, n)
  <2> DEFINE ink == [i \in 0..(n - 1) |-> IF i % 2 = 0 THEN {1} ELSE {}]
             nb == PutImageOverGc(b, x, ink, drGc)
  <2>1. DrawOn(d, nb, x, n) BY <1>6 DEF PolyText
  <2>2. ink \in [0..(n - 1) -> DrInks] BY DEF DrInks
  <2> HIDE DEF ink
  <2>3. Grows(b, nb, {}) BY <1>1, <2>2, PutImageOverGrows
  <2> HIDE DEF nb
  <2> QED  BY <2>1, <2>3, DrawOnKeeps
<1>7. \A px \in [Cols(b) -> DrBits] : Grows(b, [b EXCEPT !.px = px], Pos)
  <2> SUFFICES ASSUME NEW px \in [Cols(b) -> DrBits] PROVE Grows(b, [b EXCEPT !.px = px], Pos)
    OBVIOUS
  <2> DEFINE nb == [b EXCEPT !.px = px]
             D == {}
  <2>1. D \subseteq 0..2 OBVIOUS
  <2> HIDE DEF D
  <2>2. nb \in Bufs /\ Cols(nb) = Cols(b) /\ nb.dirty = b.dirty BY <1>1, <2>1, BufMade
  <2>3. Cols(b) \subseteq Pos BY <1>1, BufHas DEF Pos
  <2> HIDE DEF nb
  <2>4. Grows(b, nb, Pos) BY <2>2, <2>3 DEF Grows
  <2> QED  BY <2>4 DEF nb
<1>8. CASE PutImageShallow(d, x, n, c)
  <2> DEFINE px == [i \in Cols(b) |->
                   IF i \in Span(x, n) \cap Clip(drGc) THEN Rop(drGc, c, b.px[i]) ELSE b.px[i]]
             nb == [b EXCEPT !.px = px]
  <2>1. Drawn(drBuf, d, nb, x, n, Pos) BY <1>8 DEF PutImageShallow
  <2>2. px \in [Cols(b) -> DrBits]
    <3>1. \A i \in Cols(b) : b.px[i] \in DrBits BY <1>1, BufHas
    <3>2. \A i \in Cols(b) : Rop(drGc, c, b.px[i]) \in DrBits BY <1>1, <3>1, RopBit
    <3> QED  BY <3>1, <3>2
  <2> HIDE DEF px
  <2>3. Grows(drBuf[Resolve(d)], nb, Pos) BY <1>7, <2>2, DrFacts
  <2> HIDE DEF nb
  <2> QED  BY <2>1, <2>3, DrFacts, DrawnKeeps
<1>9. CASE PutImageBitmap(d, x, n, c)
  <2> DEFINE px == [i \in Cols(b) |-> IF i \in Span(x, n) THEN c ELSE b.px[i]]
             nb == IF x < 0 THEN b ELSE [b EXCEPT !.px = px]
  <2>1. Drawn(drBuf, d, nb, x, n, Pos) BY <1>9 DEF PutImageBitmap
  <2>2. px \in [Cols(b) -> DrBits]
    <3>1. \A i \in Cols(b) : b.px[i] \in DrBits BY <1>1, BufHas
    <3> QED  BY <3>1
  <2> HIDE DEF px
  <2>3. Grows(drBuf[Resolve(d)], nb, Pos) BY <1>1, <1>7, <2>2, DrFacts, GrowsSelf
  <2> HIDE DEF nb
  <2> QED  BY <2>1, <2>3, DrFacts, DrawnKeeps
<1> QED  BY <1>3, <1>4, <1>5, <1>6, <1>8, <1>9

(* A request that leaves the window and what is known of it alone. *)
LEMMA QuietKeeps ==
  ASSUME DrInv, UNCHANGED <<drMapped, drSaved, drShape, drShown, drMissed, drDmg, drAcc, drTouched>>,
         drBuf' \in [Drawables -> Bufs], drBuf'["w"] = drBuf["w"],
         drGc' \in DrGcs, drPix' \in {"none", "own", "bitmap", "alias", "shm"}, drSeg' \in DrBits
  PROVE  DrInv'
<1>1. Cols(drBuf["w"])' = Cols(drBuf["w"]) BY DEF Cols
<1>2. DrShapes' BY <1>1 DEF DrInv, DrShapes
<1>3. SavedKnown' BY <1>1 DEF DrInv, SavedKnown
<1>4. TouchedInside' BY <1>1 DEF DrInv, TouchedInside
<1>5. PixelsReported' BY <1>1 DEF DrInv, PixelsReported, Displayed
<1>6. DamageCovers' BY DEF DrInv, DamageCovers
<1> QED  BY <1>2, <1>3, <1>4, <1>5, <1>6 DEF DrInv

LEMMA PixmapsKeep ==
  ASSUME DrInv,
         \/ \E kind \in {"own", "bitmap"} : CreatePixmap(kind)
         \/ FreePixmap \/ ShmCreatePixmap \/ NameWindowPixmap
  PROVE  DrInv'
<1>1. NewBuf(2) \in Bufs BY NewBufIs
<1>2. [drBuf["w"] EXCEPT !.dirty = {}] \in Bufs
  <2>1. drBuf["w"] \in Bufs BY DrFacts
  <2>2. Hull({}) = {} BY DEF Hull
  <2> QED  BY <2>1, <2>2 DEF Bufs
<1>3. PICK b \in Bufs : \E kind \in {"none", "own", "bitmap", "alias", "shm"} : PixmapIs(kind, b)
  BY <1>1, <1>2 DEF CreatePixmap, FreePixmap, ShmCreatePixmap, NameWindowPixmap
<1>4. drBuf' = [drBuf EXCEPT !["p"] = b] /\ drPix' \in {"none", "own", "bitmap", "alias", "shm"}
  BY <1>3 DEF PixmapIs
<1>5. UNCHANGED <<drGc, drMapped, drSaved, drShape, drSeg, drShown, drMissed, drDmg, drAcc, drTouched>>
  BY <1>3 DEF PixmapIs, Quiet, drDamage
<1>6. drBuf' \in [Drawables -> Bufs] /\ drBuf'["w"] = drBuf["w"]
  BY <1>3, <1>4, DrFacts DEF Drawables
<1> QED  BY <1>4, <1>5, <1>6, QuietKeeps DEF DrInv, DrShapes

LEMMA QuietRequestsKeep ==
  ASSUME DrInv,
         \/ \E d \in Drawables : GetImage(d)
         \/ SegmentWrite \/ DbeAllocate \/ DbeDeallocate
         \/ \E on \in BOOLEAN : Redirect(on)
         \/ \E gc \in DrGcs : ChangeGC(gc)
  PROVE  DrInv'
<1>1. UNCHANGED <<drMapped, drSaved, drShape, drShown, drMissed, drDmg, drAcc, drTouched, drPix>>
  BY DEF GetImage, SegmentWrite, DbeAllocate, DbeDeallocate, Redirect, ChangeGC, Quiet, drDamage
<1>2. drGc' \in DrGcs /\ drSeg' \in DrBits
  BY DEF GetImage, SegmentWrite, DbeAllocate, DbeDeallocate, Redirect, ChangeGC, DrInv, DrShapes, DrBits
<1>3. drBuf' \in [Drawables -> Bufs] /\ drBuf'["w"] = drBuf["w"]
  <2>1. ASSUME NEW b \in Bufs, drBuf' = [drBuf EXCEPT !["b"] = b]
        PROVE  drBuf' \in [Drawables -> Bufs] /\ drBuf'["w"] = drBuf["w"]
    BY <2>1, DrFacts DEF Drawables
  <2>2. CASE \E d \in Drawables : GetImage(d) BY <2>2, Synced DEF GetImage
  <2>3. CASE DbeAllocate
    <3>1. NewBuf(Size(drBuf["w"])) \in Bufs BY DrFacts, BufHas, NewBufIs
    <3> QED  BY <2>1, <2>3, <3>1 DEF DbeAllocate
  <2>4. CASE DbeDeallocate
    <3>1. NewBuf(3) \in Bufs BY NewBufIs
    <3> QED  BY <2>1, <2>4, <3>1 DEF DbeDeallocate
  <2>5. CASE SegmentWrite \/ (\E on \in BOOLEAN : Redirect(on)) \/ \E gc \in DrGcs : ChangeGC(gc)
    BY <2>5, DrFacts DEF SegmentWrite, Redirect, ChangeGC
  <2> QED  BY <2>2, <2>3, <2>4, <2>5
<1> QED  BY <1>1, <1>2, <1>3, QuietKeeps DEF DrInv, DrShapes

-----------------------------------------------------------------------------
LEMMA SwapKeeps ==
  ASSUME DrInv, NEW action, DbeSwapBuffers(action) PROVE DrInv'
<1> DEFINE back == drBuf["b"]
           front == drBuf["w"]
           n == Min({Size(front), Size(back)})
           data == [i \in 0..(n - 1) |-> back.px[i]]
           nb == PutImage(front, 0, data)
           copy == [i \in 0..(Size(back) - 1) |-> front.px[i]]
           after == CASE action = "background" -> FillRect(back, 0, Size(back), 0)
                      [] action = "copied" /\ Size(front) >= Size(back) -> PutImage(back, 0, copy)
                      [] OTHER -> back
           base == [drBuf EXCEPT !["b"] = after]
           e == {}
<1>1. Drawn(base, "w", nb, 0, Size(front), e) BY DEF DbeSwapBuffers
<1>2. back \in Bufs /\ front \in Bufs BY DrFacts
<1>3. /\ Size(front) \in {2, 3} /\ Size(back) \in {2, 3} /\ Size(front) \in Nat /\ Size(back) \in Nat
      /\ front.px \in [0..(Size(front) - 1) -> DrBits] /\ back.px \in [0..(Size(back) - 1) -> DrBits]
  BY <1>2, BufHas
<1> HIDE DEF back, front
<1>4. n \in Nat /\ n <= Size(front) /\ n <= Size(back) BY <1>3, MinOf
<1> HIDE DEF n
<1>5. data \in [0..(n - 1) -> DrBits] BY <1>3, <1>4
<1> DEFINE o == 0
<1>6. o \in Int /\ o \in DrBits BY DEF DrBits
<1> HIDE DEF data, o
<1>7. Grows(front, PutImage(front, o, data), e) BY <1>2, <1>4, <1>5, <1>6, PutImageGrows
<1>8. after \in Bufs
  <2>1. Grows(back, FillRect(back, o, Size(back), o), {}) BY <1>2, <1>3, <1>6, FillRectGrows
  <2>2. CASE action = "background" BY <2>1, <2>2 DEF Grows, o
  <2>3. CASE action = "copied" /\ Size(front) >= Size(back)
    <3>1. copy \in [0..(Size(back) - 1) -> DrBits] BY <1>3, <2>3
    <3> HIDE DEF copy
    <3>2. Grows(back, PutImage(back, o, copy), {}) BY <1>2, <1>3, <1>6, <3>1, PutImageGrows
    <3> QED  BY <2>3, <3>2 DEF Grows, o
  <2>4. CASE action # "background" /\ ~(action = "copied" /\ Size(front) >= Size(back))
    BY <1>2, <2>4
  <2> QED  BY <2>2, <2>3, <2>4
<1> HIDE DEF after
<1>9. base \in [Drawables -> Bufs] /\ base["w"] = drBuf["w"] /\ base["w"] = front
  BY <1>8, DrFacts DEF Drawables, front
<1>10. "w" \in Drawables /\ Resolve("w") = "w" BY DEF Drawables, Resolve
<1> DEFINE v == nb
           z == Size(front)
           d == "w"
<1>11. v = PutImage(front, o, data) BY DEF o
<1>12. Drawn(base, d, v, o, z, e) BY <1>1 DEF o
<1> HIDE DEF v, z, d, nb, base, e
<1>13. Grows(base[Resolve(d)], v, e) BY <1>7, <1>9, <1>10, <1>11 DEF d
<1>14. z \in Int /\ d \in Drawables BY <1>3, <1>10 DEF z, d
<1> QED  BY <1>6, <1>9, <1>12, <1>13, <1>14, DrawnKeeps

LEMMA RectsInside ==
  ASSUME NEW src \in Bufs, NEW region, region \subseteq Int \X Nat, IsFiniteSet(region)
  PROVE  Inside({r \in CopyRects(src, region) : r[2] > 0}, src)
<1> DEFINE z == Size(src)
           R == {r \in CopyRects(src, region) : r[2] > 0}
<1>1. z \in {2, 3} /\ Cols(src) = 0..(z - 1) BY BufHas
<1>2. CASE region = {}
  <2>1. CopyRects(src, region) = {<<0, z>>} BY <1>2 DEF CopyRects
  <2> HIDE DEF z
  <2>2. R \subseteq {<<0, z>>} BY <2>1
  <2>3. IsFiniteSet(R) BY <2>2, FS_Singleton, FS_Subset
  <2>4. \A r \in R : r = <<0, z>> BY <2>2
  <2> HIDE DEF R
  <2>5. R \subseteq Int \X Nat BY <1>1, <2>4
  <2>6. \A r \in R : \A i \in 0..(r[2] - 1) : r[1] + i \in Cols(src) BY <1>1, <2>4
  <2>7. Inside(R, src) BY <2>3, <2>5, <2>6 DEF Inside
  <2> QED  BY <2>7 DEF R
<1>3. CASE region # {}
  <2> DEFINE cx(r) == IF r[1] < 0 THEN 0 ELSE r[1]
             room(r) == IF cx(r) < z THEN z - cx(r) ELSE 0
             cut(r) == <<cx(r), Min({r[2], room(r)})>>
             Q == {q \in region : q[2] > 0}
             C == {cut(r) : r \in Q}
             f == [r \in Q |-> cut(r)]
  <2>1. CopyRects(src, region) = C BY <1>3 DEF CopyRects
  <2>2. IsFiniteSet(C)
    <3>1. f \in [Q -> C] /\ \A t \in C : \E r \in Q : f[r] = t OBVIOUS
    <3>2. Q \subseteq region OBVIOUS
    <3>3. IsFiniteSet(Q) BY <3>2, FS_Subset
    <3> HIDE DEF f, C, Q
    <3> QED  BY <3>1, <3>3, ImageFinite
  <2>3. ASSUME NEW r \in Q
        PROVE  /\ cut(r)[1] \in Nat /\ cut(r)[2] \in Nat /\ cut(r) \in Int \X Nat
               /\ cut(r)[2] > 0 => cut(r)[1] + cut(r)[2] <= z
    <3>1. r[1] \in Int /\ r[2] \in Nat OBVIOUS
    <3> DEFINE a == cx(r)
               m == Min({r[2], room(r)})
    <3> HIDE DEF z
    <3>2. a \in Nat /\ room(r) \in Nat /\ room(r) = IF a < z THEN z - a ELSE 0 BY <1>1, <3>1
    <3>3. m = IF r[2] <= room(r) THEN r[2] ELSE room(r) BY <3>1, <3>2, MinOf
    <3>4. cut(r) = <<a, m>> OBVIOUS
    <3>5. m \in Nat /\ (m > 0 => a + m <= z) BY <1>1, <3>1, <3>2, <3>3
    <3> HIDE DEF a, m, cut
    <3> QED  BY <3>2, <3>4, <3>5
  <2> HIDE DEF cut, cx, room
  <2>4. R \subseteq C BY <2>1
  <2>5. IsFiniteSet(R) BY <2>2, <2>4, FS_Subset
  <2>6. \A r \in R : r[1] \in Nat /\ r[2] \in Nat /\ r \in Int \X Nat /\ r[1] + r[2] <= z
    BY <2>1, <2>3
  <2> HIDE DEF R, z
  <2>7. \A r \in R : \A i \in 0..(r[2] - 1) : r[1] + i \in Cols(src) BY <1>1, <2>6
  <2>8. R \subseteq Int \X Nat BY <2>6
  <2>9. Inside(R, src) BY <2>5, <2>7, <2>8 DEF Inside
  <2> QED  BY <2>9 DEF R
<1> QED  BY <1>2, <1>3

LEMMA PresentKeeps ==
  ASSUME DrInv, NEW d \in {"w", "k"}, NEW x \in Int, NEW region \in DrRegions, Present(d, x, region)
  PROVE  DrInv'
<1> DEFINE base == SyncShmPixmap("p")
           src == base[Resolve("p")]
           rects == {r \in CopyRects(src, region) : r[2] > 0}
           area == Hull(UNION {Span(x + r[1], r[2]) : r \in rects})
           at == IF d = "k" THEN x + KidX ELSE x
           nb == PutRects(base["w"], src, rects, at)
           kids == IF d = "k" THEN [base EXCEPT !["k"] = PutRects(@, src, rects, x)] ELSE base
           y == IF area = {} THEN 0 ELSE Min(area)
           k == IF d = "w" THEN Cardinality(area) ELSE 0
           e == {}
           w == "w"
<1>1. Drawn(kids, w, nb, y, k, e) BY DEF Present
<1>2. base \in [Drawables -> Bufs] /\ base["w"] = drBuf["w"] BY Synced
<1>3. src \in Bufs /\ base["w"] \in Bufs /\ base["k"] \in Bufs BY <1>2, DrFacts
<1>4. region \subseteq Int \X Nat /\ IsFiniteSet(region) BY DrAssumption
<1> HIDE DEF base
<1>5. Inside(rects, src) BY <1>3, <1>4, RectsInside
<1> HIDE DEF rects, src
<1>6. at \in Int BY DEF KidX
<1> HIDE DEF at
<1>7. Grows(base["w"], nb, e) BY <1>3, <1>5, <1>6, PutRectsGrows
<1>8. Grows(base["k"], PutRects(base["k"], src, rects, x), e) BY <1>3, <1>5, PutRectsGrows
<1>9. kids \in [Drawables -> Bufs] /\ kids["w"] = drBuf["w"] /\ kids["w"] = base["w"]
  <2>1. PutRects(base["k"], src, rects, x) \in Bufs BY <1>8 DEF Grows
  <2> QED  BY <1>2, <2>1, DrFacts DEF Drawables
<1>10. Resolve(w) = w /\ w \in Drawables BY DEF Resolve, Drawables
<1> HIDE DEF kids, nb, area, y, k, e
<1>11. Grows(kids[Resolve(w)], nb, e) BY <1>7, <1>9, <1>10
<1> HIDE DEF w
<1> QED  BY <1>1, <1>9, <1>10, <1>11, DrawnKeeps

-----------------------------------------------------------------------------
(* What mapping a window leaves in its framebuffer. *)
Restorable(d, store) == store /\ \E r \in drSaved[d] : DOMAIN r.px = Cols(drBuf[d])
Under(d, i) == IF d = "w" THEN {RootPixel}
               ELSE {drBuf["w"].px[j] : j \in {i + KidX} \cap Cols(drBuf["w"])}
Mapped(d, background, store) ==
    LET b == drBuf[d]
        kept == Restorable(d, store)
    IN  CASE kept -> [b EXCEPT !.px = The(drSaved[d]).px]
          [] ~kept /\ background = "none" -> b
          [] ~kept /\ background = "parent" -> [b EXCEPT !.px = [i \in Cols(b) |->
                 IF Under(d, i) # {} THEN The(Under(d, i)) ELSE b.px[i]]]
          [] ~kept /\ background = "pixmap" /\ drPix # "none" ->
                 FillRectTiled(b, 0, Size(b), [i \in Pos |-> {drBuf["p"].px[i % Size(drBuf["p"])]}],
                               [drGc EXCEPT !.fn = "copy", !.all = TRUE])
          [] OTHER -> FillRect(b, 0, Size(b), 0)

LEMMA KeptIs ==
  ASSUME DrInv, NEW d \in {"w", "k"}, NEW store, Restorable(d, store)
  PROVE  LET r == The(drSaved[d])
         IN  r \in drSaved[d] /\ r \in Backings /\ r.px \in [Cols(drBuf[d]) -> DrBits]
<1>1. PICK q \in drSaved[d] : DOMAIN q.px = Cols(drBuf[d]) BY DEF Restorable
<1>2. drSaved[d] \subseteq Backings /\ \A u, v \in drSaved[d] : u = v BY DEF DrInv, DrShapes
<1>3. The(drSaved[d]) \in drSaved[d] BY <1>1 DEF The
<1>4. The(drSaved[d]) = q BY <1>1, <1>2, <1>3
<1>5. q.px \in DrPx /\ q \in Backings BY <1>1, <1>2 DEF Backings
<1>6. q.px \in [Cols(drBuf[d]) -> DrBits] BY <1>1, <1>5 DEF DrPx
<1> QED  BY <1>1, <1>4, <1>5, <1>6

LEMMA MappedIs ==
  ASSUME DrInv, NEW d \in {"w", "k"}, NEW background, NEW store
  PROVE  \/ Grows(drBuf[d], Mapped(d, background, store), {})
         \/ /\ \/ ~Restorable(d, store) /\ background = "parent"
               \/ Restorable(d, store) /\ Mapped(d, background, store).px = The(drSaved[d]).px
            /\ Mapped(d, background, store) \in Bufs
            /\ Cols(Mapped(d, background, store)) = Cols(drBuf[d])
            /\ Mapped(d, background, store).dirty = drBuf[d].dirty
<1> DEFINE b == drBuf[d]
           kept == Restorable(d, store)
           z == Size(b)
           ink == [i \in Pos |-> {drBuf["p"].px[i % Size(drBuf["p"])]}]
           gc == [drGc EXCEPT !.fn = "copy", !.all = TRUE]
           px == [i \in Cols(b) |-> IF Under(d, i) # {} THEN The(Under(d, i)) ELSE b.px[i]]
           M == Mapped(d, background, store)
<1>1. b \in Bufs /\ drBuf["w"] \in Bufs BY DrFacts
<1>2. z \in Nat BY <1>1, BufHas
<1>3. ink = TileInk BY DEF TileInk, PatternAt
<1>4. \A i \in Cols(b) : TileInk[i] \in DrInks BY <1>1, InksAre, InkedOn
<1>5. gc \in DrContexts BY DrFacts, NoClip
<1>6. M =
       CASE kept -> [b EXCEPT !.px = The(drSaved[d]).px]
         [] ~kept /\ background = "none" -> b
         [] ~kept /\ background = "parent" -> [b EXCEPT !.px = px]
         [] ~kept /\ background = "pixmap" /\ drPix # "none" -> FillRectTiled(b, 0, z, ink, gc)
         [] OTHER -> FillRect(b, 0, z, 0)
  BY DEF Mapped
<1> DEFINE o == 0
           D == {}
<1>7. o \in Int /\ o \in DrBits /\ D \subseteq 0..2 BY DEF DrBits
<1>8. Grows(b, FillRect(b, 0, z, 0), {})
  <2> HIDE DEF b, z, o
  <2>1. Grows(b, FillRect(b, o, z, o), {}) BY <1>1, <1>2, <1>7, FillRectGrows
  <2> QED  BY <2>1 DEF o
<1>9. Grows(b, FillRectTiled(b, 0, z, ink, gc), {})
  <2> HIDE DEF b, z, o, gc
  <2>1. Grows(b, FillRectTiled(b, o, z, TileInk, gc), {})
    BY <1>1, <1>2, <1>4, <1>5, <1>7, FillRectTiledGrows
  <2> QED  BY <1>3, <2>1 DEF o
<1>10. px \in [Cols(b) -> DrBits]
  <2>1. \A i \in Cols(b) : b.px[i] \in DrBits BY <1>1, BufHas
  <2>2. \A i \in Cols(drBuf["w"]) : drBuf["w"].px[i] \in DrBits BY <1>1, BufHas
  <2>3. \A i \in Cols(b) : Under(d, i) \subseteq DrBits BY <2>2 DEF Under, RootPixel, DrBits
  <2>4. \A i \in Cols(b) : Under(d, i) # {} => The(Under(d, i)) \in DrBits BY <2>3 DEF The
  <2> QED  BY <2>1, <2>4
<1>11. Grows(b, b, {}) BY <1>1, GrowsSelf
<1> HIDE DEF z, ink, gc, px, o, D, M
<1>12. CASE kept
  <2> DEFINE q == The(drSaved[d]).px
  <2>1. q \in [Cols(b) -> DrBits] BY <1>12, KeptIs
  <2>2. M = [b EXCEPT !.px = q] BY <1>6, <1>12
  <2> HIDE DEF q, b
  <2>3. M \in Bufs /\ M.px = q /\ M.dirty = b.dirty /\ Cols(M) = Cols(b) BY <1>1, <1>7, <2>1, <2>2, BufMade
  <2> QED  BY <1>12, <2>3 DEF M, q, b
<1>13. CASE ~kept /\ background = "none" BY <1>6, <1>11, <1>13 DEF M
<1>14. CASE ~kept /\ background = "parent"
  <2>1. M = [b EXCEPT !.px = px] BY <1>6, <1>14
  <2> HIDE DEF b
  <2>2. M \in Bufs /\ M.dirty = b.dirty /\ Cols(M) = Cols(b) BY <1>1, <1>7, <1>10, <2>1, BufMade
  <2> QED  BY <1>14, <2>2 DEF M, b
<1>15. CASE ~kept /\ background = "pixmap" /\ drPix # "none" BY <1>6, <1>9, <1>15 DEF M
<1>16. CASE ~kept /\ background # "none" /\ background # "parent" /\ ~(background = "pixmap" /\ drPix # "none")
  BY <1>6, <1>8, <1>16 DEF M
<1> QED  BY <1>12, <1>13, <1>14, <1>15, <1>16

LEMMA MapKeeps ==
  ASSUME DrInv, NEW d \in {"w", "k"}, NEW background, NEW store \in BOOLEAN, MapWindow(d, background, store)
  PROVE  DrInv'
<1> DEFINE b == drBuf[d]
           nb == Mapped(d, background, store)
           changed == {i \in Cols(nb) : d = "w" /\ nb.px[i] # b.px[i]}
           loose == IF (Restorable(d, store) /\ ~The(drSaved[d]).whole) \/ (~Restorable(d, store) /\ background = "parent")
                    THEN changed ELSE {}
           after == IF store THEN {} ELSE {[r EXCEPT !.whole = FALSE] : r \in drSaved[d]}
<1>1. /\ drMapped' = drMapped \cup {d}
      /\ drSaved' = [drSaved EXCEPT ![d] = after]
      /\ drBuf' = [drBuf EXCEPT ![d] = nb]
      /\ drTouched' = IF drDmg THEN drTouched \cup changed ELSE drTouched
      /\ drMissed' = drMissed \cup loose
      /\ UNCHANGED <<drPix, drGc, drShape, drSeg, drDmg, drAcc, drShown>> /\ d \notin drMapped
  BY DEF MapWindow, Mapped, Restorable, Under
<1>2. b \in Bufs /\ d \in Drawables BY DrFacts
<1>3. \/ Grows(b, nb, {})
      \/ /\ \/ ~Restorable(d, store) /\ background = "parent"
            \/ Restorable(d, store) /\ nb.px = The(drSaved[d]).px
         /\ nb \in Bufs /\ Cols(nb) = Cols(b) /\ nb.dirty = b.dirty
  BY MappedIs
<1> HIDE DEF nb
<1>4. nb \in Bufs /\ Cols(nb) = Cols(b) /\ b.dirty \subseteq nb.dirty BY <1>3 DEF Grows
<1>5. changed \subseteq nb.dirty \cup drMissed \cup loose
  <2> SUFFICES ASSUME d = "w", NEW i \in Cols(b), nb.px[i] # b.px[i], loose = {}
               PROVE  i \in nb.dirty \cup drMissed
    BY <1>4
  <2>1. CASE Grows(b, nb, {}) BY <2>1 DEF Grows
  <2>2. CASE ~Grows(b, nb, {})
    <3> DEFINE q == The(drSaved[d])
    <3>1. i \in changed BY <1>4
    <3>2. Restorable(d, store) /\ nb.px = q.px /\ q.whole /\ nb.dirty = b.dirty BY <1>3, <2>2, <3>1
    <3>3. q \in drSaved["w"] /\ q.px \in [Cols(b) -> DrBits] BY <3>2, KeptIs
    <3> HIDE DEF q
    <3>4. i \in drBuf["w"].dirty \cup drMissed BY <3>2, <3>3 DEF DrInv, SavedKnown
    <3> QED  BY <3>2, <3>4
  <2> QED  BY <2>1, <2>2
<1>6. drBuf' \in [Drawables -> Bufs] BY <1>1, <1>2, <1>4, DrFacts
<1>7. loose \subseteq 0..2 /\ changed \subseteq Cols(b) /\ (d = "k" => changed = {}) /\ (changed = {} => loose = {})
  BY <1>2, <1>4, BufHas
<1>8. Cols(drBuf["w"])' = Cols(drBuf["w"]) /\ drBuf["w"].dirty \subseteq drBuf'["w"].dirty
  BY <1>1, <1>2, <1>4, DrFacts DEF Cols
<1>9. \A i \in Cols(drBuf["w"]) : drBuf'["w"].px[i] # drBuf["w"].px[i] => i \in changed
  BY <1>1, <1>2, <1>4, DrFacts
<1>10. changed \subseteq drBuf'["w"].dirty \cup drMissed' BY <1>1, <1>2, <1>5, <1>7, DrFacts
<1> HIDE DEF changed, loose
<1>11. after \subseteq Backings /\ (\A p, q \in after : p = q) /\ \A q \in after : ~q.whole
  <2>1. drSaved[d] \subseteq Backings /\ \A p, q \in drSaved[d] : p = q BY DEF DrInv, DrShapes
  <2>2. \A q \in Backings : [q EXCEPT !.whole = FALSE] \in Backings /\ ~[q EXCEPT !.whole = FALSE].whole
    BY DEF Backings
  <2> QED  BY <2>1, <2>2
<1> HIDE DEF after
<1>12. /\ drSaved' \in [{"w", "k"} -> SUBSET Backings]
       /\ \A e \in {"w", "k"} : drSaved'[e] = IF e = d THEN after ELSE drSaved[e]
  BY <1>1, <1>11 DEF DrInv, DrShapes
<1>13. DrShapes' BY <1>1, <1>6, <1>7, <1>8, <1>11, <1>12 DEF DrInv, DrShapes
<1>14. SavedKnown'
  <2>1. CASE d = "w" BY <1>11, <1>12, <2>1 DEF SavedKnown
  <2>2. CASE d = "k"
    <3>1. drBuf'["w"] = drBuf["w"] BY <1>1, <1>2, <2>2, DrFacts
    <3> QED  BY <1>1, <1>8, <1>12, <2>2, <3>1 DEF DrInv, SavedKnown
  <2> QED  BY <2>1, <2>2
<1>15. TouchedInside' /\ DamageCovers'
  <2>1. changed \subseteq Cols(drBuf["w"]) BY <1>7
  <2> QED  BY <1>1, <1>8, <1>10, <2>1 DEF DrInv, TouchedInside, DamageCovers
<1>16. PixelsReported'
  <2> SUFFICES ASSUME NEW i \in Cols(drBuf["w"]), Displayed(drBuf'["w"].px, drShape, i) # drShown[i]
               PROVE  i \in drBuf'["w"].dirty \cup drMissed'
    BY <1>1, <1>8 DEF PixelsReported, Displayed
  <2>1. CASE i \in changed BY <1>10, <2>1
  <2>2. CASE i \notin changed
    <3>1. Displayed(drBuf["w"].px, drShape, i) # drShown[i] BY <1>9, <2>2, Shows
    <3>2. i \in drBuf["w"].dirty \cup drMissed BY <3>1 DEF DrInv, PixelsReported
    <3> QED  BY <1>1, <1>8, <3>2
  <2> QED  BY <2>1, <2>2
<1> QED  BY <1>13, <1>14, <1>15, <1>16 DEF DrInv

LEMMA UnmapKeeps ==
  ASSUME DrInv, NEW d \in {"w", "k"}, NEW store \in {"no", "all", "masked"}, UnmapWindow(d, store)
  PROVE  DrInv'
<1> DEFINE px == drBuf[d].px
           all == {[px |-> px, whole |-> TRUE]}
           masked == {[px |-> [i \in Cols(drBuf[d]) |-> BackingPixel], whole |-> FALSE]}
           after == CASE store = "no" -> drSaved[d] [] store = "all" -> all [] store = "masked" -> masked
<1>1. /\ drMapped' = drMapped \ {d}
      /\ drSaved' = [drSaved EXCEPT ![d] = after]
      /\ UNCHANGED <<drBuf, drPix, drGc, drShape, drSeg, drDmg, drAcc, drTouched, drShown, drMissed>>
  BY DEF UnmapWindow, Quiet, drDamage
<1>2. Cols(drBuf["w"])' = Cols(drBuf["w"]) BY <1>1 DEF Cols
<1>3. drBuf[d] \in Bufs /\ px \in DrPx /\ Cols(drBuf[d]) = DOMAIN px BY DrFacts DEF Bufs, Cols
<1>4. [i \in Cols(drBuf[d]) |-> BackingPixel] \in DrPx
  <2>1. Cols(drBuf[d]) = 0..1 \/ Cols(drBuf[d]) = 0..2 BY <1>3, BufHas
  <2> QED  BY <2>1 DEF DrPx, BackingPixel, DrBits
<1>5. all \subseteq Backings /\ masked \subseteq Backings BY <1>3, <1>4 DEF Backings
<1>6. drSaved[d] \subseteq Backings /\ \A p, q \in drSaved[d] : p = q BY DEF DrInv, DrShapes
<1>7. after \subseteq Backings /\ (\A p, q \in after : p = q)
      /\ \A q \in after : q.whole => q \in drSaved[d] \/ q.px = px
  <2>1. CASE store = "no" BY <1>6, <2>1
  <2>2. CASE store = "all"
    <3>1. after = all BY <2>2
    <3> HIDE DEF after
    <3> QED  BY <1>5, <3>1
  <2>3. CASE store = "masked"
    <3>1. after = masked BY <2>3
    <3> HIDE DEF after
    <3>2. \A q \in masked : ~q.whole OBVIOUS
    <3> QED  BY <1>5, <3>1, <3>2
  <2> QED  BY <2>1, <2>2, <2>3
<1> HIDE DEF after
<1>8. /\ drSaved' \in [{"w", "k"} -> SUBSET Backings]
      /\ \A e \in {"w", "k"} : drSaved'[e] = IF e = d THEN after ELSE drSaved[e]
  BY <1>1, <1>7 DEF DrInv, DrShapes
<1>9. DrShapes' BY <1>1, <1>2, <1>7, <1>8 DEF DrInv, DrShapes
<1>10. SavedKnown'
  <2>1. CASE d = "w" BY <1>1, <1>2, <1>7, <1>8, <2>1 DEF DrInv, SavedKnown
  <2>2. CASE d = "k" BY <1>1, <1>2, <1>8, <2>2 DEF DrInv, SavedKnown
  <2> QED  BY <2>1, <2>2
<1>11. TouchedInside' /\ PixelsReported' /\ DamageCovers'
  BY <1>1, <1>2 DEF DrInv, TouchedInside, PixelsReported, DamageCovers, Displayed
<1> QED  BY <1>9, <1>10, <1>11 DEF DrInv

LEMMA ShapeKeeps ==
  ASSUME DrInv, NEW shape, ShapeWindow(shape)
  PROVE  DrInv'
<1> DEFINE px == drBuf["w"].px
           news == {i \in DOMAIN px : Displayed(px, shape, i) # Displayed(px, drShape, i)}
<1>1. /\ drShape' = shape /\ drMissed' = drMissed \cup news
      /\ UNCHANGED <<drBuf, drPix, drGc, drMapped, drSaved, drSeg, drDmg, drAcc, drTouched, drShown>>
  BY DEF ShapeWindow, drDamage
<1>2. Cols(drBuf["w"])' = Cols(drBuf["w"]) /\ Cols(drBuf["w"]) = DOMAIN px BY <1>1 DEF Cols
<1>3. news \subseteq 0..2 BY <1>2, BufHas, DrFacts
<1>4. DrShapes' BY <1>1, <1>2, <1>3 DEF DrInv, DrShapes
<1>5. PixelsReported'
  <2> SUFFICES ASSUME NEW i \in Cols(drBuf["w"]), Displayed(px, shape, i) # drShown[i], i \notin news
               PROVE  i \in drBuf["w"].dirty \cup drMissed
    BY <1>1, <1>2 DEF PixelsReported, Displayed
  <2> QED  BY <1>2 DEF DrInv, PixelsReported
<1>6. SavedKnown' /\ TouchedInside' /\ DamageCovers'
  BY <1>1, <1>2 DEF DrInv, SavedKnown, TouchedInside, DamageCovers
<1> QED  BY <1>4, <1>5, <1>6 DEF DrInv

LEMMA ResizeKeeps ==
  ASSUME DrInv, NEW n \in {2, 3}, NEW gravity, ResizeWithGravity(n, gravity)
  PROVE  DrInv'
<1> DEFINE b == drBuf["w"]
           dx == IF gravity = "east" THEN n - Size(b) ELSE 0
           px == [i \in 0..(n - 1) |-> IF gravity # "forget" /\ i - dx \in Cols(b) THEN b.px[i - dx] ELSE 0]
           m == [b EXCEPT !.px = px]
           nb == MarkDirty(m, 0, n)
<1>1. /\ drBuf' = [drBuf EXCEPT !["w"] = nb]
      /\ drShown' = [i \in 0..(n - 1) |-> IF i \in DOMAIN drShown THEN drShown[i] ELSE 2]
      /\ drTouched' = IF drDmg THEN 0..(n - 1) ELSE drTouched
      /\ drMissed' = {}
      /\ UNCHANGED <<drPix, drGc, drMapped, drSaved, drShape, drSeg, drDmg, drAcc>>
  BY DEF ResizeWithGravity
<1>2. b \in Bufs BY DrFacts
<1>3. m \in Bufs /\ Cols(m) = 0..(n - 1)
  <2>1. \A i \in Cols(b) : b.px[i] \in DrBits BY <1>2, BufHas
  <2>2. px \in [0..(n - 1) -> DrBits]
    <3> HIDE DEF b, dx
    <3> QED  BY <2>1 DEF DrBits
  <2> HIDE DEF px
  <2>3. n - 1 = 1 \/ n - 1 = 2 OBVIOUS
  <2>4. px \in DrPx BY <2>2, <2>3 DEF DrPx
  <2>5. m = [px |-> px, dirty |-> b.dirty] /\ b.dirty \subseteq 0..2 /\ b.dirty = Hull(b.dirty)
    BY <1>2, BufHas
  <2> HIDE DEF m, b
  <2>6. m \in Bufs BY <2>4, <2>5 DEF Bufs
  <2>7. Cols(m) = 0..(n - 1) BY <2>2, <2>5 DEF Cols
  <2> QED  BY <2>6, <2>7
<1> HIDE DEF m
<1>4. /\ nb \in Bufs /\ nb.px = m.px
      /\ \A i \in Cols(m) : i \in 0..(0 + n - 1) => i \in nb.dirty
  <2> DEFINE o == 0
  <2>1. o \in Int /\ n \in Int OBVIOUS
  <2> HIDE DEF o
  <2>2. /\ MarkDirty(m, o, n) \in Bufs /\ MarkDirty(m, o, n).px = m.px
        /\ \A i \in Cols(m) : i \in o..(o + n - 1) => i \in MarkDirty(m, o, n).dirty
    BY <1>3, <2>1, MarkDirtyIs
  <2> QED  BY <2>2 DEF o
<1> HIDE DEF nb
<1>5. Cols(nb) = 0..(n - 1) /\ \A i \in 0..(n - 1) : i \in nb.dirty BY <1>3, <1>4 DEF Cols
<1>6. drBuf' \in [Drawables -> Bufs] /\ drBuf'["w"] = nb BY <1>1, <1>4, DrFacts
<1>7. Cols(drBuf["w"])' = 0..(n - 1) BY <1>5, <1>6 DEF Cols
<1>8. drShown' \in [0..(n - 1) -> 0..2] BY <1>1 DEF DrInv, DrShapes
<1>9. DrShapes' BY <1>1, <1>6, <1>7, <1>8 DEF DrInv, DrShapes
<1>10. SavedKnown' BY <1>1, <1>5, <1>6, <1>7 DEF DrInv, SavedKnown
<1>11. TouchedInside' BY <1>1, <1>7 DEF TouchedInside
<1>12. PixelsReported' BY <1>5, <1>6, <1>7 DEF PixelsReported
<1>13. DamageCovers' BY <1>1, <1>5, <1>6 DEF DamageCovers
<1> QED  BY <1>9, <1>10, <1>11, <1>12, <1>13 DEF DrInv

LEMMA FlushKeeps ==
  ASSUME DrInv, FlushDirtyWindows PROVE DrInv'
<1> DEFINE w == drBuf["w"]
           kid == drBuf["k"]
           b == WithKid
           sent == IF "w" \in drMapped THEN b.dirty \cap Cols(b) ELSE {}
           changed == {i \in Cols(b) : b.px[i] # drBuf["w"].px[i]}
           nb == IF "w" \in drMapped THEN [b EXCEPT !.dirty = {}] ELSE b
<1>1. /\ drBuf' = [drBuf EXCEPT !["w"] = nb, !["k"].dirty = IF "k" \in drMapped THEN {} ELSE @]
      /\ drShown' = [i \in DOMAIN drShown |-> IF i \in sent THEN Displayed(b.px, drShape, i) ELSE drShown[i]]
      /\ drAcc' = IF drDmg THEN drAcc \cup sent ELSE drAcc
      /\ drTouched' = IF drDmg THEN drTouched \cup changed ELSE drTouched
      /\ drMissed' = drMissed \ b.dirty
      /\ UNCHANGED <<drPix, drGc, drMapped, drSaved, drShape, drSeg, drDmg>>
  BY DEF FlushDirtyWindows
<1>2. w \in Bufs /\ kid \in Bufs BY DrFacts
<1>3. Grows(w, b, {})
  <2> DEFINE data == ExtractPixels(kid, 0, Size(kid))
             z == Size(kid)
             o == 0
  <2>0. b = IF "k" \notin drMapped \/ kid.dirty = {} \/ drRedir THEN w ELSE PutImage(w, KidX, data)
    BY DEF WithKid
  <2>1. z \in Nat /\ o \in Int /\ KidX \in Int BY <1>2, BufHas DEF KidX
  <2> HIDE DEF z, o, w, kid, b
  <2>2. ExtractPixels(kid, o, z) \in [0..(z - 1) -> DrBits] BY <1>2, <2>1, Extracted
  <2>3. data = ExtractPixels(kid, o, z) BY DEF o, z
  <2> HIDE DEF data
  <2>4. data \in [0..(z - 1) -> DrBits] BY <2>2, <2>3
  <2>5. Grows(w, PutImage(w, KidX, data), {}) BY <1>2, <2>1, <2>4, PutImageGrows
  <2>6. Grows(w, w, {}) BY <1>2, GrowsSelf
  <2> QED  BY <2>0, <2>5, <2>6
<1>4. /\ b \in Bufs /\ Cols(b) = Cols(w) /\ w.dirty \subseteq b.dirty
      /\ \A i \in Cols(w) : b.px[i] # w.px[i] => i \in b.dirty
  BY <1>3 DEF Grows
<1> HIDE DEF b
<1>5. Cols(b) \subseteq 0..2 BY <1>4, BufHas
<1>6. nb \in Bufs /\ nb.px = b.px /\ nb.dirty = (IF "w" \in drMapped THEN {} ELSE b.dirty) /\ Cols(nb) = Cols(w)
  <2>1. Hull({}) = {} BY DEF Hull
  <2> QED  BY <1>4, <2>1 DEF Bufs, Cols
<1>7. [kid EXCEPT !.dirty = {}] \in Bufs
  <2>1. Hull({}) = {} BY DEF Hull
  <2> QED  BY <1>2, <2>1 DEF Bufs
<1> HIDE DEF nb
<1>8. drBuf' \in [Drawables -> Bufs] /\ drBuf'["w"] = nb
  <2> DEFINE nk == [kid EXCEPT !.dirty = IF "k" \in drMapped THEN {} ELSE @]
  <2>1. nk \in Bufs
    <3>1. CASE "k" \in drMapped BY <1>7, <3>1
    <3>2. CASE "k" \notin drMapped
      <4>1. nk = kid BY <1>2, <3>2 DEF Bufs
      <4> QED  BY <1>2, <4>1
    <3> QED  BY <3>1, <3>2
  <2>2. drBuf' = [d \in Drawables |-> IF d = "w" THEN nb ELSE IF d = "k" THEN nk ELSE drBuf[d]]
    BY <1>1, DrFacts DEF Drawables
  <2> HIDE DEF nk
  <2> QED  BY <1>6, <2>1, <2>2, DrFacts DEF Drawables
<1>9. Cols(drBuf["w"])' = Cols(w) BY <1>6, <1>8 DEF Cols
<1>10. changed \subseteq b.dirty \cap Cols(w) BY <1>4
<1> HIDE DEF changed
<1>11. sent = IF "w" \in drMapped THEN b.dirty \cap Cols(w) ELSE {} BY <1>4
<1> HIDE DEF sent
<1>12. drShown \in [Cols(w) -> 0..2] /\ \A i \in Cols(w) : Displayed(b.px, drShape, i) \in 0..2
  <2>1. \A i \in Cols(w) : b.px[i] \in 0..2 BY <1>4, BufHas DEF DrBits
  <2> QED  BY <2>1 DEF DrInv, DrShapes, Displayed
<1>13. drShown' \in [Cols(w) -> 0..2] BY <1>1, <1>12
<1>14. "w" \in drMapped => \A q \in drSaved["w"] : ~q.whole BY DEF DrInv, SavedKnown
<1>15. drDmg => drTouched \subseteq Cols(w) /\ drTouched \subseteq drAcc \cup w.dirty \cup drMissed
  BY DEF DrInv, TouchedInside, DamageCovers
<1>16. \A i \in Cols(w) : Displayed(w.px, drShape, i) # drShown[i] => i \in w.dirty \cup drMissed
  BY DEF DrInv, PixelsReported
<1>17. \A q \in drSaved["w"] : q.whole /\ DOMAIN q.px = Cols(w) =>
           \A i \in DOMAIN q.px : q.px[i] # w.px[i] => i \in w.dirty \cup drMissed
  BY DEF DrInv, SavedKnown
<1>21. \A i \in Cols(w) : i \notin b.dirty => Displayed(b.px, drShape, i) = Displayed(w.px, drShape, i)
  BY <1>4, Shows
<1> HIDE DEF w
<1>18. DrShapes'
  <2>1. drAcc' \subseteq 0..2 /\ drMissed' \subseteq 0..2
    BY <1>1, <1>4, <1>5, <1>11 DEF DrInv, DrShapes
  <2> QED  BY <1>1, <1>8, <1>9, <1>13, <2>1 DEF DrInv, DrShapes
<1>19. CASE "w" \in drMapped
  <2>1. SavedKnown' BY <1>1, <1>14, <1>19 DEF SavedKnown
  <2>2. PixelsReported'
    <3> SUFFICES ASSUME NEW i \in Cols(w), Displayed(b.px, drShape, i) # drShown'[i] PROVE i \in drMissed'
      BY <1>1, <1>6, <1>8, <1>9 DEF PixelsReported, Displayed
    <3>1. i \notin b.dirty /\ drShown'[i] = drShown[i] BY <1>1, <1>11, <1>12, <1>19
    <3> QED  BY <1>1, <1>4, <1>16, <1>21, <3>1
  <2>3. DamageCovers' BY <1>1, <1>4, <1>10, <1>11, <1>15, <1>19 DEF DamageCovers
  <2>4. TouchedInside' BY <1>1, <1>9, <1>10, <1>15 DEF TouchedInside
  <2> QED  BY <1>18, <2>1, <2>2, <2>3, <2>4 DEF DrInv
<1>20. CASE "w" \notin drMapped
  <2>0. drShown' = drShown BY <1>1, <1>11, <1>12, <1>20
  <2>1. SavedKnown' BY <1>1, <1>4, <1>6, <1>8, <1>9, <1>17, <1>20, <2>0 DEF SavedKnown
  <2>2. PixelsReported'
    <3> SUFFICES ASSUME NEW i \in Cols(w), Displayed(b.px, drShape, i) # drShown[i]
                 PROVE  i \in b.dirty \cup drMissed
      BY <1>1, <1>6, <1>8, <1>9, <1>20, <2>0 DEF PixelsReported, Displayed
    <3> QED  BY <1>4, <1>16, <1>21
  <2>3. DamageCovers' BY <1>1, <1>4, <1>6, <1>8, <1>10, <1>11, <1>15, <1>20 DEF DamageCovers
  <2>4. TouchedInside' BY <1>1, <1>9, <1>10, <1>15 DEF TouchedInside
  <2> QED  BY <1>18, <2>1, <2>2, <2>3, <2>4 DEF DrInv
<1> QED  BY <1>19, <1>20

LEMMA DamageKeeps ==
  ASSUME DrInv,
         \/ DamageCreate \/ DamageDestroy
         \/ \E region \in DrRegions : DamageSubtract(region) \/ DamageAdd(region)
  PROVE  DrInv'
<1>1. UNCHANGED <<drBuf, drPix, drGc, drMapped, drSaved, drShape, drSeg, drShown, drMissed>>
  BY DEF DamageCreate, DamageDestroy, DamageSubtract, DamageAdd, Quiet
<1>2. drAcc' \subseteq 0..2
  BY DEF DamageCreate, DamageDestroy, DamageSubtract, DamageAdd, Remainder, DrInv, DrShapes
<1>3. Cols(drBuf["w"])' = Cols(drBuf["w"]) BY <1>1 DEF Cols
<1>4. drDmg' => /\ drTouched' \subseteq Cols(drBuf["w"])
                /\ drTouched' \subseteq drAcc' \cup drBuf["w"].dirty \cup drMissed
  <2> USE DEF DrInv, TouchedInside, DamageCovers
  <2>1. CASE DamageCreate BY <2>1 DEF DamageCreate
  <2>2. CASE DamageDestroy BY <2>2 DEF DamageDestroy
  <2>3. CASE \E region \in DrRegions : DamageSubtract(region) BY <2>3 DEF DamageSubtract, Remainder
  <2>4. CASE \E region \in DrRegions : DamageAdd(region) BY <2>4 DEF DamageAdd
  <2> QED  BY <2>1, <2>2, <2>3, <2>4
<1>5. DrShapes' BY <1>1, <1>2, <1>3 DEF DrInv, DrShapes
<1>6. SavedKnown' /\ PixelsReported' BY <1>1, <1>3 DEF DrInv, SavedKnown, PixelsReported, Displayed
<1>7. TouchedInside' /\ DamageCovers' BY <1>1, <1>3, <1>4 DEF TouchedInside, DamageCovers
<1> QED  BY <1>5, <1>6, <1>7 DEF DrInv

-----------------------------------------------------------------------------
(***************************************************************************)
(* XGlx: the types of contexts, pictures and bindings, and what is marked. *)
(***************************************************************************)
Mesas == [px : GlPictures, by : SUBSET GlClients, lists : BOOLEAN]
GlContextsOf(tag) ==
    [tag : 1..(tag - 1), drw : GlDrawables, refused : BOOLEAN, mesa : SUBSET Mesas]
(* What a thread may have current: the picture of a context or one that is gone. *)
Bound(b) ==
    /\ b \in GlClients \X GlIds \X Nat /\ b[3] < glTag[b[1]]
    /\ \A x \in glCtx[b[1]][b[2]] : x.tag = b[3] => x.mesa # {}
Lasts(old, new) == \A y \in new : \E x \in old : y.tag = x.tag /\ (x.mesa # {} => y.mesa # {})
CtxTypes ==
    /\ DOMAIN glCtx = GlClients /\ DOMAIN glTag = GlClients
    /\ \A c \in GlClients : /\ DOMAIN glCtx[c] = GlIds /\ glTag[c] \in Nat \ {0}
                            /\ \A k \in GlIds : glCtx[c][k] \subseteq GlContextsOf(glTag[c])
BindTypes ==
    /\ glCur \in [GlClients -> GlIds \cup {GlNone}] /\ glCurDrw \in [GlClients -> GlDrawables]
    /\ DOMAIN glThread = GlThreads /\ \A t \in GlThreads : \A b \in glThread[t] : Bound(b)
WinTypes ==
    /\ glWin \in [GlClients -> GlPictures] /\ glShown \in [GlClients -> GlPictures]
    /\ DOMAIN glDirty = GlClients
    /\ \A c \in GlClients : DOMAIN glShown[c] = DOMAIN glWin[c]
GlTypes == GlInv /\ CtxTypes /\ BindTypes /\ WinTypes

LEMMA PictureIs ==
  ASSUME NEW p \in GlPictures
  PROVE  Wide(p) \in {1, 2, 3} /\ p \in [0..(Wide(p) - 1) -> GlInk]
<1>1. PICK n \in {1, 2, 3} : p \in [0..(n - 1) -> GlInk]
  BY DEF GlPictures, GlWidths, GlScreen
<1>2. Wide(p) = n
  <2>1. Cardinality(0..(n - 1)) = n BY SpanSize
  <2> QED  BY <1>1, <2>1 DEF Wide
<1> QED  BY <1>1, <1>2

LEMMA PictureMade ==
  ASSUME NEW n \in {1, 2, 3}
  PROVE  /\ [0..(n - 1) -> GlInk] \subseteq GlPictures
         /\ \A v \in GlInk : Blank(n, v) \in GlPictures /\ DOMAIN Blank(n, v) = 0..(n - 1)
<1>1. [0..(n - 1) -> GlInk] \subseteq GlPictures BY DEF GlPictures, GlWidths, GlScreen
<1> QED  BY <1>1 DEF Blank

LEMMA SizedIs ==
  ASSUME NEW mesa \in SUBSET Mesas, NEW n \in {1, 2, 3}
  PROVE  Sized(mesa, n) \in SUBSET Mesas
<1>1. "bg" \in GlInk BY DEF GlInk
<1>2. Blank(n, "bg") \in GlPictures BY <1>1, PictureMade
<1>3. CASE mesa = {} BY <1>2, <1>3 DEF Sized, Mesas
<1>4. CASE mesa # {}
  <2>1. GlThe(mesa) \in mesa BY <1>4, GlChosen
  <2>2. GlThe(mesa).by \in SUBSET GlClients /\ GlThe(mesa).lists \in BOOLEAN BY <2>1 DEF Mesas
  <2> QED  BY <1>2, <1>4, <2>2 DEF Sized, Mesas
<1> QED  BY <1>3, <1>4

LEMMA CalledIs ==
  ASSUME NEW m \in Mesas, NEW c \in GlClients, NEW g,
         (\E op, len : g = Command(op, len)) \/ (\E there \in BOOLEAN : g = Lists(there))
  PROVE  [Called(m, g) EXCEPT !.by = @ \cup {c}] \in Mesas
<1>1. Called(m, g) \in Mesas
  <2>1. ASSUME NEW op, NEW len PROVE Rendered(m, op, len) \in Mesas
    <3>1. "gl" \in GlInk BY DEF GlInk
    <3>2. Wide(m.px) \in {1, 2, 3} BY PictureIs DEF Mesas
    <3>3. Blank(Wide(m.px), "gl") \in GlPictures BY <3>1, <3>2, PictureMade
    <3>4. [m EXCEPT !.px = Blank(Wide(m.px), "gl")] \in Mesas BY <3>3 DEF Mesas
    <3>5. Rendered(m, op, len) = m \/ Rendered(m, op, len) = [m EXCEPT !.px = Blank(Wide(m.px), "gl")]
      BY DEF Rendered
    <3> QED  BY <3>4, <3>5
  <2>2. CASE \E op, len : g = Command(op, len)
    <3>1. PICK op, len : g = Command(op, len) BY <2>2
    <3>2. g.call = "render" BY <3>1 DEF Command
    <3> QED  BY <2>1, <3>2 DEF Called
  <2>3. CASE \E there \in BOOLEAN : g = Lists(there)
    <3>1. PICK there \in BOOLEAN : g = Lists(there) BY <2>3
    <3>2. g.call # "render" /\ g.there = there BY <3>1 DEF Lists
    <3> QED  BY <3>2 DEF Called, Mesas
  <2> QED  BY <2>2, <2>3
<1> DEFINE n == Called(m, g)
<1> HIDE DEF n
<1>2. n \in Mesas BY <1>1 DEF n
<1>3. [n EXCEPT !.by = @ \cup {c}] \in Mesas BY <1>2 DEF Mesas
<1> QED  BY <1>3 DEF n

(* The contexts after a step that creates none and gives no tag. *)
LEMMA CtxStay ==
  ASSUME GlTypes, glTag' = glTag, DOMAIN glCtx' = GlClients,
         \A e \in GlClients : DOMAIN glCtx'[e] = GlIds,
         \A e \in GlClients, j \in GlIds : /\ glCtx'[e][j] \subseteq GlContextsOf(glTag[e])
                                           /\ Lasts(glCtx[e][j], glCtx'[e][j])
  PROVE  CtxTypes' /\ \A b : Bound(b) => Bound(b)'
<1>1. CtxTypes' BY DEF GlTypes, CtxTypes
<1>2. ASSUME NEW b, Bound(b) PROVE Bound(b)'
  <2>1. b[1] \in GlClients /\ b[2] \in GlIds BY <1>2 DEF Bound
  <2>2. Lasts(glCtx[b[1]][b[2]], glCtx'[b[1]][b[2]]) BY <2>1
  <2>3. ASSUME NEW y \in glCtx'[b[1]][b[2]], y.tag = b[3] PROVE y.mesa # {}
    <3>1. PICK x \in glCtx[b[1]][b[2]] : y.tag = x.tag /\ (x.mesa # {} => y.mesa # {})
      BY <2>2, <2>3 DEF Lasts
    <3>2. x.tag = b[3] => x.mesa # {} BY <1>2 DEF Bound
    <3> QED  BY <2>3, <3>1, <3>2
  <2> QED  BY <1>2, <2>3 DEF Bound
<1> QED  BY <1>1, <1>2

LEMMA ExecutesTyped ==
  ASSUME GlTypes, NEW c \in GlClients, NEW on, NEW g, Executes(c, on, g), glTag' = glTag,
         (\E op, len : g = Command(op, len)) \/ (\E there \in BOOLEAN : g = Lists(there))
  PROVE  CtxTypes' /\ \A b : Bound(b) => Bound(b)'
<1> DEFINE Calls(M) == {[Called(m, g) EXCEPT !.by = @ \cup {c}] : m \in M}
           P(x) == [x EXCEPT !.mesa = Calls(@)]
           T(e, j) == {P(x) : x \in glCtx[e][j]}
<1>1. /\ DOMAIN glCtx' = GlClients
      /\ \A e \in GlClients : DOMAIN glCtx'[e] = GlIds
      /\ \A e \in GlClients, j \in GlIds :
           glCtx'[e][j] = glCtx[e][j] \/ glCtx'[e][j] = T(e, j)
  BY DEF Executes
<1>0. \A M \in SUBSET Mesas : Calls(M) \in SUBSET Mesas BY CalledIs
<1>2. \A M : M # {} => Calls(M) # {} OBVIOUS
<1> HIDE DEF Calls
<1>3. ASSUME NEW e \in GlClients, NEW x \in GlContextsOf(glTag[e])
      PROVE  P(x) \in GlContextsOf(glTag[e]) /\ P(x).tag = x.tag /\ (x.mesa # {} => P(x).mesa # {})
  BY <1>0, <1>2 DEF GlContextsOf
<1> HIDE DEF P
<1>4. \A e \in GlClients, j \in GlIds : glCtx[e][j] \subseteq GlContextsOf(glTag[e])
  BY DEF GlTypes, CtxTypes
<1>5. \A e \in GlClients, j \in GlIds : /\ T(e, j) \subseteq GlContextsOf(glTag[e])
                                        /\ Lasts(glCtx[e][j], T(e, j))
  BY <1>3, <1>4 DEF Lasts
<1> HIDE DEF T
<1>6. \A e \in GlClients, j \in GlIds : Lasts(glCtx[e][j], glCtx[e][j]) BY DEF Lasts
<1> QED  BY <1>1, <1>4, <1>5, <1>6, CtxStay

-----------------------------------------------------------------------------
LEMMA ContextsTyped ==
  ASSUME GlTypes, NEW c \in GlClients, GlContexts(c)
  PROVE  CtxTypes' /\ BindTypes'
<1> USE DEF GlTypes
<1>1. ASSUME UNCHANGED <<glCtx, glTag, glThread>>, glCur' \in [GlClients -> GlIds \cup {GlNone}],
             glCurDrw' \in [GlClients -> GlDrawables]
      PROVE  CtxTypes' /\ BindTypes'
  BY <1>1 DEF CtxTypes, BindTypes, Bound
<1>2. GlNone \in GlDrawables BY DEF GlDrawables
<1>a. ASSUME NEW k \in GlIds, NEW t \in GlThreads, glThread' = Dropped(c, k, t)
      PROVE  DOMAIN glThread' = GlThreads /\ \A u \in GlThreads : glThread'[u] \subseteq glThread[u]
  BY <1>a DEF Dropped, BindTypes
<1>3. ASSUME NEW k \in GlIds, NEW t \in GlThreads, CreateContext(c, k, t) PROVE CtxTypes' /\ BindTypes'
  <2> DEFINE n == [tag |-> glTag[c], drw |-> GlNone, refused |-> FALSE, mesa |-> {}]
  <2>1. /\ glCtx' = [glCtx EXCEPT ![c][k] = {n}] /\ glTag' = [glTag EXCEPT ![c] = @ + 1]
        /\ glThread' = Dropped(c, k, t) /\ UNCHANGED <<glCur, glCurDrw>>
    BY <1>3 DEF CreateContext
  <2>2. glTag[c] \in Nat \ {0} /\ glTag[c] \in 1..(glTag[c] + 1 - 1) BY DEF CtxTypes
  <2>3. n \in GlContextsOf(glTag[c] + 1) /\ n.tag = glTag[c] BY <1>2, <2>2 DEF GlContextsOf
  <2>4. GlContextsOf(glTag[c]) \subseteq GlContextsOf(glTag[c] + 1) BY <2>2 DEF GlContextsOf
  <2> HIDE DEF n
  <2>5. CtxTypes' BY <2>1, <2>2, <2>3, <2>4 DEF CtxTypes
  <2>6. ASSUME NEW b, Bound(b) PROVE Bound(b)'
    <3>1. b[1] \in GlClients /\ b[2] \in GlIds /\ b[3] \in Nat /\ b[3] < glTag[b[1]] BY <2>6 DEF Bound
    <3>2. b[3] < glTag'[b[1]] BY <2>1, <2>2, <3>1 DEF CtxTypes
    <3>3. ASSUME NEW x \in glCtx'[b[1]][b[2]], x.tag = b[3] PROVE x \in glCtx[b[1]][b[2]]
      <4>1. CASE b[1] = c /\ b[2] = k
        <5>1. x = n BY <2>1, <3>3, <4>1 DEF CtxTypes
        <5> QED  BY <2>2, <2>3, <3>1, <3>3, <4>1, <5>1
      <4>2. CASE ~(b[1] = c /\ b[2] = k) BY <2>1, <3>1, <3>3, <4>2 DEF CtxTypes
      <4> QED  BY <4>1, <4>2
    <3> QED  BY <2>6, <3>2, <3>3 DEF Bound
  <2>7. BindTypes' BY <1>a, <2>1, <2>6 DEF BindTypes
  <2> QED  BY <2>5, <2>7
<1>4. ASSUME NEW k \in GlIds, NEW t \in GlThreads, DestroyContext(c, k, t) PROVE CtxTypes' /\ BindTypes'
  <2>1. /\ glCtx' = [glCtx EXCEPT ![c][k] = {}] /\ glTag' = glTag
        /\ glThread' = Dropped(c, k, t)
        /\ glCur' = [glCur EXCEPT ![c] = IF @ = k THEN GlNone ELSE @]
        /\ glCurDrw' = [glCurDrw EXCEPT ![c] = IF glCur[c] = k THEN GlNone ELSE @]
    BY <1>4 DEF DestroyContext
  <2>2. CtxTypes' BY <2>1 DEF CtxTypes
  <2>3. \A e \in GlClients, j \in GlIds : glCtx'[e][j] \subseteq glCtx[e][j] BY <2>1 DEF CtxTypes
  <2>4. glCur' \in [GlClients -> GlIds \cup {GlNone}] /\ glCurDrw' \in [GlClients -> GlDrawables]
    BY <1>2, <2>1 DEF BindTypes
  <2>5. ASSUME NEW b, Bound(b) PROVE Bound(b)'
    <3>1. b[1] \in GlClients /\ b[2] \in GlIds BY <2>5 DEF Bound
    <3> QED  BY <2>1, <2>3, <2>5, <3>1 DEF Bound
  <2>6. BindTypes' BY <1>a, <2>1, <2>4, <2>5 DEF BindTypes
  <2> QED  BY <2>2, <2>6
<1>5. ASSUME NEW k \in GlIds, NEW d \in GlDrawables, NEW t \in GlThreads, NEW ok \in BOOLEAN,
             DoMakeCurrent(c, k, d, t, ok)
      PROVE  CtxTypes' /\ BindTypes'
  <2>1. glCur' \in [GlClients -> GlIds \cup {GlNone}] /\ glCurDrw' \in [GlClients -> GlDrawables]
        /\ glTag' = glTag
    BY <1>5 DEF DoMakeCurrent, BindTypes
  <2>2. CASE glCtx[c][k] = {} BY <1>1, <1>5, <2>1, <2>2 DEF DoMakeCurrent
  <2>3. CASE glCtx[c][k] # {}
    <3> DEFINE o == GlCtx(c, k)
               z == GetDrawableSize(c, d)
               p == IF ok \/ o.mesa # {} THEN Sized(o.mesa, z) ELSE {}
               n == [o EXCEPT !.drw = d, !.refused = ~ok, !.mesa = p]
               q == <<c, k, o.tag>>
    <3>1. /\ glCtx' = [glCtx EXCEPT ![c][k] = {n}]
          /\ glThread' = [glThread EXCEPT ![t] = IF ok THEN {q} ELSE @]
      BY <1>5, <2>3 DEF DoMakeCurrent, Binding
    <3>2. o \in glCtx[c][k] BY <2>3, GlChosen DEF GlCtx
    <3>3. o \in GlContextsOf(glTag[c]) BY <3>2 DEF CtxTypes
    <3>4. z \in {1, 2, 3}
      <4>1. glWin[c] \in GlPictures BY DEF WinTypes
      <4> QED  BY <4>1, PictureIs DEF GetDrawableSize, GlScreen
    <3> HIDE DEF o, z
    <3>5. Sized(o.mesa, z) \in SUBSET Mesas /\ Sized(o.mesa, z) # {}
      BY <3>3, <3>4, SizedIs DEF GlContextsOf, Sized
    <3> DEFINE y == Sized(o.mesa, z)
    <3> HIDE DEF y
    <3>6. /\ n \in GlContextsOf(glTag[c]) /\ n.tag = o.tag
          /\ (o.mesa # {} \/ ok => n.mesa # {})
      BY <3>3, <3>5 DEF GlContextsOf, y
    <3> HIDE DEF n
    <3>7. /\ DOMAIN glCtx' = GlClients /\ \A e \in GlClients : DOMAIN glCtx'[e] = GlIds
          /\ glCtx'[c][k] = {n}
          /\ \A e \in GlClients, j \in GlIds : \/ glCtx'[e][j] = glCtx[e][j]
                                               \/ e = c /\ j = k /\ glCtx'[e][j] = {n}
      BY <3>1 DEF CtxTypes
    <3>8. \A e \in GlClients, j \in GlIds : /\ glCtx'[e][j] \subseteq GlContextsOf(glTag[e])
                                            /\ Lasts(glCtx[e][j], glCtx'[e][j])
      <4>1. \A e \in GlClients, j \in GlIds : glCtx[e][j] \subseteq GlContextsOf(glTag[e]) BY DEF CtxTypes
      <4>2. \A S : Lasts(S, S) BY DEF Lasts
      <4>3. Lasts(glCtx[c][k], {n}) BY <3>2, <3>6 DEF Lasts
      <4> QED  BY <3>6, <3>7, <4>1, <4>2, <4>3
    <3>9. CtxTypes' /\ \A b : Bound(b) => Bound(b)' BY <2>1, <3>7, <3>8, CtxStay
    <3>10. ASSUME NEW b, b = q, ok PROVE Bound(b)'
      <4>1. glTag[c] \in Nat /\ o.tag \in Nat /\ o.tag < glTag[c] BY <3>3 DEF GlContextsOf, CtxTypes
      <4>2. b \in GlClients \X GlIds \X Nat /\ b[1] = c /\ b[2] = k /\ b[3] = o.tag BY <3>10, <4>1
      <4>3. n.mesa # {} BY <3>6, <3>10
      <4> QED  BY <2>1, <3>7, <4>1, <4>2, <4>3 DEF Bound
    <3> HIDE DEF q
    <3>11. BindTypes' BY <2>1, <3>1, <3>9, <3>10 DEF BindTypes
    <3> QED  BY <3>9, <3>11
  <2> QED  BY <2>2, <2>3
<1>6. CASE \/ ReleaseCurrent(c) \/ CreateGlxWindow(c) \/ CreateGlxPixmap(c)
           \/ CreatePbuffer(c) \/ DestroyGlxPixmap(c)
  <2>1. UNCHANGED <<glCtx, glTag, glThread>>
    BY <1>6 DEF ReleaseCurrent, CreateGlxWindow, CreateGlxPixmap, CreatePbuffer, DestroyGlxPixmap, GlxDrawable
  <2>2. glCur' \in [GlClients -> GlIds \cup {GlNone}] /\ glCurDrw' \in [GlClients -> GlDrawables]
    BY <1>2, <1>6 DEF ReleaseCurrent, CreateGlxWindow, CreateGlxPixmap, CreatePbuffer,
                      DestroyGlxPixmap, GlxDrawable, BindTypes
  <2> QED  BY <1>1, <2>1, <2>2
<1> QED  BY <1>3, <1>4, <1>5, <1>6 DEF GlContexts

LEMMA PictureHas ==
  ASSUME GlTypes, NEW c \in GlClients, HasPicture(c)
  PROVE  glCur[c] \in GlIds /\ glCtx[c][glCur[c]] # {} /\ Picture(c) \in Mesas
<1> DEFINE k == glCur[c]
<1>1. k \in GlIds /\ glCtx[c][k] # {} /\ GlCtx(c, k).mesa # {} BY DEF HasPicture, GlTypes, BindTypes
<1>2. GlCtx(c, k) \in glCtx[c][k] BY <1>1, GlChosen DEF GlCtx
<1>3. GlCtx(c, k) \in GlContextsOf(glTag[c]) BY <1>1, <1>2 DEF GlTypes, CtxTypes
<1>4. GlCtx(c, k).mesa \in SUBSET Mesas BY <1>3 DEF GlContextsOf
<1>5. GlThe(GlCtx(c, k).mesa) \in GlCtx(c, k).mesa BY <1>1, GlChosen
<1> QED  BY <1>1, <1>4, <1>5 DEF Picture

LEMMA Ensured ==
  ASSUME GlTypes, NEW c \in GlClients, NEW t \in GlThreads
  PROVE  \A b \in EnsureCurrent(c, t) : Bound(b)
<1>1. CASE EnsureCurrent(c, t) = glThread[t] BY <1>1 DEF GlTypes, BindTypes
<1>2. CASE HasPicture(c) /\ EnsureCurrent(c, t) = {Binding(c, glCur[c])}
  <2> DEFINE k == glCur[c]
             o == GlCtx(c, k)
  <2>1. k \in GlIds /\ glCtx[c][k] # {} /\ o.mesa # {} BY <1>2, PictureHas DEF HasPicture
  <2>2. o \in glCtx[c][k] BY <2>1, GlChosen DEF GlCtx
  <2>3. o.tag \in Nat /\ o.tag < glTag[c] /\ \A x \in glCtx[c][k] : x = o
    BY <2>1, <2>2 DEF GlTypes, GlInv, Context
  <2> HIDE DEF k, o
  <2>4. Bound(<<c, k, o.tag>>) BY <2>1, <2>3 DEF Bound
  <2> QED  BY <1>2, <2>4 DEF Binding, k, o
<1> QED  BY <1>1, <1>2 DEF EnsureCurrent

LEMMA CallsTyped ==
  ASSUME GlTypes, NEW c \in GlClients, NEW t \in GlThreads, GlCalls(c, t)
  PROVE  CtxTypes' /\ BindTypes'
<1>0. glTag' = glTag /\ glCur' = glCur /\ glCurDrw' = glCurDrw
  BY DEF GlCalls, Render, Single, UseXFont, SwapBuffers, WaitGL, WaitX, BindingKept
<1>2. ASSUME CtxTypes', \A b : Bound(b) => Bound(b)',
             glThread' = glThread \/ glThread' = [glThread EXCEPT ![t] = EnsureCurrent(c, t)]
      PROVE  BindTypes'
  <2>1. \A b \in EnsureCurrent(c, t) : Bound(b)' BY <1>2, Ensured
  <2> QED  BY <1>0, <1>2, <2>1 DEF GlTypes, BindTypes
<1>3. ASSUME NEW on, NEW g, Executes(c, on, g),
             (\E op, len : g = Command(op, len)) \/ (\E there \in BOOLEAN : g = Lists(there)),
             glThread' = glThread \/ glThread' = [glThread EXCEPT ![t] = EnsureCurrent(c, t)]
      PROVE  CtxTypes' /\ BindTypes'
  <2>1. CtxTypes' /\ \A b : Bound(b) => Bound(b)' BY <1>0, <1>3, ExecutesTyped
  <2> QED  BY <1>2, <1>3, <2>1
<1>4. ASSUME NEW m \in GlCommands, Render(c, t, m[1], m[2]) PROVE CtxTypes' /\ BindTypes'
  <2>1. /\ Executes(c, EnsureCurrent(c, t), Command(m[1], m[2]))
        /\ glThread' = [glThread EXCEPT ![t] = EnsureCurrent(c, t)]
    BY <1>4 DEF Render
  <2> QED  BY <1>3, <2>1
<1>5. ASSUME Single(c, t) PROVE CtxTypes' /\ BindTypes'
  <2>1. /\ Executes(c, EnsureCurrent(c, t), Lists(FALSE))
        /\ glThread' = [glThread EXCEPT ![t] = EnsureCurrent(c, t)]
    BY <1>5 DEF Single
  <2> QED  BY <1>3, <2>1
<1>6. ASSUME UseXFont(c, t) PROVE CtxTypes' /\ BindTypes'
  <2>1. Executes(c, glThread[t], Lists(TRUE)) /\ glThread' = glThread BY <1>6 DEF UseXFont
  <2> QED  BY <1>3, <2>1
<1>7. CASE WaitGL(c, t) \/ \E d \in {"w", "g"} : SwapBuffers(c, d, t)
  <2>1. glCtx' = glCtx BY <1>7 DEF WaitGL, SwapBuffers
  <2>2. glThread' = [glThread EXCEPT ![t] = EnsureCurrent(c, t)]
    BY <1>7 DEF WaitGL, SwapBuffers, BlitOsmesaToDrawable
  <2>3. CtxTypes' BY <1>0, <2>1 DEF GlTypes, CtxTypes
  <2>4. \A b : Bound(b) => Bound(b)' BY <1>0, <2>1 DEF Bound
  <2> QED  BY <1>2, <2>2, <2>3, <2>4
<1>8. CASE WaitX(c, t)
  <2> DEFINE n == Min({Wide(Picture(c).px), Wide(glWin[c])})
             Line(f) == [i \in DOMAIN f |-> IF i < n THEN Swapped(glWin[c][i]) ELSE f[i]]
             Paint(m) == [m EXCEPT !.px = Line(@)]
             Paints(M) == {Paint(m) : m \in M}
             k == glCur[c]
             P(x) == [x EXCEPT !.mesa = Paints(@)]
             T == {P(x) : x \in glCtx[c][k]}
  <2>1. glCtx' = [glCtx EXCEPT ![c][k] = T] /\ HasPicture(c)
        /\ glThread' = [glThread EXCEPT ![t] = EnsureCurrent(c, t)]
    BY <1>8 DEF WaitX
  <2>2. k \in GlIds /\ glCtx[c][k] # {} /\ Picture(c) \in Mesas BY <2>1, PictureHas
  <2>3. \A f \in GlPictures : Line(f) \in GlPictures
    <3> SUFFICES ASSUME NEW f \in GlPictures PROVE Line(f) \in GlPictures
      OBVIOUS
    <3> DEFINE z == Wide(f)
               w == Wide(glWin[c])
               y == Wide(Picture(c).px)
    <3>1. z \in {1, 2, 3} /\ f \in [0..(z - 1) -> GlInk] BY PictureIs
    <3>2. w \in {1, 2, 3} /\ glWin[c] \in [0..(w - 1) -> GlInk] BY PictureIs DEF GlTypes, WinTypes
    <3>3. y \in {1, 2, 3} BY <2>2, PictureIs DEF Mesas
    <3> HIDE DEF z, w, y
    <3>4. n \in Int /\ n <= w BY <3>2, <3>3, MinOf DEF w, y
    <3>5. \A v \in GlInk : Swapped(v) \in GlInk BY DEF Swapped, GlInk
    <3> HIDE DEF n
    <3>6. \A i \in 0..(z - 1) : i < n => Swapped(glWin[c][i]) \in GlInk BY <3>1, <3>2, <3>4, <3>5
    <3>7. Line(f) \in [0..(z - 1) -> GlInk] BY <3>1, <3>6
    <3> HIDE DEF Line
    <3> QED  BY <3>1, <3>7, PictureMade
  <2> HIDE DEF n, Line
  <2>4. \A m \in Mesas : Paint(m) \in Mesas BY <2>3 DEF Mesas
  <2> HIDE DEF Paint
  <2>a. \A M \in SUBSET Mesas : Paints(M) \in SUBSET Mesas /\ (M # {} => Paints(M) # {}) BY <2>4
  <2> HIDE DEF Paints
  <2>5. \A x \in GlContextsOf(glTag[c]) :
          P(x) \in GlContextsOf(glTag[c]) /\ P(x).tag = x.tag /\ (x.mesa # {} => P(x).mesa # {})
    BY <2>a DEF GlContextsOf
  <2>6. T \subseteq GlContextsOf(glTag[c]) /\ Lasts(glCtx[c][k], T)
    <3> HIDE DEF P, k
    <3>1. glCtx[c][k] \subseteq GlContextsOf(glTag[c]) BY <2>2 DEF GlTypes, CtxTypes
    <3> QED  BY <2>5, <3>1 DEF Lasts
  <2> HIDE DEF T
  <2>7. /\ DOMAIN glCtx' = GlClients /\ \A e \in GlClients : DOMAIN glCtx'[e] = GlIds
        /\ glCtx'[c][k] = T
        /\ \A e \in GlClients, j \in GlIds : \/ glCtx'[e][j] = glCtx[e][j]
                                             \/ e = c /\ j = k /\ glCtx'[e][j] = T
    BY <2>1, <2>2 DEF GlTypes, CtxTypes
  <2>8. \A e \in GlClients, j \in GlIds : /\ glCtx'[e][j] \subseteq GlContextsOf(glTag[e])
                                          /\ Lasts(glCtx[e][j], glCtx'[e][j])
    <3>1. \A e \in GlClients, j \in GlIds : glCtx[e][j] \subseteq GlContextsOf(glTag[e])
      BY DEF GlTypes, CtxTypes
    <3> HIDE DEF k
    <3> QED  BY <2>6, <2>7, <3>1 DEF Lasts
  <2>9. CtxTypes' /\ \A b : Bound(b) => Bound(b)' BY <1>0, <2>7, <2>8, CtxStay
  <2> QED  BY <1>2, <2>1, <2>9
<1> QED  BY <1>4, <1>5, <1>6, <1>7, <1>8 DEF GlCalls

-----------------------------------------------------------------------------
(* The windows of the clients, and what the frontend has of them. *)
LEMMA WindowsMarked ==
  ASSUME GlTypes, GlReported, GlNext
  PROVE  WinTypes' /\ GlReported'
<1>0. WinTypes BY DEF GlTypes
<1>1. ASSUME UNCHANGED <<glWin, glDirty, glShown>> PROVE WinTypes' /\ GlReported'
  BY <1>0, <1>1 DEF WinTypes, GlReported
<1>2. PICK c \in GlClients :
        \/ GlContexts(c)
        \/ \E t \in GlThreads : GlCalls(c, t)
        \/ XDraws(c) \/ GlFlush(c) \/ \E n \in GlWidths : XResizes(c, n)
  BY DEF GlNext
<1> DEFINE z == Wide(glWin[c])
<1>3. z \in {1, 2, 3} /\ glWin[c] \in [0..(z - 1) -> GlInk] BY <1>0, PictureIs DEF WinTypes
<1>4. GlContexts(c) => UNCHANGED <<glWin, glDirty, glShown>>
  BY DEF GlContexts, CreateContext, DestroyContext, DoMakeCurrent, ReleaseCurrent, CreateGlxWindow,
         CreateGlxPixmap, CreatePbuffer, DestroyGlxPixmap, GlxDrawable, WindowKept
<1>5. ASSUME NEW t \in GlThreads, NEW d, BlitOsmesaToDrawable(c, d, t) PROVE WinTypes' /\ GlReported'
  <2> DEFINE p == Picture(c).px
             n == Min({Wide(p), z})
             px == [i \in DOMAIN glWin[c] |-> IF i < n THEN p[i] ELSE glWin[c][i]]
  <2>1. CASE ~(HasPicture(c) /\ d = "w") BY <1>1, <1>5, <2>1 DEF BlitOsmesaToDrawable
  <2>2. CASE HasPicture(c) /\ d = "w"
    <3>1. /\ glWin' = [glWin EXCEPT ![c] = px] /\ glShown' = glShown
          /\ glDirty' = [glDirty EXCEPT ![c] = @ \cup (0..(n - 1))]
      BY <1>5, <2>2 DEF BlitOsmesaToDrawable, BlitMarks
    <3> DEFINE y == Wide(p)
    <3>2. y \in {1, 2, 3} /\ p \in [0..(y - 1) -> GlInk] BY <2>2, PictureHas, PictureIs DEF Mesas
    <3> HIDE DEF y, z, p
    <3>a. n = Min({y, z}) BY DEF y
    <3> HIDE DEF n
    <3>c. y \in Int /\ z \in Int BY <1>3, <3>2
    <3>b. Min({y, z}) = IF y <= z THEN y ELSE z BY <3>c, MinOf
    <3>3. n \in Int /\ n <= y BY <1>3, <3>2, <3>a, <3>b
    <3>4. px \in [0..(z - 1) -> GlInk] /\ \A i \in 0..(z - 1) : px[i] # glWin[c][i] => i \in 0..(n - 1)
      BY <1>3, <3>2, <3>3
    <3> HIDE DEF px
    <3>5. px \in GlPictures /\ DOMAIN px = DOMAIN glWin[c] BY <1>3, <3>4, PictureMade
    <3>6. WinTypes' BY <1>0, <3>1, <3>5 DEF WinTypes
    <3>7. GlReported'
      <4> SUFFICES ASSUME NEW e \in GlClients, NEW i \in DOMAIN glWin'[e], glWin'[e][i] # glShown'[e][i]
                   PROVE  i \in glDirty'[e]
        BY DEF GlReported
      <4>1. CASE e # c BY <1>0, <3>1, <4>1 DEF GlReported, WinTypes
      <4>2. CASE e = c
        <5>1. glWin'[e] = px /\ glDirty'[e] = glDirty[c] \cup (0..(n - 1)) BY <1>0, <3>1, <4>2 DEF WinTypes
        <5>2. CASE px[i] # glWin[c][i] BY <1>3, <3>4, <3>5, <5>1, <5>2
        <5>3. CASE px[i] = glWin[c][i]
          <6>1. i \in DOMAIN glWin[c] /\ glWin[c][i] # glShown[c][i] BY <3>1, <3>5, <4>2, <5>1, <5>3
          <6> QED  BY <5>1, <6>1 DEF GlReported
        <5> QED  BY <5>2, <5>3
      <4> QED  BY <4>1, <4>2
    <3> QED  BY <3>6, <3>7
  <2> QED  BY <2>1, <2>2
<1>6. ASSUME NEW t \in GlThreads, GlCalls(c, t) PROVE WinTypes' /\ GlReported'
  <2>1. CASE WaitGL(c, t) \/ \E d \in {"w", "g"} : SwapBuffers(c, d, t)
    BY <1>5, <2>1 DEF WaitGL, SwapBuffers
  <2>2. CASE (\E m \in GlCommands : Render(c, t, m[1], m[2])) \/ Single(c, t) \/ UseXFont(c, t) \/ WaitX(c, t)
    BY <1>1, <2>2 DEF Render, Single, UseXFont, WaitX, WindowKept
  <2> QED  BY <1>6, <2>1, <2>2 DEF GlCalls
<1>7. "x" \in GlInk /\ "bg" \in GlInk BY DEF GlInk
<1>8. CASE XDraws(c)
  <2> DEFINE px == Blank(z, "x")
  <2>1. glWin' = [glWin EXCEPT ![c] = px] /\ glShown' = glShown /\ glDirty' = [glDirty EXCEPT ![c] = DOMAIN glWin[c]]
    BY <1>8 DEF XDraws
  <2> HIDE DEF z
  <2>2. px \in GlPictures /\ DOMAIN px = DOMAIN glWin[c] BY <1>3, <1>7, PictureMade
  <2> HIDE DEF px
  <2>3. WinTypes' BY <1>0, <2>1, <2>2 DEF WinTypes
  <2>4. GlReported' BY <1>0, <2>1, <2>2 DEF GlReported, WinTypes
  <2> QED  BY <2>3, <2>4
<1>9. ASSUME NEW n \in GlWidths, XResizes(c, n) PROVE WinTypes' /\ GlReported'
  <2> DEFINE px == Blank(n, "bg")
  <2>1. /\ glWin' = [glWin EXCEPT ![c] = px] /\ glShown' = [glShown EXCEPT ![c] = px]
        /\ glDirty' = [glDirty EXCEPT ![c] = 0..(n - 1)]
    BY <1>9 DEF XResizes
  <2>2. px \in GlPictures
    <3>1. n \in {1, 2, 3} BY DEF GlWidths
    <3> QED  BY <1>7, <3>1, PictureMade
  <2> HIDE DEF px
  <2>3. WinTypes' BY <1>0, <2>1, <2>2 DEF WinTypes
  <2>4. GlReported' BY <1>0, <2>1 DEF GlReported, WinTypes
  <2> QED  BY <2>3, <2>4
<1>10. CASE GlFlush(c)
  <2> DEFINE px == [i \in DOMAIN glShown[c] |-> IF i \in glDirty[c] THEN glWin[c][i] ELSE glShown[c][i]]
  <2>1. glWin' = glWin /\ glShown' = [glShown EXCEPT ![c] = px] /\ glDirty' = [glDirty EXCEPT ![c] = {}]
    BY <1>10 DEF GlFlush
  <2> DEFINE y == Wide(glShown[c])
  <2>2. y \in {1, 2, 3} /\ glShown[c] \in [0..(y - 1) -> GlInk] BY <1>0, PictureIs DEF WinTypes
  <2>3. DOMAIN glShown[c] = DOMAIN glWin[c] BY <1>0 DEF WinTypes
  <2> HIDE DEF y, z
  <2>4. px \in [0..(y - 1) -> GlInk] /\ \A i \in 0..(y - 1) : px[i] = IF i \in glDirty[c] THEN glWin[c][i] ELSE glShown[c][i]
    BY <1>3, <2>2, <2>3
  <2> HIDE DEF px
  <2>5. px \in GlPictures /\ DOMAIN px = DOMAIN glWin[c] BY <2>2, <2>3, <2>4, PictureMade
  <2>6. WinTypes' BY <1>0, <2>1, <2>5 DEF WinTypes
  <2>7. \A i \in DOMAIN glWin[c] : glWin[c][i] = px[i] BY <2>2, <2>3, <2>4 DEF GlReported
  <2>8. GlReported' BY <1>0, <2>1, <2>7 DEF GlReported, WinTypes
  <2> QED  BY <2>6, <2>8
<1> QED  BY <1>1, <1>2, <1>4, <1>6, <1>8, <1>9, <1>10

LEMMA GlKeeps ==
  ASSUME GlTypes, GlReported, GlNext PROVE GlTypes' /\ GlReported'
<1>1. GlInv' /\ WinTypes' /\ GlReported' BY WindowsMarked, GlStep DEF GlTypes
<1>2. PICK c \in GlClients :
        \/ GlContexts(c)
        \/ \E t \in GlThreads : GlCalls(c, t)
        \/ XDraws(c) \/ GlFlush(c) \/ \E n \in GlWidths : XResizes(c, n)
  BY DEF GlNext
<1>3. CASE GlContexts(c) BY <1>1, <1>3, ContextsTyped DEF GlTypes
<1>4. CASE \E t \in GlThreads : GlCalls(c, t) BY <1>1, <1>4, CallsTyped DEF GlTypes
<1>5. CASE XDraws(c) \/ GlFlush(c) \/ \E n \in GlWidths : XResizes(c, n)
  <2>1. UNCHANGED <<glCtx, glTag, glThread, glCur, glCurDrw>>
    BY <1>5 DEF XDraws, GlFlush, XResizes, BindingKept
  <2>2. CtxTypes' /\ BindTypes' BY <2>1 DEF GlTypes, CtxTypes, BindTypes, Bound
  <2> QED  BY <1>1, <2>2 DEF GlTypes
<1> QED  BY <1>2, <1>3, <1>4, <1>5

LEMMA GlStarts == GlInit => GlTypes /\ GlReported
<1> SUFFICES ASSUME GlInit PROVE GlTypes /\ GlReported
  OBVIOUS
<1>1. CtxTypes BY DEF GlInit, CtxTypes
<1>2. BindTypes BY DEF GlInit, BindTypes, GlDrawables
<1>3. [i \in 0..1 |-> "bg"] \in GlPictures
  <2>1. "bg" \in GlInk BY DEF GlInk
  <2>2. [i \in 0..(2 - 1) |-> "bg"] \in [0..(2 - 1) -> GlInk] BY <2>1
  <2>3. [i \in 0..(2 - 1) |-> "bg"] = [i \in 0..1 |-> "bg"] OBVIOUS
  <2> QED  BY <2>2, <2>3, PictureMade
<1>4. WinTypes BY <1>3 DEF GlInit, WinTypes
<1>5. GlReported BY DEF GlInit, GlReported
<1>6. GlInv BY DEF GlInit, GlInv, Context
<1> QED  BY <1>1, <1>2, <1>4, <1>5, <1>6 DEF GlTypes

LEMMA GlUntouched == ASSUME GlTypes, GlReported, UNCHANGED glVars PROVE GlTypes' /\ GlReported'
<1>1. UNCHANGED <<glCtx, glCur, glCurDrw, glTag, glThread, glWin, glDirty, glShown>> BY DEF glVars
<1> QED  BY <1>1 DEF GlTypes, GlInv, CtxTypes, BindTypes, Bound, WinTypes, GlReported

LEMMA TagsApart == GlTypes => TagsDistinct
<1> SUFFICES ASSUME GlTypes PROVE TagsDistinct
  OBVIOUS
<1> USE DEF GlTypes
<1>1. ASSUME NEW c \in GlClients, NEW j \in GlIds, NEW k \in GlIds,
             j # k, glCtx[c][j] # {}, glCtx[c][k] # {}
      PROVE  GlCtx(c, j).tag # GlCtx(c, k).tag
  <2>1. GlCtx(c, j) \in glCtx[c][j] /\ GlCtx(c, k) \in glCtx[c][k] BY <1>1, GlChosen DEF GlCtx
  <2> QED  BY <1>1, <2>1 DEF GlInv
<1>2. \A c \in GlClients, k \in GlIds : \A x \in glCtx[c][k] : x.drw # GlNone => x.mesa # {} \/ x.refused
  BY DEF GlInv, Context
<1>3. \A t \in GlThreads : \A b \in glThread[t] :
        b[3] < glTag[b[1]] /\ \A x \in glCtx[b[1]][b[2]] : x.tag = b[3] => x.mesa # {}
  BY DEF BindTypes, Bound
<1> QED  BY <1>1, <1>2, <1>3 DEF TagsDistinct

LifeInv == GlTypes /\ GlReported /\ SyInv

(* MCXResources, for any number of clients, contexts, threads, counters,     *)
(* alarms and fences and any number of requests: no two contexts of a client *)
(* share a tag, a bound context has its picture unless OSMesa refused it,    *)
(* and a thread never has current a context made after another one under     *)
(* the id (glx); a connection is stopped exactly while it waits, never for   *)
(* something that came in a request or before its last timer tick, and an    *)
(* alarm without a delta is told of once until it is changed (sync).         *)
THEOREM ResourcesLive == MCSpec => []ResourceLifecycles
<1>1. MCInit => LifeInv
  <2> SUFFICES ASSUME MCInit PROVE LifeInv
    OBVIOUS
  <2>1. GlTypes /\ GlReported BY GlStarts DEF MCInit
  <2>2. WaitInv BY DEF MCInit, SyInit, WaitInv, WaitsJustified, SyCounters
  <2>3. AlarmInv BY DEF MCInit, SyInit, AlarmInv, Alarm
  <2> QED  BY <2>1, <2>2, <2>3 DEF LifeInv, SyInv
<1>2. LifeInv /\ [MCNext]_mcVars => LifeInv'
  <2> SUFFICES ASSUME LifeInv, [MCNext]_mcVars PROVE LifeInv'
    OBVIOUS
  <2>0. GlTypes /\ GlReported /\ SyInv BY DEF LifeInv
  <2>1. (GlNext \/ UNCHANGED glVars) /\ (SyNext \/ UNCHANGED syVars) BY DEF MCNext, mcVars
  <2>2. GlTypes' /\ GlReported' BY <2>0, <2>1, GlKeeps, GlUntouched
  <2>3. SyInv' BY <2>0, <2>1, SyStep, SyUntouched
  <2> QED  BY <2>2, <2>3 DEF LifeInv
<1>3. LifeInv => ResourceLifecycles
  BY TagsApart DEF LifeInv, SyInv, WaitInv, AlarmInv, Alarm, AlarmsOnce, ResourceLifecycles
<1> QED  BY <1>1, <1>2, <1>3, PTL DEF MCSpec

(* XRender. *)
LEMMA RendersReported ==
  ASSUME RnReported, NEW px, NEW m, Renders(px, m), \A c \in RnCols : px[c] # rnPx[c] => c \in m
  PROVE  RnReported'
BY DEF Renders, RnReported

LEMMA RnKeeps == ASSUME RnReported, RnNext PROVE RnReported'
<1>1. ASSUME UNCHANGED <<rnPx, rnDirty, rnShown>> PROVE RnReported'
  BY <1>1 DEF RnReported
<1>2. ASSUME NEW i \in RnIds,
          \/ \E d \in {"w", "p"}, alpha \in BOOLEAN, repeat \in {"none", "normal"} : CreatePicture(i, d, alpha, repeat)
          \/ \E pix \in RnPixels : CreateSolidFill(i, pix)
          \/ CreateGradient(i) \/ FreePicture(i)
          \/ \E repeat \in {"none", "pad"}, mask \in BOOLEAN, org \in {0, 1} : ChangePicture(i, repeat, mask, org)
          \/ \E rects \in RnRects, org \in {0, 1} : SetPictureClipRectangles(i, rects, org)
          \/ \E identity \in BOOLEAN : SetPictureTransform(i, identity)
          \/ CreateGlyphSet(i) \/ FreeGlyphSet(i) \/ CreateCursor(i)
          \/ \E from \in RnIds : ReferenceGlyphSet(i, from)
          \/ \E g \in RnGlyphIds : AddGlyphs(i, g) \/ FreeGlyphs(i, g)
      PROVE  RnReported'
  BY <1>1, <1>2 DEF CreatePicture, CreateSolidFill, CreateGradient, FreePicture, ChangePicture,
       SetPictureClipRectangles, SetPictureTransform, CreateGlyphSet, FreeGlyphSet, CreateCursor,
       ReferenceGlyphSet, AddGlyphs, FreeGlyphs, RnKeepFb
<1>3. CASE GetXIDList \/ PixmapGoes \/ \E frames \in 0..2 : CreateAnimCursor(frames)
  BY <1>1, <1>3 DEF GetXIDList, PixmapGoes, CreateAnimCursor, RnKeepFb
<1>4. CASE RnFlush BY <1>4 DEF RnFlush, RnReported
<1>5. ASSUME NEW op \in RnOps, NEW s \in RnIds, NEW d \in RnIds, NEW x \in {-1, 1}, NEW n \in {0, 2}
      PROVE  /\ \A mask, sx : Composite(op, s, mask, d, sx, x, n) => RnReported'
             /\ Trapezoids(op, s, d, x, n) => RnReported'
             /\ Triangles(op, s, d, x, n) => RnReported'
             /\ \A pix : FillRectangles(op, d, pix, x, n) => RnReported'
             /\ AddTraps(d, x, n) => RnReported'
             /\ \A gs, text : CompositeGlyphs(op, s, d, gs, text, x) => RnReported'
  <2> DEFINE m == RnSpan(IF x < 0 THEN 0 ELSE x, n)
             all == RnSpan(x, n)
  <2>1. \A c \in RnCols : c \in all => c \in m BY DEF RnSpan, RnCols
  <2> HIDE DEF m, all
  <2>2. ASSUME NEW mask, NEW sx, Composite(op, s, mask, d, sx, x, n) PROVE RnReported'
    <3> DEFINE src == ResolveSourcePixels(s, sx, n)
               msk == IF mask = {} THEN {} ELSE ResolveSourcePixels(RnThe(mask), sx, n)
               skip(c) == /\ msk # {} /\ RnThe(msk)[c - x].a = 0 /\ ZeroSrcHasNoEffect("canonical", op)
               pixel(c) == LET p == RnThe(src)[c - x]
                           IN  IF msk = {} THEN p ELSE ScaledBy(p, RnThe(msk)[c - x].a, RnOne)
               px == [c \in RnCols |-> IF c \in all /\ ClipAllows(d, c) /\ ~skip(c)
                                       THEN Put(d, op, pixel(c), rnPx[c]) ELSE rnPx[c]]
    <3>1. Renders(px, m) BY <2>2 DEF Composite, m, all
    <3> HIDE DEF skip, pixel
    <3>2. \A c \in RnCols : px[c] # rnPx[c] => c \in m BY <2>1
    <3> HIDE DEF px
    <3> QED  BY <3>1, <3>2, RendersReported
  <2>3. \A pix : \A c \in RnCols : CompositePolygonAa(d, op, pix, x, n)[c] # rnPx[c] => c \in all
    BY DEF CompositePolygonAa, all
  <2>4. CASE Trapezoids(op, s, d, x, n)
    <3> DEFINE px == CompositePolygonAa(d, op, ResolveSourceColor(s), x, n)
    <3>1. Renders(px, all) BY <2>4 DEF Trapezoids, all
    <3>2. \A c \in RnCols : px[c] # rnPx[c] => c \in all BY <2>3
    <3> HIDE DEF px
    <3> QED  BY <3>1, <3>2, RendersReported
  <2>5. CASE Triangles(op, s, d, x, n)
    <3> DEFINE full == ~ZeroSrcHasNoEffect("canonical", op)
               pix == ResolveSourceColor(s)
               px == IF full THEN CompositeTrianglesFullDst(d, op, pix, x, n)
                     ELSE CompositePolygonAa(d, op, pix, x, n)
               k == IF full THEN RnCols ELSE all
    <3>1. Renders(px, k) BY <2>5 DEF Triangles, MarkedByTriangles, all
    <3>2. \A c \in RnCols : px[c] # rnPx[c] => c \in k BY <2>3
    <3> HIDE DEF px, k
    <3> QED  BY <3>1, <3>2, RendersReported
  <2>6. ASSUME NEW pix, FillRectangles(op, d, pix, x, n) PROVE RnReported'
    <3> DEFINE px == [c \in RnCols |-> IF c \in all /\ ClipAllows(d, c)
                                       THEN Put(d, op, pix, rnPx[c]) ELSE rnPx[c]]
    <3>1. Renders(px, m) BY <2>6 DEF FillRectangles, m, all
    <3>2. \A c \in RnCols : px[c] # rnPx[c] => c \in m BY <2>1
    <3> HIDE DEF px
    <3> QED  BY <3>1, <3>2, RendersReported
  <2>7. CASE AddTraps(d, x, n)
    <3> DEFINE last == IF x + n < 0 THEN Max(RnCols) ELSE x + n - 1
               px == [c \in RnCols |-> IF c \in x..last THEN RnWhite ELSE rnPx[c]]
    <3>1. Renders(px, RnCols) BY <2>7 DEF AddTraps
    <3> HIDE DEF px
    <3> QED  BY <3>1, RendersReported
  <2>8. ASSUME NEW gs, NEW text, CompositeGlyphs(op, s, d, gs, text, x) PROVE RnReported'
    <3>1. PICK at, pix : Renders([c \in RnCols |-> IF c \in at /\ ClipAllows(d, c)
                                                   THEN Put(d, op, pix, rnPx[c]) ELSE rnPx[c]], at)
      BY <2>8 DEF CompositeGlyphs
    <3> DEFINE px == [c \in RnCols |-> IF c \in at /\ ClipAllows(d, c)
                                       THEN Put(d, op, pix, rnPx[c]) ELSE rnPx[c]]
    <3>2. \A c \in RnCols : px[c] # rnPx[c] => c \in at OBVIOUS
    <3>3. Renders(px, at) BY <3>1
    <3> HIDE DEF px
    <3> QED  BY <3>2, <3>3, RendersReported
  <2> QED  BY <2>2, <2>4, <2>5, <2>6, <2>7, <2>8
<1>6. ASSUME NEW op \in RnOps, NEW s \in RnIds, NEW d \in RnIds, NEW x \in {-1, 1}, NEW n \in {0, 2},
          \/ \E mask \in {{}} \cup {{m} : m \in RnIds}, sx \in {-1, 0} : Composite(op, s, mask, d, sx, x, n)
          \/ Trapezoids(op, s, d, x, n) \/ Triangles(op, s, d, x, n)
          \/ \E points \in {2, 3} : TriStrip(op, s, d, x, n, points) \/ TriFan(op, s, d, x, n, points)
          \/ \E pix \in RnPixels : FillRectangles(op, d, pix, x, n)
          \/ AddTraps(d, x, n)
          \/ \E gs \in RnIds, text \in {<< 1 >>, <<2, 1>>} : CompositeGlyphs(op, s, d, gs, text, x)
      PROVE  RnReported'
  BY <1>5, <1>6 DEF TriStrip, TriFan
<1> QED  BY <1>2, <1>3, <1>4, <1>6 DEF RnNext

-----------------------------------------------------------------------------
(* Every request of XDraw, and a step of another component. *)
LEMMA DrStep == DrInv /\ (DrNext \/ UNCHANGED drVars) => DrInv'
<1>1. ASSUME DrInv, UNCHANGED drVars PROVE DrInv'
  <2>1. UNCHANGED <<drBuf, drPix, drGc, drMapped, drSaved, drShape, drSeg, drShown, drMissed>>
    BY <1>1 DEF drVars
  <2>2. UNCHANGED <<drDmg, drAcc, drTouched>> BY <1>1 DEF drVars, drDamage
  <2>3. /\ drBuf \in [Drawables -> Bufs] /\ drGc \in DrGcs /\ drSeg \in DrBits
        /\ drPix \in {"none", "own", "bitmap", "alias", "shm"}
    BY <1>1 DEF DrInv, DrShapes
  <2> QED  BY <1>1, <2>1, <2>2, <2>3, QuietKeeps
<1>2. ASSUME DrInv, DrNext PROVE DrInv'
  <2>0. /\ \A x \in DrXs : x \in Pos /\ x \in Int
        /\ \A x \in DrFar : x \in Int
        /\ \A n \in DrWs : n \in Nat
    BY DrAssumption DEF Pos
  <2>1. ASSUME NEW d \in Drawables, NEW x \in DrXs, NEW n \in DrWs,
               \/ d \in {"w", "k"} /\ ClearArea(d, x, n)
               \/ \E region \in DrRegions : d \in {"w", "k"} /\ Present(d, x, region)
        PROVE  DrInv'
    BY <1>2, <2>0, <2>1, ClearAreaKeeps, PresentKeeps
  <2>2. ASSUME NEW d \in Drawables, NEW x \in DrXs, NEW n \in DrWs,
               \E s \in Drawables, sx \in DrXs : CopyArea(s, d, sx, x, n) \/ CopyPlane(s, d, sx, x, n)
        PROVE  DrInv'
    BY <1>2, <2>0, <2>2, CopiesKeep
  <2>3. ASSUME NEW d \in Drawables, NEW x \in DrXs, NEW n \in DrWs,
               PolyPoint(d, x) \/ PolyRectangle(d, x, n)
        PROVE  DrInv'
    BY <1>2, <2>0, <2>3, LinesKeep
  <2>11. ASSUME NEW d \in Drawables, NEW x \in DrXs \cup DrFar, NEW n \in DrWs, NEW kind \in StrokeKinds,
               PolyLine(d, x, n, kind) \/ (kind # "sharp" /\ PolySegment(d, x, n, kind))
        PROVE  DrInv'
    <3>1. x \in Int /\ n \in Nat BY <2>0
    <3> QED  BY <1>2, <2>11, <3>1, LinesKeep
  <2>4. ASSUME NEW d \in Drawables, NEW x \in DrXs, NEW n \in DrWs,
               PolyArc(d, x, n) \/ FillPoly(d, x, n) \/ PolyFillRectangle(d, x, n) \/ PolyFillArc(d, x, n)
        PROVE  DrInv'
    BY <1>2, <2>0, <2>4, ShapesKeep
  <2>5. ASSUME NEW d \in Drawables, NEW x \in DrXs, NEW n \in DrWs,
               \/ \E c \in {0, 1} : \/ PutImageDeep(d, x, n, c) \/ PutImageShallow(d, x, n, c)
                                    \/ PutImageBitmap(d, x, n, c)
               \/ PolyText(d, x, n) \/ ImageText(d, x, n) \/ ShmPutImage(d, x, n)
        PROVE  DrInv'
    <3>1. PICK c \in DrBits : \/ PutImageDeep(d, x, n, c) \/ PutImageShallow(d, x, n, c)
                              \/ PutImageBitmap(d, x, n, c)
                              \/ PolyText(d, x, n) \/ ImageText(d, x, n) \/ ShmPutImage(d, x, n)
      BY <2>5 DEF DrBits
    <3> QED  BY <1>2, <2>0, <3>1, ImagesKeep
  <2>6. ASSUME \/ \E d \in Drawables : GetImage(d)
               \/ SegmentWrite \/ DbeAllocate \/ DbeDeallocate
               \/ \E on \in BOOLEAN : Redirect(on)
               \/ \E gc \in DrGcs : ChangeGC(gc)
        PROVE  DrInv'
    BY <1>2, <2>6, QuietRequestsKeep
  <2>7. ASSUME \/ \E kind \in {"own", "bitmap"} : CreatePixmap(kind)
               \/ FreePixmap \/ ShmCreatePixmap \/ NameWindowPixmap
        PROVE  DrInv'
    BY <1>2, <2>7, PixmapsKeep
  <2>8. ASSUME \/ \E action \in {"undefined", "background", "copied"} : DbeSwapBuffers(action)
               \/ \E d \in {"w", "k"}, background \in {"none", "pixel", "pixmap", "parent"}, store \in BOOLEAN :
                     MapWindow(d, background, store)
               \/ \E d \in {"w", "k"}, store \in {"no", "all", "masked"} : UnmapWindow(d, store)
               \/ \E shape \in {{}, {{}}, {{1}}} : ShapeWindow(shape)
               \/ \E n \in {2, 3}, gravity \in {"west", "east", "forget"} : ResizeWithGravity(n, gravity)
               \/ FlushDirtyWindows
        PROVE  DrInv'
    BY <1>2, <2>8, SwapKeeps, MapKeeps, UnmapKeeps, ShapeKeeps, ResizeKeeps, FlushKeeps
  <2>9. ASSUME \/ DamageCreate \/ DamageDestroy
               \/ \E region \in DrRegions : DamageSubtract(region) \/ DamageAdd(region)
        PROVE  DrInv'
    BY <1>2, <2>9, DamageKeeps
  <2>10. ASSUME NEW d \in Drawables, NEW x \in DrXs, NEW n \in DrWs,
               \/ d \in {"w", "k"} /\ ClearArea(d, x, n)
               \/ \E s \in Drawables, sx \in DrXs : CopyArea(s, d, sx, x, n) \/ CopyPlane(s, d, sx, x, n)
               \/ PolyPoint(d, x) \/ PolyRectangle(d, x, n) \/ PolyArc(d, x, n)
               \/ FillPoly(d, x, n) \/ PolyFillRectangle(d, x, n) \/ PolyFillArc(d, x, n)
               \/ \E c \in {0, 1} : PutImageDeep(d, x, n, c) \/ PutImageShallow(d, x, n, c) \/ PutImageBitmap(d, x, n, c)
               \/ GetImage(d) \/ PolyText(d, x, n) \/ ImageText(d, x, n) \/ ShmPutImage(d, x, n)
               \/ \E region \in DrRegions : d \in {"w", "k"} /\ Present(d, x, region)
        PROVE  DrInv'
    BY <2>1, <2>2, <2>3, <2>4, <2>5, <2>6, <2>10
  <2> QED  BY <1>2, <2>6, <2>7, <2>8, <2>9, <2>10, <2>11 DEF DrNext
<1> QED  BY <1>1, <1>2

MarkInv == DrInv /\ RnReported /\ GlTypes /\ GlReported

LEMMA MarkStarts == MCInit => MarkInv
<1>1. RnInit => RnReported BY DEF RnInit, RnReported
<1> QED  BY <1>1, DrStarts, GlStarts DEF MCInit, MarkInv

LEMMA MarkStep == MarkInv /\ [MCNext]_mcVars => MarkInv'
<1> SUFFICES ASSUME MarkInv, [MCNext]_mcVars PROVE MarkInv'
  OBVIOUS
<1>0. DrInv /\ RnReported /\ GlTypes /\ GlReported BY DEF MarkInv
<1>1. /\ DrNext \/ UNCHANGED drVars
      /\ RnNext \/ UNCHANGED rnVars
      /\ GlNext \/ UNCHANGED glVars
  BY DEF MCNext, mcVars
<1>2. RnReported'
  <2>1. CASE UNCHANGED rnVars
    <3>1. UNCHANGED <<rnPx, rnDirty, rnShown>> BY <2>1 DEF rnVars
    <3> QED  BY <1>0, <3>1 DEF RnReported
  <2> QED  BY <1>0, <1>1, <2>1, RnKeeps
<1>3. GlTypes' /\ GlReported' BY <1>0, <1>1, GlKeeps, GlUntouched
<1>4. DrInv' BY <1>0, <1>1, DrStep
<1> QED  BY <1>2, <1>3, <1>4 DEF MarkInv

(* MCXResources, for any graphics contexts, coordinates, widths and regions  *)
(* in the requests, any number of clients, GL contexts and threads and any   *)
(* number of requests: after every core drawing request, RENDER request, GLX *)
(* request, map, unmap, SHAPE request, resize, buffer swap and flush, what   *)
(* is to be seen of a window differs from what the browser was sent only in  *)
(* the dirty rectangle, and a pixel the client changed since its last repair *)
(* lies in the damage it has or will be given; exempt is only what           *)
(* PixelsReported names, the columns that the code changes without a mark.   *)
THEOREM ChangesMarked == MCSpec => []EveryChangeMarked
<1>1. MarkInv => EveryChangeMarked BY DEF MarkInv, DrInv, EveryChangeMarked
<1> QED  BY <1>1, MarkStarts, MarkStep, PTL DEF MCSpec

-----------------------------------------------------------------------------
(***************************************************************************)
(* The decoders of GLX commands.  A decoder is sound when the length it    *)
(* asks for covers its fields and the start of its array; every entry of   *)
(* the tables is made by one of seven sound constructors.                  *)
(***************************************************************************)
Sound(d) ==
    /\ d.need \in Nat /\ d.end \in Nat /\ d.at \in Nat /\ d.unit \in Nat
    /\ d.take \in {"fits", "given", "image", "checked", "cast"}
    /\ d.end <= d.need /\ (d.take = "fits" => d.at <= d.need)
    /\ d.take \in {"given", "image"} => d.unit = 1
    /\ d.take = "cast" => d.op \in {143, 144, 145} /\ d.at = 8 /\ d.unit \in {2, 4}

LEMMA SoundMade ==
  ASSUME NEW op, NEW need \in Nat, NEW end \in Nat, NEW at \in Nat, NEW unit \in Nat,
         NEW take \in {"fits", "given", "image", "checked", "cast"}, end <= need,
         take = "fits" => at <= need, take \in {"given", "image"} => unit = 1,
         take = "cast" => op \in {143, 144, 145} /\ at = 8 /\ unit \in {2, 4}
  PROVE  Sound(Decoder(op, need, end, at, unit, take))
<1> DEFINE d == [op |-> op, need |-> need, end |-> end, at |-> at, unit |-> unit, take |-> take]
<1>1. /\ d.need = need /\ d.end = end /\ d.at = at /\ d.unit = unit /\ d.take = take /\ d.op = op
  OBVIOUS
<1> HIDE DEF d
<1>2. Sound(d) BY <1>1 DEF Sound
<1> QED  BY <1>2 DEF Decoder, d

LEMMA SoundTables ==
  ASSUME NEW n \in Nat, NEW ops
  PROVE  /\ \A d \in Fixed(n, ops) : Sound(d)
         /\ \A d \in Trusting(n, ops) : Sound(d)
<1>1. 0 <= n /\ n <= n /\ 0 \in Nat /\ 1 \in Nat OBVIOUS
<1>2. \A op \in ops : Sound(Decoder(op, n, n, 0, 0, "fits")) BY <1>1, SoundMade
<1>3. \A op \in ops : Sound(Decoder(op, n, n, n, 1, "given")) BY <1>1, SoundMade
<1> QED  BY <1>2, <1>3 DEF Fixed, Trusting

LEMMA SoundShorter ==
  ASSUME NEW n \in Nat, NEW end \in Nat, end <= n, NEW ops
  PROVE  \A d \in Shorter(n, end, ops) : Sound(d)
<1>0. 0 <= n /\ 0 \in Nat OBVIOUS
<1>1. \A op \in ops : Sound(Decoder(op, n, end, 0, 0, "fits")) BY <1>0, SoundMade
<1> QED  BY <1>1 DEF Shorter

LEMMA SoundArray ==
  ASSUME NEW n \in Nat, NEW at \in Nat, NEW unit \in Nat, at <= n, NEW ops
  PROVE  \A d \in Array(n, at, unit, ops) : Sound(d)
<1>1. \A op \in ops : Sound(Decoder(op, n, at, at, unit, "fits")) BY SoundMade
<1> QED  BY <1>1 DEF Array

LEMMA SoundCounted ==
  ASSUME NEW n \in Nat, NEW unit \in Nat, NEW ops
  PROVE  \A d \in Counted(n, unit, ops) : Sound(d)
<1>0. n <= n OBVIOUS
<1>1. \A op \in ops : Sound(Decoder(op, n, n, n, unit, "checked")) BY <1>0, SoundMade
<1> QED  BY <1>1 DEF Counted

LEMMA SoundCast ==
  ASSUME NEW unit \in {2, 4}, NEW ops \in SUBSET {143, 144, 145}
  PROVE  \A d \in Cast(8, unit, ops) : Sound(d)
<1>0. 8 <= 8 /\ 8 \in Nat /\ unit \in Nat OBVIOUS
<1>1. \A op \in ops : Sound(Decoder(op, 8, 8, 8, unit, "cast")) BY <1>0, SoundMade
<1> QED  BY <1>1 DEF Cast

LEMMA SoundImage ==
  ASSUME NEW n \in Nat, NEW at \in Nat, NEW ops
  PROVE  \A d \in Image(n, at, ops) : Sound(d)
<1>0. n <= n /\ 1 \in Nat OBVIOUS
<1>1. \A op \in ops : Sound(Decoder(op, n, n, at, 1, "image")) BY <1>0, SoundMade
<1> QED  BY <1>1 DEF Image

LEMMA TimesQuotient ==
  ASSUME NEW a \in Nat, NEW u \in Nat, u # 0
  PROVE  a \div u \in Nat /\ (a \div u) * u <= a
<1>1. /\ a \div u \in Int /\ a = u * (a \div u) + (a % u) /\ a % u \in 0..(u - 1) OBVIOUS
<1> DEFINE q == a \div u
           r == a % u
<1> HIDE DEF q, r
<1>2. q \in Int /\ r \in Int /\ 0 <= r /\ r < u /\ a = u * q + r BY <1>1 DEF q, r
<1>3. q >= 0
  <2> SUFFICES ASSUME q <= -1 PROVE FALSE
    BY <1>2
  <2>1. u * q <= u * (-1) BY <1>2
  <2> QED  BY <1>2, <2>1
<1>4. q * u <= a BY <1>2
<1> QED  BY <1>2, <1>3, <1>4 DEF q

(* Quotient and remainder, and that there are no others. *)
LEMMA Euclid ==
  ASSUME NEW a \in Nat, NEW u \in Nat, u # 0
  PROVE  a = u * (a \div u) + (a % u) /\ a % u \in 0..(u - 1) /\ a \div u \in Nat
<1>1. a = u * (a \div u) + (a % u) /\ a % u \in 0..(u - 1) OBVIOUS
<1> QED  BY <1>1, TimesQuotient

LEMMA EuclidOnly ==
  ASSUME NEW a \in Nat, NEW u \in Nat, u # 0, NEW q \in Int, NEW r \in 0..(u - 1), a = u * q + r
  PROVE  a \div u = q /\ a % u = r
<1> DEFINE p == a \div u
           s == a % u
<1>1. a = u * p + s /\ s \in 0..(u - 1) /\ p \in Nat BY Euclid
<1> HIDE DEF p, s
<1>2. s \in Int /\ 0 <= s /\ s < u /\ r \in Int /\ 0 <= r /\ r < u BY <1>1
<1>3. u * (p - q) = r - s
  <2>1. u * p + s = u * q + r BY <1>1
  <2>2. u * (p - q) = u * p - u * q BY <1>1
  <2>3. u * p \in Int /\ u * q \in Int BY <1>1
  <2> QED  BY <1>2, <2>1, <2>2, <2>3
<1>4. ~(p - q >= 1)
  <2> SUFFICES ASSUME p - q >= 1 PROVE FALSE
    OBVIOUS
  <2>1. u * (p - q) >= u BY <1>1
  <2> QED  BY <1>2, <1>3, <2>1
<1>5. ~(p - q <= -1)
  <2> SUFFICES ASSUME p - q <= -1 PROVE FALSE
    OBVIOUS
  <2>1. u * (p - q) <= -u BY <1>1
  <2> QED  BY <1>2, <1>3, <2>1
<1>6. p = q BY <1>1, <1>4, <1>5
<1>7. u * q \in Int OBVIOUS
<1>8. s = r BY <1>1, <1>2, <1>6, <1>7
<1> QED  BY <1>6, <1>8 DEF p, s

LEMMA SoundReads ==
  ASSUME NEW d, Sound(d), NEW len \in Nat, NEW n \in Int
  PROVE  StaysInside(d, len, n)
<1> DEFINE m == ElementsIn(d, len, n)
<1>0. ReadEnd(d, len, n) <= len \/ Unchecked(d, len, n)
  <2>1. CASE len < d.need BY <2>1 DEF ReadEnd
  <2>2. CASE len >= d.need /\ (d.unit = 0 \/ m = 0) BY <2>2 DEF ReadEnd, Sound
  <2>3. CASE len >= d.need /\ d.unit # 0 /\ m # 0 /\ ~Unchecked(d, len, n)
    <3>1. m * d.unit \in Int /\ d.at + m * d.unit <= len
      <4>1. CASE d.take \in {"checked", "cast"}
        <5>1. n > 0 /\ d.at + n * d.unit <= len /\ m = n
          BY <2>3, <4>1 DEF ElementsIn, AnnouncedEnd, Sound
        <5> QED  BY <5>1 DEF Sound
      <4>2. CASE d.take \in {"given", "image"}
        <5>1. m = n /\ n <= len - d.at /\ d.unit = 1 BY <2>3, <4>2 DEF ElementsIn, Unchecked, Sound
        <5>2. m * d.unit = n BY <5>1
        <5> QED  BY <5>1, <5>2 DEF Sound
      <4>3. CASE d.take = "fits"
        <5>1. len - d.at \in Nat /\ m = (len - d.at) \div d.unit BY <2>3, <4>3 DEF ElementsIn, Sound
        <5>2. m \in Nat /\ m * d.unit <= len - d.at BY <2>3, <5>1, TimesQuotient DEF Sound
        <5> QED  BY <5>1, <5>2 DEF Sound
      <4> QED  BY <4>1, <4>2, <4>3 DEF Sound
    <3> DEFINE e == d.at + m * d.unit
    <3>2. ReadEnd(d, len, n) = Max({d.end, e}) BY <2>3 DEF ReadEnd, Sound
    <3>3. d.end \in Int /\ e \in Int /\ d.end <= len /\ e <= len BY <2>3, <3>1 DEF Sound
    <3> HIDE DEF e
    <3>4. Max({d.end, e}) \in {d.end, e}
      <4>1. \E x \in {d.end, e} : \A y \in {d.end, e} : x >= y BY <3>3
      <4> QED  BY <4>1 DEF Max
    <3> QED  BY <3>2, <3>3, <3>4
  <2> QED  BY <2>1, <2>2, <2>3 DEF Sound
<1>1. Panics(d, len, n) => d.op \in {143, 144, 145} /\ n \in -4..-1
  <2> SUFFICES ASSUME Panics(d, len, n) PROVE d.op \in {143, 144, 145} /\ n \in -4..-1
    OBVIOUS
  <2>1. d.op \in {143, 144, 145} /\ n < 0 /\ 8 + n * d.unit >= 0 /\ d.unit \in {2, 4}
    BY DEF Panics, AnnouncedEnd, Sound
  <2> QED  BY <2>1
<1> QED  BY <1>0, <1>1 DEF StaysInside

LEMMA DrawSound ==
  \A d \in DrawLists \cup DrawNormals \cup DrawRaster \cup DrawVertices \cup DrawEvaluators
        \cup DrawMaps \cup DrawMulti \cup DrawArrays : Sound(d)
<1>1. \A d \in DrawLists : Sound(d)       BY SoundTables DEF DrawLists
<1>2. \A d \in DrawNormals : Sound(d)     BY SoundTables DEF DrawNormals
<1>3. \A d \in DrawRaster : Sound(d)      BY SoundTables DEF DrawRaster
<1>4. \A d \in DrawVertices : Sound(d)    BY SoundTables DEF DrawVertices
<1>5. \A d \in DrawEvaluators : Sound(d)  BY SoundTables, SoundArray DEF DrawEvaluators
<1>6. \A d \in DrawMaps : Sound(d)        BY SoundTables, SoundArray DEF DrawMaps
<1>7. \A d \in DrawMulti : Sound(d)       BY SoundTables, SoundImage DEF DrawMulti
<1>8. \A d \in DrawArrays : Sound(d)      BY SoundTables, SoundCounted DEF DrawArrays
<1> QED  BY <1>1, <1>2, <1>3, <1>4, <1>5, <1>6, <1>7, <1>8

LEMMA StateSound ==
  \A d \in StateTests \cup StatePixels \cup StateLights \cup StateMaterials \cup StatePixelMaps
        \cup StateBlend \cup StateSeparate : Sound(d)
<1>1. \A d \in StateTests : Sound(d)      BY SoundTables DEF StateTests
<1>2. \A d \in StatePixels : Sound(d)     BY SoundTables, SoundArray DEF StatePixels
<1>3. \A d \in StateLights : Sound(d)     BY SoundTables, SoundShorter, SoundArray DEF StateLights
<1>4. \A d \in StateMaterials : Sound(d)  BY SoundTables, SoundArray DEF StateMaterials
<1>5. \A d \in StatePixelMaps : Sound(d)  BY SoundTables, SoundCast DEF StatePixelMaps
<1>6. \A d \in StateBlend : Sound(d)      BY SoundTables, SoundShorter, SoundArray DEF StateBlend
<1>7. \A d \in StateSeparate : Sound(d)   BY SoundTables DEF StateSeparate
<1> QED  BY <1>1, <1>2, <1>3, <1>4, <1>5, <1>6, <1>7

LEMMA TextureSound ==
  \A d \in TextureGens \cup TextureUnits \cup TextureImages \cup TextureCopies
        \cup TextureVolumes \cup TextureCompressed : Sound(d)
<1>1. \A d \in TextureGens : Sound(d)        BY SoundTables, SoundArray DEF TextureGens
<1>2. \A d \in TextureUnits : Sound(d)       BY SoundTables, SoundArray, SoundImage DEF TextureUnits
<1>3. \A d \in TextureImages : Sound(d)      BY SoundTables, SoundImage DEF TextureImages
<1>4. \A d \in TextureCopies : Sound(d)      BY SoundTables, SoundShorter, SoundArray DEF TextureCopies
<1>5. \A d \in TextureVolumes : Sound(d)     BY SoundTables, SoundCounted, SoundImage DEF TextureVolumes
<1>6. \A d \in TextureCompressed : Sound(d)  BY SoundTables DEF TextureCompressed
<1> QED  BY <1>1, <1>2, <1>3, <1>4, <1>5, <1>6

LEMMA MatrixSound == \A d \in MatrixLoads \cup MatrixMoves : Sound(d)
<1>1. \A d \in MatrixLoads : Sound(d)  BY SoundTables DEF MatrixLoads
<1>2. \A d \in MatrixMoves : Sound(d)  BY SoundTables DEF MatrixMoves
<1> QED  BY <1>1, <1>2

LEMMA SinglesSound == \A d \in SingleDecoders : Sound(d)
<1>1. \A d \in SingleOps : Sound(d)       BY SoundTables, SoundCounted DEF SingleOps
<1>2. \A d \in SingleGets : Sound(d)      BY SoundTables DEF SingleGets
<1>3. \A d \in SingleTests : Sound(d)     BY SoundTables DEF SingleTests
<1>4. \A d \in SingleTextures : Sound(d)  BY SoundTables DEF SingleTextures
<1>5. \A d \in SingleLights : Sound(d)    BY SoundTables DEF SingleLights
<1>6. \A d \in SingleTexEnvs : Sound(d)   BY SoundTables DEF SingleTexEnvs
<1>7. \A d \in SingleMaps : Sound(d)      BY SoundTables DEF SingleMaps
<1> QED  BY <1>1, <1>2, <1>3, <1>4, <1>5, <1>6, <1>7 DEF SingleDecoders

(* Every decoder of the GLX tables, for a command of any length and any       *)
(* integer it announces, negative ones too: nothing behind the command's end  *)
(* is read unless a size the code passes to the GL unchecked is larger than   *)
(* what came, and only glPixelMap with a count of -4 to -1 panics.            *)
THEOREM DecodersStayInside ==
  ASSUME NEW len \in Nat, NEW n \in Int
  PROVE  /\ \A f \in 1..4 : \A d \in Families[f] : StaysInside(d, len, n)
         /\ \A d \in SingleDecoders : StaysInside(d, len, n)
<1>1. \A d \in Families[1] : Sound(d)  BY DrawSound DEF Families
<1>2. \A d \in Families[2] : Sound(d)  BY StateSound DEF Families
<1>3. \A d \in Families[3] : Sound(d)  BY TextureSound DEF Families
<1>4. \A d \in Families[4] : Sound(d)  BY MatrixSound DEF Families
<1>5. \A f \in 1..4 : \A d \in Families[f] : Sound(d)
  <2>1. \A f \in 1..4 : f = 1 \/ f = 2 \/ f = 3 \/ f = 4 OBVIOUS
  <2> QED  BY <1>1, <1>2, <1>3, <1>4, <2>1
<1> QED  BY <1>5, SinglesSound, SoundReads

LEMMA DecodersProved == DecodersInside
<1>1. \A len \in 0..140 : len \in Nat OBVIOUS
<1>2. \A n \in -5..5 : n \in Int OBVIOUS
<1> QED  BY <1>1, <1>2, DecodersStayInside DEF DecodersInside

-----------------------------------------------------------------------------
(***************************************************************************)
(* The walk of handle_render over the commands of a payload: the function  *)
(* exists because every command is at least four bytes long, and what it   *)
(* finds from an offset on lies without gaps from there.                   *)
(***************************************************************************)
WalkEnds(len, size, off) == off + 4 > size \/ len[off] < 4 \/ off + len[off] > size
WalkAt(w, len, size, off) == IF WalkEnds(len, size, off) THEN {} ELSE {off} \cup w[off + len[off]]
Walks(w, N, len, size) == w = [off \in 0..N |-> WalkAt(w, len, size, off)]

LEMMA WalkGoesOn ==
  ASSUME NEW size \in Nat, NEW len, \A o \in 0..(size - 4) : len[o] \in Nat,
         NEW off \in Nat, ~WalkEnds(len, size, off)
  PROVE  len[off] \in Nat /\ len[off] >= 4 /\ off + len[off] \in 0..size
<1>1. off + 4 <= size BY DEF WalkEnds
<1>2. len[off] \in Nat BY <1>1
<1> QED  BY <1>1, <1>2 DEF WalkEnds

LEMMA WalkExists ==
  ASSUME NEW size \in Nat, NEW N \in Nat, size <= N, NEW len, \A o \in 0..(size - 4) : len[o] \in Nat
  PROVE  \E w : Walks(w, N, len, size)
<1> DEFINE Eq(w, off) == w[off] = WalkAt(w, len, size, off)
           T == {m \in Nat : \E w : /\ w = [o \in 0..N |-> w[o]]
                                    /\ \A off \in 0..N : size - m <= off => Eq(w, off)}
<1>1. 0 \in T
  <2> DEFINE w == [o \in 0..N |-> {}]
  <2>1. w = [o \in 0..N |-> w[o]] OBVIOUS
  <2>2. \A off \in 0..N : size - 0 <= off => WalkEnds(len, size, off) BY DEF WalkEnds
  <2>3. \A off \in 0..N : size - 0 <= off => Eq(w, off) BY <2>2 DEF WalkAt
  <2> HIDE DEF w, Eq
  <2> QED  BY <2>1, <2>3
<1>2. ASSUME NEW m \in Nat, m \in T PROVE m + 1 \in T
  <2>1. PICK w : /\ w = [o \in 0..N |-> w[o]]
                 /\ \A off \in 0..N : size - m <= off => Eq(w, off)
    BY <1>2
  <2> DEFINE v == [o \in 0..N |-> WalkAt(w, len, size, o)]
  <2>2. v = [o \in 0..N |-> v[o]] OBVIOUS
  <2>3. \A off \in 0..N : v[off] = WalkAt(w, len, size, off) OBVIOUS
  <2> HIDE DEF v
  <2>4. \A off \in 0..N : size - m <= off => v[off] = w[off] BY <2>1, <2>3
  <2>5. ASSUME NEW off \in 0..N, size - (m + 1) <= off PROVE Eq(v, off)
    <3>1. CASE WalkEnds(len, size, off) BY <2>3, <3>1 DEF WalkAt
    <3>2. CASE ~WalkEnds(len, size, off)
      <4>0. off \in Nat OBVIOUS
      <4>1. len[off] \in Nat /\ len[off] >= 4 /\ off + len[off] \in 0..size
        BY <3>2, <4>0, WalkGoesOn
      <4>2. off + len[off] \in 0..N /\ size - m <= off + len[off] BY <2>5, <4>1
      <4>3. v[off + len[off]] = w[off + len[off]] BY <2>4, <4>2
      <4> QED  BY <2>3, <3>2, <4>3 DEF WalkAt
    <3> QED  BY <3>1, <3>2
  <2> HIDE DEF Eq
  <2> QED  BY <2>2, <2>5
<1> HIDE DEF T
<1>3. size \in T BY <1>1, <1>2, NumInduction
<1>4. PICK w : /\ w = [o \in 0..N |-> w[o]]
               /\ \A off \in 0..N : size - size <= off => Eq(w, off)
  BY <1>3 DEF T
<1>5. \A off \in 0..N : w[off] = WalkAt(w, len, size, off) BY <1>4
<1>6. Walks(w, N, len, size) BY <1>4, <1>5 DEF Walks
<1> QED  BY <1>6

(* What a walk finds from an offset on. *)
BytesOf(at, len) == UNION {o..(o + len[o] - 1) : o \in at}
Contiguous(at, len, off, size) ==
    /\ at \subseteq off..(size - 4)
    /\ \A o \in at : len[o] >= 4
    /\ \A o, p \in at : o < p => o + len[o] <= p
    /\ \E e \in off..size : BytesOf(at, len) = off..(e - 1)

LEMMA ContiguousOn ==
  ASSUME NEW size \in Nat, NEW len, \A o \in 0..(size - 4) : len[o] \in Nat,
         NEW off \in Nat, ~WalkEnds(len, size, off),
         NEW at, Contiguous(at, len, off + len[off], size)
  PROVE  Contiguous({off} \cup at, len, off, size)
<1>1. len[off] \in Nat /\ len[off] >= 4 /\ off + len[off] \in 0..size /\ off + 4 <= size
  BY WalkGoesOn DEF WalkEnds
<1> DEFINE next == off + len[off]
<1>2. next \in Nat /\ next >= off + 4 /\ next <= size BY <1>1
<1>3. PICK e \in next..size : BytesOf(at, len) = next..(e - 1)
  BY DEF Contiguous
<1>4. at \subseteq next..(size - 4) /\ \A o \in at : len[o] >= 4 BY DEF Contiguous
<1>5. {off} \cup at \subseteq off..(size - 4) BY <1>1, <1>2, <1>4
<1>6. \A o, p \in {off} \cup at : o < p => o + len[o] <= p
  <2>1. \A o \in at : off < o /\ off + len[off] <= o /\ ~(o < off) BY <1>1, <1>2, <1>4
  <2>2. \A o, p \in at : o < p => o + len[o] <= p BY DEF Contiguous
  <2> QED  BY <1>1, <2>1, <2>2
<1>7. BytesOf({off} \cup at, len) = off..(e - 1)
  <2>1. BytesOf({off} \cup at, len) = (off..(off + len[off] - 1)) \cup BytesOf(at, len)
    BY DEF BytesOf
  <2>2. off..(off + len[off] - 1) = off..(next - 1)
    <3>1. off + len[off] - 1 = next - 1 BY <1>1
    <3> QED  BY <3>1
  <2>3. BytesOf({off} \cup at, len) = (off..(next - 1)) \cup (next..(e - 1)) BY <1>3, <2>1, <2>2
  <2> HIDE DEF next
  <2>4. off..(e - 1) = (off..(next - 1)) \cup (next..(e - 1)) BY <1>2, <1>3
  <2> QED  BY <2>3, <2>4
<1>8. e \in off..size
  <2> HIDE DEF next
  <2> QED  BY <1>2, <1>3
<1> QED  BY <1>1, <1>4, <1>5, <1>6, <1>7, <1>8 DEF Contiguous

LEMMA WalkFrom ==
  ASSUME NEW size \in Nat, NEW N \in Nat, size <= N, NEW len, \A o \in 0..(size - 4) : len[o] \in Nat,
         NEW w, Walks(w, N, len, size)
  PROVE  Contiguous(w[0], len, 0, size)
<1> DEFINE T == {m \in Nat : \A off \in 0..size : size - m <= off => Contiguous(w[off], len, off, size)}
<1>0. \A off \in 0..size : /\ w[off] = WalkAt(w, len, size, off)
                           /\ WalkEnds(len, size, off) => Contiguous({}, len, off, size)
  <2> SUFFICES ASSUME NEW off \in 0..size
               PROVE  /\ w[off] = WalkAt(w, len, size, off)
                      /\ Contiguous({}, len, off, size)
    OBVIOUS
  <2>1. BytesOf({}, len) = off..(off - 1) BY DEF BytesOf
  <2>2. off \in off..size OBVIOUS
  <2>3. Contiguous({}, len, off, size) BY <2>1, <2>2 DEF Contiguous
  <2>4. off \in 0..N OBVIOUS
  <2> QED  BY <2>3, <2>4 DEF Walks
<1>1. 0 \in T
  <2>1. \A off \in 0..size : size - 0 <= off => WalkEnds(len, size, off) BY DEF WalkEnds
  <2> QED  BY <1>0, <2>1 DEF WalkAt
<1>2. ASSUME NEW m \in Nat, m \in T PROVE m + 1 \in T
  <2> SUFFICES ASSUME NEW off \in 0..size, size - (m + 1) <= off
               PROVE  Contiguous(w[off], len, off, size)
    OBVIOUS
  <2>1. CASE WalkEnds(len, size, off) BY <1>0, <2>1 DEF WalkAt
  <2>2. CASE ~WalkEnds(len, size, off)
    <3>0. off \in Nat OBVIOUS
    <3>1. len[off] \in Nat /\ len[off] >= 4 /\ off + len[off] \in 0..size BY <2>2, <3>0, WalkGoesOn
    <3>2. size - m <= off + len[off] BY <3>1
    <3>3. Contiguous(w[off + len[off]], len, off + len[off], size) BY <1>2, <3>1, <3>2
    <3>4. Contiguous({off} \cup w[off + len[off]], len, off, size) BY <2>2, <3>0, <3>3, ContiguousOn
    <3> QED  BY <1>0, <2>2, <3>4 DEF WalkAt
  <2> QED  BY <2>1, <2>2
<1> HIDE DEF T
<1>3. size \in T BY <1>1, <1>2, NumInduction
<1>4. 0 \in 0..size /\ size - size <= 0 OBVIOUS
<1> QED  BY <1>3, <1>4 DEF T

(* handle_render, for a payload of any size and any lengths in its commands: *)
(* the commands executed lie without gaps from the start of the payload,     *)
(* each behind the one before and entirely inside.                           *)
THEOREM WalkStaysInside ==
  ASSUME NEW size \in Nat, NEW len, \A o \in 0..(size - 4) : len[o] \in Nat
  PROVE  Contiguous(Walk(len, size), len, 0, size)
<1> DEFINE N == 2 * size
           w == CHOOSE w : Walks(w, N, len, size)
<1>1. Walk(len, size) = w[0] BY DEF Walk, WalkAt, WalkEnds, Walks
<1>2. N \in Nat /\ size <= N OBVIOUS
<1> HIDE DEF N
<1>3. Walks(w, N, len, size)
  <2>1. \E v : Walks(v, N, len, size) BY <1>2, WalkExists
  <2> QED  BY <2>1
<1> HIDE DEF w
<1>4. Contiguous(w[0], len, 0, size) BY <1>2, <1>3, WalkFrom
<1> QED  BY <1>1, <1>4

LEMMA WalkProved == WalkContiguous
<1> SUFFICES ASSUME NEW size \in 4..WireSize, NEW len \in WireLens
             PROVE  LET at == Walk(len, size)
                        bytes == UNION {o..(o + len[o] - 1) : o \in at}
                    IN  /\ bytes = 0..(Cardinality(bytes) - 1)
                        /\ Cardinality(bytes) <= size
                        /\ \A o, p \in at : o < p => o + len[o] <= p
  BY DEF WalkContiguous
<1> DEFINE at == Walk(len, size)
           bytes == BytesOf(at, len)
<1>1. size \in Nat /\ \A o \in 0..(size - 4) : len[o] \in Nat BY DEF WireLens, WireSize
<1>2. Contiguous(at, len, 0, size) BY <1>1, WalkStaysInside
<1> HIDE DEF at
<1>3. PICK e \in 0..size : bytes = 0..(e - 1)
  BY <1>2 DEF Contiguous
<1>4. Cardinality(0..(e - 1)) = e
  <2>1. e \in Nat /\ e - 1 \in Int /\ 0 \in Int BY <1>1, <1>3
  <2>2. Cardinality(0..(e - 1)) = IF 0 > e - 1 THEN 0 ELSE (e - 1) - 0 + 1 BY <2>1, FS_Interval
  <2> QED  BY <2>1, <2>2
<1>5. bytes = 0..(Cardinality(bytes) - 1) /\ Cardinality(bytes) <= size BY <1>1, <1>3, <1>4
<1>6. \A o, p \in at : o < p => o + len[o] <= p BY <1>2 DEF Contiguous
<1> QED  BY <1>5, <1>6 DEF BytesOf, at

-----------------------------------------------------------------------------
(***************************************************************************)
(* RENDER: compositing one pixel, for any full intensity k.                *)
(***************************************************************************)
Premultiplied(k) == {p \in [c : 0..k, a : 0..k] : p.c <= p.a}

LEMMA QuotientMono ==
  ASSUME NEW a \in Nat, NEW b \in Nat, a <= b, NEW k \in Nat, k # 0
  PROVE  a \div k \in Nat /\ b \div k \in Nat /\ a \div k <= b \div k
<1> DEFINE qa == a \div k
           qb == b \div k
           rb == b % k
<1>1. qa \in Nat /\ qa * k <= a BY TimesQuotient
<1>2. qb \in Nat BY TimesQuotient
<1>3. b = k * qb + rb /\ rb \in 0..(k - 1) OBVIOUS
<1> HIDE DEF qa, qb, rb
<1>4. qa <= qb
  <2> SUFFICES ASSUME qb + 1 <= qa PROVE FALSE
    BY <1>1, <1>2
  <2>1. (qb + 1) * k <= qa * k BY <1>1, <1>2
  <2>2. (qb + 1) * k = k * qb + k BY <1>2
  <2>3. rb \in Int /\ rb < k /\ k * qb \in Int /\ qa * k \in Int BY <1>1, <1>2, <1>3
  <2> QED  BY <1>1, <1>3, <2>1, <2>2, <2>3
<1> QED  BY <1>1, <1>2, <1>4 DEF qa, qb

LEMMA MaxOf ==
  ASSUME NEW a \in Int, NEW c \in Int
  PROVE  Max({a, c}) = IF a >= c THEN a ELSE c
<1> DEFINE m == IF a >= c THEN a ELSE c
<1>1. m \in {a, c} /\ \A y \in {a, c} : m >= y OBVIOUS
<1>2. \A x \in {a, c} : (\A y \in {a, c} : x >= y) => x = m OBVIOUS
<1> HIDE DEF m
<1>3. Max({a, c}) \in {a, c} /\ \A y \in {a, c} : Max({a, c}) >= y BY <1>1 DEF Max
<1>4. Max({a, c}) = m BY <1>2, <1>3
<1> QED  BY <1>4 DEF m

LEMMA Div0In ==
  ASSUME NEW n \in Nat, NEW a \in Nat, NEW k \in Nat
  PROVE  Div0(n, a, k) \in 0..k
<1>1. CASE a = 0 BY <1>1 DEF Div0
<1>2. CASE a # 0
  <2> DEFINE q == (n * k) \div a
  <2>1. q \in Nat BY <1>2, TimesQuotient
  <2>2. Div0(n, a, k) = Min({k, q}) BY <1>2 DEF Div0
  <2> HIDE DEF q
  <2>3. Min({k, q}) = IF k <= q THEN k ELSE q BY <2>1, MinOf
  <2> QED  BY <2>1, <2>2, <2>3
<1> QED  BY <1>1, <1>2

LEMMA SharesIn ==
  ASSUME NEW k \in Nat, NEW a \in 0..k, NEW b \in 0..k
  PROVE  /\ InDis(a, b, k) \in 0..k /\ OutDis(a, b, k) \in 0..k
         /\ InCon(a, b, k) \in 0..k /\ OutCon(a, b, k) \in 0..k
<1>0. a \in Nat /\ b \in Nat OBVIOUS
<1>1. Max({a + b - k, 0}) \in Nat
  <2>1. a + b - k \in Int /\ 0 \in Int OBVIOUS
  <2>2. Max({a + b - k, 0}) = IF a + b - k >= 0 THEN a + b - k ELSE 0 BY <2>1, MaxOf
  <2> QED  BY <2>1, <2>2
<1>2. Max({a - b, 0}) \in Nat
  <2>1. a - b \in Int /\ 0 \in Int OBVIOUS
  <2>2. Max({a - b, 0}) = IF a - b >= 0 THEN a - b ELSE 0 BY <2>1, MaxOf
  <2> QED  BY <2>1, <2>2
<1>3. k - b \in Nat OBVIOUS
<1> QED  BY <1>0, <1>1, <1>2, <1>3, Div0In DEF InDis, OutDis, InCon, OutCon

(* The operators each family has. *)
OpsOf(fam) == IF fam = "canonical" THEN CanonicalOps ELSE FamilyOps
RnFamilies == {"canonical", "disjoint", "conjoint"}

LEMMA CanonicalIn ==
  ASSUME NEW k \in Nat, NEW op \in CanonicalOps, NEW s \in 0..k, NEW d \in 0..k
  PROVE  CanonicalFactors(op, s, d, k) \in (0..k) \X (0..k)
<1>1. OutDis(s, d, k) \in 0..k BY SharesIn
<1>2. k - s \in 0..k /\ k - d \in 0..k /\ 0 \in 0..k /\ k \in 0..k OBVIOUS
<1> QED  BY <1>1, <1>2 DEF CanonicalFactors, CanonicalOps, FamilyOps

LEMMA FamilyIn ==
  ASSUME NEW k \in Nat, NEW op \in FamilyOps, NEW os \in 0..k, NEW od \in 0..k, NEW is \in 0..k, NEW id \in 0..k
  PROVE  FamilyFactors(op, k, os, od, is, id) \in (0..k) \X (0..k)
<1>2. 0 \in 0..k /\ k \in 0..k OBVIOUS
<1> QED  BY <1>2 DEF FamilyFactors, FamilyOps

LEMMA FactorsIn ==
  ASSUME NEW k \in Nat, NEW fam \in RnFamilies, NEW op \in OpsOf(fam), NEW s \in 0..k, NEW d \in 0..k
  PROVE  /\ PictOpFactors(fam, op, s, d, k)[1] \in 0..k
         /\ PictOpFactors(fam, op, s, d, k)[2] \in 0..k
<1>0. /\ OutDis(s, d, k) \in 0..k /\ OutDis(d, s, k) \in 0..k /\ InDis(s, d, k) \in 0..k /\ InDis(d, s, k) \in 0..k
      /\ OutCon(s, d, k) \in 0..k /\ OutCon(d, s, k) \in 0..k /\ InCon(s, d, k) \in 0..k /\ InCon(d, s, k) \in 0..k
  BY SharesIn
<1>1. PictOpFactors(fam, op, s, d, k) \in (0..k) \X (0..k)
  <2>1. CASE fam = "canonical"
    <3>1. op \in CanonicalOps BY <2>1 DEF OpsOf
    <3>2. CanonicalFactors(op, s, d, k) \in (0..k) \X (0..k) BY <3>1, CanonicalIn
    <3> QED  BY <2>1, <3>2 DEF PictOpFactors
  <2>2. CASE fam = "disjoint"
    <3>1. op \in FamilyOps BY <2>2 DEF OpsOf
    <3>2. FamilyFactors(op, k, OutDis(s, d, k), OutDis(d, s, k), InDis(s, d, k), InDis(d, s, k)) \in (0..k) \X (0..k)
      BY <1>0, <3>1, FamilyIn
    <3> QED  BY <2>2, <3>2 DEF PictOpFactors
  <2>3. CASE fam = "conjoint"
    <3>1. op \in FamilyOps BY <2>3 DEF OpsOf
    <3>2. FamilyFactors(op, k, OutCon(s, d, k), OutCon(d, s, k), InCon(s, d, k), InCon(d, s, k)) \in (0..k) \X (0..k)
      BY <1>0, <3>1, FamilyIn
    <3> QED  BY <2>3, <3>2 DEF PictOpFactors
  <2> QED  BY <2>1, <2>2, <2>3 DEF RnFamilies
<1> QED  BY <1>1

(* A channel stays within full intensity, and more of both gives no less. *)
LEMMA BlendIn ==
  ASSUME NEW k \in Nat, k # 0, NEW f \in 0..k, NEW g \in 0..k,
         NEW s \in 0..k, NEW d \in 0..k, NEW t \in 0..k, NEW e \in 0..k, s <= t, d <= e
  PROVE  /\ BlendChan(s, d, f, g, k) \in 0..k
         /\ BlendChan(s, d, f, g, k) <= BlendChan(t, e, f, g, k)
<1> DEFINE h == k \div 2
           x == s * f + d * g + h
           y == t * f + e * g + h
<1>1. h \in Nat BY TimesQuotient
<1>2. x \in Nat /\ y \in Nat /\ x <= y
  <2>1. s * f \in Nat /\ d * g \in Nat /\ t * f \in Nat /\ e * g \in Nat /\ s * f <= t * f /\ d * g <= e * g
    OBVIOUS
  <2> HIDE DEF h
  <2> QED  BY <1>1, <2>1
<1> DEFINE p == x \div k
           q == y \div k
<1>3. BlendChan(s, d, f, g, k) = Min({k, p}) /\ BlendChan(t, e, f, g, k) = Min({k, q})
  BY DEF BlendChan
<1> HIDE DEF x, y
<1>4. p \in Nat /\ q \in Nat /\ p <= q BY <1>2, QuotientMono
<1> HIDE DEF p, q
<1>5. /\ Min({k, p}) = IF k <= p THEN k ELSE p
      /\ Min({k, q}) = IF k <= q THEN k ELSE q
  BY <1>4, MinOf
<1> QED  BY <1>3, <1>4, <1>5

(* Compositing, for every operator of the three families and any depth of    *)
(* channel: two premultiplied pixels give a premultiplied pixel, also on a   *)
(* destination without alpha.                                                *)
THEOREM CompositeStaysIn ==
  ASSUME NEW k \in Nat, k # 0, NEW fam \in RnFamilies, NEW op \in OpsOf(fam),
         NEW s \in Premultiplied(k), NEW d \in Premultiplied(k), NEW hasAlpha \in BOOLEAN
  PROVE  CompositePixel(fam, op, s, d, hasAlpha, k) \in Premultiplied(k)
<1>0. s.c \in 0..k /\ s.a \in 0..k /\ s.c <= s.a /\ d.c \in 0..k /\ d.a \in 0..k /\ d.c <= d.a
  BY DEF Premultiplied
<1> DEFINE da == IF hasAlpha THEN d.a ELSE k
           F == PictOpFactors(fam, op, s.a, da, k)
<1>1. da \in 0..k BY <1>0
<1> HIDE DEF da
<1>2. F[1] \in 0..k /\ F[2] \in 0..k BY <1>0, <1>1, FactorsIn
<1> DEFINE c == BlendChan(s.c, d.c, F[1], F[2], k)
           a == BlendChan(s.a, d.a, F[1], F[2], k)
<1>3. \/ CompositePixel(fam, op, s, d, hasAlpha, k) = d
      \/ CompositePixel(fam, op, s, d, hasAlpha, k) = [c |-> c, a |-> IF hasAlpha THEN a ELSE k]
  BY DEF CompositePixel, da
<1> HIDE DEF F
<1>4. c \in 0..k /\ c <= a BY <1>0, <1>2, BlendIn
<1>5. a \in 0..k
  <2>1. s.a <= s.a /\ d.a <= d.a BY <1>0
  <2>2. BlendChan(s.a, d.a, F[1], F[2], k) \in 0..k BY <1>0, <1>2, <2>1, BlendIn
  <2> QED  BY <2>2
<1> HIDE DEF c, a
<1>6. [c |-> c, a |-> IF hasAlpha THEN a ELSE k] \in Premultiplied(k)
  BY <1>4, <1>5 DEF Premultiplied
<1> QED  BY <1>3, <1>6

LEMMA LevelsIn == RnLevelPixels \subseteq Premultiplied(255)
BY DEF RnLevelPixels, RnLevels, Premultiplied

LEMMA ColourProved == ColourWithinAlpha
<1> SUFFICES ASSUME NEW fam \in RnFamilies, NEW s \in RnLevelPixels, NEW d \in RnLevelPixels,
                    NEW op \in OpsOf(fam)
             PROVE  LET p == CompositePixel(fam, op, s, d, TRUE, 255) IN p.c <= p.a /\ p.a <= 255
  BY DEF ColourWithinAlpha, RnFamilies, OpsOf
<1>1. CompositePixel(fam, op, s, d, TRUE, 255) \in Premultiplied(255)
  <2> DEFINE k == 255
  <2>1. k \in Nat /\ k # 0 /\ s \in Premultiplied(k) /\ d \in Premultiplied(k) /\ TRUE \in BOOLEAN
    BY LevelsIn
  <2> HIDE DEF k
  <2>2. CompositePixel(fam, op, s, d, TRUE, k) \in Premultiplied(k) BY <2>1, CompositeStaysIn
  <2> QED  BY <2>2 DEF k
<1> DEFINE p == CompositePixel(fam, op, s, d, TRUE, 255)
<1>2. p \in Premultiplied(255) BY <1>1
<1> HIDE DEF p
<1>3. p.c <= p.a /\ p.a \in 0..255 BY <1>2 DEF Premultiplied
<1>4. p.c <= p.a /\ p.a <= 255 BY <1>3
<1> QED  BY <1>4 DEF p

-----------------------------------------------------------------------------
(* A transparent source pixel: BlendChan with a source of zero. *)
LEMMA BlendZero ==
  ASSUME NEW k \in Nat, k # 0, NEW d \in 0..k, NEW f \in 0..k
  PROVE  BlendChan(0, d, f, k, k) = d /\ BlendChan(0, d, f, 0, k) = 0
<1> DEFINE h == k \div 2
<1>1. h \in Nat /\ h < k OBVIOUS
<1> HIDE DEF h
<1>2. (0 * f + d * k + h) \div k = d
  <2> DEFINE n == 0 * f + d * k + h
  <2>0. 0 * f = 0 /\ d * k = k * d /\ k * d \in Nat OBVIOUS
  <2>1. n \in Nat /\ n = k * d + h
    <3> DEFINE x == 0 * f
               y == d * k
               w == k * d
    <3>1. x = 0 /\ y = w /\ w \in Nat /\ n = x + y + h BY <2>0
    <3> HIDE DEF x, y, w
    <3>2. x + y + h = w + h /\ w + h \in Nat BY <1>1, <3>1
    <3> HIDE DEF n
    <3>3. n = w + h /\ n \in Nat BY <3>1, <3>2
    <3> QED  BY <3>3 DEF w
  <2>2. h \in 0..(k - 1) /\ d \in Int BY <1>1
  <2> HIDE DEF n
  <2>3. n \div k = d BY <2>1, <2>2, EuclidOnly
  <2> QED  BY <2>3 DEF n
<1>3. (0 * f + d * 0 + h) \div k = 0
  <2>1. 0 * f + d * 0 + h = h BY <1>1
  <2>2. h \div k = 0 BY <1>1
  <2> QED  BY <2>1, <2>2
<1>4. /\ Min({k, d}) = IF k <= d THEN k ELSE d
      /\ Min({k, 0}) = IF k <= 0 THEN k ELSE 0
  BY MinOf
<1> QED  BY <1>2, <1>3, <1>4 DEF BlendChan, h

(* The operators whose destination factor is none when the source is nothing. *)
ClearsWithNothing == {"Clear", "Src", "In", "InReverse", "Out", "AtopReverse"}
LEMMA ZeroFactor ==
  ASSUME NEW k \in Nat, NEW op \in CanonicalOps, NEW d \in 0..k
  PROVE  /\ CanonicalFactors(op, 0, d, k)[1] \in 0..k
         /\ CanonicalFactors(op, 0, d, k)[2] = IF op \in ClearsWithNothing THEN 0 ELSE k
<1>1. 0 \in 0..k /\ k - 0 = k OBVIOUS
<1>2. CanonicalFactors(op, 0, d, k)[1] \in 0..k
  <2>1. CanonicalFactors(op, 0, d, k) \in (0..k) \X (0..k) BY <1>1, CanonicalIn
  <2> QED  BY <2>1
<1>3. CanonicalFactors(op, 0, d, k)[2] = IF op \in ClearsWithNothing THEN 0 ELSE k
  BY <1>1 DEF CanonicalFactors, CanonicalOps, FamilyOps, ClearsWithNothing
<1> QED  BY <1>2, <1>3 DEF ClearsWithNothing

(* Compositing nothing, for any depth of channel: the operators of the list  *)
(* clear the destination, all others leave it as it was.                     *)
THEOREM NothingComposited ==
  ASSUME NEW k \in Nat, k # 0, NEW op \in CanonicalOps, NEW d \in Premultiplied(k)
  PROVE  CompositePixel("canonical", op, [c |-> 0, a |-> 0], d, TRUE, k)
             = IF ZeroSrcHasNoEffect("canonical", op) THEN d ELSE [c |-> 0, a |-> 0]
<1>0. d.c \in 0..k /\ d.a \in 0..k /\ d = [c |-> d.c, a |-> d.a] BY DEF Premultiplied
<1> DEFINE s == [c |-> 0, a |-> 0]
           F == CanonicalFactors(op, 0, d.a, k)
<1>1. CompositePixel("canonical", op, s, d, TRUE, k)
         = IF op = "Dst" THEN d
           ELSE [c |-> BlendChan(0, d.c, F[1], F[2], k), a |-> BlendChan(0, d.a, F[1], F[2], k)]
  BY DEF CompositePixel, PictOpFactors
<1>2. F[1] \in 0..k /\ F[2] = IF op \in ClearsWithNothing THEN 0 ELSE k
  BY <1>0, ZeroFactor DEF ClearsWithNothing
<1> HIDE DEF F
<1>3. ZeroSrcHasNoEffect("canonical", op) <=> op \notin ClearsWithNothing
  BY DEF ZeroSrcHasNoEffect, ClearsWithNothing
<1>4. CASE op \in ClearsWithNothing
  <2>1. op # "Dst" /\ F[2] = 0 BY <1>2, <1>4 DEF ClearsWithNothing
  <2>2. BlendChan(0, d.c, F[1], F[2], k) = 0 /\ BlendChan(0, d.a, F[1], F[2], k) = 0
    BY <1>0, <1>2, <2>1, BlendZero
  <2> QED  BY <1>1, <1>3, <1>4, <2>1, <2>2
<1>5. CASE op \notin ClearsWithNothing
  <2>1. F[2] = k BY <1>2, <1>5
  <2>2. BlendChan(0, d.c, F[1], F[2], k) = d.c /\ BlendChan(0, d.a, F[1], F[2], k) = d.a
    BY <1>0, <1>2, <2>1, BlendZero
  <2> QED  BY <1>0, <1>1, <1>3, <1>5, <2>2
<1> QED  BY <1>4, <1>5

LEMMA ZeroProved == ZeroSafe
<1> SUFFICES ASSUME NEW op \in CanonicalOps
             PROVE  ZeroSrcHasNoEffect("canonical", op) =
                      (\A d \in RnLevelPixels : CompositePixel("canonical", op, [c |-> 0, a |-> 0], d, TRUE, 255) = d)
  BY DEF ZeroSafe
<1> DEFINE k == 255
           z == [c |-> 0, a |-> 0]
           e == [c |-> 0, a |-> 255]
           Z(d) == CompositePixel("canonical", op, z, d, TRUE, k)
<1>1. e \in RnLevelPixels /\ e # z
  <2>1. e # z
    <3>1. e.a = 255 /\ z.a = 0 OBVIOUS
    <3> QED  BY <3>1
  <2> QED  BY <2>1 DEF RnLevelPixels, RnLevels
<1>2. k \in Nat /\ k # 0 /\ RnLevelPixels \subseteq Premultiplied(k) BY LevelsIn
<1> HIDE DEF k
<1>3. \A d \in RnLevelPixels : Z(d) = IF ZeroSrcHasNoEffect("canonical", op) THEN d ELSE z
  BY <1>2, NothingComposited
<1> HIDE DEF Z, z, e
<1>4. ZeroSrcHasNoEffect("canonical", op) \in BOOLEAN BY DEF ZeroSrcHasNoEffect
<1>5. ZeroSrcHasNoEffect("canonical", op) = (\A d \in RnLevelPixels : Z(d) = d) BY <1>1, <1>3, <1>4
<1> QED  BY <1>5 DEF Z, z, k

LEMMA RepeatProved == RepeatInside
<1> SUFFICES ASSUME NEW x \in -9..9, NEW z \in 1..4, NEW repeat \in {"pad", "reflect", "normal"}
             PROVE  LET at == ApplyPixmapRepeat(x, z, repeat)
                    IN  /\ at \in 0..(z - 1)
                        /\ x \in 0..(z - 1) => at = x
                        /\ repeat # "normal" => ApplyPixmapRepeat(-1, z, repeat) = 0
  BY DEF RepeatInside
<1>0. z = 1 \/ z = 2 \/ z = 3 \/ z = 4 OBVIOUS
<1>1. CASE repeat = "pad"
  <2>1. \A y \in Int : ApplyPixmapRepeat(y, z, repeat) = IF y < 0 THEN 0 ELSE IF y <= z - 1 THEN y ELSE z - 1
    <3> SUFFICES ASSUME NEW y \in Int
                 PROVE  ApplyPixmapRepeat(y, z, repeat) = IF y < 0 THEN 0 ELSE IF y <= z - 1 THEN y ELSE z - 1
      OBVIOUS
    <3> DEFINE m == Min({y, z - 1})
    <3>1. m = IF y <= z - 1 THEN y ELSE z - 1 BY MinOf
    <3>2. m \in Int /\ 0 \in Int BY <3>1
    <3>3. ApplyPixmapRepeat(y, z, repeat) = Max({0, m}) BY <1>1 DEF ApplyPixmapRepeat
    <3> HIDE DEF m
    <3>4. Max({0, m}) = IF 0 >= m THEN 0 ELSE m BY <3>2, MaxOf
    <3> QED  BY <3>1, <3>3, <3>4
  <2> QED  BY <1>1, <2>1
<1>2. CASE repeat = "reflect"
  <2>1. \A y \in Int : ApplyPixmapRepeat(y, z, repeat) = IF y % (2 * z) < z THEN y % (2 * z) ELSE 2 * z - 1 - (y % (2 * z))
    BY <1>2 DEF ApplyPixmapRepeat
  <2>2. CASE z = 1  BY <1>2, <2>1, <2>2
  <2>3. CASE z = 2  BY <1>2, <2>1, <2>3
  <2>4. CASE z = 3  BY <1>2, <2>1, <2>4
  <2>5. CASE z = 4  BY <1>2, <2>1, <2>5
  <2> QED  BY <1>0, <2>2, <2>3, <2>4, <2>5
<1>3. CASE repeat = "normal"
  <2>1. ApplyPixmapRepeat(x, z, repeat) = x % z BY <1>3 DEF ApplyPixmapRepeat
  <2>2. CASE z = 1  BY <1>3, <2>1, <2>2
  <2>3. CASE z = 2  BY <1>3, <2>1, <2>3
  <2>4. CASE z = 3  BY <1>3, <2>1, <2>4
  <2>5. CASE z = 4  BY <1>3, <2>1, <2>5
  <2> QED  BY <1>0, <2>2, <2>3, <2>4, <2>5
<1> QED  BY <1>1, <1>2, <1>3

(* Destination columns whose source lies outside a source of size z. *)
Uncovered(sx, dx, n, z) == {dx + i : i \in {j \in 0..(n - 1) : sx + j \notin 0..(z - 1)}}

(* handle_copy_area's exposures, for any source size, offset and width: the  *)
(* destination columns reported are those whose source lies outside.         *)
THEOREM ExposuresAreExact ==
  ASSUME NEW sx \in Int, NEW dx \in Int, NEW n \in Nat, NEW z \in Nat, sx <= z
  PROVE  GraphicsExposures(sx, dx, n, z) = Uncovered(sx, dx, n, z)
<1> DEFINE over == sx + n - z
           l == Min({0 - sx, n})
           r == Min({over, n})
           left == IF sx < 0 THEN Span(dx, l) ELSE {}
           all == IF over > 0 THEN left \cup Span(dx + n - over, r) ELSE left
<1>1. GraphicsExposures(sx, dx, n, z) = all BY DEF GraphicsExposures
<1>2. over \in Int /\ l = (IF 0 - sx <= n THEN 0 - sx ELSE n) /\ r = (IF over <= n THEN over ELSE n)
  <2>1. over \in Int /\ 0 - sx \in Int /\ n \in Int OBVIOUS
  <2>2. l = (IF 0 - sx <= n THEN 0 - sx ELSE n) BY <2>1, MinOf
  <2>3. r = (IF over <= n THEN over ELSE n)
    <3> HIDE DEF over
    <3> QED  BY <2>1, MinOf
  <2> QED  BY <2>1, <2>2, <2>3
<1>3. \A i \in Int : dx + i \in all <=> i \in 0..(n - 1) /\ sx + i \notin 0..(z - 1)
  <2> SUFFICES ASSUME NEW i \in Int
               PROVE  dx + i \in all <=> i \in 0..(n - 1) /\ sx + i \notin 0..(z - 1)
    OBVIOUS
  <2> HIDE DEF l, r
  <2>1. dx + i \in left <=> sx < 0 /\ 0 <= i /\ i < l BY <1>2 DEF Span
  <2>2. dx + i \in Span(dx + n - over, r) <=> n - over <= i /\ i < n - over + r BY <1>2 DEF Span
  <2> HIDE DEF left
  <2> QED  BY <1>2, <2>1, <2>2
<1>4. all \subseteq Int
  <2> HIDE DEF l, r
  <2> QED  BY <1>2 DEF Span
<1> HIDE DEF all
<1>5. \A v \in Int : v \in all <=> \E i \in {j \in 0..(n - 1) : sx + j \notin 0..(z - 1)} : v = dx + i
  <2> SUFFICES ASSUME NEW v \in Int
               PROVE  v \in all <=> \E i \in {j \in 0..(n - 1) : sx + j \notin 0..(z - 1)} : v = dx + i
    OBVIOUS
  <2>1. v - dx \in Int /\ dx + (v - dx) = v OBVIOUS
  <2> QED  BY <1>3, <2>1
<1>6. \A i \in {j \in 0..(n - 1) : sx + j \notin 0..(z - 1)} : dx + i \in Int OBVIOUS
<1> QED  BY <1>1, <1>4, <1>5, <1>6 DEF Uncovered

LEMMA ExposuresProved == ExposuresExact
<1> SUFFICES ASSUME NEW sx \in -3..3, NEW dx \in {-1, 2}, NEW n \in 0..4, NEW z \in 1..3, sx <= z
             PROVE  GraphicsExposures(sx, dx, n, z) = Uncovered(sx, dx, n, z)
  BY DEF ExposuresExact, Uncovered
<1>1. sx \in Int /\ dx \in Int /\ n \in Nat /\ z \in Nat OBVIOUS
<1> QED  BY <1>1, ExposuresAreExact

-----------------------------------------------------------------------------
(***************************************************************************)
(* Dashes.  A state of the walk stands for a place in the even pattern: the*)
(* dash e it is in, and the distance left to that dash's end.              *)
(***************************************************************************)
(* A recursive function on 0..K whose values stay in X exists. *)
Recurs(f, K, a, H) == f = [i \in 0..K |-> IF i = 0 THEN a ELSE H[<<i, f[i - 1]>>]]
LEMMA RecursionExists ==
  ASSUME NEW K \in Nat, NEW X, NEW a \in X, NEW H \in [(1..K) \X X -> X]
  PROVE  \E f \in [0..K -> X] : Recurs(f, K, a, H)
<1> DEFINE Eq(f, i) == f[i] = IF i = 0 THEN a ELSE H[<<i, f[i - 1]>>]
           T == {m \in Nat : \E f \in [0..K -> X] : \A i \in 0..K : i <= m => Eq(f, i)}
<1>1. 0 \in T
  <2> DEFINE f == [i \in 0..K |-> a]
  <2>1. f \in [0..K -> X] OBVIOUS
  <2>2. \A i \in 0..K : i <= 0 => Eq(f, i) OBVIOUS
  <2> HIDE DEF f, Eq
  <2> QED  BY <2>1, <2>2
<1>2. ASSUME NEW m \in Nat, m \in T PROVE m + 1 \in T
  <2>1. PICK f \in [0..K -> X] : \A i \in 0..K : i <= m => Eq(f, i)
    BY <1>2
  <2> DEFINE h == [i \in 0..K |-> IF i <= m THEN f[i] ELSE H[<<i, f[i - 1]>>]]
  <2>2. h \in [0..K -> X]
    <3> SUFFICES ASSUME NEW i \in 0..K PROVE h[i] \in X
      OBVIOUS
    <3>1. CASE i <= m BY <3>1
    <3>2. CASE ~(i <= m)
      <4>1. i \in 1..K /\ i - 1 \in 0..K BY <3>2
      <4>2. H[<<i, f[i - 1]>>] \in X BY <4>1
      <4> QED  BY <3>2, <4>2
    <3> QED  BY <3>1, <3>2
  <2>3. \A i \in 0..K : i <= m => h[i] = f[i] OBVIOUS
  <2>4. \A i \in 0..K : ~(i <= m) => h[i] = H[<<i, f[i - 1]>>] OBVIOUS
  <2> HIDE DEF h
  <2>5. ASSUME NEW i \in 0..K, i <= m + 1 PROVE Eq(h, i)
    <3>1. CASE i = 0
      <4>1. 0 \in 0..K /\ 0 <= m OBVIOUS
      <4>2. h[0] = f[0] /\ f[0] = a BY <2>1, <2>3, <4>1
      <4> QED  BY <3>1, <4>2
    <3>2. CASE i # 0
      <4>1. i - 1 \in 0..K /\ i - 1 <= m BY <2>5, <3>2
      <4>2. h[i - 1] = f[i - 1] BY <2>3, <4>1
      <4> QED  BY <2>1, <2>3, <2>4, <3>2, <4>2
    <3> QED  BY <3>1, <3>2
  <2> HIDE DEF Eq
  <2> QED  BY <2>2, <2>5
<1> HIDE DEF T
<1>3. K \in T BY <1>1, <1>2, NumInduction
<1>4. PICK f \in [0..K -> X] : \A i \in 0..K : i <= K => Eq(f, i)
  BY <1>3 DEF T
<1>5. \A i \in 0..K : f[i] = IF i = 0 THEN a ELSE H[<<i, f[i - 1]>>] BY <1>4
<1>6. Recurs(f, K, a, H) BY <1>4, <1>5 DEF Recurs
<1> QED  BY <1>6

(* A dash list of n positive lengths, and the even pattern of m made of it. *)
DashList(pat, n) == n \in Nat /\ n # 0 /\ \A i \in 1..n : pat[i] \in Nat /\ pat[i] # 0
EvenOf(pat, n, even, m) ==
    /\ DashList(pat, n) /\ m % 2 = 0 /\ (m = n \/ (m = 2 * n /\ n % 2 = 1))
    /\ \A i \in 1..m : even[i] = pat[IF i <= n THEN i ELSE i - n]
Sums(up, even, m) ==
    up \in [0..m -> Nat] /\ up[0] = 0 /\ \A i \in 1..m : up[i] = up[i - 1] + even[i]

(* Dash e of the even pattern is dash i of the list. *)
Stands(e, i, on, n, m) ==
    /\ e \in 0..(m - 1) /\ i \in 0..(n - 1)
    /\ e = i \/ e = i + n
    /\ on = (e % 2 = 0)
(* A walk at the start of dash i has skip to go to pos. *)
Ahead(pos, skip, i, on, n, up, m) ==
    \E e \in 0..(m - 1), q \in Nat : Stands(e, i, on, n, m) /\ pos = up[m] * q + up[e] + skip
(* The walk is at pos. *)
DashStates(n) == [index : 0..(n - 1), left : Nat, on : BOOLEAN]
InDash(st, pos, pat, n, up, m) ==
    /\ st \in DashStates(n) /\ 1 <= st.left /\ st.left <= pat[st.index + 1]
    /\ \E e \in 0..(m - 1), q \in Nat :
          /\ Stands(e, st.index, st.on, n, m)
          /\ pos = up[m] * q + up[e] + pat[st.index + 1] - st.left

LEMMA DashFacts ==
  ASSUME NEW pat, NEW n, NEW even, NEW m, NEW up, EvenOf(pat, n, even, m), Sums(up, even, m)
  PROVE  /\ n \in Nat /\ n # 0 /\ m \in Nat /\ m >= n /\ m % 2 = 0
         /\ \A i \in 0..(n - 1) : pat[i + 1] \in Nat /\ pat[i + 1] # 0
         /\ \A e \in 0..m : up[e] \in Nat
         /\ \A e \in 0..(m - 1), i \in 0..(n - 1) : (e = i \/ e = i + n) => up[e + 1] = up[e] + pat[i + 1]
<1>1. n \in Nat /\ n # 0 /\ m \in Nat /\ m >= n /\ m % 2 = 0 BY DEF EvenOf, DashList
<1>2. \A i \in 0..(n - 1) : pat[i + 1] \in Nat /\ pat[i + 1] # 0 BY <1>1 DEF EvenOf, DashList
<1>3. \A e \in 0..m : up[e] \in Nat BY DEF Sums
<1>4. ASSUME NEW e \in 0..(m - 1), NEW i \in 0..(n - 1), e = i \/ e = i + n
      PROVE  up[e + 1] = up[e] + pat[i + 1]
  <2>1. e + 1 \in 1..m /\ (e + 1) - 1 = e BY <1>1
  <2>2. up[e + 1] = up[e] + even[e + 1] BY <2>1 DEF Sums
  <2>3. even[e + 1] = pat[IF e + 1 <= n THEN e + 1 ELSE (e + 1) - n] BY <2>1 DEF EvenOf
  <2>4. (IF e + 1 <= n THEN e + 1 ELSE (e + 1) - n) = i + 1 BY <1>1, <1>4
  <2>5. even[e + 1] = pat[i + 1] BY <2>3, <2>4
  <2> QED  BY <2>2, <2>5
<1> QED  BY <1>1, <1>2, <1>3, <1>4

(* From the end of a dash to the start of the next one. *)
Follows(pat, n, up, m, e, q, i, on) ==
    \E f \in 0..(m - 1), r \in Nat :
        /\ Stands(f, (i + 1) % n, ~on, n, m)
        /\ up[m] * r + up[f] = up[m] * q + up[e] + pat[i + 1]
LEMMA NextDash ==
  ASSUME NEW pat, NEW n, NEW even, NEW m, NEW up, EvenOf(pat, n, even, m), Sums(up, even, m),
         NEW e \in 0..(m - 1), NEW q \in Nat, NEW i \in 0..(n - 1), NEW on, Stands(e, i, on, n, m)
  PROVE  Follows(pat, n, up, m, e, q, i, on)
<1>0. /\ n \in Nat /\ n # 0 /\ m \in Nat /\ m >= n /\ m % 2 = 0
      /\ pat[i + 1] \in Nat /\ up[e] \in Nat /\ up[e + 1] = up[e] + pat[i + 1] /\ up[m] \in Nat /\ up[0] = 0
  <2>1. e = i \/ e = i + n BY DEF Stands
  <2>2. /\ n \in Nat /\ n # 0 /\ m \in Nat /\ m >= n /\ m % 2 = 0
        /\ pat[i + 1] \in Nat /\ up[e + 1] = up[e] + pat[i + 1]
        /\ \A x \in 0..m : up[x] \in Nat
    BY <2>1, DashFacts
  <2>3. e \in 0..m /\ m \in 0..m BY <2>2
  <2> QED  BY <2>2, <2>3 DEF Sums
<1>1. (i + 1) % n = IF i + 1 = n THEN 0 ELSE i + 1
  <2>1. CASE i + 1 = n
    <3>1. n % n = 0
      <4>1. n = n * 1 + 0 /\ 0 \in 0..(n - 1) /\ 1 \in Int BY <1>0
      <4> QED  BY <1>0, <4>1, EuclidOnly
    <3> QED  BY <2>1, <3>1
  <2>2. CASE i + 1 # n
    <3>1. i + 1 \in Nat /\ i + 1 \in 0..(n - 1) /\ i + 1 = n * 0 + (i + 1) /\ 0 \in Int
      BY <1>0, <2>2
    <3>2. (i + 1) % n = i + 1 BY <1>0, <3>1, EuclidOnly
    <3> QED  BY <2>2, <3>2
  <2> QED  BY <2>1, <2>2
<1> DEFINE j == (i + 1) % n
           f == IF e + 1 = m THEN 0 ELSE e + 1
           r == IF e + 1 = m THEN q + 1 ELSE q
<1>2. f \in 0..(m - 1) /\ r \in Nat BY <1>0
<1>3. Stands(f, j, ~on, n, m)
  <2> HIDE DEF j
  <2>0. j = IF i + 1 = n THEN 0 ELSE i + 1 BY <1>1 DEF j
  <2>1. j \in 0..(n - 1) BY <1>0, <2>0
  <2>2. e \in 0..(m - 1) /\ (e = i \/ e = i + n) /\ on = (e % 2 = 0) BY DEF Stands
  <2>3. m = n \/ (m = 2 * n /\ n % 2 = 1) BY DEF EvenOf
  <2>4. f = j \/ f = j + n BY <1>0, <2>0, <2>2, <2>3
  <2>5. (f % 2 = 0) = ~(e % 2 = 0) BY <1>0
  <2> HIDE DEF f
  <2>6. ~on = (f % 2 = 0) BY <2>2, <2>5
  <2> QED  BY <1>2, <2>1, <2>4, <2>6 DEF Stands
<1>4. up[m] * r + up[f] = up[m] * q + up[e] + pat[i + 1]
  <2> DEFINE z == up[m] * q
  <2>1. z \in Nat BY <1>0
  <2>2. CASE e + 1 = m
    <3>1. up[m] * (q + 1) = z + up[m] BY <1>0
    <3> HIDE DEF z
    <3>2. z + up[m] + 0 = z + up[e] + pat[i + 1] BY <1>0, <2>1, <2>2
    <3>3. up[f] = 0 /\ r = q + 1 BY <1>0, <2>2
    <3> QED  BY <1>0, <2>1, <3>1, <3>2, <3>3 DEF z
  <2>3. CASE e + 1 # m
    <3>1. f = e + 1 /\ r = q BY <2>3
    <3> HIDE DEF f, r
    <3>2. up[m] * r = z BY <3>1
    <3> HIDE DEF z
    <3>3. z + up[f] = z + up[e] + pat[i + 1] BY <1>0, <2>1, <3>1
    <3> QED  BY <3>2, <3>3 DEF z
  <2> QED  BY <2>2, <2>3
<1> HIDE DEF f, r
<1> QED  BY <1>2, <1>3, <1>4 DEF Follows

-----------------------------------------------------------------------------
(* The walk to the dash offset exists: every dash it leaves is shorter than what is left. *)
DashPlaces(off, n) == [skip : 0..off, index : 0..(n - 1), on : BOOLEAN]
AfterDash(pat, n, z) == [skip |-> z.skip - pat[z.index + 1], index |-> (z.index + 1) % n, on |-> ~z.on]
DashWalkAt(w, pat, n, z) ==
    IF z.skip < pat[z.index + 1] THEN [index |-> z.index, left |-> pat[z.index + 1] - z.skip, on |-> z.on]
    ELSE w[AfterDash(pat, n, z)]
DashWalks(w, pat, n, off) == w = [z \in DashPlaces(off, n) |-> DashWalkAt(w, pat, n, z)]

LEMMA NextPlace ==
  ASSUME NEW pat, NEW n, DashList(pat, n), NEW off \in Nat, NEW z \in DashPlaces(off, n),
         ~(z.skip < pat[z.index + 1])
  PROVE  /\ AfterDash(pat, n, z) \in DashPlaces(off, n)
         /\ AfterDash(pat, n, z).skip < z.skip /\ z.skip \in Nat
         /\ AfterDash(pat, n, z).skip = z.skip - pat[z.index + 1]
         /\ AfterDash(pat, n, z).index = (z.index + 1) % n /\ AfterDash(pat, n, z).on = ~z.on
<1>1. z.skip \in 0..off /\ z.index \in 0..(n - 1) /\ z.on \in BOOLEAN /\ n \in Nat /\ n # 0
  BY DEF DashPlaces, DashList
<1>2. z.index + 1 \in 1..n /\ z.index + 1 \in Nat BY <1>1
<1>3. pat[z.index + 1] \in Nat /\ pat[z.index + 1] # 0 BY <1>2 DEF DashList
<1>4. (z.index + 1) % n \in 0..(n - 1) BY <1>1, <1>2, Euclid
<1>5. z.skip - pat[z.index + 1] \in 0..off /\ z.skip - pat[z.index + 1] < z.skip /\ z.skip \in Nat
  BY <1>1, <1>3
<1> QED  BY <1>1, <1>4, <1>5 DEF DashPlaces, AfterDash

LEMMA DashWalkExists ==
  ASSUME NEW pat, NEW n, DashList(pat, n), NEW off \in Nat
  PROVE  \E w : DashWalks(w, pat, n, off)
<1> DEFINE D == DashPlaces(off, n)
           Eq(w, z) == w[z] = DashWalkAt(w, pat, n, z)
           T == {m \in Nat : \E w : w = [z \in D |-> w[z]] /\ \A z \in D : z.skip <= m => Eq(w, z)}
<1>0. \A z \in D : z.skip \in Nat /\ z.skip <= off BY DEF DashPlaces
<1>1. ASSUME NEW z \in D, ~(z.skip < pat[z.index + 1])
      PROVE  /\ AfterDash(pat, n, z) \in D
             /\ AfterDash(pat, n, z).skip < z.skip
  BY <1>1, NextPlace
<1> HIDE DEF D
<1>2. ASSUME NEW m \in Int, m >= -1,
             NEW w, w = [z \in D |-> w[z]], \A z \in D : z.skip <= m => Eq(w, z)
      PROVE  \E v : v = [z \in D |-> v[z]] /\ \A z \in D : z.skip <= m + 1 => Eq(v, z)
  <2> DEFINE v == [z \in D |-> DashWalkAt(w, pat, n, z)]
  <2>1. v = [z \in D |-> v[z]] /\ \A z \in D : v[z] = DashWalkAt(w, pat, n, z) OBVIOUS
  <2> HIDE DEF v
  <2>2. \A z \in D : z.skip <= m => v[z] = w[z] BY <1>2, <2>1
  <2>3. ASSUME NEW z \in D, z.skip <= m + 1 PROVE Eq(v, z)
    <3>1. CASE z.skip < pat[z.index + 1] BY <2>1, <3>1 DEF DashWalkAt
    <3>2. CASE ~(z.skip < pat[z.index + 1])
      <4> DEFINE y == AfterDash(pat, n, z)
      <4>1. y \in D /\ y.skip < z.skip BY <1>1, <3>2
      <4>2. DashWalkAt(v, pat, n, z) = v[y] /\ DashWalkAt(w, pat, n, z) = w[y]
        BY <3>2 DEF DashWalkAt
      <4> HIDE DEF y
      <4>3. v[y] = w[y] BY <1>0, <1>2, <2>2, <2>3, <4>1
      <4> QED  BY <2>1, <4>2, <4>3
    <3> QED  BY <3>1, <3>2
  <2> HIDE DEF Eq
  <2> QED  BY <2>1, <2>3
<1>3. 0 \in T
  <2> DEFINE w == [z \in D |-> 0]
  <2>1. w = [z \in D |-> w[z]] OBVIOUS
  <2>2. \A z \in D : z.skip <= -1 => Eq(w, z) BY <1>0
  <2> HIDE DEF w, Eq
  <2>3. \E v : v = [z \in D |-> v[z]] /\ \A z \in D : z.skip <= (-1) + 1 => Eq(v, z)
    BY <1>2, <2>1, <2>2
  <2> QED  BY <2>3
<1>4. ASSUME NEW m \in Nat, m \in T PROVE m + 1 \in T
  <2> HIDE DEF Eq
  <2>1. PICK w : w = [z \in D |-> w[z]] /\ \A z \in D : z.skip <= m => Eq(w, z)
    BY <1>4
  <2>2. m \in Int /\ m >= -1 OBVIOUS
  <2>3. \E v : v = [z \in D |-> v[z]] /\ \A z \in D : z.skip <= m + 1 => Eq(v, z)
    BY <1>2, <2>1, <2>2
  <2> QED  BY <2>3
<1> HIDE DEF T
<1>5. off \in T BY <1>3, <1>4, NumInduction
<1>6. PICK w : w = [z \in D |-> w[z]] /\ \A z \in D : z.skip <= off => Eq(w, z)
  BY <1>5 DEF T
<1>7. \A z \in D : w[z] = DashWalkAt(w, pat, n, z) BY <1>0, <1>6
<1>8. DashWalks(w, pat, n, off) BY <1>6, <1>7 DEF DashWalks, D
<1> QED  BY <1>8

(* The walk comes to the place skip ahead of where it starts. *)
LEMMA DashWalkArrives ==
  ASSUME NEW pat, NEW n, NEW even, NEW m, NEW up, EvenOf(pat, n, even, m), Sums(up, even, m),
         NEW off \in Nat, NEW w, DashWalks(w, pat, n, off), NEW pos \in Nat
  PROVE  \A z \in DashPlaces(off, n) :
            Ahead(pos, z.skip, z.index, z.on, n, up, m) => InDash(w[z], pos, pat, n, up, m)
<1> DEFINE D == DashPlaces(off, n)
           Good(z) == Ahead(pos, z.skip, z.index, z.on, n, up, m) => InDash(w[z], pos, pat, n, up, m)
           T == {k \in Nat : \A z \in D : z.skip <= k => Good(z)}
<1>0. DashList(pat, n) /\ n \in Nat /\ n # 0 /\ m \in Nat BY DashFacts DEF EvenOf
<1>1. \A z \in D : /\ z.skip \in Nat /\ z.skip <= off /\ z.index \in 0..(n - 1) /\ z.on \in BOOLEAN
                   /\ w[z] = DashWalkAt(w, pat, n, z)
  <2>1. \A z \in D : w[z] = DashWalkAt(w, pat, n, z) BY DEF DashWalks
  <2>2. \A z \in D : z.skip \in Nat /\ z.skip <= off /\ z.index \in 0..(n - 1) /\ z.on \in BOOLEAN
    BY DEF DashPlaces
  <2> QED  BY <2>1, <2>2
<1>2. ASSUME NEW z \in D, z.skip < pat[z.index + 1] PROVE Good(z)
  <2> SUFFICES ASSUME Ahead(pos, z.skip, z.index, z.on, n, up, m) PROVE InDash(w[z], pos, pat, n, up, m)
    OBVIOUS
  <2> DEFINE st == [index |-> z.index, left |-> pat[z.index + 1] - z.skip, on |-> z.on]
  <2>1. w[z] = st BY <1>1, <1>2 DEF DashWalkAt
  <2>2. pat[z.index + 1] \in Nat BY <1>1, DashFacts
  <2>3. st \in DashStates(n) /\ st.index = z.index /\ st.on = z.on /\ st.left = pat[z.index + 1] - z.skip
    BY <1>1, <1>2, <2>2 DEF DashStates
  <2> HIDE DEF st
  <2>4. 1 <= st.left /\ st.left <= pat[st.index + 1] BY <1>1, <1>2, <2>2, <2>3
  <2>5. PICK e \in 0..(m - 1), q \in Nat : Stands(e, z.index, z.on, n, m) /\ pos = up[m] * q + up[e] + z.skip
    BY DEF Ahead
  <2>6. up[m] \in Nat /\ up[e] \in Nat
    <3>1. e \in 0..m /\ m \in 0..m BY <1>0
    <3> QED  BY <3>1, DashFacts
  <2>7. pos = up[m] * q + up[e] + pat[st.index + 1] - st.left
    <3> DEFINE x == up[m] * q
    <3>1. x \in Nat /\ pos = x + up[e] + z.skip BY <2>5, <2>6
    <3> HIDE DEF x
    <3>2. pos = x + up[e] + pat[st.index + 1] - st.left BY <1>1, <2>2, <2>3, <2>6, <3>1
    <3> QED  BY <3>2 DEF x
  <2> QED  BY <2>1, <2>3, <2>4, <2>5, <2>7 DEF InDash
<1>3. ASSUME NEW z \in D, ~(z.skip < pat[z.index + 1]), \A y \in D : y.skip < z.skip => Good(y) PROVE Good(z)
  <2> SUFFICES ASSUME Ahead(pos, z.skip, z.index, z.on, n, up, m) PROVE InDash(w[z], pos, pat, n, up, m)
    OBVIOUS
  <2> DEFINE i == z.index
             y == AfterDash(pat, n, z)
  <2>1. y \in D /\ y.skip < z.skip BY <1>0, <1>3, NextPlace
  <2>2. w[z] = w[y] BY <1>1, <1>3 DEF DashWalkAt
  <2>3. PICK e \in 0..(m - 1), q \in Nat : Stands(e, i, z.on, n, m) /\ pos = up[m] * q + up[e] + z.skip
    BY DEF Ahead
  <2>4. i \in 0..(n - 1) /\ pat[i + 1] \in Nat /\ z.skip \in Nat BY <1>1, DashFacts
  <2>5. PICK f \in 0..(m - 1), r \in Nat : /\ Stands(f, (i + 1) % n, ~z.on, n, m)
                                           /\ up[m] * r + up[f] = up[m] * q + up[e] + pat[i + 1]
    <3> DEFINE on == z.on
    <3>1. Stands(e, i, on, n, m) BY <2>3
    <3> HIDE DEF on, i
    <3>2. Follows(pat, n, up, m, e, q, i, on) BY <2>4, <3>1, NextDash
    <3> QED  BY <3>2 DEF Follows, on
  <2>6. up[m] \in Nat /\ up[e] \in Nat /\ up[f] \in Nat
    <3>1. e \in 0..m /\ f \in 0..m /\ m \in 0..m BY <1>0
    <3> QED  BY <3>1, DashFacts
  <2>7. pos = up[m] * r + up[f] + (z.skip - pat[i + 1])
    <3> DEFINE a == up[m] * q
               b == up[m] * r
    <3>1. a \in Nat /\ b \in Nat /\ pos = a + up[e] + z.skip /\ b + up[f] = a + up[e] + pat[i + 1]
      BY <2>3, <2>5, <2>6
    <3> HIDE DEF a, b, i
    <3>2. pos = b + up[f] + (z.skip - pat[i + 1]) BY <2>4, <2>6, <3>1
    <3> QED  BY <3>2 DEF b
  <2>8. Ahead(pos, y.skip, y.index, y.on, n, up, m)
    <3>1. y.skip = z.skip - pat[i + 1] /\ y.index = (i + 1) % n /\ y.on = ~z.on
      BY <1>0, <1>3, NextPlace
    <3> HIDE DEF y
    <3> QED  BY <2>5, <2>7, <3>1 DEF Ahead
  <2> HIDE DEF y
  <2> QED  BY <1>3, <2>1, <2>2, <2>8
<1> HIDE DEF D
<1>4. \A z \in D : (\A y \in D : y.skip < z.skip => Good(y)) => Good(z) BY <1>2, <1>3
<1> HIDE DEF Good
<1>5. 0 \in T BY <1>1, <1>4
<1>6. ASSUME NEW k \in Nat, k \in T PROVE k + 1 \in T
  <2> SUFFICES ASSUME NEW z \in D, z.skip <= k + 1 PROVE Good(z)
    OBVIOUS
  <2>1. \A y \in D : y.skip < z.skip => y.skip <= k BY <1>1
  <2> QED  BY <1>4, <1>6, <2>1
<1> HIDE DEF T
<1>7. off \in T BY <1>5, <1>6, NumInduction
<1> QED  BY <1>1, <1>7 DEF T, Good, D

-----------------------------------------------------------------------------
LEMMA StartAtOffset ==
  ASSUME NEW pat, NEW n, NEW even, NEW m, NEW up, EvenOf(pat, n, even, m), Sums(up, even, m),
         n = Len(pat), NEW off \in Nat
  PROVE  InDash(DashStart(pat, off), off, pat, n, up, m)
<1>0. DashList(pat, n) /\ n \in Nat /\ n # 0 /\ m \in Nat /\ m >= n /\ up[0] = 0
  BY DashFacts DEF EvenOf, Sums
<1> DEFINE w == CHOOSE w : DashWalks(w, pat, n, off)
           z == [skip |-> off, index |-> 0, on |-> TRUE]
<1>1. DashStart(pat, off) = w[z] BY DEF DashStart, DashWalks, DashWalkAt, DashPlaces, AfterDash
<1>2. DashWalks(w, pat, n, off)
  <2>1. \E v : DashWalks(v, pat, n, off) BY <1>0, DashWalkExists
  <2> QED  BY <2>1
<1> HIDE DEF w
<1>3. z \in DashPlaces(off, n) /\ z.skip = off /\ z.index = 0 /\ z.on = TRUE BY <1>0 DEF DashPlaces
<1>4. Ahead(off, z.skip, z.index, z.on, n, up, m)
  <2>1. 0 \in 0..(m - 1) /\ 0 \in Nat BY <1>0
  <2>2. Stands(0, 0, TRUE, n, m) BY <1>0 DEF Stands
  <2>3. off = up[m] * 0 + up[0] + off
    <3>1. m \in 0..m BY <1>0
    <3>2. up[m] \in Nat BY <3>1, DashFacts
    <3> QED  BY <1>0, <3>2
  <2> HIDE DEF z
  <2> QED  BY <1>3, <2>1, <2>2, <2>3 DEF Ahead
<1> HIDE DEF z
<1> QED  BY <1>1, <1>2, <1>3, <1>4, DashWalkArrives

LEMMA AdvanceOne ==
  ASSUME NEW pat, NEW n, NEW even, NEW m, NEW up, EvenOf(pat, n, even, m), Sums(up, even, m),
         n = Len(pat), NEW pos \in Nat, NEW st, InDash(st, pos, pat, n, up, m)
  PROVE  InDash(DashAdvance(pat, st), pos + 1, pat, n, up, m)
<1>0. n \in Nat /\ n # 0 /\ m \in Nat BY DashFacts
<1> DEFINE i == st.index
           l == st.left
           on == st.on
<1>1. /\ st \in DashStates(n) /\ i \in 0..(n - 1) /\ l \in Nat /\ on \in BOOLEAN
      /\ 1 <= l /\ l <= pat[i + 1]
  BY DEF InDash, DashStates
<1>2. pat[i + 1] \in Nat /\ pat[i + 1] # 0 BY <1>1, DashFacts
<1>3. PICK e \in 0..(m - 1), q \in Nat : /\ Stands(e, i, on, n, m)
                                         /\ pos = up[m] * q + up[e] + pat[i + 1] - l
  BY DEF InDash
<1>4. up[m] \in Nat /\ up[e] \in Nat /\ up[m] * q \in Nat
  <2>1. e \in 0..m /\ m \in 0..m BY <1>0
  <2>2. up[m] \in Nat /\ up[e] \in Nat BY <2>1, DashFacts
  <2> QED  BY <2>2
<1>5. CASE l > 1
  <2> DEFINE ns == [st EXCEPT !.left = @ - 1]
  <2>1. DashAdvance(pat, st) = ns BY <1>5 DEF DashAdvance
  <2>2. ns \in DashStates(n) /\ ns.index = i /\ ns.left = l - 1 /\ ns.on = on
    BY <1>1, <1>5 DEF DashStates
  <2> HIDE DEF ns, i, l, on
  <2>3. 1 <= ns.left /\ ns.left <= pat[ns.index + 1] BY <1>1, <1>2, <1>5, <2>2
  <2>4. pos + 1 = up[m] * q + up[e] + pat[ns.index + 1] - ns.left
    <3> DEFINE x == up[m] * q
    <3>1. x \in Nat /\ pos = x + up[e] + pat[i + 1] - l BY <1>3, <1>4
    <3> HIDE DEF x
    <3>2. pos + 1 = x + up[e] + pat[ns.index + 1] - ns.left
      <4> DEFINE d == pat[i + 1]
                 u == up[e]
      <4>1. d \in Nat /\ u \in Nat /\ l \in Nat /\ pos = x + u + d - l /\ pat[ns.index + 1] = d /\ ns.left = l - 1
        BY <1>1, <1>2, <1>4, <2>2, <3>1
      <4> HIDE DEF d, u
      <4>2. pos + 1 = x + u + d - (l - 1) BY <3>1, <4>1
      <4> QED  BY <4>1, <4>2 DEF u
    <3> QED  BY <3>2 DEF x
  <2>5. Stands(e, ns.index, ns.on, n, m) BY <1>3, <2>2
  <2> QED  BY <2>1, <2>2, <2>3, <2>4, <2>5 DEF InDash
<1>6. CASE ~(l > 1)
  <2> DEFINE j == (i + 1) % n
             ns == [index |-> j, left |-> pat[j + 1], on |-> ~on]
  <2>0. j \in 0..(n - 1)
    <3>1. i + 1 \in Nat BY <1>1
    <3> QED  BY <1>0, <3>1, Euclid
  <2>1. pat[j + 1] \in Nat /\ pat[j + 1] # 0 BY <2>0, DashFacts
  <2>2. DashAdvance(pat, st) = ns BY <1>6, <2>1 DEF DashAdvance
  <2>3. ns \in DashStates(n) /\ ns.index = j /\ ns.left = pat[j + 1] /\ ns.on = ~on
    <3> HIDE DEF j
    <3> QED  BY <2>0, <2>1 DEF DashStates
  <2>4. PICK f \in 0..(m - 1), r \in Nat : /\ Stands(f, j, ~on, n, m)
                                           /\ up[m] * r + up[f] = up[m] * q + up[e] + pat[i + 1]
    <3> HIDE DEF on, i
    <3>2. Follows(pat, n, up, m, e, q, i, on) BY <1>1, <1>3, NextDash
    <3> QED  BY <3>2 DEF Follows
  <2>5. up[f] \in Nat
    <3>1. f \in 0..m BY <1>0
    <3> QED  BY <3>1, DashFacts
  <2> HIDE DEF ns, j
  <2>6. 1 <= ns.left /\ ns.left <= pat[ns.index + 1] BY <2>1, <2>3
  <2>7. pos + 1 = up[m] * r + up[f] + pat[ns.index + 1] - ns.left
    <3> DEFINE x == up[m] * q
               y == up[m] * r
    <3>1. x \in Nat /\ y \in Nat /\ pos = x + up[e] + pat[i + 1] - l /\ y + up[f] = x + up[e] + pat[i + 1]
      BY <1>3, <1>4, <2>4
    <3> HIDE DEF x, y, i, l
    <3>2. l = 1 BY <1>1, <1>6
    <3>3. pos + 1 = y + up[f] BY <1>2, <1>4, <2>5, <3>1, <3>2
    <3>4. y + up[f] = y + up[f] + pat[ns.index + 1] - ns.left BY <2>1, <2>3, <2>5, <3>1
    <3> QED  BY <3>3, <3>4 DEF y
  <2>8. Stands(f, ns.index, ns.on, n, m) BY <2>3, <2>4
  <2> QED  BY <2>2, <2>3, <2>4, <2>6, <2>7, <2>8 DEF InDash
<1> QED  BY <1>5, <1>6

(* k steps from the dash offset the walk stands at off + k. *)
WalkReaches(pat, n, up, m, off, k) ==
    \E st : InDash(st, off + k, pat, n, up, m) /\ DashOn(pat, off, k) = st.on

LEMMA StepsFromOffset ==
  ASSUME NEW pat, NEW n, NEW even, NEW m, NEW up, EvenOf(pat, n, even, m), Sums(up, even, m),
         n = Len(pat), NEW off \in Nat, NEW k \in Nat
  PROVE  WalkReaches(pat, n, up, m, off, k)
<1> DEFINE a == DashStart(pat, off)
           X == {st \in DashStates(n) : \E pos \in Nat : InDash(st, pos, pat, n, up, m)}
           H == [y \in (1..k) \X X |-> DashAdvance(pat, y[2])]
           at == CHOOSE at : at = [i \in 0..k |-> IF i = 0 THEN a ELSE DashAdvance(pat, at[i - 1])]
<1>1. DashOn(pat, off, k) = at[k].on BY DEF DashOn
<1>2. InDash(a, off, pat, n, up, m) BY StartAtOffset
<1>3. a \in X BY <1>2 DEF InDash
<1>4. ASSUME NEW st \in X PROVE DashAdvance(pat, st) \in X
  <2>1. PICK pos \in Nat : InDash(st, pos, pat, n, up, m)
    OBVIOUS
  <2>2. InDash(DashAdvance(pat, st), pos + 1, pat, n, up, m) BY <2>1, AdvanceOne
  <2>3. pos + 1 \in Nat OBVIOUS
  <2> QED  BY <2>2, <2>3 DEF InDash
<1>5. H \in [(1..k) \X X -> X]
  <2> HIDE DEF X
  <2> QED  BY <1>4
<1>6. \A i \in 1..k, st \in X : H[<<i, st>>] = DashAdvance(pat, st)
  <2> HIDE DEF X
  <2> QED  OBVIOUS
<1> HIDE DEF X, H, a
<1>7. PICK f \in [0..k -> X] : Recurs(f, k, a, H)
  BY <1>3, <1>5, RecursionExists
<1>8. f = [i \in 0..k |-> IF i = 0 THEN a ELSE DashAdvance(pat, f[i - 1])]
  <2>1. ASSUME NEW i \in 0..k PROVE f[i] = IF i = 0 THEN a ELSE DashAdvance(pat, f[i - 1])
    <3>1. f[i] = IF i = 0 THEN a ELSE H[<<i, f[i - 1]>>] BY <1>7 DEF Recurs
    <3>2. CASE i = 0 BY <3>1, <3>2
    <3>3. CASE i # 0
      <4>1. i \in 1..k /\ i - 1 \in 0..k BY <3>3
      <4>2. f[i - 1] \in X BY <1>7, <4>1
      <4> QED  BY <1>6, <3>1, <3>3, <4>1, <4>2
    <3> QED  BY <3>2, <3>3
  <2> QED  BY <1>7, <2>1
<1>9. at = [i \in 0..k |-> IF i = 0 THEN a ELSE DashAdvance(pat, at[i - 1])]
  <2>1. \E g : g = [i \in 0..k |-> IF i = 0 THEN a ELSE DashAdvance(pat, g[i - 1])] BY <1>8
  <2> QED  BY <2>1
<1> HIDE DEF at
<1> DEFINE T == {i \in Nat : i <= k => InDash(at[i], off + i, pat, n, up, m)}
<1>10. 0 \in T
  <2>1. 0 \in 0..k /\ off + 0 = off OBVIOUS
  <2>2. at[0] = a BY <1>9, <2>1
  <2> QED  BY <1>2, <2>1, <2>2
<1>11. ASSUME NEW i \in Nat, i \in T PROVE i + 1 \in T
  <2> SUFFICES ASSUME i + 1 <= k PROVE InDash(at[i + 1], off + (i + 1), pat, n, up, m)
    OBVIOUS
  <2>1. i + 1 \in 0..k /\ i + 1 # 0 /\ (i + 1) - 1 = i /\ i <= k /\ off + i \in Nat /\ (off + i) + 1 = off + (i + 1)
    OBVIOUS
  <2>2. at[i + 1] = DashAdvance(pat, at[i]) BY <1>9, <2>1
  <2>3. InDash(at[i], off + i, pat, n, up, m) BY <1>11, <2>1
  <2>4. InDash(DashAdvance(pat, at[i]), (off + i) + 1, pat, n, up, m) BY <2>1, <2>3, AdvanceOne
  <2> QED  BY <2>1, <2>2, <2>4
<1> HIDE DEF T
<1>12. k \in T BY <1>10, <1>11, NumInduction
<1>13. InDash(at[k], off + k, pat, n, up, m) BY <1>12 DEF T
<1> QED  BY <1>1, <1>13 DEF WalkReaches

LEMMA SumsExist ==
  ASSUME NEW m \in Nat, NEW even, \A i \in 1..m : even[i] \in Nat,
         NEW up, up = (CHOOSE f : f = [i \in 0..m |-> IF i = 0 THEN 0 ELSE f[i - 1] + even[i]])
  PROVE  Sums(up, even, m)
<1> DEFINE H == [y \in (1..m) \X Nat |-> y[2] + even[y[1]]]
<1>1. H \in [(1..m) \X Nat -> Nat] /\ 0 \in Nat OBVIOUS
<1>2. \A i \in 1..m, x \in Nat : H[<<i, x>>] = x + even[i] OBVIOUS
<1> HIDE DEF H
<1>3. PICK f \in [0..m -> Nat] : Recurs(f, m, 0, H)
  BY <1>1, RecursionExists
<1>4. \A i \in 0..m : f[i] = IF i = 0 THEN 0 ELSE f[i - 1] + even[i]
  <2> SUFFICES ASSUME NEW i \in 0..m PROVE f[i] = IF i = 0 THEN 0 ELSE f[i - 1] + even[i]
    OBVIOUS
  <2>1. f[i] = IF i = 0 THEN 0 ELSE H[<<i, f[i - 1]>>] BY <1>3 DEF Recurs
  <2>2. CASE i = 0 BY <2>1, <2>2
  <2>3. CASE i # 0
    <3>1. i \in 1..m /\ i - 1 \in 0..m BY <2>3
    <3> QED  BY <1>2, <1>3, <2>1, <2>3, <3>1
  <2> QED  BY <2>2, <2>3
<1>5. \E g : g = [i \in 0..m |-> IF i = 0 THEN 0 ELSE g[i - 1] + even[i]]
  <2>1. f = [i \in 0..m |-> IF i = 0 THEN 0 ELSE f[i - 1] + even[i]] BY <1>3, <1>4
  <2> QED  BY <2>1
<1>6. up = [i \in 0..m |-> IF i = 0 THEN 0 ELSE up[i - 1] + even[i]] BY <1>5
<1>7. up[0] = 0 /\ \A i \in 1..m : up[i] = up[i - 1] + even[i]
  <2>1. \A i \in 0..m : up[i] = IF i = 0 THEN 0 ELSE up[i - 1] + even[i] BY <1>6
  <2>2. 0 \in 0..m /\ \A i \in 1..m : i \in 0..m /\ i # 0 OBVIOUS
  <2> QED  BY <2>1, <2>2
<1> DEFINE T == {i \in Nat : i <= m => up[i] \in Nat}
<1>8. 0 \in T BY <1>7
<1>9. ASSUME NEW i \in Nat, i \in T PROVE i + 1 \in T
  <2> SUFFICES ASSUME i + 1 <= m PROVE up[i + 1] \in Nat
    OBVIOUS
  <2>1. i + 1 \in 1..m /\ (i + 1) - 1 = i /\ i <= m OBVIOUS
  <2>2. up[i + 1] = up[i] + even[i + 1] /\ even[i + 1] \in Nat BY <1>7, <2>1
  <2>3. up[i] \in Nat BY <1>9, <2>1
  <2> QED  BY <2>2, <2>3
<1>10. Nat \subseteq T
  <2> HIDE DEF T
  <2> QED  BY <1>8, <1>9, NumInduction
<1>11. \A i \in 0..m : up[i] \in Nat BY <1>10
<1>12. up \in [0..m -> Nat] BY <1>6, <1>11
<1> QED  BY <1>7, <1>12 DEF Sums

-----------------------------------------------------------------------------
(* The ends of the dashes grow. *)
LEMMA SumsGrow ==
  ASSUME NEW pat, NEW n, NEW even, NEW m, NEW up, EvenOf(pat, n, even, m), Sums(up, even, m)
  PROVE  \A a, b \in 0..m : a <= b => up[a] <= up[b]
<1>0. m \in Nat /\ \A e \in 0..m : up[e] \in Nat BY DashFacts
<1>1. \A i \in 1..m : up[i - 1] <= up[i]
  <2> SUFFICES ASSUME NEW i \in 1..m PROVE up[i - 1] <= up[i]
    OBVIOUS
  <2>1. i - 1 \in 0..m /\ i \in 0..m BY <1>0
  <2>2. even[i] \in Nat
    <3>1. DashList(pat, n) /\ (m = n \/ m = 2 * n) /\ even[i] = pat[IF i <= n THEN i ELSE i - n]
      BY DEF EvenOf
    <3>2. (IF i <= n THEN i ELSE i - n) \in 1..n BY <1>0, <3>1 DEF DashList
    <3> QED  BY <3>1, <3>2 DEF DashList
  <2>3. up[i] = up[i - 1] + even[i] BY DEF Sums
  <2> QED  BY <1>0, <2>1, <2>2, <2>3
<1> SUFFICES ASSUME NEW a \in 0..m PROVE \A b \in 0..m : a <= b => up[a] <= up[b]
  OBVIOUS
<1> DEFINE T == {k \in Nat : a + k <= m => up[a] <= up[a + k]}
<1>2. 0 \in T
  <2>1. a + 0 = a /\ a \in 0..m OBVIOUS
  <2> QED  BY <1>0, <2>1
<1>3. ASSUME NEW k \in Nat, k \in T PROVE k + 1 \in T
  <2> SUFFICES ASSUME a + (k + 1) <= m PROVE up[a] <= up[a + (k + 1)]
    OBVIOUS
  <2>1. a + k <= m /\ a + (k + 1) \in 1..m /\ (a + (k + 1)) - 1 = a + k /\ a + k \in 0..m /\ a + (k + 1) \in 0..m
    BY <1>0
  <2>2. up[a] <= up[a + k] /\ up[a + k] <= up[a + (k + 1)] BY <1>1, <1>3, <2>1
  <2>3. up[a] \in Nat /\ up[a + k] \in Nat /\ up[a + (k + 1)] \in Nat BY <1>0, <2>1
  <2> QED  BY <2>2, <2>3
<1>4. Nat \subseteq T
  <2> HIDE DEF T
  <2> QED  BY <1>2, <1>3, NumInduction
<1>5. ASSUME NEW b \in 0..m, a <= b PROVE up[a] <= up[b]
  <2>1. b - a \in Nat /\ a + (b - a) = b /\ b <= m BY <1>0, <1>5
  <2>2. b - a \in T BY <1>4, <2>1
  <2> QED  BY <2>1, <2>2
<1> QED  BY <1>5

(* In an odd dash of the even pattern. *)
OnDash(pos, up, m) == \E i \in 1..m : i % 2 = 1 /\ pos >= up[i - 1] /\ pos < up[i]

LEMMA OnIsOdd ==
  ASSUME NEW pat, NEW n, NEW even, NEW m, NEW up, EvenOf(pat, n, even, m), Sums(up, even, m),
         NEW pos \in Nat, NEW st, InDash(st, pos, pat, n, up, m)
  PROVE  st.on <=> OnDash(pos % up[m], up, m)
<1>0. m \in Nat /\ \A e \in 0..m : up[e] \in Nat BY DashFacts
<1>1. st.index \in 0..(n - 1) /\ st.left \in Nat /\ st.on \in BOOLEAN /\ 1 <= st.left /\ st.left <= pat[st.index + 1]
  BY DEF InDash, DashStates
<1> DEFINE d == pat[st.index + 1]
<1>2. d \in Nat BY <1>1, DashFacts
<1>3. PICK e \in 0..(m - 1), q \in Nat : Stands(e, st.index, st.on, n, m) /\ pos = up[m] * q + up[e] + d - st.left
  BY DEF InDash
<1>4. e = st.index \/ e = st.index + n BY <1>3 DEF Stands
<1>5. up[e + 1] = up[e] + d BY <1>1, <1>4, DashFacts
<1>6. e \in 0..m /\ e + 1 \in 0..m /\ m \in 0..m /\ e + 1 <= m BY <1>0
<1>7. up[e] \in Nat /\ up[e + 1] \in Nat /\ up[m] \in Nat /\ up[e + 1] <= up[m]
  BY <1>0, <1>6, SumsGrow
<1> DEFINE r == up[e] + d - st.left
<1> HIDE DEF d
<1>8. r \in 0..(up[m] - 1) /\ up[e] <= r /\ r < up[e + 1] /\ up[m] # 0 /\ r \in Nat
  BY <1>1, <1>2, <1>5, <1>7 DEF d
<1>9. pos % up[m] = r
  <2>1. up[m] * q \in Nat BY <1>7
  <2>2. pos = up[m] * q + r
    <3> DEFINE x == up[m] * q
    <3>1. x \in Nat /\ pos = x + up[e] + d - st.left BY <1>3, <2>1 DEF d
    <3> HIDE DEF x
    <3>2. pos = x + r BY <1>1, <1>2, <1>7, <3>1
    <3> QED  BY <3>2 DEF x
  <2>3. q \in Int OBVIOUS
  <2> HIDE DEF r
  <2> QED  BY <1>7, <1>8, <2>2, <2>3, EuclidOnly
<1>10. st.on = (e % 2 = 0) BY <1>3 DEF Stands
<1> HIDE DEF r
<1>11. ASSUME e % 2 = 0 PROVE OnDash(r, up, m)
  <2>1. e + 1 \in 1..m /\ (e + 1) - 1 = e /\ (e + 1) % 2 = 1 BY <1>0, <1>11
  <2> QED  BY <1>7, <1>8, <2>1 DEF OnDash
<1>12. ASSUME OnDash(r, up, m) PROVE e % 2 = 0
  <2>1. PICK i \in 1..m : i % 2 = 1 /\ r >= up[i - 1] /\ r < up[i]
    BY <1>12 DEF OnDash
  <2>2. i - 1 \in 0..m /\ i \in 0..m BY <1>0
  <2>3. up[i - 1] \in Nat /\ up[i] \in Nat BY <1>0, <2>2
  <2>4. ~(i <= e)
    <3>1. i <= e => up[i] <= up[e] BY <1>6, <2>2, SumsGrow
    <3> QED  BY <1>7, <1>8, <2>1, <2>3, <3>1
  <2>5. ~(e + 1 <= i - 1)
    <3>1. e + 1 <= i - 1 => up[e + 1] <= up[i - 1] BY <1>6, <2>2, SumsGrow
    <3> QED  BY <1>7, <1>8, <2>1, <2>3, <3>1
  <2>6. i = e + 1 BY <1>0, <2>4, <2>5
  <2> QED  BY <1>0, <2>1, <2>6
<1> QED  BY <1>9, <1>10, <1>11, <1>12

(* The even pattern of a dash list. *)
LEMMA BuildDashIs ==
  ASSUME NEW pat \in Seq(Nat), pat # <<>>, \A i \in DOMAIN pat : pat[i] > 0
  PROVE  EvenOf(pat, Len(pat), BuildDash(pat), Len(BuildDash(pat)))
<1> DEFINE n == Len(pat)
           even == BuildDash(pat)
<1>1. n \in Nat /\ n # 0 /\ DOMAIN pat = 1..n OBVIOUS
<1>2. DashList(pat, n) BY <1>1 DEF DashList
<1>3. CASE n % 2 = 0
  <2>1. even = pat BY <1>3 DEF BuildDash
  <2> QED  BY <1>1, <1>2, <1>3, <2>1 DEF EvenOf
<1>4. CASE n % 2 # 0
  <2>1. even = pat \o pat BY <1>4 DEF BuildDash
  <2>2. Len(pat \o pat) = n + n /\ \A i \in 1..(n + n) : (pat \o pat)[i] = IF i <= n THEN pat[i] ELSE pat[i - n]
    OBVIOUS
  <2>3. (n + n) % 2 = 0 /\ n + n = 2 * n /\ n % 2 = 1 BY <1>1, <1>4
  <2> QED  BY <1>1, <1>2, <2>1, <2>2, <2>3 DEF EvenOf
<1> QED  BY <1>3, <1>4

(* dash_start and dash_advance, for any dash list of positive lengths, any   *)
(* offset and any number of pixels: the walk is on exactly in the odd dashes *)
(* of the even pattern that the rasteriser is given.                         *)
THEOREM DashesAlwaysAgree ==
  ASSUME NEW pat \in Seq(Nat), pat # <<>>, \A i \in DOMAIN pat : pat[i] > 0,
         NEW off \in Nat, NEW k \in Nat, NEW up, Sums(up, BuildDash(pat), Len(BuildDash(pat)))
  PROVE  DashOn(pat, off, k)
           <=> OnDash((off + k) % up[Len(BuildDash(pat))], up, Len(BuildDash(pat)))
<1> DEFINE n == Len(pat)
           even == BuildDash(pat)
           m == Len(BuildDash(pat))
           pos == off + k
<1>1. EvenOf(pat, n, even, m) BY BuildDashIs
<1>2. pos \in Nat /\ n = Len(pat) /\ Sums(up, even, m) OBVIOUS
<1> HIDE DEF even, m
<1>r. WalkReaches(pat, n, up, m, off, k) BY <1>1, <1>2, StepsFromOffset
<1>3. PICK st : InDash(st, off + k, pat, n, up, m) /\ DashOn(pat, off, k) = st.on
  BY <1>r DEF WalkReaches
<1> HIDE DEF n, pos
<1>4. InDash(st, pos, pat, n, up, m) BY <1>3 DEF pos
<1>5. st.on <=> OnDash(pos % up[m], up, m) BY <1>1, <1>2, <1>4, OnIsOdd
<1> QED  BY <1>3, <1>5 DEF pos, m

LEMMA DashesProved == DashesAgree
<1> SUFFICES ASSUME NEW pat \in GcDashes \ {<<>>}, NEW off \in 0..4, NEW k \in 0..7, \A i \in DOMAIN pat : pat[i] > 0
             PROVE  LET even == BuildDash(pat)
                        upTo[i \in 0..Len(even)] == IF i = 0 THEN 0 ELSE upTo[i - 1] + even[i]
                        pos == (off + k) % upTo[Len(even)]
                    IN  DashOn(pat, off, k) <=>
                          \E i \in 1..Len(even) : i % 2 = 1 /\ pos >= upTo[i - 1] /\ pos < upTo[i]
  BY DEF DashesAgree
<1>1. pat \in Seq(Nat) /\ pat # <<>> /\ off \in Nat /\ k \in Nat BY GcAssumption
<1> DEFINE even == BuildDash(pat)
           m == Len(even)
           up == CHOOSE f : f = [i \in 0..m |-> IF i = 0 THEN 0 ELSE f[i - 1] + even[i]]
<1>2. m \in Nat /\ \A i \in 1..m : even[i] \in Nat
  <2>1. even = pat \/ even = pat \o pat BY DEF BuildDash
  <2>2. Len(pat) \in Nat /\ \A i \in 1..Len(pat) : pat[i] \in Nat BY <1>1
  <2>3. CASE even = pat BY <2>2, <2>3
  <2>4. CASE even = pat \o pat
    <3>1. Len(pat \o pat) = Len(pat) + Len(pat)
          /\ \A i \in 1..(Len(pat) + Len(pat)) : (pat \o pat)[i] = IF i <= Len(pat) THEN pat[i] ELSE pat[i - Len(pat)]
      BY <1>1
    <3> QED  BY <2>2, <2>4, <3>1
  <2> QED  BY <2>1, <2>3, <2>4
<1>3. Sums(up, even, m)
  <2> HIDE DEF even, m
  <2> QED  BY <1>2, SumsExist
<1>4. DashOn(pat, off, k) <=> OnDash((off + k) % up[m], up, m)
  <2> HIDE DEF up
  <2> QED  BY <1>1, <1>3, DashesAlwaysAgree
<1> QED  BY <1>4 DEF OnDash

-----------------------------------------------------------------------------
(* XGc: the three ways a clip is kept.  A context that was not given a part  *)
(* of another's clip holds the rectangles of its bits at its origin.         *)
GcRecords == [fn : {"copy", "xor"}, mask : BOOLEAN, bits : Given(GcBits), org : GcOrigins,
              rects : SUBSET (0..2), dashes : Seq(Nat), off : Nat]
ClipFollows(r) == r.bits # {} => r.rects = ToClipRects(r.bits, r.org)

GcInv ==
    /\ gcs \in [GcIds -> Given(GcRecords)] /\ gcMask \in Given(GcBits)
    /\ gcPartial \subseteq {g \in GcIds : gcs[g] # {}}
    /\ \A g \in GcIds \ gcPartial : \A r \in gcs[g] : ClipFollows(r)

LEMMA RectsOfClip ==
  ASSUME NEW bits \in Given(GcBits), NEW org \in GcOrigins
  PROVE  ToClipRects(bits, org) \in SUBSET (0..2)
<1>1. UNION bits \subseteq {0, 1} BY DEF Given, GcBits
<1>2. \A i \in {0, 1} : i + org \in 0..2 BY DEF GcOrigins
<1> QED  BY <1>1, <1>2 DEF ToClipRects

LEMMA GivenOne ==
  ASSUME NEW S, NEW X \in Given(S)
  PROVE  /\ X = {} \/ \E v \in S : X = {v}
         /\ X # {} => (CHOOSE v \in X : TRUE) \in S /\ X = {CHOOSE v \in X : TRUE}
BY DEF Given

LEMMA GivenFew ==
  ASSUME NEW S, NEW X \in Given(S)
  PROVE  Cardinality(X) <= 1
<1>1. CASE X = {} BY <1>1, FS_EmptySet
<1>2. CASE X # {}
  <2>1. PICK v \in S : X = {v}
    BY <1>2 DEF Given
  <2>2. IsFiniteSet({v}) /\ Cardinality({v}) = 1 BY FS_Singleton
  <2> QED  BY <2>1, <2>2
<1> QED  BY <1>1, <1>2

(* apply_create_gc_aux and apply_change_gc_aux, with resolve_clip_mask. *)
LEMMA AuxSound ==
  ASSUME gcMask \in Given(GcBits), NEW r \in GcRecords,
         NEW fn \in Given({"xor"}), NEW mask \in Given(BOOLEAN), NEW org \in Given(GcOrigins)
  PROVE  /\ ApplyAux(r, fn, mask, org) \in GcRecords
         /\ mask # {} \/ (org # {} /\ r.bits # {}) \/ ClipFollows(r)
               => ClipFollows(ApplyAux(r, fn, mask, org))
<1> DEFINE withFn == IF fn = {} THEN r ELSE [r EXCEPT !.fn = CHOOSE f \in fn : TRUE]
           at == IF org = {} THEN r.org ELSE CHOOSE o \in org : TRUE
           bits == CASE mask = {} -> r.bits [] mask = {TRUE} -> ResolveClipMask [] OTHER -> {}
           rects == CASE mask # {} -> ToClipRects(bits, at)
                      [] mask = {} /\ org # {} /\ bits # {} -> ToClipRects(bits, at)
                      [] OTHER -> withFn.rects
           is == IF mask = {} THEN withFn.mask ELSE mask = {TRUE}
           new == ApplyAux(r, fn, mask, org)
<1>1. new = [withFn EXCEPT !.org = at, !.bits = bits, !.mask = is, !.rects = rects] BY DEF ApplyAux
<1>2. r.fn \in {"copy", "xor"} /\ r.bits \in Given(GcBits) /\ r.org \in GcOrigins /\ r.rects \in SUBSET (0..2)
      /\ r.mask \in BOOLEAN
  BY DEF GcRecords
<1>3. withFn \in GcRecords /\ withFn.rects = r.rects /\ withFn.mask = r.mask
  <2>1. CASE fn = {} BY <1>2, <2>1
  <2>2. CASE fn # {}
    <3>1. (CHOOSE f \in fn : TRUE) \in {"copy", "xor"} BY <2>2, GivenOne
    <3> QED  BY <2>2, <3>1 DEF GcRecords
  <2> QED  BY <2>1, <2>2
<1>4. at \in GcOrigins
  <2>1. CASE org = {} BY <1>2, <2>1
  <2>2. CASE org # {} BY <2>2, GivenOne
  <2> QED  BY <2>1, <2>2
<1>5. bits \in Given(GcBits) /\ (mask = {} => bits = r.bits)
  <2>1. {} \in Given(GcBits) BY DEF Given
  <2>2. mask # {} /\ mask # {TRUE} => bits = {} OBVIOUS
  <2> QED  BY <1>2, <2>1, <2>2 DEF ResolveClipMask
<1>6. ToClipRects(bits, at) \in SUBSET (0..2)
  <2> HIDE DEF bits, at
  <2> QED  BY <1>4, <1>5, RectsOfClip
<1>7. rects \in SUBSET (0..2) BY <1>2, <1>3, <1>6
<1>8. is \in BOOLEAN BY <1>2, <1>3
<1>9. mask # {} \/ (org # {} /\ bits # {}) => rects = ToClipRects(bits, at)
  <2> HIDE DEF bits, at, withFn
  <2> QED  OBVIOUS
<1>10. mask = {} /\ org = {} => rects = r.rects /\ at = r.org BY <1>3
<1> HIDE DEF withFn, at, bits, rects, is, new
<1>11. new \in GcRecords /\ new.rects = rects /\ new.org = at /\ new.bits = bits
  BY <1>1, <1>3, <1>4, <1>5, <1>7, <1>8 DEF GcRecords
<1>12. ASSUME mask # {} \/ (org # {} /\ r.bits # {}) \/ ClipFollows(r), bits # {}
       PROVE  rects = ToClipRects(bits, at)
  <2>1. CASE mask # {} \/ org # {} BY <1>9, <1>12, <2>1
  <2>2. CASE mask = {} /\ org = {} BY <1>5, <1>10, <1>12, <2>2 DEF ClipFollows
  <2> QED  BY <2>1, <2>2
<1>13. mask # {} \/ (org # {} /\ r.bits # {}) \/ ClipFollows(r) => ClipFollows(new)
  BY <1>11, <1>12 DEF ClipFollows
<1> QED  BY <1>11, <1>13 DEF new

(* A request that gives context g the record r, whose clip follows its mask  *)
(* or was taken in part. *)
LEMMA GcBecomes ==
  ASSUME GcInv, NEW g \in GcIds, NEW r \in GcRecords, Becomes(g, r), gcMask' = gcMask,
         gcPartial' \in {gcPartial, gcPartial \cup {g}, gcPartial \ {g}},
         g \notin gcPartial' => ClipFollows(r), gcPartial' = gcPartial => gcs[g] # {} \/ g \notin gcPartial
  PROVE  GcInv'
<1>1. gcs' = [gcs EXCEPT ![g] = {r}] /\ gcs \in [GcIds -> Given(GcRecords)] BY DEF Becomes, GcInv
<1>2. {r} \in Given(GcRecords) BY DEF Given
<1>3. gcs' \in [GcIds -> Given(GcRecords)] BY <1>1, <1>2
<1>4. gcs'[g] = {r} /\ \A h \in GcIds : h # g => gcs'[h] = gcs[h] BY <1>1
<1>5. gcPartial' \subseteq {h \in GcIds : gcs'[h] # {}} BY <1>4 DEF GcInv
<1>6. ASSUME NEW h \in GcIds \ gcPartial', NEW q \in gcs'[h] PROVE ClipFollows(q)
  <2>1. CASE h = g BY <1>4, <1>6, <2>1
  <2>2. CASE h # g
    <3>1. h \in GcIds \ gcPartial /\ q \in gcs[h] BY <1>4, <1>6, <2>2
    <3> QED  BY <3>1 DEF GcInv
  <2> QED  BY <2>1, <2>2
<1>7. gcMask' \in Given(GcBits) BY DEF GcInv
<1> QED  BY <1>3, <1>5, <1>6, <1>7 DEF GcInv, Given, GcRecords, ClipFollows, ToClipRects

-----------------------------------------------------------------------------
LEMMA AttrOf ==
  ASSUME GcInv, NEW g \in GcIds, gcs[g] # {}
  PROVE  Attr(g) \in GcRecords /\ gcs[g] = {Attr(g)} /\ (g \notin gcPartial => ClipFollows(Attr(g)))
<1>1. gcs[g] \in Given(GcRecords) BY DEF GcInv
<1>2. (CHOOSE v \in gcs[g] : TRUE) \in GcRecords /\ gcs[g] = {CHOOSE v \in gcs[g] : TRUE}
  BY <1>1, GivenOne
<1>3. Attr(g) \in GcRecords /\ gcs[g] = {Attr(g)} BY <1>2 DEF Attr
<1> QED  BY <1>3 DEF GcInv

LEMMA DefaultContext == Default \in GcRecords /\ ClipFollows(Default)
<1>1. {} \in Given(GcBits) /\ 0 \in GcOrigins /\ {} \in SUBSET (0..2) /\ <<>> \in Seq(Nat)
  BY DEF Given, GcOrigins
<1> QED  BY <1>1 DEF Default, GcRecords, ClipFollows

LEMMA CreateGCKeeps ==
  ASSUME GcInv, NEW g \in GcIds, NEW fn \in Given({"xor"}), NEW mask \in Given(BOOLEAN),
         NEW org \in Given(GcOrigins), CreateGC(g, fn, mask, org)
  PROVE  GcInv'
<1> DEFINE r == ApplyAux(Default, fn, mask, org)
<1>1. Becomes(g, r) /\ gcPartial' = gcPartial \ {g} /\ gcMask' = gcMask BY DEF CreateGC
<1>2. gcMask \in Given(GcBits) /\ (gcs[g] = {} => g \notin gcPartial) BY DEF GcInv
<1>3. r \in GcRecords /\ ClipFollows(r) BY <1>2, DefaultContext, AuxSound
<1> HIDE DEF r
<1>4. gcPartial' = gcPartial => gcs[g] # {} \/ g \notin gcPartial BY <1>1
<1> QED  BY <1>1, <1>3, <1>4, GcBecomes

LEMMA ChangeAttributesKeeps ==
  ASSUME GcInv, NEW g \in GcIds, NEW fn \in Given({"xor"}), NEW mask \in Given(BOOLEAN),
         NEW org \in Given(GcOrigins), ChangeAttributes(g, fn, mask, org)
  PROVE  GcInv'
<1> DEFINE a == Attr(g)
           r == ApplyAux(a, fn, mask, org)
<1>1. /\ Becomes(g, r) /\ gcMask' = gcMask /\ gcs[g] # {}
      /\ gcPartial' = IF mask # {} \/ (org # {} /\ a.bits # {}) THEN gcPartial \ {g} ELSE gcPartial
  BY DEF ChangeAttributes
<1>2. gcMask \in Given(GcBits) BY DEF GcInv
<1>3. a \in GcRecords /\ (g \notin gcPartial => ClipFollows(a)) BY <1>1, AttrOf
<1> HIDE DEF a
<1>4. r \in GcRecords /\ (mask # {} \/ (org # {} /\ a.bits # {}) \/ ClipFollows(a) => ClipFollows(r))
  BY <1>2, <1>3, AuxSound
<1> HIDE DEF r
<1>5. g \notin gcPartial' => ClipFollows(r) BY <1>1, <1>3, <1>4
<1>6. gcPartial' \in {gcPartial, gcPartial \cup {g}, gcPartial \ {g}} BY <1>1
<1> QED  BY <1>1, <1>4, <1>5, <1>6, GcBecomes

LEMMA CopyGCKeeps ==
  ASSUME GcInv, NEW s \in GcIds, NEW d \in GcIds, NEW parts \in SUBSET {"fn", "mask", "org", "dashes"},
         CopyGC(s, d, parts)
  PROVE  GcInv'
<1> DEFINE a == Attr(s)
           b == Attr(d)
           r == [fn |-> IF "fn" \in parts THEN a.fn ELSE b.fn,
                 mask |-> IF "mask" \in parts THEN a.mask ELSE b.mask,
                 bits |-> IF "mask" \in parts THEN a.bits ELSE b.bits,
                 org |-> IF "org" \in parts THEN a.org ELSE b.org,
                 rects |-> IF parts \cap {"mask", "org"} # {} THEN a.rects ELSE b.rects,
                 dashes |-> IF "dashes" \in parts THEN a.dashes ELSE b.dashes,
                 off |-> IF "off" \in parts THEN a.off ELSE b.off]
           both == parts \cap {"mask", "org"}
<1>1. /\ Becomes(d, r) /\ gcMask' = gcMask /\ gcs[s] # {} /\ gcs[d] # {}
      /\ gcPartial' = CASE Cardinality(both) = 1 -> gcPartial \cup {d}
                        [] {"mask", "org"} \subseteq parts -> IF s \in gcPartial THEN gcPartial \cup {d}
                                                              ELSE gcPartial \ {d}
                        [] OTHER -> gcPartial
  BY DEF CopyGC
<1>2. a \in GcRecords /\ b \in GcRecords /\ (s \notin gcPartial => ClipFollows(a))
      /\ (d \notin gcPartial => ClipFollows(b))
  BY <1>1, AttrOf
<1> HIDE DEF a, b
<1>3. r \in GcRecords BY <1>2 DEF GcRecords
<1>4. r.bits = (IF "mask" \in parts THEN a.bits ELSE b.bits) /\ r.org = (IF "org" \in parts THEN a.org ELSE b.org)
      /\ r.rects = IF both # {} THEN a.rects ELSE b.rects
  OBVIOUS
<1> HIDE DEF r
<1>5. Cardinality({}) = 0 /\ Cardinality({"mask"}) = 1 /\ Cardinality({"org"}) = 1 /\ Cardinality({"mask", "org"}) = 2
  <2>1. Cardinality({}) = 0 /\ Cardinality({"mask"}) = 1 /\ Cardinality({"org"}) = 1 /\ IsFiniteSet({"mask"})
    BY FS_EmptySet, FS_Singleton
  <2>2. {"mask"} \cup {"org"} = {"mask", "org"} OBVIOUS
  <2>3. Cardinality({"mask"} \cup {"org"}) = 2 BY <2>1, FS_AddElement
  <2> QED  BY <2>1, <2>2, <2>3
<1>6. CASE "mask" \in parts /\ "org" \in parts
  <2>1. both = {"mask", "org"} BY <1>6
  <2>2. gcPartial' = IF s \in gcPartial THEN gcPartial \cup {d} ELSE gcPartial \ {d}
    BY <1>1, <1>5, <1>6, <2>1
  <2>3. ClipFollows(a) => ClipFollows(r) BY <1>4, <1>6, <2>1 DEF ClipFollows
  <2>4. d \notin gcPartial' => ClipFollows(r) BY <1>2, <2>2, <2>3
  <2>5. gcPartial' \in {gcPartial, gcPartial \cup {d}, gcPartial \ {d}} BY <2>2
  <2> QED  BY <1>1, <1>3, <2>4, <2>5, GcBecomes
<1>7. CASE "mask" \notin parts /\ "org" \notin parts
  <2>1. both = {} BY <1>7
  <2>2. gcPartial' = gcPartial BY <1>1, <1>5, <1>7, <2>1
  <2>3. d \notin gcPartial' => ClipFollows(r) BY <1>2, <1>4, <1>7, <2>1, <2>2 DEF ClipFollows
  <2> QED  BY <1>1, <1>3, <2>2, <2>3, GcBecomes
<1>8. CASE ("mask" \in parts) # ("org" \in parts)
  <2>1. both = {"mask"} \/ both = {"org"} BY <1>8
  <2>2. gcPartial' = gcPartial \cup {d} BY <1>1, <1>5, <2>1
  <2>3. d \in gcPartial' /\ gcPartial' \in {gcPartial, gcPartial \cup {d}, gcPartial \ {d}} BY <2>2
  <2> QED  BY <1>1, <1>3, <2>3, GcBecomes
<1> QED  BY <1>6, <1>7, <1>8

LEMMA GcStepKeeps == GcInv /\ (GcNext \/ UNCHANGED gcVars) => GcInv'
<1> SUFFICES ASSUME GcInv, GcNext \/ UNCHANGED gcVars PROVE GcInv'
  OBVIOUS
<1>1. CASE UNCHANGED gcVars BY <1>1 DEF gcVars, GcInv
<1>2. ASSUME NEW g \in GcIds, NEW dashes \in GcDashes, NEW off \in {0, 3}, SetDashes(g, dashes, off)
      PROVE  GcInv'
  <2> DEFINE a == Attr(g)
             r == [a EXCEPT !.dashes = dashes, !.off = off]
  <2>1. Becomes(g, r) /\ gcMask' = gcMask /\ gcPartial' = gcPartial /\ gcs[g] # {}
    BY <1>2 DEF SetDashes
  <2>2. a \in GcRecords /\ (g \notin gcPartial => ClipFollows(a)) BY <2>1, AttrOf
  <2>3. dashes \in Seq(Nat) /\ off \in Nat BY GcAssumption
  <2> HIDE DEF a
  <2>4. r \in GcRecords /\ r.bits = a.bits /\ r.org = a.org /\ r.rects = a.rects
    BY <2>2, <2>3 DEF GcRecords
  <2> HIDE DEF r
  <2>5. g \notin gcPartial' => ClipFollows(r) BY <2>1, <2>2, <2>4 DEF ClipFollows
  <2> QED  BY <2>1, <2>4, <2>5, GcBecomes
<1>3. ASSUME NEW g \in GcIds, NEW cols \in GcBits, NEW org \in GcOrigins, SetClipRectangles(g, cols, org)
      PROVE  GcInv'
  <2> DEFINE a == Attr(g)
             rects == {i + org : i \in cols}
             r == [a EXCEPT !.org = org, !.rects = rects, !.mask = FALSE, !.bits = {}]
  <2>1. Becomes(g, r) /\ gcMask' = gcMask /\ gcPartial' = gcPartial \ {g} /\ gcs[g] # {}
    BY <1>3 DEF SetClipRectangles
  <2>2. a \in GcRecords BY <2>1, AttrOf
  <2>3. rects \in SUBSET (0..2) /\ {} \in Given(GcBits) BY DEF GcBits, GcOrigins, Given
  <2> HIDE DEF a, rects
  <2>4. r \in GcRecords /\ r.bits = {} BY <2>2, <2>3 DEF GcRecords
  <2> HIDE DEF r
  <2>5. ClipFollows(r) BY <2>4 DEF ClipFollows
  <2> QED  BY <2>1, <2>4, <2>5, GcBecomes
<1>6. ASSUME NEW g \in GcIds, NEW region \in Given(GcBits), NEW org \in GcOrigins, SetGCClipRegion(g, region, org)
      PROVE  GcInv'
  <2> DEFINE a == Attr(g)
             at == IF region = {} THEN 0 ELSE org
             rects == ToClipRects(region, at)
             r == [a EXCEPT !.org = at, !.rects = rects]
  <2>1. Becomes(g, r) /\ gcMask' = gcMask /\ gcPartial' = gcPartial \cup {g} /\ gcs[g] # {}
    BY <1>6 DEF SetGCClipRegion
  <2>2. a \in GcRecords BY <2>1, AttrOf
  <2>3. at \in GcOrigins BY DEF GcOrigins
  <2> HIDE DEF a, at
  <2>4. rects \in SUBSET (0..2) BY <2>3, RectsOfClip
  <2> HIDE DEF rects
  <2>5. r \in GcRecords BY <2>2, <2>3, <2>4 DEF GcRecords
  <2> HIDE DEF r
  <2> QED  BY <2>1, <2>5, GcBecomes
<1>4. ASSUME NEW g \in GcIds, FreeGC(g) PROVE GcInv'
  <2>1. gcs' = [gcs EXCEPT ![g] = {}] /\ gcPartial' = gcPartial \ {g} /\ gcMask' = gcMask
    BY <1>4 DEF FreeGC
  <2>2. {} \in Given(GcRecords) BY DEF Given
  <2> QED  BY <2>1, <2>2 DEF GcInv
<1>5. ASSUME NEW bits \in Given(GcBits), MaskChanges(bits) PROVE GcInv'
  BY <1>5 DEF MaskChanges, GcInv
<1> QED
  BY <1>1, <1>2, <1>3, <1>4, <1>5, <1>6, CreateGCKeeps, ChangeAttributesKeeps, CopyGCKeeps DEF GcNext

LEMMA GcStarts == GcInit => GcInv
<1>1. {} \in Given(GcRecords) /\ {} \in Given(GcBits) BY DEF Given
<1> QED  BY <1>1 DEF GcInit, GcInv

LEMMA GcHolds == GcInv => GcTypeOK /\ ClipCoherent
<1> SUFFICES ASSUME GcInv PROVE GcTypeOK /\ ClipCoherent
  OBVIOUS
<1>1. ASSUME NEW g \in GcIds PROVE Cardinality(gcs[g]) <= 1
  <2>1. gcs[g] \in Given(GcRecords) BY DEF GcInv
  <2> QED  BY <2>1, GivenFew
<1>2. ASSUME NEW g \in GcIds, gcs[g] # {}
      PROVE  /\ Attr(g).fn \in {"copy", "xor"} /\ Attr(g).org \in GcOrigins
             /\ Attr(g).rects \subseteq 0..2 /\ Cardinality(Attr(g).bits) <= 1
  <2>1. Attr(g) \in GcRecords BY <1>2, AttrOf
  <2>2. Attr(g).bits \in Given(GcBits) BY <2>1 DEF GcRecords
  <2>3. Cardinality(Attr(g).bits) <= 1 BY <2>2, GivenFew
  <2> QED  BY <2>1, <2>3 DEF GcRecords
<1>3. ClipCoherent BY AttrOf DEF ClipCoherent, ClipFollows, ToClipRects
<1> QED  BY <1>1, <1>2, <1>3 DEF GcTypeOK, GcInv

-----------------------------------------------------------------------------
(* XRegion: lists of rectangles and the points they stand for.  A request    *)
(* computes a list from lists; the list covers what the set operation says.  *)
RgLists == {rects \in SUBSET Rectangles : IsFiniteSet(rects)}
RgPlane == Int \X Int

LEMMA FiniteImage ==
  ASSUME NEW S, IsFiniteSet(S), NEW f
  PROVE  IsFiniteSet({f[x] : x \in S})
<1> DEFINE T == {f[x] : x \in S}
           g == [x \in S |-> f[x]]
<1>1. g \in Surjection(S, T) BY DEF Surjection
<1> HIDE DEF g, T
<1>2. IsFiniteSet(T) BY <1>1, FS_Surjection
<1> QED  BY <1>2 DEF T

LEMMA PointsAre ==
  ASSUME NEW rects \in SUBSET Rectangles
  PROVE  Points(rects) = {p \in RgPlane : Covers(rects, p)}
<1>1. ASSUME NEW p \in Points(rects) PROVE p \in RgPlane /\ Covers(rects, p)
  <2>1. PICK r \in rects : p \in (r.x..(RgRight(r) - 1)) \X (r.y..(RgBottom(r) - 1))
    BY <1>1 DEF Points
  <2>2. r.x \in Int /\ r.y \in Int /\ r.w \in Nat /\ r.h \in Nat BY DEF Rectangles
  <2>3. RgRight(r) \in Int /\ RgBottom(r) \in Int BY <2>2 DEF RgRight, RgBottom
  <2>4. /\ p = <<p[1], p[2]>> /\ p[1] \in Int /\ p[2] \in Int
        /\ r.x <= p[1] /\ p[1] < RgRight(r) /\ r.y <= p[2] /\ p[2] < RgBottom(r)
    BY <2>1, <2>2, <2>3
  <2> QED  BY <2>4 DEF Covers, RgInside, RgPlane
<1>2. ASSUME NEW p \in RgPlane, Covers(rects, p) PROVE p \in Points(rects)
  <2>1. PICK r \in rects : RgInside(r, p)
    BY <1>2 DEF Covers
  <2>2. r.x \in Int /\ r.y \in Int /\ r.w \in Nat /\ r.h \in Nat BY DEF Rectangles
  <2>3. RgRight(r) \in Int /\ RgBottom(r) \in Int BY <2>2 DEF RgRight, RgBottom
  <2>4. p = <<p[1], p[2]>> /\ p[1] \in Int /\ p[2] \in Int BY DEF RgPlane
  <2>5. p[1] \in r.x..(RgRight(r) - 1) /\ p[2] \in r.y..(RgBottom(r) - 1)
    BY <2>1, <2>2, <2>3, <2>4 DEF RgInside
  <2>6. p \in (r.x..(RgRight(r) - 1)) \X (r.y..(RgBottom(r) - 1)) BY <2>4, <2>5
  <2> QED  BY <2>6 DEF Points
<1> QED  BY <1>1, <1>2

LEMMA EmptyList == {} \in RgLists /\ Points({}) = {}
<1>1. IsFiniteSet({}) BY FS_EmptySet
<1> QED  BY <1>1 DEF RgLists, Points

LEMMA OneRectangle ==
  ASSUME NEW r \in Rectangles
  PROVE  {r} \in RgLists
BY FS_Singleton DEF RgLists

LEMMA UnionList ==
  ASSUME NEW a \in RgLists, NEW b \in RgLists
  PROVE  a \cup b \in RgLists /\ Points(a \cup b) = Points(a) \cup Points(b)
<1>1. IsFiniteSet(a \cup b) BY FS_Union DEF RgLists
<1>2. a \in SUBSET Rectangles /\ b \in SUBSET Rectangles /\ a \cup b \in SUBSET Rectangles
  BY DEF RgLists
<1>3. \A p : Covers(a \cup b, p) <=> Covers(a, p) \/ Covers(b, p) BY DEF Covers
<1> QED  BY <1>1, <1>2, <1>3, PointsAre DEF RgLists

LEMMA MovedList ==
  ASSUME NEW a \in RgLists, NEW d \in Int
  PROVE  /\ Moved(a, d) \in RgLists
         /\ Points(Moved(a, d)) = {<<p[1] + d, p[2] + d>> : p \in Points(a)}
<1> DEFINE To(r) == [r EXCEPT !.x = @ + d, !.y = @ + d]
           f == [r \in a |-> To(r)]
<1>0. a \in SUBSET Rectangles /\ IsFiniteSet(a) BY DEF RgLists
<1>1. Moved(a, d) = {f[r] : r \in a} BY DEF Moved
<1>2. IsFiniteSet(Moved(a, d))
  <2> HIDE DEF f
  <2> QED  BY <1>0, <1>1, FiniteImage
<1>3. ASSUME NEW r \in a
      PROVE  f[r] \in Rectangles /\ f[r].x = r.x + d /\ f[r].y = r.y + d /\ f[r].w = r.w /\ f[r].h = r.h
  <2>1. r \in [x : Int, y : Int, w : Nat, h : Nat] BY <1>0 DEF Rectangles
  <2>2. To(r) \in Rectangles /\ To(r).x = r.x + d /\ To(r).y = r.y + d /\ To(r).w = r.w /\ To(r).h = r.h
    <3> DEFINE one == [r EXCEPT !.x = @ + d]
    <3>1. one \in [x : Int, y : Int, w : Nat, h : Nat] BY <2>1
    <3>2. one.x = r.x + d /\ one.y = r.y /\ one.w = r.w /\ one.h = r.h BY <2>1
    <3>3. To(r) = [one EXCEPT !.y = r.y + d] OBVIOUS
    <3>4. r.x + d \in Int /\ r.y + d \in Int /\ r.w \in Nat /\ r.h \in Nat BY <2>1
    <3> HIDE DEF one, To
    <3>5. To(r) \in [x : Int, y : Int, w : Nat, h : Nat] BY <3>1, <3>3, <3>4
    <3>6. To(r).x = one.x /\ To(r).y = r.y + d /\ To(r).w = one.w /\ To(r).h = one.h BY <3>1, <3>3
    <3> QED  BY <3>2, <3>5, <3>6 DEF Rectangles
  <2> HIDE DEF To
  <2> QED  BY <2>2
<1> HIDE DEF f
<1>4. Moved(a, d) \in SUBSET Rectangles BY <1>1, <1>3
<1>5. ASSUME NEW r \in a, NEW p \in RgPlane
      PROVE  RgInside(f[r], <<p[1] + d, p[2] + d>>) <=> RgInside(r, p)
  <2>1. r.x \in Int /\ r.y \in Int /\ r.w \in Nat /\ r.h \in Nat /\ p[1] \in Int /\ p[2] \in Int
    BY <1>0 DEF Rectangles, RgPlane
  <2> QED  BY <1>3, <2>1 DEF RgInside, RgRight, RgBottom
<1>6. ASSUME NEW p \in RgPlane PROVE Covers(Moved(a, d), <<p[1] + d, p[2] + d>>) <=> Covers(a, p)
  BY <1>1, <1>5 DEF Covers
<1>7. Points(a) = {p \in RgPlane : Covers(a, p)} /\ Points(Moved(a, d)) = {p \in RgPlane : Covers(Moved(a, d), p)}
  BY <1>0, <1>4, PointsAre
<1>8. ASSUME NEW q \in Points(Moved(a, d)) PROVE \E p \in Points(a) : q = <<p[1] + d, p[2] + d>>
  <2> DEFINE p == <<q[1] - d, q[2] - d>>
  <2>1. q \in RgPlane BY <1>7
  <2>2. p \in RgPlane /\ q = <<p[1] + d, p[2] + d>> BY <2>1 DEF RgPlane
  <2> HIDE DEF p
  <2> QED  BY <1>6, <1>7, <2>2
<1>9. ASSUME NEW p \in Points(a) PROVE <<p[1] + d, p[2] + d>> \in Points(Moved(a, d))
  <2>1. p \in RgPlane BY <1>7
  <2>2. <<p[1] + d, p[2] + d>> \in RgPlane BY <2>1 DEF RgPlane
  <2> QED  BY <1>6, <1>7, <2>1, <2>2
<1> QED  BY <1>2, <1>4, <1>8, <1>9 DEF RgLists

LEMMA IntersectList ==
  ASSUME NEW a \in RgLists, NEW b \in RgLists
  PROVE  IntersectLists(a, b) \in RgLists /\ Points(IntersectLists(a, b)) = Points(a) \cap Points(b)
<1> DEFINE Meet(ra, rb) ==
             [x |-> RgMax2(ra.x, rb.x), y |-> RgMax2(ra.y, rb.y),
              w |-> RgMin2(RgRight(ra), RgRight(rb)) - RgMax2(ra.x, rb.x),
              h |-> RgMin2(RgBottom(ra), RgBottom(rb)) - RgMax2(ra.y, rb.y)]
           f == [z \in a \X b |-> Meet(z[1], z[2])]
           img == {f[z] : z \in a \X b}
           all == {Meet(ra, rb) : ra \in a, rb \in b}
<1>0. a \in SUBSET Rectangles /\ b \in SUBSET Rectangles /\ IsFiniteSet(a) /\ IsFiniteSet(b)
  BY DEF RgLists
<1>1. IntersectLists(a, b) = {o \in all : o.w > 0 /\ o.h > 0} BY DEF IntersectLists
<1>2. IsFiniteSet(a \X b) BY <1>0, FS_Product
<1>3. IsFiniteSet(img)
  <2> HIDE DEF f
  <2> QED  BY <1>2, FiniteImage
<1>4. all \subseteq img
  <2> SUFFICES ASSUME NEW ra \in a, NEW rb \in b PROVE Meet(ra, rb) \in img
    <3> HIDE DEF Meet, img
    <3> QED  OBVIOUS
  <2>1. <<ra, rb>> \in a \X b /\ f[<<ra, rb>>] = Meet(ra, rb)
    <3> HIDE DEF Meet
    <3> QED  OBVIOUS
  <2> HIDE DEF f, Meet
  <2> QED  BY <2>1
<1>5. IsFiniteSet(IntersectLists(a, b))
  <2> HIDE DEF img, all
  <2>1. IntersectLists(a, b) \in SUBSET img BY <1>1, <1>4
  <2> QED  BY <1>3, <2>1, FS_Subset
<1>6. ASSUME NEW ra \in a, NEW rb \in b, Meet(ra, rb).w > 0, Meet(ra, rb).h > 0 PROVE Meet(ra, rb) \in Rectangles
  <2>1. /\ ra.x \in Int /\ ra.y \in Int /\ ra.w \in Nat /\ ra.h \in Nat
        /\ rb.x \in Int /\ rb.y \in Int /\ rb.w \in Nat /\ rb.h \in Nat
    BY <1>0 DEF Rectangles
  <2> QED  BY <1>6, <2>1 DEF Rectangles, RgRight, RgBottom, RgMax2, RgMin2
<1> HIDE DEF Meet
<1>7. IntersectLists(a, b) \in SUBSET Rectangles BY <1>1, <1>6
<1>8. \A p \in RgPlane : Covers(IntersectLists(a, b), p) <=> Covers(a, p) /\ Covers(b, p)
  BY <1>0, IntersectExact DEF RgPlane
<1> QED  BY <1>0, <1>5, <1>7, <1>8, PointsAre DEF RgLists

-----------------------------------------------------------------------------
LEMMA SubtractOne ==
  ASSUME NEW r \in Rectangles, NEW s \in Rectangles
  PROVE  SubtractRect(r, s) \in RgLists
<1>0. /\ r.x \in Int /\ r.y \in Int /\ r.w \in Nat /\ r.h \in Nat
      /\ s.x \in Int /\ s.y \in Int /\ s.w \in Nat /\ s.h \in Nat
  BY DEF Rectangles
<1>1. CASE Disjoint(r, s) BY <1>1, OneRectangle DEF SubtractRect
<1>2. CASE ~Disjoint(r, s)
  <2> DEFINE y1 == RgMax2(r.y, s.y)
             y2 == RgMin2(RgBottom(r), RgBottom(s))
             above == [x |-> r.x, y |-> r.y, w |-> r.w, h |-> s.y - r.y]
             left == [x |-> r.x, y |-> y1, w |-> s.x - r.x, h |-> y2 - y1]
             right == [x |-> RgRight(s), y |-> y1, w |-> RgRight(r) - RgRight(s), h |-> y2 - y1]
             below == [x |-> r.x, y |-> RgBottom(s), w |-> r.w, h |-> RgBottom(r) - RgBottom(s)]
             strips == {above, left, right, below}
  <2>1. SubtractRect(r, s) = {o \in strips : o.w > 0 /\ o.h > 0} BY <1>2 DEF SubtractRect
  <2>2. y1 \in Int /\ y2 \in Int /\ RgRight(r) \in Int /\ RgRight(s) \in Int /\ RgBottom(r) \in Int /\ RgBottom(s) \in Int
    BY <1>0 DEF RgMax2, RgMin2, RgBottom, RgRight
  <2> HIDE DEF y1, y2
  <2>3. \A o \in strips : o.w > 0 /\ o.h > 0 => o \in Rectangles BY <1>0, <2>2 DEF Rectangles
  <2>4. IsFiniteSet(strips)
    <3> HIDE DEF above, left, right, below
    <3>1. IsFiniteSet({above}) /\ IsFiniteSet({left}) /\ IsFiniteSet({right}) /\ IsFiniteSet({below})
      BY FS_Singleton
    <3>2. IsFiniteSet({above} \cup {left}) /\ IsFiniteSet({right} \cup {below}) BY <3>1, FS_Union
    <3>3. IsFiniteSet(({above} \cup {left}) \cup ({right} \cup {below})) BY <3>2, FS_Union
    <3>4. strips = ({above} \cup {left}) \cup ({right} \cup {below}) OBVIOUS
    <3> QED  BY <3>3, <3>4
  <2> HIDE DEF strips
  <2>5. SubtractRect(r, s) \in SUBSET strips BY <2>1
  <2>6. IsFiniteSet(SubtractRect(r, s)) BY <2>4, <2>5, FS_Subset
  <2> QED  BY <2>1, <2>3, <2>6 DEF RgLists
<1> QED  BY <1>1, <1>2

(* One pass over a list, with one rectangle to take away. *)
TakenFrom(rects, s) == UNION {SubtractRect(r, s) : r \in rects}

LEMMA SubtractPass ==
  ASSUME NEW a \in RgLists, NEW s \in Rectangles
  PROVE  /\ TakenFrom(a, s) \in RgLists
         /\ \A p \in RgPlane : Covers(TakenFrom(a, s), p) <=> Covers(a, p) /\ ~RgInside(s, p)
<1> DEFINE f == [r \in a |-> SubtractRect(r, s)]
           img == {f[r] : r \in a}
<1>0. a \in SUBSET Rectangles /\ IsFiniteSet(a) BY DEF RgLists
<1>1. TakenFrom(a, s) = UNION img /\ \A r \in a : f[r] = SubtractRect(r, s) BY DEF TakenFrom
<1>2. IsFiniteSet(img)
  <2> HIDE DEF f
  <2> QED  BY <1>0, FiniteImage
<1>3. \A r \in a : SubtractRect(r, s) \in RgLists BY <1>0, SubtractOne
<1>4. \A T \in img : IsFiniteSet(T) /\ T \in SUBSET Rectangles BY <1>3 DEF RgLists
<1>5. IsFiniteSet(UNION img)
  <2> HIDE DEF img
  <2> QED  BY <1>2, <1>4, FS_UNION
<1>6. TakenFrom(a, s) \in RgLists
  <2> HIDE DEF img
  <2> QED  BY <1>1, <1>4, <1>5 DEF RgLists
<1>7. ASSUME NEW p \in RgPlane PROVE Covers(TakenFrom(a, s), p) <=> Covers(a, p) /\ ~RgInside(s, p)
  <2>1. \A r \in a : Covers(SubtractRect(r, s), p) <=> RgInside(r, p) /\ ~RgInside(s, p)
    BY <1>0, SubtractExact DEF RgPlane
  <2>2. Covers(TakenFrom(a, s), p) <=> \E r \in a : Covers(SubtractRect(r, s), p)
    BY DEF Covers, TakenFrom
  <2> QED  BY <2>1, <2>2 DEF Covers
<1> QED  BY <1>6, <1>7

(* subtract_rects, one rectangle of the second list after the other. *)
LEMMA SubtractList ==
  ASSUME NEW a \in RgLists, NEW b \in RgLists
  PROVE  SubtractRects(a, b) \in RgLists /\ Points(SubtractRects(a, b)) = Points(a) \ Points(b)
<1> DEFINE At(g, t) == IF t = {} THEN a ELSE TakenFrom(g[t \ {Pick(t)}], Pick(t))
           left == CHOOSE g : g = [t \in SUBSET b |-> At(g, t)]
           H == [z \in b \X RgLists |-> TakenFrom(z[2], z[1])]
<1>0. a \in SUBSET Rectangles /\ b \in SUBSET Rectangles /\ IsFiniteSet(a) /\ IsFiniteSet(b)
  BY DEF RgLists
<1>1. SubtractRects(a, b) = left[b] BY DEF SubtractRects, Pick, TakenFrom
<1>2. ASSUME NEW s \in b, NEW rects \in RgLists PROVE TakenFrom(rects, s) \in RgLists
  BY <1>0, SubtractPass
<1>3. H \in [b \X RgLists -> RgLists] /\ \A s \in b, rects \in RgLists : H[<<s, rects>>] = TakenFrom(rects, s)
  BY <1>2
<1> HIDE DEF H
<1>4. PICK f : FoldsAll(f, b, RgLists, a, H)
  <2>1. Foldable(b, RgLists, a, H) BY <1>0, <1>3 DEF Foldable
  <2> QED  BY <2>1, FoldExists
<1>5. \A t \in SUBSET b : f[t] = At(f, t)
  <2> SUFFICES ASSUME NEW t \in SUBSET b PROVE f[t] = At(f, t)
    OBVIOUS
  <2>1. CASE t = {} BY <1>4, <2>1 DEF Folds, FoldsAll
  <2>2. CASE t # {}
    <3>1. Pick(t) \in b /\ f[t \ {Pick(t)}] \in RgLists BY <1>4, <2>2 DEF Pick, FoldsAll
    <3>2. f[t] = H[<<Pick(t), f[t \ {Pick(t)}]>>] BY <1>4, <2>2 DEF Folds, FoldsAll
    <3> QED  BY <1>3, <2>2, <3>1, <3>2
  <2> QED  BY <2>1, <2>2
<1>6. f = [t \in SUBSET b |-> At(f, t)] BY <1>4, <1>5 DEF FoldsAll
<1>7. left = [t \in SUBSET b |-> At(left, t)]
  <2>1. \E g : g = [t \in SUBSET b |-> At(g, t)] BY <1>6
  <2> QED  BY <2>1
<1> HIDE DEF left
<1> DEFINE V == {z \in (SUBSET b) \X RgLists : \A p \in RgPlane : Covers(z[2], p) <=> Covers(a, p) /\ ~Covers(z[1], p)}
           g == [t \in SUBSET b |-> <<t, left[t]>>]
<1>8. g[{}] \in V
  <2>1. left[{}] = a /\ {} \in SUBSET b /\ g[{}] = <<{}, left[{}]>> BY <1>7
  <2>2. \A p : ~Covers({}, p) BY DEF Covers
  <2> HIDE DEF g
  <2> QED  BY <2>1, <2>2
<1>9. ASSUME NEW t \in SUBSET b, t # {}, g[t \ {Pick(t)}] \in V PROVE g[t] \in V
  <2> DEFINE s == Pick(t)
             u == t \ {s}
  <2>1. s \in t /\ u \in SUBSET b BY <1>9 DEF Pick
  <2>2. left[t] = TakenFrom(left[u], s) /\ g[t] = <<t, left[t]>> /\ g[u] = <<u, left[u]>>
    BY <1>7, <1>9, <2>1
  <2> HIDE DEF s, g
  <2>3. g[u] \in V BY <1>9 DEF s
  <2>4. left[u] \in RgLists /\ \A p \in RgPlane : Covers(left[u], p) <=> Covers(a, p) /\ ~Covers(u, p)
    BY <2>2, <2>3
  <2>5. /\ TakenFrom(left[u], s) \in RgLists
        /\ \A p \in RgPlane : Covers(TakenFrom(left[u], s), p) <=> Covers(left[u], p) /\ ~RgInside(s, p)
    BY <1>0, <2>1, <2>4, SubtractPass
  <2>6. \A p : Covers(t, p) <=> Covers(u, p) \/ RgInside(s, p) BY <2>1 DEF Covers
  <2> HIDE DEF u
  <2> QED  BY <2>2, <2>4, <2>5, <2>6
<1> HIDE DEF V, g
<1>10. g[b] \in V BY <1>0, <1>8, <1>9, FoldStays
<1>11. g[b] = <<b, left[b]>> BY DEF g
<1>12. left[b] \in RgLists /\ \A p \in RgPlane : Covers(left[b], p) <=> Covers(a, p) /\ ~Covers(b, p)
  BY <1>10, <1>11 DEF V
<1>13. left[b] \in SUBSET Rectangles BY <1>12 DEF RgLists
<1>14. /\ Points(left[b]) = {p \in RgPlane : Covers(left[b], p)}
       /\ Points(a) = {p \in RgPlane : Covers(a, p)} /\ Points(b) = {p \in RgPlane : Covers(b, p)}
  BY <1>0, <1>13, PointsAre
<1> QED  BY <1>1, <1>12, <1>14

-----------------------------------------------------------------------------
HasEnds(S) == (\E v \in S : \A u \in S : v <= u) /\ (\E v \in S : \A u \in S : v >= u)

LEMMA FiniteEnds ==
  ASSUME NEW S \in SUBSET Int, IsFiniteSet(S), S # {}
  PROVE  HasEnds(S)
<1> DEFINE T == {n \in Nat : \A s \in SUBSET S : s # {} /\ Cardinality(s) <= n => HasEnds(s)}
<1>0. \A s \in SUBSET S : IsFiniteSet(s) /\ Cardinality(s) \in Nat /\ Cardinality(s) <= Cardinality(S)
  BY FS_Subset, FS_CardinalityType
<1>1. 0 \in T
  <2> SUFFICES ASSUME NEW s \in SUBSET S, s # {}, Cardinality(s) <= 0 PROVE FALSE
    OBVIOUS
  <2>1. Cardinality(s) = 0 /\ IsFiniteSet(s) BY <1>0
  <2> QED  BY <2>1, FS_EmptySet
<1>2. ASSUME NEW n \in Nat, n \in T PROVE n + 1 \in T
  <2> SUFFICES ASSUME NEW s \in SUBSET S, s # {}, Cardinality(s) <= n + 1 PROVE HasEnds(s)
    OBVIOUS
  <2> DEFINE x == Pick(s)
             t == s \ {x}
  <2>1. x \in s /\ IsFiniteSet(t) /\ Cardinality(t) = Cardinality(s) - 1 /\ Cardinality(s) \in Nat
    BY <1>0, Picked
  <2> HIDE DEF x
  <2>2. t \in SUBSET S /\ Cardinality(t) <= n BY <2>1
  <2>3. CASE t = {}
    <3>1. s = {x} /\ x \in Int BY <2>1, <2>3
    <3> QED  BY <3>1 DEF HasEnds
  <2>4. CASE t # {}
    <3>1. HasEnds(t) BY <1>2, <2>2, <2>4
    <3>2. PICK v \in t, w \in t : (\A u \in t : v <= u) /\ (\A u \in t : w >= u)
      BY <3>1 DEF HasEnds
    <3>3. x \in Int /\ v \in Int /\ w \in Int /\ v \in s /\ w \in s /\ \A u \in s : u \in Int /\ (u = x \/ u \in t)
      BY <2>1
    <3>4. \E z \in s : \A u \in s : z <= u
      <4>1. CASE v <= x BY <3>2, <3>3, <4>1
      <4>2. CASE ~(v <= x) BY <2>1, <3>2, <3>3, <4>2
      <4> QED  BY <4>1, <4>2
    <3>5. \E z \in s : \A u \in s : z >= u
      <4>1. CASE w >= x BY <3>2, <3>3, <4>1
      <4>2. CASE ~(w >= x) BY <2>1, <3>2, <3>3, <4>2
      <4> QED  BY <4>1, <4>2
    <3> QED  BY <3>4, <3>5 DEF HasEnds
  <2> QED  BY <2>3, <2>4
<1> HIDE DEF T
<1>3. Cardinality(S) \in T BY <1>0, <1>1, <1>2, NumInduction
<1> QED  BY <1>0, <1>3 DEF T

(* region_extents and compute_extents: the rectangle around a list. *)
LEMMA ExtentsRect ==
  ASSUME NEW a \in RgLists
  PROVE  Extents(a) \in Rectangles
<1>0. a \in SUBSET Rectangles /\ IsFiniteSet(a) BY DEF RgLists
<1>1. CASE a = {} BY <1>1 DEF Extents, Rectangles
<1>2. CASE a # {}
  <2> DEFINE X == {r.x : r \in a}
             Y == {r.y : r \in a}
             R == {RgRight(r) : r \in a}
             B == {RgBottom(r) : r \in a}
             least(S) == CHOOSE v \in S : \A u \in S : v <= u
             most(S) == CHOOSE v \in S : \A u \in S : v >= u
             fx == [r \in a |-> r.x]
             fy == [r \in a |-> r.y]
             fr == [r \in a |-> RgRight(r)]
             fb == [r \in a |-> RgBottom(r)]
  <2>1. Extents(a) = [x |-> least(X), y |-> least(Y), w |-> most(R) - least(X), h |-> most(B) - least(Y)]
    BY <1>2 DEF Extents
  <2>2. ASSUME NEW r \in a
        PROVE  /\ r.x \in Int /\ r.y \in Int /\ RgRight(r) \in Int /\ RgBottom(r) \in Int
               /\ r.x <= RgRight(r) /\ r.y <= RgBottom(r)
    <3>1. r.x \in Int /\ r.y \in Int /\ r.w \in Nat /\ r.h \in Nat BY <1>0 DEF Rectangles
    <3> QED  BY <3>1 DEF RgRight, RgBottom
  <2>3. X = {fx[r] : r \in a} /\ Y = {fy[r] : r \in a} /\ R = {fr[r] : r \in a} /\ B = {fb[r] : r \in a}
    OBVIOUS
  <2>4. IsFiniteSet(X) /\ IsFiniteSet(Y) /\ IsFiniteSet(R) /\ IsFiniteSet(B)
    <3> HIDE DEF fx, fy, fr, fb, X, Y, R, B
    <3> QED  BY <1>0, <2>3, FiniteImage
  <2>5. /\ X \in SUBSET Int /\ Y \in SUBSET Int /\ R \in SUBSET Int /\ B \in SUBSET Int
        /\ X # {} /\ Y # {} /\ R # {} /\ B # {}
    BY <1>2, <2>2
  <2>6. HasEnds(X) /\ HasEnds(Y) /\ HasEnds(R) /\ HasEnds(B)
    <3> HIDE DEF X, Y, R, B
    <3> QED  BY <2>4, <2>5, FiniteEnds
  <2>7. PICK r \in a : TRUE
    BY <1>2
  <2>8. r.x \in X /\ r.y \in Y /\ RgRight(r) \in R /\ RgBottom(r) \in B OBVIOUS
  <2> HIDE DEF X, Y, R, B
  <2>9. /\ least(X) \in X /\ \A u \in X : least(X) <= u
        /\ least(Y) \in Y /\ \A u \in Y : least(Y) <= u
    BY <2>6 DEF HasEnds
  <2>10. /\ most(R) \in R /\ \A u \in R : most(R) >= u
         /\ most(B) \in B /\ \A u \in B : most(B) >= u
    BY <2>6 DEF HasEnds
  <2> HIDE DEF least, most
  <2>11. /\ least(X) \in Int /\ least(Y) \in Int /\ most(R) \in Int /\ most(B) \in Int
         /\ least(X) <= r.x /\ least(Y) <= r.y /\ RgRight(r) <= most(R) /\ RgBottom(r) <= most(B)
    BY <2>2, <2>5, <2>8, <2>9, <2>10
  <2>12. most(R) - least(X) \in Nat /\ most(B) - least(Y) \in Nat BY <2>2, <2>11
  <2> QED  BY <2>1, <2>11, <2>12 DEF Rectangles
<1> QED  BY <1>1, <1>2

ColumnFits(a, b) == a.x = b.x /\ a.w = b.w /\ RgBottom(a) = b.y
ColumnJoin(a, b) == [a EXCEPT !.h = @ + b.h]
ColumnPass(rs) == IF \E a, b \in rs : ColumnFits(a, b)
                  THEN LET p == CHOOSE p \in rs \X rs : ColumnFits(p[1], p[2])
                       IN  (rs \ {p[1], p[2]}) \cup {ColumnJoin(p[1], p[2])}
                  ELSE rs

LEMMA ColumnPassKeeps ==
  ASSUME NEW rs \in RgLists
  PROVE  ColumnPass(rs) \in RgLists
<1>0. rs \in SUBSET Rectangles /\ IsFiniteSet(rs) BY DEF RgLists
<1>1. CASE ~ \E a, b \in rs : ColumnFits(a, b) BY <1>1 DEF ColumnPass
<1>2. CASE \E a, b \in rs : ColumnFits(a, b)
  <2> DEFINE p == CHOOSE p \in rs \X rs : ColumnFits(p[1], p[2])
             kept == rs \ {p[1], p[2]}
             one == ColumnJoin(p[1], p[2])
  <2>1. ColumnPass(rs) = kept \cup {one} BY <1>2 DEF ColumnPass
  <2>2. \E q \in rs \X rs : ColumnFits(q[1], q[2])
    <3>1. PICK a \in rs, b \in rs : ColumnFits(a, b)
      BY <1>2
    <3>2. <<a, b>> \in rs \X rs /\ <<a, b>>[1] = a /\ <<a, b>>[2] = b OBVIOUS
    <3> QED  BY <3>1, <3>2
  <2>3. p[1] \in rs /\ p[2] \in rs BY <2>2
  <2> HIDE DEF p
  <2>4. p[1] \in [x : Int, y : Int, w : Nat, h : Nat] /\ p[2] \in [x : Int, y : Int, w : Nat, h : Nat]
    BY <1>0, <2>3 DEF Rectangles
  <2>5. one \in Rectangles BY <2>4 DEF ColumnJoin, Rectangles
  <2> HIDE DEF one
  <2>6. kept \in SUBSET rs OBVIOUS
  <2>7. IsFiniteSet(kept) BY <1>0, <2>6, FS_Subset
  <2>8. kept \in RgLists BY <1>0, <2>6, <2>7 DEF RgLists
  <2>9. {one} \in RgLists BY <2>5, OneRectangle
  <2> HIDE DEF kept
  <2> QED  BY <2>1, <2>8, <2>9, UnionList
<1> QED  BY <1>1, <1>2

LEMMA CoalescedList ==
  ASSUME NEW a \in RgLists
  PROVE  Coalesced(a) \in RgLists
<1> DEFINE K == Cardinality(a)
           after == CHOOSE g : g = [n \in 0..K |-> IF n = 0 THEN a ELSE ColumnPass(g[n - 1])]
           H == [y \in (1..K) \X RgLists |-> ColumnPass(y[2])]
<1>1. Coalesced(a) = after[K] BY DEF Coalesced, ColumnPass, ColumnFits, ColumnJoin
<1>2. K \in Nat BY FS_CardinalityType DEF RgLists
<1> HIDE DEF K
<1>3. H \in [(1..K) \X RgLists -> RgLists] /\ \A i \in 1..K, x \in RgLists : H[<<i, x>>] = ColumnPass(x)
  BY ColumnPassKeeps
<1> HIDE DEF H
<1>4. PICK f \in [0..K -> RgLists] : Recurs(f, K, a, H)
  BY <1>2, <1>3, RecursionExists
<1>5. ASSUME NEW i \in 0..K PROVE f[i] = IF i = 0 THEN a ELSE ColumnPass(f[i - 1])
  <2>1. f[i] = IF i = 0 THEN a ELSE H[<<i, f[i - 1]>>] BY <1>4 DEF Recurs
  <2>2. CASE i = 0 BY <2>1, <2>2
  <2>3. CASE i # 0
    <3>1. i \in 1..K /\ i - 1 \in 0..K BY <1>2, <2>3
    <3>2. f[i - 1] \in RgLists BY <1>4, <3>1
    <3> QED  BY <1>3, <2>1, <2>3, <3>1, <3>2
  <2> QED  BY <2>2, <2>3
<1>6. f = [n \in 0..K |-> IF n = 0 THEN a ELSE ColumnPass(f[n - 1])] BY <1>4, <1>5
<1>7. after = [n \in 0..K |-> IF n = 0 THEN a ELSE ColumnPass(after[n - 1])]
  <2>1. \E g : g = [n \in 0..K |-> IF n = 0 THEN a ELSE ColumnPass(g[n - 1])] BY <1>6
  <2> QED  BY <2>1
<1> HIDE DEF after
<1> DEFINE T == {i \in Nat : i <= K => after[i] \in RgLists}
<1>8. 0 \in T BY <1>2, <1>7
<1>9. ASSUME NEW i \in Nat, i \in T PROVE i + 1 \in T
  <2> SUFFICES ASSUME i + 1 <= K PROVE after[i + 1] \in RgLists
    OBVIOUS
  <2>1. i + 1 \in 0..K /\ i + 1 # 0 /\ (i + 1) - 1 = i /\ i <= K BY <1>2
  <2>2. after[i + 1] = ColumnPass(after[i]) BY <1>7, <2>1
  <2>3. after[i] \in RgLists BY <1>9, <2>1
  <2> QED  BY <2>2, <2>3, ColumnPassKeeps
<1> HIDE DEF T
<1>10. K \in T BY <1>2, <1>8, <1>9, NumInduction
<1>11. K <= K BY <1>2
<1> QED  BY <1>1, <1>10, <1>11 DEF T

LEMMA BitmapList ==
  ASSUME NEW pixels
  PROVE  ShapeFromPixmap(pixels) \in RgLists
<1> DEFINE runs == {[x |-> x, y |-> y, w |-> w, h |-> 1] : x \in 0..1, y \in 0..1, w \in 1..2}
           whole(r) == \A x \in 0..1 : (RgInside(r, <<x, r.y>>) => <<x, r.y>> \in pixels)
           ends(r) == <<r.x - 1, r.y>> \notin pixels /\ <<RgRight(r), r.y>> \notin pixels
           them == {r \in runs : RgRight(r) <= 2 /\ whole(r) /\ ends(r)}
           D == ((0..1) \X (0..1)) \X (1..2)
           f == [z \in D |-> [x |-> z[1][1], y |-> z[1][2], w |-> z[2], h |-> 1]]
           img == {f[z] : z \in D}
<1>1. ShapeFromPixmap(pixels) = Coalesced(them) BY DEF ShapeFromPixmap
<1>2. IsFiniteSet(D)
  <2>1. 0 \in Int /\ 1 \in Int /\ 2 \in Int OBVIOUS
  <2>2. IsFiniteSet(0..1) BY <2>1, FS_Interval
  <2>3. IsFiniteSet(1..2) BY <2>1, FS_Interval
  <2>4. IsFiniteSet((0..1) \X (0..1)) BY <2>2, FS_Product
  <2> QED  BY <2>3, <2>4, FS_Product
<1>3. IsFiniteSet(img)
  <2> HIDE DEF f, D
  <2> QED  BY <1>2, FiniteImage
<1>4. runs \subseteq img
  <2> SUFFICES ASSUME NEW x \in 0..1, NEW y \in 0..1, NEW w \in 1..2 PROVE [x |-> x, y |-> y, w |-> w, h |-> 1] \in img
    <3> HIDE DEF img
    <3> QED  OBVIOUS
  <2>1. <<<<x, y>>, w>> \in D /\ f[<<<<x, y>>, w>>] = [x |-> x, y |-> y, w |-> w, h |-> 1] OBVIOUS
  <2> HIDE DEF f, D
  <2> QED  BY <2>1
<1>5. runs \subseteq Rectangles BY DEF Rectangles
<1> HIDE DEF runs, img
<1>6. them \in SUBSET img /\ them \in SUBSET Rectangles BY <1>4, <1>5
<1>7. them \in RgLists BY <1>3, <1>6, FS_Subset DEF RgLists
<1> QED  BY <1>1, <1>7, CoalescedList

-----------------------------------------------------------------------------
RgInv ==
    /\ rgRegion \in [RgIds -> Given(RgLists)] /\ rgArea \in [RgIds -> SUBSET RgPlane]
    /\ rgShape \in [RgKinds -> Given(RgLists)]
    /\ Cardinality(rgNotify) <= 1 /\ rgSteps \in 0..RgMaxSteps
    /\ RegionExact

LEMMA GivenUnion ==
  ASSUME NEW S, NEW X \in Given(S)
  PROVE  /\ X = {} => UNION X = {}
         /\ X # {} => UNION X \in S /\ X = {UNION X}
<1>1. CASE X = {} BY <1>1
<1>2. CASE X # {}
  <2>1. PICK v \in S : X = {v}
    BY <1>2 DEF Given
  <2>2. UNION {v} = v OBVIOUS
  <2> QED  BY <2>1, <2>2
<1> QED  BY <1>1, <1>2

LEMMA GivenList ==
  ASSUME NEW X \in Given(RgLists)
  PROVE  UNION X \in RgLists
BY GivenUnion, EmptyList

LEMMA RegionList ==
  ASSUME RgInv, NEW i \in RgIds
  PROVE  RectsOf(i) \in RgLists /\ Points(RectsOf(i)) = rgArea[i]
BY GivenList DEF RgInv, RectsOf, RegionExact

LEMMA StepCounts ==
  ASSUME rgSteps \in 0..RgMaxSteps, RgStep
  PROVE  rgSteps' \in 0..RgMaxSteps
BY RgAssumption DEF RgStep

LEMMA NoneTold == Cardinality({}) <= 1
BY FS_EmptySet

LEMMA PutKeeps ==
  ASSUME RgInv, NEW i \in RgIds, NEW rects \in RgLists, RgPut(i, rects, Points(rects))
  PROVE  RgInv'
<1>1. /\ rgRegion' = [rgRegion EXCEPT ![i] = {rects}] /\ rgArea' = [rgArea EXCEPT ![i] = Points(rects)]
      /\ rgShape' = rgShape /\ rgNotify' = {} /\ RgStep
  BY DEF RgPut, RgSilent, rgShapes
<1>2. {rects} \in Given(RgLists) /\ UNION {rects} = rects BY DEF Given
<1>3. Points(rects) \in SUBSET RgPlane BY PointsAre DEF RgLists
<1>4. rgRegion' \in [RgIds -> Given(RgLists)] /\ rgArea' \in [RgIds -> SUBSET RgPlane]
  BY <1>1, <1>2, <1>3 DEF RgInv
<1>5. ASSUME NEW j \in RgIds PROVE Points(UNION rgRegion'[j]) = rgArea'[j]
  <2>1. CASE j = i BY <1>1, <1>2, <2>1 DEF RgInv
  <2>2. CASE j # i BY <1>1, <2>2 DEF RgInv, RegionExact, RectsOf
  <2> QED  BY <2>1, <2>2
<1>6. rgSteps' \in 0..RgMaxSteps BY <1>1, StepCounts DEF RgInv
<1>7. RegionExact' BY <1>5 DEF RegionExact, RectsOf
<1>8. rgShape' \in [RgKinds -> Given(RgLists)] /\ Cardinality(rgNotify') <= 1
  BY <1>1, NoneTold DEF RgInv
<1> QED  BY <1>4, <1>6, <1>7, <1>8 DEF RgInv

LEMMA FullWindow == RgFull \in Rectangles /\ {RgFull} \in RgLists
<1>1. RgFull \in Rectangles BY DEF RgFull, Rectangles
<1> QED  BY <1>1, OneRectangle

LEMMA RegionRequests ==
  ASSUME RgInv, RgRegionNext
  PROVE  RgInv'
<1>0. RgRects \subseteq Rectangles /\ RgMoves \subseteq Int BY RgAssumption
<1>1. ASSUME NEW i \in RgIds, NEW rects \in RgPairs, SetRegion(i, rects) \/ CreateRegion(i, rects)
      PROVE  RgInv'
  <2>1. rects \in RgLists
    <3>1. CASE rects = {} BY <3>1, EmptyList
    <3>2. CASE rects # {}
      <4>1. PICK r \in RgRects, s \in RgRects : rects = {r, s}
        BY <3>2 DEF RgPairs
      <4>2. {r} \in RgLists /\ {s} \in RgLists BY <1>0, OneRectangle
      <4>3. {r} \cup {s} \in RgLists /\ {r} \cup {s} = {r, s} BY <4>2, UnionList
      <4> QED  BY <4>1, <4>3
    <3> QED  BY <3>1, <3>2
  <2> QED  BY <1>1, <2>1, PutKeeps DEF SetRegion, CreateRegion
<1>2. ASSUME NEW i \in RgIds, NEW there \in BOOLEAN, CreateRegionFromDrawable(i, there) \/ CreateRegionFromPicture(i, {}, there)
      PROVE  RgInv'
  <2> DEFINE rects == IF there THEN {RgFull} ELSE {}
  <2>1. rects \in RgLists BY FullWindow, EmptyList
  <2>2. RgPut(i, rects, Points(rects)) BY <1>2 DEF CreateRegionFromDrawable, CreateRegionFromPicture
  <2> HIDE DEF rects
  <2> QED  BY <2>1, <2>2, PutKeeps
<1>3. ASSUME NEW i \in RgIds, NEW r \in RgRects, CreateRegionFromGC(i, {r}) \/ CreateRegionFromPicture(i, {{r}}, TRUE)
      PROVE  RgInv'
  <2>1. {r} \in RgLists BY <1>0, OneRectangle
  <2>2. {{r}} # {} /\ UNION {{r}} = {r} OBVIOUS
  <2>3. RgPut(i, {r}, Points({r})) BY <1>3, <2>2 DEF CreateRegionFromGC, CreateRegionFromPicture
  <2> QED  BY <2>1, <2>3, PutKeeps
<1>4. ASSUME NEW i \in RgIds, NEW m \in RgMoves, TranslateRegion(i, m) PROVE RgInv'
  <2>1. RectsOf(i) \in RgLists /\ Points(RectsOf(i)) = rgArea[i] /\ m \in Int BY <1>0, RegionList
  <2>2. Moved(RectsOf(i), m) \in RgLists /\ Points(Moved(RectsOf(i), m)) = {<<p[1] + m, p[2] + m>> : p \in rgArea[i]}
    BY <2>1, MovedList
  <2>3. RgPut(i, Moved(RectsOf(i), m), Points(Moved(RectsOf(i), m)))
    BY <1>4, <2>2 DEF TranslateRegion
  <2> QED  BY <2>2, <2>3, PutKeeps
<1>5. ASSUME NEW i \in RgIds, DestroyRegion(i) PROVE RgInv'
  <2>1. /\ rgRegion' = [rgRegion EXCEPT ![i] = {}] /\ rgArea' = [rgArea EXCEPT ![i] = {}]
        /\ rgShape' = rgShape /\ rgNotify' = {} /\ RgStep
    BY <1>5 DEF DestroyRegion, RgSilent, rgShapes
  <2>2. {} \in Given(RgLists) /\ UNION {} = {} /\ Points({}) = {} BY EmptyList DEF Given
  <2>3. ASSUME NEW j \in RgIds PROVE Points(UNION rgRegion'[j]) = rgArea'[j]
    <3>1. CASE j = i BY <2>1, <2>2, <3>1 DEF RgInv
    <3>2. CASE j # i BY <2>1, <3>2 DEF RgInv, RegionExact, RectsOf
    <3> QED  BY <3>1, <3>2
  <2>4. rgSteps' \in 0..RgMaxSteps BY <2>1, StepCounts DEF RgInv
  <2>5. RegionExact' BY <2>3 DEF RegionExact, RectsOf
  <2>6. /\ rgRegion' \in [RgIds -> Given(RgLists)] /\ rgArea' \in [RgIds -> SUBSET RgPlane]
        /\ rgShape' \in [RgKinds -> Given(RgLists)] /\ Cardinality(rgNotify') <= 1
    BY <2>1, <2>2, NoneTold DEF RgInv
  <2> QED  BY <2>4, <2>5, <2>6 DEF RgInv
<1>6. ASSUME NEW i \in RgIds, NEW d \in RgIds, CopyRegion(i, d) \/ RegionExtents(i, d) \/ ExpandRegion(i, d) PROVE RgInv'
  <2>0. RectsOf(i) \in RgLists /\ Points(RectsOf(i)) = rgArea[i] BY RegionList
  <2>1. CASE CopyRegion(i, d)
    <3>1. RgPut(d, RectsOf(i), Points(RectsOf(i))) BY <2>0, <2>1 DEF CopyRegion
    <3> QED  BY <2>0, <3>1, PutKeeps
  <2>2. CASE RegionExtents(i, d)
    <3> DEFINE e == Extents(RectsOf(i))
    <3>1. RgPut(d, {e}, Points({e})) BY <2>2 DEF RegionExtents
    <3>2. e \in Rectangles BY <2>0, ExtentsRect
    <3> HIDE DEF e
    <3>3. {e} \in RgLists BY <3>2, OneRectangle
    <3> QED  BY <3>1, <3>3, PutKeeps
  <2>3. CASE ExpandRegion(i, d)
    <3> DEFINE a == RectsOf(i)
               grown == {[x |-> q.x - 1, y |-> q.y - 1, w |-> q.w + 2, h |-> q.h + 2] : q \in a}
               f == [q \in a |-> [x |-> q.x - 1, y |-> q.y - 1, w |-> q.w + 2, h |-> q.h + 2]]
    <3>1. RgPut(d, grown, Points(grown)) BY <2>3 DEF ExpandRegion
    <3> HIDE DEF a
    <3>2. a \in SUBSET Rectangles /\ IsFiniteSet(a) BY <2>0 DEF RgLists, a
    <3>3. grown = {f[q] : q \in a} OBVIOUS
    <3>4. IsFiniteSet({f[q] : q \in a})
      <4> HIDE DEF f
      <4> QED  BY <3>2, FiniteImage
    <3>5. grown \in SUBSET Rectangles
      <4> SUFFICES ASSUME NEW q \in a
                   PROVE  [x |-> q.x - 1, y |-> q.y - 1, w |-> q.w + 2, h |-> q.h + 2] \in Rectangles
        OBVIOUS
      <4>1. q.x \in Int /\ q.y \in Int /\ q.w \in Nat /\ q.h \in Nat BY <3>2 DEF Rectangles
      <4> QED  BY <4>1 DEF Rectangles
    <3>6. grown \in RgLists BY <3>3, <3>4, <3>5 DEF RgLists
    <3> HIDE DEF grown
    <3> QED  BY <3>1, <3>6, PutKeeps
  <2> QED  BY <1>6, <2>1, <2>2, <2>3
<1>7. ASSUME NEW i \in RgIds, NEW d \in RgIds, NEW b \in RgRects, InvertRegion(i, b, d) PROVE RgInv'
  <2>0. RectsOf(i) \in RgLists /\ Points(RectsOf(i)) = rgArea[i] /\ {b} \in RgLists
    BY <1>0, RegionList, OneRectangle
  <2>1. SubtractRects({b}, RectsOf(i)) \in RgLists
        /\ Points(SubtractRects({b}, RectsOf(i))) = Points({b}) \ rgArea[i]
    BY <2>0, SubtractList
  <2>2. RgPut(d, SubtractRects({b}, RectsOf(i)), Points(SubtractRects({b}, RectsOf(i))))
    BY <1>7, <2>1 DEF InvertRegion
  <2> QED  BY <2>1, <2>2, PutKeeps
<1>8. ASSUME NEW i \in RgIds, NEW j \in RgIds, NEW d \in RgIds,
             UnionRegion(i, j, d) \/ IntersectRegion(i, j, d) \/ SubtractRegion(i, j, d)
      PROVE  RgInv'
  <2> DEFINE a == RectsOf(i)
             b == RectsOf(j)
  <2>0. a \in RgLists /\ Points(a) = rgArea[i] /\ b \in RgLists /\ Points(b) = rgArea[j]
    BY RegionList
  <2>1. /\ UnionRegion(i, j, d) => RgPut(d, a \cup b, rgArea[i] \cup rgArea[j])
        /\ IntersectRegion(i, j, d) => RgPut(d, IntersectLists(a, b), rgArea[i] \cap rgArea[j])
        /\ SubtractRegion(i, j, d) => RgPut(d, SubtractRects(a, b), rgArea[i] \ rgArea[j])
    BY DEF UnionRegion, IntersectRegion, SubtractRegion
  <2> HIDE DEF a, b
  <2>2. CASE UnionRegion(i, j, d)
    <3>1. a \cup b \in RgLists /\ Points(a \cup b) = rgArea[i] \cup rgArea[j] BY <2>0, UnionList
    <3> QED  BY <2>1, <2>2, <3>1, PutKeeps
  <2>3. CASE IntersectRegion(i, j, d)
    <3>1. IntersectLists(a, b) \in RgLists /\ Points(IntersectLists(a, b)) = rgArea[i] \cap rgArea[j]
      BY <2>0, IntersectList
    <3> QED  BY <2>1, <2>3, <3>1, PutKeeps
  <2>4. CASE SubtractRegion(i, j, d)
    <3>1. SubtractRects(a, b) \in RgLists /\ Points(SubtractRects(a, b)) = rgArea[i] \ rgArea[j]
      BY <2>0, SubtractList
    <3> QED  BY <2>1, <2>4, <3>1, PutKeeps
  <2> QED  BY <1>8, <2>2, <2>3, <2>4
<1>9. ASSUME NEW i \in RgIds,
             \/ \E rects \in RgPairs : SetRegion(i, rects) \/ CreateRegion(i, rects)
             \/ \E there \in BOOLEAN : CreateRegionFromDrawable(i, there)
             \/ \E r \in RgRects : CreateRegionFromGC(i, {r}) \/ CreateRegionFromPicture(i, {{r}}, TRUE)
             \/ \E there \in BOOLEAN : CreateRegionFromPicture(i, {}, there)
             \/ \E m \in RgMoves : TranslateRegion(i, m)
             \/ DestroyRegion(i)
      PROVE  RgInv'
  <2>1. CASE \E rects \in RgPairs : SetRegion(i, rects) \/ CreateRegion(i, rects)
    <3>1. PICK rects \in RgPairs : SetRegion(i, rects) \/ CreateRegion(i, rects)
      BY <2>1
    <3> QED  BY <1>1, <3>1
  <2>2. CASE \E there \in BOOLEAN : CreateRegionFromDrawable(i, there) \/ CreateRegionFromPicture(i, {}, there)
    BY <1>2, <2>2
  <2>3. CASE \E r \in RgRects : CreateRegionFromGC(i, {r}) \/ CreateRegionFromPicture(i, {{r}}, TRUE)
    BY <1>3, <2>3
  <2> QED  BY <1>4, <1>5, <1>9, <2>1, <2>2, <2>3
<1> QED  BY <1>6, <1>7, <1>8, <1>9 DEF RgRegionNext

-----------------------------------------------------------------------------
LEMMA OrNoneList ==
  ASSUME NEW rects \in RgLists
  PROVE  OrNone(rects) \in Given(RgLists) /\ UNION OrNone(rects) = rects
BY DEF OrNone, Given

LEMMA ApplyShapeList ==
  ASSUME RgInv, NEW k \in RgKinds, NEW op \in RgOps, NEW new \in Given(RgLists)
  PROVE  ApplyShape(k, op, new) \in Given(RgLists)
<1> DEFINE old == rgShape[k]
           o == UNION old
           n == UNION new
<1>1. old \in Given(RgLists) /\ o \in RgLists /\ n \in RgLists /\ {{}} \in Given(RgLists)
  <2>1. old \in Given(RgLists) /\ {{}} \in Given(RgLists) BY EmptyList DEF RgInv, Given
  <2> QED  BY <2>1, GivenList
<1> HIDE DEF o, n
<1>2. /\ OrNone(o \cup n) \in Given(RgLists) /\ OrNone(IntersectLists(o, n)) \in Given(RgLists)
      /\ OrNone(SubtractRects(o, n)) \in Given(RgLists) /\ OrNone(SubtractRects({RgFull}, n)) \in Given(RgLists)
      /\ OrNone(SubtractRects(n, o)) \in Given(RgLists)
  <2>1. /\ o \cup n \in RgLists /\ IntersectLists(o, n) \in RgLists /\ SubtractRects(o, n) \in RgLists
        /\ SubtractRects({RgFull}, n) \in RgLists /\ SubtractRects(n, o) \in RgLists
    BY <1>1, UnionList, IntersectList, SubtractList, FullWindow
  <2> QED  BY <2>1, OrNoneList
<1> HIDE DEF old
<1>3. CASE op = "set"
  <2>1. ApplyShape(k, op, new) = new BY <1>3 DEF ApplyShape
  <2> QED  BY <2>1
<1>4. CASE op = "union"
  <2>1. ApplyShape(k, op, new) = OrNone(o \cup n) BY <1>4 DEF ApplyShape, o, n, old
  <2> QED  BY <1>2, <2>1
<1>5. CASE op = "intersect"
  <2>1. ApplyShape(k, op, new) = IF old = {} THEN new ELSE IF new = {} THEN old ELSE OrNone(IntersectLists(o, n))
    BY <1>5 DEF ApplyShape, o, n, old
  <2> QED  BY <1>1, <1>2, <2>1
<1>6. CASE op = "subtract"
  <2>1. ApplyShape(k, op, new) = IF new = {} THEN old ELSE OrNone(SubtractRects(IF old = {} THEN {RgFull} ELSE o, n))
    BY <1>6 DEF ApplyShape, o, n, old
  <2>2. CASE old = {}
    <3>1. (IF old = {} THEN {RgFull} ELSE o) = {RgFull} BY <2>2
    <3> QED  BY <1>1, <1>2, <2>1, <3>1
  <2>3. CASE old # {}
    <3>1. (IF old = {} THEN {RgFull} ELSE o) = o BY <2>3
    <3> QED  BY <1>1, <1>2, <2>1, <3>1
  <2> QED  BY <2>2, <2>3
<1>7. CASE op = "invert"
  <2>1. ApplyShape(k, op, new) = IF old = {} THEN {{}} ELSE IF new = {} THEN old ELSE OrNone(SubtractRects(n, o))
    BY <1>7 DEF ApplyShape, o, n, old
  <2> QED  BY <1>1, <1>2, <2>1
<1> QED  BY <1>3, <1>4, <1>5, <1>6, <1>7 DEF RgOps

LEMMA NotifyFew ==
  ASSUME NEW k, NEW s, SendShapeNotify(k, s)
  PROVE  Cardinality(rgNotify') <= 1
<1> DEFINE e == [kind |-> k, shaped |-> ShapeExtents(s).shaped, extents |-> ShapeExtents(s).extents]
<1>1. rgNotify' = {} \/ rgNotify' = {e} BY DEF SendShapeNotify
<1> HIDE DEF e
<1>2. Cardinality({e}) = 1 /\ Cardinality({}) = 0 BY FS_Singleton, FS_EmptySet
<1> QED  BY <1>1, <1>2

LEMMA ShapeToKeeps ==
  ASSUME RgInv, NEW k \in RgKinds, NEW s \in Given(RgLists), RgShapeTo(k, s), Cardinality(rgNotify') <= 1
  PROVE  RgInv'
<1>1. rgShape' = [rgShape EXCEPT ![k] = s] /\ RgStep /\ rgRegion' = rgRegion /\ rgArea' = rgArea
  BY DEF RgShapeTo
<1>2. rgShape' \in [RgKinds -> Given(RgLists)] BY <1>1 DEF RgInv
<1>3. rgSteps' \in 0..RgMaxSteps BY <1>1, StepCounts DEF RgInv
<1>4. RegionExact' BY <1>1 DEF RgInv, RegionExact, RectsOf
<1> QED  BY <1>1, <1>2, <1>3, <1>4 DEF RgInv

LEMMA ShapeChangesKeeps ==
  ASSUME RgInv, NEW k \in RgKinds, NEW s \in Given(RgLists), ShapeChanges(k, s)
  PROVE  RgInv'
BY NotifyFew, ShapeToKeeps DEF ShapeChanges

LEMMA MovedGiven ==
  ASSUME NEW X \in Given(RgLists), NEW m \in Int
  PROVE  {Moved(s, m) : s \in X} \in Given(RgLists)
<1>1. CASE X = {} BY <1>1 DEF Given
<1>2. CASE X # {}
  <2>1. PICK v \in RgLists : X = {v}
    BY <1>2 DEF Given
  <2>2. Moved(v, m) \in RgLists BY MovedList
  <2>3. {Moved(s, m) : s \in X} = {Moved(v, m)} BY <2>1
  <2> QED  BY <2>2, <2>3 DEF Given
<1> QED  BY <1>1, <1>2

LEMMA ShapeRequests ==
  ASSUME RgInv, RgShapeNext
  PROVE  RgInv'
<1>0. RgRects \subseteq Rectangles /\ RgMoves \subseteq Int /\ {"bounding", "clip"} \subseteq RgKinds
  BY RgAssumption DEF RgKinds
<1>1. ASSUME NEW k \in RgKinds, NEW op \in RgOps, NEW rects \in RgOnes, ShapeRectangles(k, op, rects)
      PROVE  RgInv'
  <2> DEFINE new == IF rects = {} /\ op = "set" THEN {} ELSE {rects}
  <2>1. rects \in RgLists
    <3>1. CASE rects = {} BY <3>1, EmptyList
    <3>2. CASE rects # {} BY <1>0, <3>2, OneRectangle DEF RgOnes
    <3> QED  BY <3>1, <3>2
  <2>2. new \in Given(RgLists) BY <2>1 DEF Given
  <2>3. ShapeChanges(k, ApplyShape(k, op, new)) BY <1>1 DEF ShapeRectangles
  <2> HIDE DEF new
  <2>4. ApplyShape(k, op, new) \in Given(RgLists) BY <2>2, ApplyShapeList
  <2> QED  BY <2>3, <2>4, ShapeChangesKeeps
<1>2. ASSUME NEW k \in RgKinds, NEW op \in RgOps, NEW pixels \in {{}, {{<<0, 0>>, <<0, 1>>}}}, ShapeMask(k, op, pixels)
      PROVE  RgInv'
  <2> DEFINE new == {ShapeFromPixmap(p) : p \in pixels}
             two == {<<0, 0>>, <<0, 1>>}
  <2>1. new \in Given(RgLists)
    <3>1. CASE pixels = {} BY <3>1 DEF Given
    <3>2. CASE pixels = {two}
      <4> HIDE DEF two
      <4>1. new = {ShapeFromPixmap(two)} /\ ShapeFromPixmap(two) \in RgLists BY <3>2, BitmapList
      <4> HIDE DEF new
      <4> QED  BY <4>1 DEF Given
    <3> QED  BY <3>1, <3>2
  <2>2. ShapeChanges(k, ApplyShape(k, op, new)) BY <1>2 DEF ShapeMask
  <2> HIDE DEF new
  <2>3. ApplyShape(k, op, new) \in Given(RgLists) BY <2>1, ApplyShapeList
  <2> QED  BY <2>2, <2>3, ShapeChangesKeeps
<1>3. ASSUME NEW k \in RgKinds, NEW op \in RgOps, NEW from \in RgKinds, ShapeCombine(k, op, from, 0)
      PROVE  RgInv'
  <2> DEFINE new == {Moved(WindowShape(from), 0)}
  <2>1. WindowShape(from) \in RgLists
    <3>1. UNION rgShape[from] \in RgLists /\ UNION rgShape["bounding"] \in RgLists
      BY <1>0, GivenList DEF RgInv
    <3> QED  BY <3>1, FullWindow DEF WindowShape
  <2>2. new \in Given(RgLists) BY <2>1, MovedList DEF Given
  <2>3. ShapeChanges(k, ApplyShape(k, op, new)) BY <1>3 DEF ShapeCombine
  <2> HIDE DEF new
  <2>4. ApplyShape(k, op, new) \in Given(RgLists) BY <2>2, ApplyShapeList
  <2> QED  BY <2>3, <2>4, ShapeChangesKeeps
<1>4. ASSUME NEW k \in RgKinds, NEW m \in RgMoves, ShapeOffset(k, m) PROVE RgInv'
  <2>1. rgShape[k] \in Given(RgLists) /\ m \in Int BY <1>0 DEF RgInv
  <2>2. {Moved(s, m) : s \in rgShape[k]} \in Given(RgLists) BY <2>1, MovedGiven
  <2> QED  BY <1>4, <2>2, ShapeChangesKeeps DEF ShapeOffset
<1>5. ASSUME NEW k \in RgKinds, NEW m \in RgMoves, NEW i \in RgIds, SetWindowShapeRegion(k, i, m) PROVE RgInv'
  <2>1. rgRegion[i] \in Given(RgLists) /\ m \in Int BY <1>0 DEF RgInv
  <2>2. {Moved(s, m) : s \in rgRegion[i]} \in Given(RgLists) BY <2>1, MovedGiven
  <2>3. RgShapeTo(k, {Moved(s, m) : s \in rgRegion[i]}) /\ rgNotify' = {}
    BY <1>5 DEF SetWindowShapeRegion, RgSilent
  <2>4. Cardinality(rgNotify') <= 1 BY <2>3, NoneTold
  <2> QED  BY <2>2, <2>3, <2>4, ShapeToKeeps
<1>6. ASSUME NEW enable \in BOOLEAN, ShapeSelectInput(enable) PROVE RgInv'
  <2>1. RgStep /\ rgNotify' = {} /\ rgRegion' = rgRegion /\ rgArea' = rgArea /\ rgShape' = rgShape
    BY <1>6 DEF ShapeSelectInput, RgSilent
  <2>2. rgSteps' \in 0..RgMaxSteps BY <2>1, StepCounts DEF RgInv
  <2>3. RegionExact' BY <2>1 DEF RgInv, RegionExact, RectsOf
  <2> QED  BY <2>1, <2>2, <2>3, NoneTold DEF RgInv
<1>7. CASE \E k \in {"bounding", "clip"}, op \in RgOps :
        \/ \E rects \in RgOnes : ShapeRectangles(k, op, rects)
        \/ \E pixels \in {{}, {{<<0, 0>>, <<0, 1>>}}} : ShapeMask(k, op, pixels)
        \/ \E from \in RgKinds : ShapeCombine(k, op, from, 0)
  <2>1. PICK k \in {"bounding", "clip"}, op \in RgOps :
        \/ \E rects \in RgOnes : ShapeRectangles(k, op, rects)
        \/ \E pixels \in {{}, {{<<0, 0>>, <<0, 1>>}}} : ShapeMask(k, op, pixels)
        \/ \E from \in RgKinds : ShapeCombine(k, op, from, 0)
    BY <1>7
  <2>2. k \in RgKinds BY <1>0
  <2>3. CASE \E rects \in RgOnes : ShapeRectangles(k, op, rects) BY <1>1, <2>2, <2>3
  <2>4. CASE \E pixels \in {{}, {{<<0, 0>>, <<0, 1>>}}} : ShapeMask(k, op, pixels)
    BY <1>2, <2>2, <2>4
  <2>5. CASE \E from \in RgKinds : ShapeCombine(k, op, from, 0) BY <1>3, <2>2, <2>5
  <2> QED  BY <2>1, <2>3, <2>4, <2>5
<1>8. CASE \E k \in RgKinds, m \in RgMoves : ShapeOffset(k, m) \/ \E i \in RgIds : SetWindowShapeRegion(k, i, m)
  BY <1>4, <1>5, <1>8
<1>9. CASE \E enable \in BOOLEAN : ShapeSelectInput(enable) BY <1>6, <1>9
<1> QED  BY <1>7, <1>8, <1>9 DEF RgShapeNext

LEMMA RgStepKeeps == RgInv /\ (RgNext \/ UNCHANGED rgVars) => RgInv'
<1>1. ASSUME RgInv, UNCHANGED rgVars PROVE RgInv'
  BY <1>1 DEF RgInv, rgVars, RegionExact, RectsOf
<1> QED  BY <1>1, RegionRequests, ShapeRequests DEF RgNext

LEMMA RgStarts == RgInit => RgInv
<1> SUFFICES ASSUME RgInit PROVE RgInv
  OBVIOUS
<1>1. {} \in Given(RgLists) /\ {} \in SUBSET RgPlane /\ UNION {} = {} /\ Points({}) = {}
  BY EmptyList DEF Given
<1>2. RegionExact BY <1>1 DEF RgInit, RegionExact, RectsOf
<1> QED  BY <1>1, <1>2, NoneTold, RgAssumption DEF RgInit, RgInv

(* Whatever list a window's shape is, the four operations leave the points   *)
(* they mean, or remove it when there are none.                              *)
LEMMA NoneMeansNone ==
  ASSUME NEW l \in RgLists
  PROVE  IF OrNone(l) = {} THEN Points(l) = {} ELSE Points(UNION OrNone(l)) = Points(l)
BY DEF OrNone, Points

LEMMA ShapesExact == RgInv => ShapeOpsExact
<1> SUFFICES ASSUME RgInv, NEW r \in RgRects
             PROVE  LET old == Points(WindowShape("bounding"))
                        new == Points({r})
                        leaves(op, meant) == LET got == ApplyShape("bounding", op, {{r}})
                                             IN  IF got = {} THEN meant = {} ELSE Points(UNION got) = meant
                    IN  /\ leaves("subtract", old \ new)
                        /\ rgShape["bounding"] # {} => /\ leaves("union", old \cup new)
                                                       /\ leaves("intersect", old \cap new)
                                                       /\ leaves("invert", new \ old)
  BY DEF ShapeOpsExact
<1> DEFINE k == "bounding"
           q == {{r}}
           s == WindowShape(k)
<1>1. rgShape[k] \in Given(RgLists) /\ {r} \in RgLists /\ {RgFull} \in RgLists
  BY RgAssumption, OneRectangle, FullWindow DEF RgInv, RgKinds
<1>2. s \in RgLists /\ s = IF rgShape[k] = {} THEN {RgFull} ELSE UNION rgShape[k]
  BY <1>1, GivenList DEF WindowShape
<1>3. q # {} /\ UNION q = {r} OBVIOUS
<1>4. /\ ApplyShape(k, "subtract", q) = OrNone(SubtractRects(s, {r}))
      /\ rgShape[k] # {} => /\ ApplyShape(k, "union", q) = OrNone(s \cup {r})
                            /\ ApplyShape(k, "intersect", q) = OrNone(IntersectLists(s, {r}))
                            /\ ApplyShape(k, "invert", q) = OrNone(SubtractRects({r}, s))
  <2> HIDE DEF q, k, s
  <2> QED  BY <1>2, <1>3 DEF ApplyShape
<1> HIDE DEF s
<1>5. /\ s \cup {r} \in RgLists /\ Points(s \cup {r}) = Points(s) \cup Points({r})
      /\ IntersectLists(s, {r}) \in RgLists /\ Points(IntersectLists(s, {r})) = Points(s) \cap Points({r})
      /\ SubtractRects(s, {r}) \in RgLists /\ Points(SubtractRects(s, {r})) = Points(s) \ Points({r})
      /\ SubtractRects({r}, s) \in RgLists /\ Points(SubtractRects({r}, s)) = Points({r}) \ Points(s)
  BY <1>1, <1>2, UnionList, IntersectList, SubtractList
<1> QED  BY <1>4, <1>5, NoneMeansNone DEF s

LEMMA RgHolds == RgInv => RgTypeOK
<1> SUFFICES ASSUME RgInv PROVE RgTypeOK
  OBVIOUS
<1>1. ASSUME NEW X \in Given(RgLists) PROVE Cardinality(X) <= 1 /\ UNION X \subseteq Rectangles
  <2>1. UNION X \in RgLists BY GivenList
  <2> QED  BY <2>1, GivenFew DEF RgLists
<1>2. \A i \in RgIds : rgRegion[i] \in Given(RgLists) /\ rgArea[i] \subseteq Int \X Int
  BY DEF RgInv, RgPlane
<1>3. \A k \in RgKinds : rgShape[k] \in Given(RgLists) BY DEF RgInv
<1> QED  BY <1>1, <1>2, <1>3 DEF RgTypeOK, RgInv, RectsOf

-----------------------------------------------------------------------------
LEMMA AlgorithmsStart == MCInit => GcInv /\ RgInv
BY GcStarts, RgStarts DEF MCInit

LEMMA AlgorithmsStep == GcInv /\ RgInv /\ [MCNext]_mcVars => GcInv' /\ RgInv'
<1> SUFFICES ASSUME GcInv, RgInv, [MCNext]_mcVars PROVE GcInv' /\ RgInv'
  OBVIOUS
<1>1. GcNext \/ UNCHANGED gcVars BY DEF MCNext, mcVars
<1>2. RgNext \/ UNCHANGED rgVars BY DEF MCNext, mcVars
<1> QED  BY <1>1, <1>2, GcStepKeeps, RgStepKeeps

(* MCXResources, for any graphics contexts, dash lists, RENDER operators,    *)
(* region ids, rectangles and offsets in the requests and any number of      *)
(* requests: clips follow their masks, dashes and exposures are exact, the   *)
(* lists of rectangles of a region and of a shape cover exactly the points   *)
(* the requests mean, compositing keeps a colour within its alpha and divides *)
(* by nothing, and the GLX decoders read no further than their buffer.       *)
THEOREM AlgorithmsAgree == MCSpec => []DrawingAlgorithms
<1>1. GcInv /\ RgInv => DrawingAlgorithms
  <2>1. ExposuresExact /\ DashesAgree /\ ZeroSafe /\ ColourWithinAlpha /\ RepeatInside
    BY ExposuresProved, DashesProved, ZeroProved, ColourProved, RepeatProved
  <2>2. WalkContiguous /\ DecodersInside BY WalkProved, DecodersProved
  <2>3. RgInv => RegionExact BY DEF RgInv
  <2> QED  BY <2>1, <2>2, <2>3, GcHolds, ShapesExact DEF DrawingAlgorithms
<1> QED  BY <1>1, AlgorithmsStart, AlgorithmsStep, PTL DEF MCSpec

-----------------------------------------------------------------------------
(***************************************************************************)
(* The types of the other resources: SYNC, RENDER, colormaps and cursors.  *)
(***************************************************************************)
SyAlarmRecords == [cnt : SyCounters, val : SyValues, test : SyTests, delta : Int,
                   events : BOOLEAN, active : BOOLEAN]

CntTypes == syCnt \in [SyCounters -> SUBSET SyValues] /\ syTime \in 0..SyMaxTime
AlarmTypes == syAlarm \in [SyAlarms -> SUBSET SyAlarmRecords]
FenceTypes == syFence \in [SyFences -> SUBSET BOOLEAN]
OneWait ==
    /\ \A v, w \in syAwaits \cup syFenceAwaits : v = w
    /\ ~syBlocked => syAwaits \cup syFenceAwaits = {}
SyTypes == CntTypes /\ AlarmTypes /\ FenceTypes /\ OneWait

LEMMA WrapIn == \A v \in Int : SyWrap(v) \in SyValues
BY DEF SyWrap, SyValues

LEMMA ValueIn == ASSUME CntTypes, NEW i \in SyCounters PROVE ValueOf(syCnt, i) \in SyValues
<1>1. CASE syCnt[i] = {} BY <1>1 DEF ValueOf, SyValues
<1>2. CASE syCnt[i] # {}
  <2>1. SyThe(syCnt[i]) \in syCnt[i] BY <1>2 DEF SyThe
  <2> QED  BY <1>2, <2>1 DEF ValueOf, CntTypes
<1> QED  BY <1>1, <1>2

(* A counter gets a value, or is gone. *)
LEMMA CounterGets ==
  ASSUME CntTypes, NEW i, NEW S \in SUBSET SyValues,
         syCnt' = [syCnt EXCEPT ![i] = S], syTime' = syTime
  PROVE  CntTypes'
BY DEF CntTypes

LEMMA CntStep == ASSUME CntTypes, SyNext PROVE CntTypes'
<1>0. ASSUME UNCHANGED <<syCnt, syTime>> PROVE CntTypes'
  BY <1>0 DEF CntTypes
<1>1. ASSUME NEW a \in SyAlarms,
             \/ \E x \in AlarmsToMake : CreateAlarm(a, x)
             \/ DestroyAlarm(a) \/ \E d \in SyDeltas : ChangeAlarm(a, d)
      PROVE  CntTypes'
  BY <1>0, <1>1 DEF CreateAlarm, DestroyAlarm, ChangeAlarm
<1>2. ASSUME NEW i \in SyCounters, NEW v \in {0, 3}, CreateCounter(i, v) PROVE CntTypes'
  <2>1. {v} \in SUBSET SyValues BY DEF SyValues
  <2>2. syCnt' = [syCnt EXCEPT ![i] = {v}] /\ syTime' = syTime BY <1>2 DEF CreateCounter
  <2> QED  BY <2>1, <2>2, CounterGets
<1>3. ASSUME NEW i \in SyCounters, NEW v \in SyValues, CounterSet(i, v) PROVE CntTypes'
  <2> DEFINE S == IF syCnt[i] = {} THEN {} ELSE {v}
  <2>1. syCnt' = [syCnt EXCEPT ![i] = S] /\ syTime' = syTime BY <1>3 DEF CounterSet
  <2>2. S \in SUBSET SyValues OBVIOUS
  <2> HIDE DEF S
  <2> QED  BY <2>1, <2>2, CounterGets
<1>4. ASSUME NEW i \in SyCounters, NEW v \in {0, 3}, SetCounter(i, v) PROVE CntTypes'
  <2>1. v \in SyValues BY DEF SyValues
  <2> QED  BY <1>3, <1>4, <2>1 DEF SetCounter
<1>5. ASSUME NEW i \in SyCounters, NEW d \in SyDeltas, ChangeCounter(i, d) PROVE CntTypes'
  <2>1. ValueOf(syCnt, i) \in Int /\ d \in Int BY ValueIn, SyAssumption DEF SyValues
  <2>2. SyWrap(ValueOf(syCnt, i) + d) \in SyValues BY <2>1, WrapIn
  <2> QED  BY <1>3, <1>5, <2>2 DEF ChangeCounter
<1>6. ASSUME NEW i \in SyCounters, DestroyCounter(i) PROVE CntTypes'
  <2>1. syCnt' = [syCnt EXCEPT ![i] = {}] /\ syTime' = syTime BY <1>6 DEF DestroyCounter
  <2>2. {} \in SUBSET SyValues OBVIOUS
  <2> QED  BY <2>1, <2>2, CounterGets
<1>7. ASSUME NEW i \in SyCounters, FrontendResizes(i) PROVE CntTypes'
  <2> DEFINE S == {SyWrap(SyThe(syCnt[i]) + 1)}
  <2>1. syCnt' = [syCnt EXCEPT ![i] = S] /\ syTime' = syTime /\ syCnt[i] # {}
    BY <1>7 DEF FrontendResizes
  <2>2. SyThe(syCnt[i]) \in SyValues BY <2>1 DEF SyThe, CntTypes
  <2>3. S \in SUBSET SyValues BY <2>2, WrapIn DEF SyValues
  <2> HIDE DEF S
  <2> QED  BY <2>1, <2>3, CounterGets
<1>8. ASSUME (\E t, u \in SyTriggers : Await({t, u})) \/ \E w \in SUBSET SyFences : AwaitFence(w)
      PROVE  CntTypes'
  BY <1>0, <1>8 DEF Await, AwaitFence
<1>9. ASSUME NEW f \in SyFences, TriggerFence(f) \/ ResetFence(f) \/ DestroyFence(f)
                                 \/ \E b \in BOOLEAN : CreateFence(f, b)
      PROVE  CntTypes'
  BY <1>0, <1>9 DEF TriggerFence, ResetFence, DestroyFence, CreateFence, FencesSet
<1>10. CASE SyClock BY <1>10 DEF SyClock, CntTypes, SyMaxTime
<1>11. CASE SyTick
  <2> DEFINE S == IF syCnt[SyTimeId] = {} THEN {} ELSE {syTime}
  <2>1. syCnt' = [syCnt EXCEPT ![SyTimeId] = S] /\ syTime' = syTime BY <1>11 DEF SyTick
  <2>2. S \in SUBSET SyValues BY DEF CntTypes, SyMaxTime, SyValues
  <2> HIDE DEF S
  <2> QED  BY <2>1, <2>2, CounterGets
<1> QED  BY <1>1, <1>2, <1>4, <1>5, <1>6, <1>7, <1>8, <1>9, <1>10, <1>11 DEF SyNext

(* Firing an alarm, and changing it, leaves a record. *)
LEMMA FiredAlarm == ASSUME NEW x \in SyAlarmRecords PROVE AfterFiring(x) \in SyAlarmRecords
<1>1. SyWrap(x.val + x.delta) \in SyValues
  <2>1. x.val \in Int /\ x.delta \in Int BY DEF SyAlarmRecords, SyValues
  <2> QED  BY <2>1, WrapIn
<1> DEFINE u == SyWrap(x.val + x.delta)
<1>2. AfterFiring(x) \in {[x EXCEPT !.val = u], [x EXCEPT !.active = FALSE]} BY DEF AfterFiring
<1> HIDE DEF u
<1>3. [x EXCEPT !.val = u] \in SyAlarmRecords BY <1>1 DEF SyAlarmRecords, u
<1>4. [x EXCEPT !.active = FALSE] \in SyAlarmRecords BY DEF SyAlarmRecords
<1> QED  BY <1>2, <1>3, <1>4

LEMMA CheckedAlarms ==
  ASSUME AlarmTypes, NEW i, NEW old, NEW new, CheckAlarms(i, old, new)
  PROVE  AlarmTypes'
<1> DEFINE t == Triggered(i, old, new)
           F(S) == {AfterFiring(x) : x \in S}
<1>1. syAlarm' = [a \in SyAlarms |-> IF a \in t THEN F(syAlarm[a]) ELSE syAlarm[a]]
  BY DEF CheckAlarms
<1>2. \A a \in SyAlarms : syAlarm[a] \subseteq SyAlarmRecords /\ F(syAlarm[a]) \subseteq SyAlarmRecords
  BY FiredAlarm DEF AlarmTypes
<1> HIDE DEF t, F
<1> QED  BY <1>1, <1>2 DEF AlarmTypes

LEMMA AlarmTypesStep == ASSUME AlarmTypes, SyNext PROVE AlarmTypes'
<1>0. ASSUME AlarmsKept PROVE AlarmTypes'
  BY <1>0 DEF AlarmsKept, AlarmTypes
<1>1. ASSUME NEW a \in SyAlarms, NEW S \in SUBSET SyAlarmRecords, syAlarm' = [syAlarm EXCEPT ![a] = S]
      PROVE  AlarmTypes'
  BY <1>1 DEF AlarmTypes
<1>2. ASSUME NEW a \in SyAlarms, NEW x \in AlarmsToMake, CreateAlarm(a, x) PROVE AlarmTypes'
  <2>1. x \in SyAlarmRecords
    <3> DEFINE one == {1}
               yes == {TRUE}
    <3>1. one \subseteq SyValues /\ yes \subseteq BOOLEAN BY DEF SyValues
    <3>2. x \in [cnt : SyCounters, val : one, test : SyTests, delta : SyDeltas, events : yes, active : yes]
      BY DEF AlarmsToMake
    <3> HIDE DEF one, yes
    <3> QED  BY <3>1, <3>2, SyAssumption DEF SyAlarmRecords
  <2> QED  BY <1>1, <1>2, <2>1 DEF CreateAlarm
<1>3. ASSUME NEW a \in SyAlarms, DestroyAlarm(a) PROVE AlarmTypes'
  BY <1>1, <1>3 DEF DestroyAlarm
<1>4. ASSUME NEW a \in SyAlarms, NEW d \in SyDeltas, ChangeAlarm(a, d) PROVE AlarmTypes'
  <2> DEFINE C(x) == [x EXCEPT !.delta = d, !.active = TRUE]
             S == {C(x) : x \in syAlarm[a]}
  <2>1. syAlarm' = [syAlarm EXCEPT ![a] = S] BY <1>4 DEF ChangeAlarm
  <2>2. ASSUME NEW x \in SyAlarmRecords PROVE C(x) \in SyAlarmRecords
    <3>1. [x EXCEPT !.delta = d] \in SyAlarmRecords BY SyAssumption DEF SyAlarmRecords
    <3> DEFINE y == [x EXCEPT !.delta = d]
    <3>2. C(x) = [y EXCEPT !.active = TRUE] BY DEF SyAlarmRecords
    <3> HIDE DEF y, C
    <3>3. [y EXCEPT !.active = TRUE] \in SyAlarmRecords BY <3>1 DEF SyAlarmRecords, y
    <3> QED  BY <3>2, <3>3
  <2> HIDE DEF C
  <2>3. S \in SUBSET SyAlarmRecords BY <2>2 DEF AlarmTypes
  <2> HIDE DEF S
  <2> QED  BY <1>1, <2>1, <2>3
<1>5. ASSUME NEW i \in SyCounters, DestroyCounter(i) PROVE AlarmTypes'
  <2> DEFINE C(x) == [x EXCEPT !.active = @ /\ x.cnt # i]
  <2>1. syAlarm' = [a \in SyAlarms |-> {C(x) : x \in syAlarm[a]}] BY <1>5 DEF DestroyCounter
  <2>2. ASSUME NEW x \in SyAlarmRecords PROVE C(x) \in SyAlarmRecords
    <3>1. (x.active /\ x.cnt # i) \in BOOLEAN OBVIOUS
    <3> DEFINE b == x.active /\ x.cnt # i
    <3>2. C(x) = [x EXCEPT !.active = b] OBVIOUS
    <3> HIDE DEF b, C
    <3>3. [x EXCEPT !.active = b] \in SyAlarmRecords BY <3>1 DEF SyAlarmRecords, b
    <3> QED  BY <3>2, <3>3
  <2> HIDE DEF C
  <2>3. \A a \in SyAlarms : {C(x) : x \in syAlarm[a]} \in SUBSET SyAlarmRecords
    BY <2>2 DEF AlarmTypes
  <2> QED  BY <2>1, <2>3 DEF AlarmTypes
<1>6. ASSUME NEW i \in SyCounters, NEW v, CounterSet(i, v) PROVE AlarmTypes'
  <2>1. CheckAlarms(i, ValueOf(syCnt, i), v) BY <1>6 DEF CounterSet
  <2> QED  BY <2>1, CheckedAlarms
<1>7. CASE SyTick
  <2>1. AlarmsKept \/ CheckAlarms(SyTimeId, SyThe(syCnt[SyTimeId]), syTime) BY <1>7 DEF SyTick
  <2> QED  BY <1>0, <2>1, CheckedAlarms
<1>8. ASSUME \/ \E i \in SyCounters : FrontendResizes(i) \/ \E v \in {0, 3} : CreateCounter(i, v)
             \/ \E t, u \in SyTriggers : Await({t, u})
             \/ \E f \in SyFences : TriggerFence(f) \/ ResetFence(f) \/ DestroyFence(f)
                                    \/ \E b \in BOOLEAN : CreateFence(f, b)
             \/ \E w \in SUBSET SyFences : w # {} /\ AwaitFence(w)
             \/ SyClock
      PROVE  AlarmsKept
  <2>1. ASSUME NEW i \in SyCounters, FrontendResizes(i) \/ \E v \in {0, 3} : CreateCounter(i, v)
        PROVE  AlarmsKept
    BY <2>1 DEF FrontendResizes, CreateCounter
  <2>2. ASSUME NEW w, Await(w) \/ AwaitFence(w) PROVE AlarmsKept
    BY <2>2 DEF Await, AwaitFence
  <2>3. ASSUME NEW f \in SyFences, TriggerFence(f) \/ ResetFence(f) \/ DestroyFence(f)
                                   \/ \E b \in BOOLEAN : CreateFence(f, b)
        PROVE  AlarmsKept
    BY <2>3 DEF TriggerFence, ResetFence, DestroyFence, CreateFence, FencesSet
  <2>4. SyClock => AlarmsKept BY DEF SyClock, AlarmsKept
  <2> QED  BY <1>8, <2>1, <2>2, <2>3, <2>4
<1> QED  BY <1>0, <1>2, <1>3, <1>4, <1>5, <1>6, <1>7, <1>8 DEF SyNext, SetCounter, ChangeCounter

LEMMA FenceTypesStep == ASSUME FenceTypes, SyNext PROVE FenceTypes'
<1>0. ASSUME UNCHANGED syFence PROVE FenceTypes'
  BY <1>0 DEF FenceTypes
<1>1. ASSUME NEW f \in SyFences, NEW S \in SUBSET BOOLEAN, syFence' = [syFence EXCEPT ![f] = S]
      PROVE  FenceTypes'
  BY <1>1 DEF FenceTypes
<1>2. ASSUME NEW f \in SyFences, NEW b \in BOOLEAN, CreateFence(f, b) PROVE FenceTypes'
  <2>1. syFence' = [syFence EXCEPT ![f] = {b}] BY <1>2 DEF CreateFence, FencesSet
  <2>2. {b} \in SUBSET BOOLEAN OBVIOUS
  <2> QED  BY <1>1, <2>1, <2>2
<1>3. ASSUME NEW f \in SyFences, TriggerFence(f) \/ ResetFence(f) \/ DestroyFence(f) PROVE FenceTypes'
  <2>1. \E S \in {{}, {TRUE}, {FALSE}} : syFence' = [syFence EXCEPT ![f] = S]
    <3>1. CASE TriggerFence(f)
      <4> DEFINE S == IF syFence[f] = {} THEN {} ELSE {TRUE}
      <4>1. syFence' = [syFence EXCEPT ![f] = S] BY <3>1 DEF TriggerFence, FencesSet
      <4>2. S \in {{}, {TRUE}, {FALSE}} OBVIOUS
      <4> QED  BY <4>1, <4>2
    <3>2. CASE ResetFence(f) BY <3>2 DEF ResetFence, FencesSet
    <3>3. CASE DestroyFence(f) BY <3>3 DEF DestroyFence, FencesSet
    <3> QED  BY <1>3, <3>1, <3>2, <3>3
  <2>2. {{}, {TRUE}, {FALSE}} \subseteq SUBSET BOOLEAN OBVIOUS
  <2> QED  BY <1>1, <2>1, <2>2
<1>4. ASSUME NEW a \in SyAlarms,
             \/ \E x \in AlarmsToMake : CreateAlarm(a, x)
             \/ DestroyAlarm(a) \/ \E d \in SyDeltas : ChangeAlarm(a, d)
      PROVE  syFence' = syFence
  BY <1>4 DEF CreateAlarm, DestroyAlarm, ChangeAlarm
<1>5. ASSUME NEW i \in SyCounters,
             \/ \E v \in {0, 3} : CreateCounter(i, v) \/ SetCounter(i, v)
             \/ \E d \in SyDeltas : ChangeCounter(i, d)
             \/ DestroyCounter(i) \/ FrontendResizes(i)
      PROVE  syFence' = syFence
  BY <1>5 DEF CreateCounter, SetCounter, ChangeCounter, CounterSet, DestroyCounter, FrontendResizes
<1>6. ASSUME \/ \E t, u \in SyTriggers : Await({t, u})
             \/ \E w \in SUBSET SyFences : w # {} /\ AwaitFence(w)
             \/ SyClock \/ SyTick
      PROVE  syFence' = syFence
  BY <1>6 DEF Await, AwaitFence, SyClock, SyTick
<1> QED  BY <1>0, <1>2, <1>3, <1>4, <1>5, <1>6 DEF SyNext

(* A wait is added only where there is none, and the others are only removed. *)
LEMMA OneWaitStep == ASSUME OneWait, WaitInv', SyNext PROVE OneWait'
<1>0. ASSUME syAwaits' \subseteq syAwaits, syFenceAwaits' \subseteq syFenceAwaits PROVE OneWait'
  BY <1>0 DEF OneWait, WaitInv, WaitsJustified
<1>1. ASSUME NEW w, Await(w) \/ AwaitFence(w) PROVE OneWait'
  <2>1. syAwaits \cup syFenceAwaits = {} BY <1>1 DEF Await, AwaitFence, SyRequest, OneWait
  <2>2. syAwaits' \cup syFenceAwaits' \subseteq {w} BY <1>1, <2>1 DEF Await, AwaitFence
  <2> QED  BY <2>2 DEF OneWait, WaitInv, WaitsJustified
<1>2. ASSUME NEW a \in SyAlarms,
             \/ \E x \in AlarmsToMake : CreateAlarm(a, x)
             \/ DestroyAlarm(a) \/ \E d \in SyDeltas : ChangeAlarm(a, d)
      PROVE  OneWait'
  BY <1>0, <1>2 DEF CreateAlarm, DestroyAlarm, ChangeAlarm
<1>3. ASSUME NEW i \in SyCounters, NEW v, CounterSet(i, v) PROVE OneWait'
  BY <1>0, <1>3 DEF CounterSet, CheckPendingAwaits, StillWaiting
<1>4. ASSUME NEW i \in SyCounters, (\E v \in {0, 3} : CreateCounter(i, v)) \/ FrontendResizes(i)
      PROVE  OneWait'
  BY <1>0, <1>4 DEF CreateCounter, FrontendResizes
<1>5. ASSUME NEW i \in SyCounters, DestroyCounter(i) PROVE OneWait'
  BY <1>0, <1>5 DEF DestroyCounter
<1>6. ASSUME NEW f \in SyFences, TriggerFence(f) \/ ResetFence(f) \/ DestroyFence(f)
                                 \/ \E b \in BOOLEAN : CreateFence(f, b)
      PROVE  OneWait'
  BY <1>0, <1>6 DEF TriggerFence, ResetFence, DestroyFence, CreateFence, FencesSet, StillFenced
<1>7. CASE SyClock BY <1>0, <1>7 DEF SyClock
<1>8. CASE SyTick
  <2>1. syAwaits' \subseteq syAwaits /\ syFenceAwaits' \subseteq syFenceAwaits
    BY <1>8 DEF SyTick, StillWaiting, StillFenced
  <2> QED  BY <1>0, <2>1
<1> QED  BY <1>1, <1>2, <1>3, <1>4, <1>5, <1>6, <1>7, <1>8 DEF SyNext, SetCounter, ChangeCounter

LEMMA SyTypesStart == SyInit => SyTypes
<1> SUFFICES ASSUME SyInit PROVE SyTypes
  OBVIOUS
<1>1. CntTypes
  <2>1. {0} \in SUBSET SyValues /\ {} \in SUBSET SyValues BY DEF SyValues
  <2> QED  BY <2>1 DEF SyInit, CntTypes, SyMaxTime
<1>2. AlarmTypes /\ FenceTypes /\ OneWait BY DEF SyInit, AlarmTypes, FenceTypes, OneWait
<1> QED  BY <1>1, <1>2 DEF SyTypes

LEMMA SyTypesStep == SyTypes /\ WaitInv' /\ (SyNext \/ UNCHANGED syVars) => SyTypes'
<1>1. ASSUME SyTypes, UNCHANGED syVars PROVE SyTypes'
  <2>1. UNCHANGED <<syCnt, syAlarm, syFence, syAwaits, syFenceAwaits, syBlocked, syTime>>
    BY <1>1 DEF syVars
  <2> QED  BY <1>1, <2>1 DEF SyTypes, CntTypes, AlarmTypes, FenceTypes, OneWait
<1>2. ASSUME SyTypes, WaitInv', SyNext PROVE SyTypes'
  BY <1>2, CntStep, AlarmTypesStep, FenceTypesStep, OneWaitStep DEF SyTypes
<1> QED  BY <1>1, <1>2

(* A set whose elements are all equal has at most one. *)
LEMMA AllEqualFew == ASSUME NEW S, \A x, y \in S : x = y PROVE Cardinality(S) <= 1
<1>1. CASE S = {} BY <1>1, FS_EmptySet
<1>2. CASE S # {}
  <2>1. PICK x : x \in S
    BY <1>2
  <2>2. S = {x} BY <2>1
  <2>3. Cardinality({x}) = 1 BY FS_Singleton
  <2> QED  BY <2>2, <2>3
<1> QED  BY <1>1, <1>2

LEMMA SyTypesHold == SyTypes => SyTypeOK
<1> SUFFICES ASSUME SyTypes PROVE SyTypeOK
  OBVIOUS
<1>1. Cardinality(syAwaits \cup syFenceAwaits) <= 1 BY AllEqualFew DEF SyTypes, OneWait
<1>2. \A a \in SyAlarms : \A x \in syAlarm[a] :
           x.cnt \in SyCounters /\ x.val \in SyValues /\ x.test \in SyTests
  BY DEF SyTypes, AlarmTypes, SyAlarmRecords
<1>3. (\A i \in SyCounters : syCnt[i] \subseteq SyValues) /\ \A f \in SyFences : syFence[f] \subseteq BOOLEAN
  BY DEF SyTypes, CntTypes, FenceTypes
<1> QED  BY <1>1, <1>2, <1>3 DEF SyTypeOK

-----------------------------------------------------------------------------
(* An id stands for at most one colormap, and at most one cursor. *)
Alone(S) == \A x, y \in S : x = y
OneMap == \A m \in ClMaps : Alone(clMap[m])
OneCursor == \A c \in ClCursors : Alone(clInfo[c])

LEMMA OneMapStep == ASSUME MapInv, OneMap, ClMapNext PROVE OneMap'
<1>1. ASSUME NEW m \in ClMaps, NEW c, MapTo(m, c) PROVE OneMap'
  <2>1. \A k \in ClMaps : clMap'[k] = IF k = m THEN {c} ELSE clMap[k] BY <1>1 DEF MapTo, MapInv
  <2>2. Alone({c}) BY DEF Alone
  <2> QED  BY <2>1, <2>2 DEF OneMap
<1>2. ASSUME NEW m \in ClMaps \cup {ClRoot}, FreeColormap(m) \/ InstallColormap(m) \/ UninstallColormap(m)
      PROVE  OneMap'
  <2>1. \A k \in ClMaps : clMap'[k] \in {{}, clMap[k]}
    BY <1>2 DEF FreeColormap, InstallColormap, UninstallColormap
  <2>2. Alone({}) BY DEF Alone
  <2> QED  BY <2>1, <2>2 DEF OneMap
<1>3. ASSUME NEW m \in ClMaps, NEW src \in ClMaps \cup {ClRoot}, CopyColormapAndFree(m, src)
      PROVE  OneMap'
  <2> DEFINE copies == IF src = ClRoot THEN {NewColormap("true_color")} ELSE clMap[src]
             copied == [clMap EXCEPT ![m] = copies]
             Freed(c) == [c EXCEPT !.alloc = {}]
  <2>1. clMap' = [k \in ClMaps |-> IF k = src THEN {Freed(c) : c \in copied[k]} ELSE copied[k]]
    BY <1>3 DEF CopyColormapAndFree
  <2>2. Alone(copies) BY DEF OneMap, Alone
  <2> HIDE DEF copies, Freed
  <2>3. \A k \in ClMaps : Alone(copied[k]) BY <2>2 DEF OneMap, MapInv
  <2> HIDE DEF copied
  <2>4. \A k \in ClMaps : Alone({Freed(c) : c \in copied[k]}) BY <2>3 DEF Alone
  <2> QED  BY <2>1, <2>3, <2>4 DEF OneMap
<1>4. ASSUME NEW m \in ClMaps, \E class \in ClClasses, all \in BOOLEAN : CreateColormap(m, class, all)
      PROVE  OneMap'
  <2>1. \E c : MapTo(m, c) BY <1>4 DEF CreateColormap
  <2> QED  BY <1>1, <2>1
<1>5. ASSUME NEW m \in ClMaps, NEW v, AllocColorIn(m, v) PROVE OneMap'
  <2>1. \E c : MapTo(m, c) BY <1>5 DEF AllocColorIn
  <2> QED  BY <1>1, <2>1
<1>6. ASSUME NEW m \in ClMaps, NEW n, NEW p, NEW contiguous, AllocColorCells(m, n, p, contiguous)
      PROVE  OneMap'
  <2>1. \E c : MapTo(m, c) BY <1>6 DEF AllocColorCells
  <2> QED  BY <1>1, <2>1
<1>7. ASSUME NEW m \in ClMaps, NEW i \in ClCells,
             \/ FreeColors(m, i) \/ \E v \in ClColours : StoreColors(m, i, v)
             \/ \E named \in {{}, {"red"}} : StoreNamedColor(m, i, named)
      PROVE  OneMap'
  <2>1. \E c : MapTo(m, c) BY <1>7 DEF FreeColors, StoreColors, StoreNamedColor
  <2> QED  BY <1>1, <2>1
<1> QED  BY <1>2, <1>3, <1>4, <1>5, <1>6, <1>7 DEF ClMapNext, AllocColorPlanes

LEMMA OneCursorStep == ASSUME CursorInv, OneCursor, ClCursorNext PROVE OneCursor'
<1>1. ASSUME NEW c \in ClCursors, NEW S, Alone(S), clInfo' = [clInfo EXCEPT ![c] = S] PROVE OneCursor'
  <2>1. \A k \in ClCursors : clInfo'[k] = IF k = c THEN S ELSE clInfo[k] BY <1>1 DEF CursorInv
  <2> QED  BY <1>1, <2>1 DEF OneCursor
<1>2. \A i : Alone({i}) BY DEF Alone
<1>3. ASSUME NEW c \in ClCursors, NEW p, NEW mask, CreateBitmapCursor(c, {p}, mask, 1, 2) PROVE OneCursor'
  <2>1. \E i : clInfo' = [clInfo EXCEPT ![c] = {i}] BY <1>3 DEF CreateBitmapCursor, Entered
  <2> QED  BY <1>1, <1>2, <2>1
<1>4. ASSUME NEW c \in ClCursors, CreateGlyphCursor(c, 1, 2) PROVE OneCursor'
  <2>1. \E i : clInfo' = [clInfo EXCEPT ![c] = {i}] BY <1>4 DEF CreateGlyphCursor, Entered
  <2> QED  BY <1>1, <1>2, <2>1
<1>r. ASSUME NEW c \in ClCursors, NEW image, RenderCursor(c, image) PROVE OneCursor'
  <2>1. \E i : clInfo' = [clInfo EXCEPT ![c] = {i}] BY <1>r DEF RenderCursor, Entered
  <2> QED  BY <1>1, <1>2, <2>1
<1>a. ASSUME NEW c \in ClCursors, NEW n \in 0..2, NEW frames \in [1..n -> ClCursors],
             RenderAnimCursor(c, frames)
      PROVE  OneCursor'
  <2> DEFINE T == {k \in DOMAIN frames : \E i \in clInfo[frames[k]] : i.image # {}}
  <2>1. PICK S : /\ clInfo' = (IF S = {} THEN clInfo ELSE [clInfo EXCEPT ![c] = S])
                 /\ \/ T # {} /\ S = {OwnPicture(i.image, "") : i \in clInfo[frames[LeastCell(T)]]}
                    \/ frames # <<>> /\ S = clInfo[frames[1]]
                    \/ S = {}
    BY <1>a, Zenon DEF RenderAnimCursor
  <2>2. (n = 0 => frames = <<>>) /\ DOMAIN frames \subseteq ClCells BY DEF ClCells
  <2>3. frames # <<>> => frames[1] \in ClCursors BY <2>2
  <2>4. T # {} => LeastCell(T) \in DOMAIN frames BY <2>2, LeastCellIn
  <2> HIDE DEF T
  <2>5. Alone(S)
    <3>1. T # {} => frames[LeastCell(T)] \in ClCursors BY <2>4
    <3> QED  BY <2>1, <2>3, <3>1, Zenon DEF OneCursor, Alone
  <2>6. S = {} => OneCursor' BY <2>1 DEF OneCursor
  <2> QED  BY <1>1, <2>1, <2>5, <2>6
<1>5. ASSUME NEW c \in ClCursors, FreeCursor(c) PROVE OneCursor'
  <2>1. clInfo' = [clInfo EXCEPT ![c] = {}] BY <1>5 DEF FreeCursor
  <2>2. Alone({}) BY DEF Alone
  <2> QED  BY <1>1, <2>1, <2>2
<1>6. ASSUME NEW c \in ClCursors, RecolorCursor(c, 3, 4) PROVE OneCursor'
  <2> DEFINE R(i) == [i EXCEPT !.fg = 3, !.bg = 4,
                         !.image = IF i.src = {} THEN @ ELSE BuildCursorArgb(i.src, i.mask, 3, 4)]
             S == {R(i) : i \in clInfo[c]}
  <2>1. clInfo' = [clInfo EXCEPT ![c] = S] BY <1>6 DEF RecolorCursor
  <2> HIDE DEF R
  <2>2. Alone(S) BY DEF OneCursor, Alone
  <2> HIDE DEF S
  <2> QED  BY <1>1, <2>1, <2>2
<1>7. ASSUME NEW c \in ClCursors, SetCursorName(c, "n") PROVE OneCursor'
  <2> DEFINE N(i) == [i EXCEPT !.name = "n"]
             e == OwnPicture({}, "n")
             S == IF clInfo[c] # {} THEN {N(i) : i \in clInfo[c]} ELSE {e}
  <2>1. clInfo' = [clInfo EXCEPT ![c] = S] BY <1>7 DEF SetCursorName
  <2> HIDE DEF N, e
  <2>2. Alone(S) BY DEF OneCursor, Alone
  <2> HIDE DEF S
  <2> QED  BY <1>1, <2>1, <2>2
<1>8. ASSUME NEW src \in ClCursors, NEW ds \in SUBSET ClCursors, Replaced(src, ds) PROVE OneCursor'
  <2>1. \A c \in ClCursors : clInfo'[c] \in {clInfo[src], clInfo[c]} BY <1>8 DEF Replaced
  <2> QED  BY <2>1 DEF OneCursor
<1>9. ASSUME NEW p \in ClPixmaps, NEW bits, ChangePixmap(p, bits) PROVE OneCursor'
  BY <1>9 DEF ChangePixmap, OneCursor
<1> QED
  BY <1>3, <1>4, <1>r, <1>a, <1>5, <1>6, <1>7, <1>8, <1>9
  DEF ClCursorNext, ChangeCursor, ChangeCursorByName

(* Requests on colormaps leave the cursors alone, and the other way round. *)
LEMMA ClApart ==
    ASSUME ClNext
    PROVE  \/ ClMapNext /\ clInfo' = clInfo
           \/ ClCursorNext /\ clMap' = clMap
<1>1. CASE ClMapNext
  <2>1. ASSUME NEW m, FreeColormap(m) \/ InstallColormap(m) \/ UninstallColormap(m)
        PROVE  clInfo' = clInfo
    BY <2>1 DEF FreeColormap, InstallColormap, UninstallColormap, clCursorVars
  <2>2. ASSUME NEW m, \/ \E class, all : CreateColormap(m, class, all)
                      \/ \E src : CopyColormapAndFree(m, src)
                      \/ \E v : AllocColorIn(m, v)
        PROVE  clInfo' = clInfo
    BY <2>2 DEF CreateColormap, CopyColormapAndFree, AllocColorIn, clCursorVars
  <2>3. ASSUME NEW m, NEW n, NEW pl, NEW contiguous, AllocColorCells(m, n, pl, contiguous)
        PROVE  clInfo' = clInfo
    BY <2>3 DEF AllocColorCells, clCursorVars
  <2>4. ASSUME NEW m, NEW i, \/ FreeColors(m, i) \/ \E v : StoreColors(m, i, v)
                             \/ \E named : StoreNamedColor(m, i, named)
        PROVE  clInfo' = clInfo
    BY <2>4 DEF FreeColors, StoreColors, StoreNamedColor, clCursorVars
  <2> QED  BY <1>1, <2>1, <2>2, <2>3, <2>4 DEF ClMapNext, AllocColorPlanes
<1>2. CASE ClCursorNext
  <2>1. clMap' = clMap
    BY <1>2 DEF ClCursorNext, CreateBitmapCursor, CreateGlyphCursor, FreeCursor, RecolorCursor,
                RenderCursor, RenderAnimCursor, Entered, SetCursorName, ChangeCursor, ChangeCursorByName, Replaced, ChangePixmap,
                clColourVars
  <2> QED  BY <1>2, <2>1
<1> QED  BY <1>1, <1>2 DEF ClNext

ClTypes == ClInv /\ OneMap /\ OneCursor

LEMMA ClTypesStart == ClInit => ClTypes
<1> SUFFICES ASSUME ClInit PROVE ClTypes
  OBVIOUS
<1>1. MapInv BY DEF ClInit, MapInv, Known
<1>2. CursorInv BY DEF ClInit, CursorInv
<1>3. OneMap /\ OneCursor BY DEF ClInit, OneMap, OneCursor, Alone
<1> QED  BY <1>1, <1>2, <1>3 DEF ClTypes, ClInv

LEMMA ClTypesStep == ClTypes /\ (ClNext \/ UNCHANGED clVars) => ClTypes'
<1>1. ASSUME ClTypes, UNCHANGED clVars PROVE ClTypes'
  <2>1. UNCHANGED <<clMap, clInstalled, clCss, clInfo, clBare>> BY <1>1 DEF clVars
  <2>2. ClInv' BY <1>1, <2>1 DEF ClTypes, ClInv, MapInv, CursorInv, Known, Live
  <2>3. OneMap' /\ OneCursor' BY <1>1, <2>1 DEF ClTypes, OneMap, OneCursor
  <2> QED  BY <2>2, <2>3 DEF ClTypes
<1>2. ASSUME ClTypes, ClNext PROVE ClTypes'
  <2>1. ClInv' /\ MapInv /\ CursorInv /\ OneMap /\ OneCursor BY <1>2, ClStepKeeps DEF ClTypes, ClInv
  <2>2. CASE ClMapNext /\ clInfo' = clInfo BY <2>1, <2>2, OneMapStep DEF ClTypes, OneCursor
  <2>3. CASE ClCursorNext /\ clMap' = clMap BY <2>1, <2>3, OneCursorStep DEF ClTypes, OneMap
  <2> QED  BY <1>2, <2>2, <2>3, ClApart
<1> QED  BY <1>1, <1>2

LEMMA ClTypesHold == ClTypes => ClTypeOK
<1> SUFFICES ASSUME ClTypes PROVE ClTypeOK
  OBVIOUS
<1>1. \A m \in ClMaps : Cardinality(clMap[m]) <= 1 BY AllEqualFew DEF ClTypes, OneMap, Alone
<1>2. \A c \in ClCursors : Cardinality(clInfo[c]) <= 1 BY AllEqualFew DEF ClTypes, OneCursor, Alone
<1>3. \A m \in ClMaps : \A c \in clMap[m] : c \in Colormaps BY DEF ClTypes, ClInv, MapInv
<1>4. clInstalled \subseteq ClMaps \cup {ClRoot} BY DEF ClTypes, ClInv, MapInv, Known, Live
<1>5. clCss \subseteq ClCursors /\ clBare \subseteq clCss BY DEF ClTypes, ClInv, CursorInv
<1>6. \A c \in Colormaps : c.alloc \subseteq ClCells /\ c.next \in ClCells /\ \A i \in ClCells : c.entry[i] \in 0..15
  BY DEF Colormaps
<1> QED  BY <1>1, <1>2, <1>3, <1>4, <1>5, <1>6 DEF ClTypeOK

-----------------------------------------------------------------------------
(***************************************************************************)
(* RENDER.  Whatever a request composites, and from whatever source, the   *)
(* window keeps premultiplied pixels: a source is a solid fill, a          *)
(* gradient, the window or the pixmap, read inside it or repeated.         *)
(***************************************************************************)
PicRecords == [drw : {"w", "p"} \cup RnIds, alpha : BOOLEAN, repeat : {"none", "normal", "pad"},
               clip : SUBSET Int, org : Int, mask : BOOLEAN]
RnPicTypes == rnPics \in [RnIds -> SUBSET PicRecords] /\ \A i \in RnIds : Alone(rnPics[i])
RnSourceTypes == rnSolid \in [RnIds -> SUBSET RnPixels] /\ rnPixmap \in {{}, {RnTile}}
RnWindowTypes == rnPx \in [RnCols -> RnPixels] /\ rnDirty \subseteq RnCols
RnFreedTypes ==
    /\ DOMAIN rnUse = RnIds /\ rnFreed \in Seq(RnIds)
    /\ \A k \in DOMAIN rnFreed : rnUse[rnFreed[k]] = "none"
    /\ \A j, k \in DOMAIN rnFreed : j # k => rnFreed[j] # rnFreed[k]
RnTypes == RnPicTypes /\ RnSourceTypes /\ RnWindowTypes /\ RnFreedTypes

LEMMA RnPixelsAre == RnPixels = Premultiplied(RnOne)
<1>1. \A p \in RnPixels : p \in Premultiplied(RnOne) BY DEF RnPixels, Premultiplied, RnOne
<1>2. ASSUME NEW p \in Premultiplied(RnOne) PROVE p \in RnPixels
  <2>1. p = [c |-> p.c, a |-> p.a] /\ p.c \in 0..1 /\ p.a \in 0..1 /\ p.c <= p.a
    BY DEF Premultiplied, RnOne
  <2>2. (p.c = 0 /\ p.a = 0) \/ (p.c = 0 /\ p.a = 1) \/ (p.c = 1 /\ p.a = 1) BY <2>1
  <2> QED  BY <2>1, <2>2 DEF RnPixels
<1> QED  BY <1>1, <1>2

LEMMA FixedPixels == RnWhite \in RnPixels /\ RnClear \in RnPixels
BY DEF RnWhite, RnClear, RnPixels, RnOne

LEMMA RnChosen == ASSUME NEW S, S # {} PROVE RnThe(S) \in S
BY DEF RnThe

LEMMA PicIn == ASSUME RnPicTypes, NEW i \in RnIds, rnPics[i] # {} PROVE Pic(i) \in PicRecords
BY RnChosen DEF Pic, RnPicTypes

LEMMA PutIn ==
  ASSUME RnPicTypes, NEW i \in RnIds, rnPics[i] # {}, NEW op \in RnOps,
         NEW s \in RnPixels, NEW d \in RnPixels
  PROVE  Put(i, op, s, d) \in RnPixels
<1> DEFINE k == RnOne
           alpha == Pic(i).alpha
           fam == "canonical"
<1>1. alpha \in BOOLEAN BY PicIn DEF PicRecords
<1>2. k \in Nat /\ k # 0 /\ s \in Premultiplied(k) /\ d \in Premultiplied(k)
  BY RnPixelsAre DEF RnOne
<1>3. fam \in RnFamilies /\ op \in OpsOf(fam) BY RnAssumption DEF RnFamilies, OpsOf
<1>4. Put(i, op, s, d) = CompositePixel(fam, op, s, d, alpha, k) BY DEF Put
<1> HIDE DEF k, alpha, fam
<1>5. CompositePixel(fam, op, s, d, alpha, k) \in Premultiplied(k)
  BY <1>1, <1>2, <1>3, CompositeStaysIn
<1> QED  BY <1>4, <1>5, RnPixelsAre DEF k

LEMMA ScaledIn == ASSUME NEW p \in RnPixels, NEW m \in 0..1 PROVE ScaledBy(p, m, RnOne) \in RnPixels
<1>1. p.c \in 0..1 /\ p.a \in 0..1 /\ p.c <= p.a BY DEF RnPixels
<1>2. (p.c * m) \div 1 = p.c * m /\ (p.a * m) \div 1 = p.a * m BY <1>1
<1>3. m = 0 \/ m = 1 OBVIOUS
<1>4. (p.c * m = 0 /\ p.a * m = 0) \/ (p.c * m = 0 /\ p.a * m = 1) \/ (p.c * m = 1 /\ p.a * m = 1)
  BY <1>1, <1>3
<1>5. ScaledBy(p, m, RnOne) = [c |-> p.c * m, a |-> p.a * m] BY <1>2 DEF ScaledBy, RnOne
<1> QED  BY <1>4, <1>5 DEF RnPixels

LEMMA AlphaIn == \A p \in RnPixels : p.a \in 0..1
BY DEF RnPixels

(* The columns a request asks a source for. *)
RnStarts == {-1, 0}
RnCounts == {0, 2}
Row(n) == [0..(n - 1) -> RnPixels]

LEMMA OwnIn ==
  ASSUME RnSourceTypes, NEW i \in RnIds, NEW x \in RnStarts, NEW n \in RnCounts,
         NEW F \in SolidOrGradient(i, n, x)
  PROVE  F \in Row(n)
<1>1. CASE rnSolid[i] # {}
  <2>1. RnThe(rnSolid[i]) \in RnPixels BY <1>1, RnChosen DEF RnSourceTypes
  <2>2. F = [j \in 0..(n - 1) |-> RnThe(rnSolid[i])] BY <1>1 DEF SolidOrGradient
  <2> QED  BY <2>1, <2>2 DEF Row
<1>2. CASE rnSolid[i] = {}
  <2> DEFINE shift == IF i \in rnTrans THEN 1 ELSE 0
             G == ResolveGradientPixels(shift)
  <2>1. F = [j \in 0..(n - 1) |-> G[x + j]] BY <1>2 DEF SolidOrGradient
  <2>2. \A k \in -2..3 : G[k] \in RnPixels BY FixedPixels DEF ResolveGradientPixels
  <2> HIDE DEF G
  <2>3. \A j \in 0..(n - 1) : x + j \in -2..3 BY DEF RnStarts, RnCounts
  <2> QED  BY <2>1, <2>2, <2>3 DEF Row
<1> QED  BY <1>1, <1>2

LEMMA ColumnsCount == Cardinality(0..1) = 2 /\ Cardinality(0..2) = 3
<1>1. \A b \in Nat : Cardinality(0..b) = b + 1
  <2> SUFFICES ASSUME NEW b \in Nat PROVE Cardinality(0..b) = b + 1
    OBVIOUS
  <2> DEFINE a == 0
  <2>1. a \in Int /\ b \in Int /\ ~(a > b) /\ b - a + 1 = b + 1 OBVIOUS
  <2> HIDE DEF a
  <2>2. Cardinality(a..b) = IF a > b THEN 0 ELSE b - a + 1 BY <2>1, FS_Interval
  <2> QED  BY <2>1, <2>2 DEF a
<1>2. 1 \in Nat /\ 2 \in Nat /\ 1 + 1 = 2 /\ 2 + 1 = 3 OBVIOUS
<1> QED  BY <1>1, <1>2

(* A framebuffer: the window's three columns, or the pixmap's two. *)
LEMMA BufferIn ==
  ASSUME RnSourceTypes, RnWindowTypes, NEW d, FbOf(d) # {}
  PROVE  \E z \in {2, 3} : /\ RnThe(FbOf(d)) \in [0..(z - 1) -> RnPixels]
                           /\ Cardinality(DOMAIN RnThe(FbOf(d))) = z
<1> DEFINE fb == RnThe(FbOf(d))
<1>1. fb \in FbOf(d) BY RnChosen
<1>2. fb = rnPx \/ fb = RnTile BY <1>1 DEF FbOf, RnSourceTypes
<1> HIDE DEF fb
<1>3. CASE fb = rnPx
  <2>1. Cardinality(0..2) = 3 BY ColumnsCount
  <2>2. fb \in [0..2 -> RnPixels] /\ DOMAIN fb = 0..2 BY <1>3 DEF RnWindowTypes, RnCols
  <2>3. 3 - 1 = 2 OBVIOUS
  <2> QED  BY <2>1, <2>2, <2>3 DEF fb
<1>4. CASE fb = RnTile
  <2>1. Cardinality(0..1) = 2 BY ColumnsCount
  <2>2. fb \in [0..1 -> RnPixels] /\ DOMAIN fb = 0..1 BY <1>4, FixedPixels DEF RnTile
  <2>3. 2 - 1 = 1 OBVIOUS
  <2> QED  BY <2>1, <2>2, <2>3 DEF fb
<1> QED  BY <1>2, <1>3, <1>4

LEMMA SourcesIn ==
  ASSUME RnTypes, NEW i \in RnIds, NEW x \in RnStarts, NEW n \in RnCounts,
         NEW F \in ResolveSourcePixels(i, x, n)
  PROVE  F \in Row(n)
<1>0. RnPicTypes /\ RnSourceTypes /\ RnWindowTypes BY DEF RnTypes
<1> DEFINE own == SolidOrGradient(i, n, x)
           p == Pic(i)
           fb == RnThe(FbOf(p.drw))
           z == Cardinality(DOMAIN fb)
           shift == IF i \in rnTrans THEN 1 ELSE 0
           at(j) == LET c == x + j + shift
                    IN  IF c \in DOMAIN fb THEN fb[c]
                        ELSE IF p.repeat = "none" THEN RnClear
                        ELSE fb[ApplyPixmapRepeat(c, z, p.repeat)]
<1>1. ResolveSourcePixels(i, x, n) =
        IF own # {} THEN own
        ELSE IF rnPics[i] = {} THEN {}
        ELSE IF p.drw \in RnIds THEN SolidOrGradient(p.drw, n, x)
        ELSE IF FbOf(p.drw) = {} THEN {}
        ELSE {[j \in 0..(n - 1) |-> at(j)]}
  BY DEF ResolveSourcePixels
<1> HIDE DEF at, own, p
<1>2. \/ F \in own
      \/ p.drw \in RnIds /\ F \in SolidOrGradient(p.drw, n, x)
      \/ rnPics[i] # {} /\ FbOf(p.drw) # {} /\ F = [j \in 0..(n - 1) |-> at(j)]
  BY <1>1
<1>3. CASE F \in own BY <1>0, <1>3, OwnIn DEF own
<1>4. CASE p.drw \in RnIds /\ F \in SolidOrGradient(p.drw, n, x) BY <1>0, <1>4, OwnIn
<1>5. CASE rnPics[i] # {} /\ FbOf(p.drw) # {} /\ F = [j \in 0..(n - 1) |-> at(j)]
  <2>1. p.repeat \in {"none", "normal", "pad"} BY <1>0, <1>5, PicIn DEF PicRecords, p
  <2>2. z \in {2, 3} /\ fb \in [0..(z - 1) -> RnPixels] BY <1>0, <1>5, BufferIn
  <2> HIDE DEF fb, z
  <2>3. ASSUME NEW j \in 0..(n - 1) PROVE at(j) \in RnPixels
    <3> DEFINE c == x + j + shift
    <3>1. c \in -9..9 BY DEF RnStarts, RnCounts
    <3>2. at(j) = IF c \in DOMAIN fb THEN fb[c]
                  ELSE IF p.repeat = "none" THEN RnClear
                  ELSE fb[ApplyPixmapRepeat(c, z, p.repeat)]
      BY DEF at
    <3> HIDE DEF c
    <3>3. CASE c \in DOMAIN fb BY <2>2, <3>2, <3>3
    <3>4. CASE p.repeat = "none" /\ c \notin DOMAIN fb BY <3>2, <3>4, FixedPixels
    <3>5. CASE p.repeat # "none" /\ c \notin DOMAIN fb
      <4>1. z \in 1..4 /\ p.repeat \in {"pad", "reflect", "normal"} BY <2>1, <2>2, <3>5
      <4>2. ApplyPixmapRepeat(c, z, p.repeat) \in 0..(z - 1)
        BY <3>1, <4>1, RepeatProved DEF RepeatInside
      <4> QED  BY <2>2, <3>2, <3>5, <4>2
    <3> QED  BY <3>3, <3>4, <3>5
  <2> QED  BY <1>5, <2>3 DEF Row
<1> QED  BY <1>2, <1>3, <1>4, <1>5

LEMMA ColorIn == ASSUME RnTypes, NEW i \in RnIds PROVE ResolveSourceColor(i) \in RnPixels
<1>1. CASE rnSolid[i] # {}
  <2>1. RnThe(rnSolid[i]) \in RnPixels BY <1>1, RnChosen DEF RnTypes, RnSourceTypes
  <2> QED  BY <1>1, <2>1 DEF ResolveSourceColor
<1>2. CASE rnSolid[i] = {}
  <2>1. ResolveSourceColor(i) = RnWhite \/ (rnPixmap # {} /\ ResolveSourceColor(i) = RnThe(rnPixmap)[0])
    BY <1>2 DEF ResolveSourceColor
  <2>2. rnPixmap # {} => RnThe(rnPixmap) = RnTile BY RnChosen DEF RnTypes, RnSourceTypes
  <2>3. RnTile[0] \in RnPixels BY FixedPixels DEF RnTile
  <2> QED  BY <2>1, <2>2, <2>3, FixedPixels
<1> QED  BY <1>1, <1>2

-----------------------------------------------------------------------------
(* The pictures, the sources, the window and the free ids that a step leaves. *)
LEMMA PicturesBecome ==
  ASSUME RnPicTypes, NEW i \in RnIds, NEW p \in PicRecords, RnInsert(i, p)
  PROVE  RnPicTypes'
<1>1. rnPics' = [rnPics EXCEPT ![i] = {p}] /\ {p} \in SUBSET PicRecords BY DEF RnInsert
<1>2. rnPics' \in [RnIds -> SUBSET PicRecords] BY <1>1 DEF RnPicTypes
<1>3. \A k \in RnIds : rnPics'[k] = IF k = i THEN {p} ELSE rnPics[k] BY <1>1 DEF RnPicTypes
<1>4. Alone({p}) BY DEF Alone
<1> QED  BY <1>2, <1>3, <1>4 DEF RnPicTypes

LEMMA NoPictureIn == NoPicture \in PicRecords
<1>1. {} \in SUBSET Int /\ 0 \in Int OBVIOUS
<1> QED  BY <1>1 DEF NoPicture, PicRecords

LEMMA PictureRequests ==
  ASSUME RnPicTypes, NEW i \in RnIds,
         \/ \E d \in {"w", "p"}, alpha \in BOOLEAN, repeat \in {"none", "normal"} : CreatePicture(i, d, alpha, repeat)
         \/ CreateGradient(i) \/ FreePicture(i)
         \/ \E repeat \in {"none", "pad"}, mask \in BOOLEAN, org \in {0, 1} : ChangePicture(i, repeat, mask, org)
         \/ \E rects \in RnRects, org \in {0, 1} : SetPictureClipRectangles(i, rects, org)
  PROVE  RnPicTypes'
<1>0. /\ \A q \in PicRecords, d \in {"w", "p"} \cup RnIds : [q EXCEPT !.drw = d] \in PicRecords
      /\ \A q \in PicRecords, alpha \in BOOLEAN : [q EXCEPT !.alpha = alpha] \in PicRecords
      /\ \A q \in PicRecords, repeat \in {"none", "normal", "pad"} : [q EXCEPT !.repeat = repeat] \in PicRecords
      /\ \A q \in PicRecords, mask \in BOOLEAN : [q EXCEPT !.mask = mask] \in PicRecords
      /\ \A q \in PicRecords, org \in Int : [q EXCEPT !.org = org] \in PicRecords
      /\ \A q \in PicRecords, clip \in SUBSET Int : [q EXCEPT !.clip = clip] \in PicRecords
  BY DEF PicRecords
<1>1. ASSUME NEW d \in {"w", "p"}, NEW alpha \in BOOLEAN, NEW repeat \in {"none", "normal"},
             CreatePicture(i, d, alpha, repeat)
      PROVE  RnPicTypes'
  <2> DEFINE q == [NoPicture EXCEPT !.drw = d]
             r == [q EXCEPT !.alpha = alpha]
             s == [r EXCEPT !.repeat = repeat]
  <2>1. RnInsert(i, [NoPicture EXCEPT !.drw = d, !.alpha = alpha, !.repeat = repeat])
    BY <1>1 DEF CreatePicture
  <2>2. [NoPicture EXCEPT !.drw = d, !.alpha = alpha, !.repeat = repeat] = s BY DEF NoPicture
  <2>3. q \in PicRecords BY <1>0, NoPictureIn
  <2> HIDE DEF q
  <2>4. r \in PicRecords BY <1>0, <2>3
  <2> HIDE DEF r
  <2>5. s \in PicRecords BY <1>0, <2>4
  <2> HIDE DEF s
  <2> QED  BY <2>1, <2>2, <2>5, PicturesBecome
<1>2. CASE CreateGradient(i)
  <2> DEFINE q == [NoPicture EXCEPT !.drw = i]
  <2>1. RnInsert(i, q) BY <1>2 DEF CreateGradient
  <2>2. q \in PicRecords BY <1>0, NoPictureIn
  <2> HIDE DEF q
  <2> QED  BY <2>1, <2>2, PicturesBecome
<1>3. CASE FreePicture(i)
  <2>1. rnPics' = [rnPics EXCEPT ![i] = {}] BY <1>3 DEF FreePicture
  <2>2. {} \in SUBSET PicRecords OBVIOUS
  <2>3. rnPics' \in [RnIds -> SUBSET PicRecords] BY <2>1, <2>2 DEF RnPicTypes
  <2>4. \A k \in RnIds : rnPics'[k] = IF k = i THEN {} ELSE rnPics[k] BY <2>1 DEF RnPicTypes
  <2> QED  BY <2>3, <2>4 DEF RnPicTypes, Alone
<1>4. ASSUME NEW repeat \in {"none", "pad"}, NEW mask \in BOOLEAN, NEW org \in {0, 1},
             ChangePicture(i, repeat, mask, org)
      PROVE  RnPicTypes'
  <2> DEFINE p == Pic(i)
             clip == IF mask THEN p.clip ELSE {}
             q == [p EXCEPT !.repeat = repeat]
             r == [q EXCEPT !.mask = mask]
             s == [r EXCEPT !.org = org]
             t == [s EXCEPT !.clip = clip]
             u == [p EXCEPT !.repeat = repeat, !.mask = mask, !.org = org, !.clip = IF mask THEN @ ELSE {}]
  <2>1. rnPics[i] # {} /\ RnInsert(i, u) BY <1>4 DEF ChangePicture
  <2>2. p \in PicRecords BY <2>1, PicIn
  <2> HIDE DEF p
  <2>3. u = t BY <2>2 DEF PicRecords
  <2>4. clip \in SUBSET Int /\ org \in Int BY <2>2 DEF PicRecords
  <2> HIDE DEF clip, u
  <2>5. q \in PicRecords BY <1>0, <2>2
  <2> HIDE DEF q
  <2>6. r \in PicRecords BY <1>0, <2>5
  <2> HIDE DEF r
  <2>7. s \in PicRecords BY <1>0, <2>4, <2>6
  <2> HIDE DEF s
  <2>8. t \in PicRecords BY <1>0, <2>4, <2>7
  <2> HIDE DEF t
  <2> QED  BY <2>1, <2>3, <2>8, PicturesBecome
<1>5. ASSUME NEW rects \in RnRects, NEW org \in {0, 1}, SetPictureClipRectangles(i, rects, org)
      PROVE  RnPicTypes'
  <2> DEFINE p == Pic(i)
             q == [p EXCEPT !.clip = rects]
             r == [q EXCEPT !.org = org]
             u == [p EXCEPT !.clip = rects, !.org = org]
  <2>1. rnPics[i] # {} /\ RnInsert(i, u) BY <1>5 DEF SetPictureClipRectangles
  <2>2. p \in PicRecords BY <2>1, PicIn
  <2> HIDE DEF p
  <2>3. u = r BY <2>2 DEF PicRecords
  <2>4. rects \in SUBSET Int /\ org \in Int BY DEF RnRects
  <2> HIDE DEF u
  <2>5. q \in PicRecords BY <1>0, <2>2, <2>4
  <2> HIDE DEF q
  <2>6. r \in PicRecords BY <1>0, <2>4, <2>5
  <2> HIDE DEF r
  <2> QED  BY <2>1, <2>3, <2>6, PicturesBecome
<1> QED  BY <1>1, <1>2, <1>3, <1>4, <1>5

(* An id is freed: it was in use, so it is not on the list. *)
LEMMA FreedAgain ==
  ASSUME RnFreedTypes, NEW i \in RnIds, rnUse[i] # "none",
         rnFreed' = <<i>> \o rnFreed, rnUse' = [rnUse EXCEPT ![i] = "none"]
  PROVE  RnFreedTypes'
<1>1. Len(rnFreed) \in Nat /\ \A k \in 1..Len(rnFreed) : rnFreed[k] \in RnIds /\ rnFreed[k] # i
  BY DEF RnFreedTypes
<1>2. /\ rnFreed' \in Seq(RnIds) /\ DOMAIN rnFreed' = 1..(Len(rnFreed) + 1)
      /\ rnFreed'[1] = i /\ \A k \in 2..(Len(rnFreed) + 1) : rnFreed'[k] = rnFreed[k - 1]
  BY DEF RnFreedTypes
<1>3. DOMAIN rnUse' = RnIds /\ \A k \in RnIds : rnUse'[k] = IF k = i THEN "none" ELSE rnUse[k]
  BY DEF RnFreedTypes
<1>4. DOMAIN rnFreed = 1..Len(rnFreed) BY DEF RnFreedTypes
<1>5. ASSUME NEW k \in DOMAIN rnFreed', k # 1
      PROVE  k - 1 \in DOMAIN rnFreed /\ rnFreed'[k] = rnFreed[k - 1]
  BY <1>1, <1>2, <1>4, <1>5
<1>6. ASSUME NEW k \in DOMAIN rnFreed' PROVE rnUse'[rnFreed'[k]] = "none"
  <2>1. CASE k = 1 BY <1>2, <1>3, <2>1
  <2>2. CASE k # 1 BY <1>1, <1>3, <1>4, <1>5, <2>2 DEF RnFreedTypes
  <2> QED  BY <2>1, <2>2
<1>7. ASSUME NEW j \in DOMAIN rnFreed', NEW k \in DOMAIN rnFreed', j # k
      PROVE  rnFreed'[j] # rnFreed'[k]
  <2>0. j \in Int /\ k \in Int BY <1>1, <1>2
  <2>1. CASE j = 1 BY <1>1, <1>2, <1>4, <1>5, <1>7, <2>1
  <2>2. CASE k = 1 BY <1>1, <1>2, <1>4, <1>5, <1>7, <2>2
  <2>3. CASE j # 1 /\ k # 1
    <3>1. j - 1 # k - 1 BY <1>7, <2>0
    <3> QED  BY <1>5, <2>3, <3>1 DEF RnFreedTypes
  <2> QED  BY <2>1, <2>2, <2>3
<1> QED  BY <1>2, <1>3, <1>6, <1>7 DEF RnFreedTypes

LEMMA FreedTaken ==
  ASSUME RnFreedTypes, GetXIDList
  PROVE  RnFreedTypes'
<1>1. rnFreed # <<>> /\ rnFreed' = Tail(rnFreed) /\ rnUse' = [rnUse EXCEPT ![Head(rnFreed)] = "new"]
  BY DEF GetXIDList
<1>2. Len(rnFreed) \in Nat /\ Len(rnFreed) # 0 /\ DOMAIN rnFreed = 1..Len(rnFreed)
  BY <1>1 DEF RnFreedTypes
<1>3. /\ rnFreed' \in Seq(RnIds) /\ DOMAIN rnFreed' = 1..(Len(rnFreed) - 1)
      /\ Head(rnFreed) = rnFreed[1]
      /\ \A k \in 1..(Len(rnFreed) - 1) : rnFreed'[k] = rnFreed[k + 1]
  BY <1>1, <1>2 DEF RnFreedTypes
<1>4. \A k \in RnIds : k # Head(rnFreed) => rnUse'[k] = rnUse[k] BY <1>1 DEF RnFreedTypes
<1>5. ASSUME NEW k \in DOMAIN rnFreed'
      PROVE  k + 1 \in DOMAIN rnFreed /\ rnFreed'[k] = rnFreed[k + 1] /\ k + 1 # 1 /\ k \in Int
  BY <1>2, <1>3
<1>6. 1 \in DOMAIN rnFreed BY <1>2
<1>7. \A k \in DOMAIN rnFreed : rnFreed[k] \in RnIds BY DEF RnFreedTypes
<1>8. ASSUME NEW k \in DOMAIN rnFreed' PROVE rnUse'[rnFreed'[k]] = "none"
  <2>1. rnFreed[k + 1] # rnFreed[1] BY <1>5, <1>6 DEF RnFreedTypes
  <2> QED  BY <1>3, <1>4, <1>5, <1>7, <2>1 DEF RnFreedTypes
<1>9. ASSUME NEW j \in DOMAIN rnFreed', NEW k \in DOMAIN rnFreed', j # k
      PROVE  rnFreed'[j] # rnFreed'[k]
  <2>1. j + 1 # k + 1 BY <1>5, <1>9
  <2> QED  BY <1>5, <2>1 DEF RnFreedTypes
<1> QED  BY <1>1, <1>3, <1>8, <1>9 DEF RnFreedTypes

(* An id that the client takes was not on the list. *)
LEMMA TakenId ==
  ASSUME RnFreedTypes, NEW i \in RnIds, NEW kind, Takes(i, kind), rnFreed' = rnFreed
  PROVE  RnFreedTypes'
<1>1. rnUse[i] = "new" /\ rnUse' = [rnUse EXCEPT ![i] = kind] BY DEF Takes
<1>2. \A k \in DOMAIN rnFreed : rnFreed[k] \in RnIds /\ rnFreed[k] # i BY <1>1 DEF RnFreedTypes
<1> QED  BY <1>1, <1>2 DEF RnFreedTypes

-----------------------------------------------------------------------------
(* The requests that draw, for the parameters of one of them. *)
RnDrawing(op, s, d, x, n) ==
    \/ \E mask \in {{}} \cup {{m} : m \in RnIds}, sx \in {-1, 0} : Composite(op, s, mask, d, sx, x, n)
    \/ Trapezoids(op, s, d, x, n) \/ Triangles(op, s, d, x, n)
    \/ \E points \in {2, 3} : TriStrip(op, s, d, x, n, points) \/ TriFan(op, s, d, x, n, points)
    \/ \E pix \in RnPixels : FillRectangles(op, d, pix, x, n)
    \/ AddTraps(d, x, n)
    \/ \E gs \in RnIds, text \in {<<1>>, <<2, 1>>} : CompositeGlyphs(op, s, d, gs, text, x)
RnDraws == \E op \in RnOps, s, d \in RnIds, x \in {-1, 1}, n \in {0, 2} : RnDrawing(op, s, d, x, n)

(* The requests on one id. *)
RnOnId(i) ==
    \/ \E d \in {"w", "p"}, alpha \in BOOLEAN, repeat \in {"none", "normal"} : CreatePicture(i, d, alpha, repeat)
    \/ \E pix \in RnPixels : CreateSolidFill(i, pix)
    \/ CreateGradient(i) \/ FreePicture(i)
    \/ \E repeat \in {"none", "pad"}, mask \in BOOLEAN, org \in {0, 1} : ChangePicture(i, repeat, mask, org)
    \/ \E rects \in RnRects, org \in {0, 1} : SetPictureClipRectangles(i, rects, org)
    \/ \E identity \in BOOLEAN : SetPictureTransform(i, identity)
    \/ CreateGlyphSet(i) \/ FreeGlyphSet(i) \/ CreateCursor(i)
    \/ \E from \in RnIds : ReferenceGlyphSet(i, from)
    \/ \E g \in RnGlyphIds : AddGlyphs(i, g) \/ FreeGlyphs(i, g)

LEMMA RnSplits ==
  ASSUME RnNext
  PROVE  \/ \E i \in RnIds : RnOnId(i)
         \/ GetXIDList \/ PixmapGoes \/ RnFlush \/ (\E frames \in 0..2 : CreateAnimCursor(frames))
         \/ RnDraws
BY DEF RnNext, RnOnId, RnDraws, RnDrawing

(* A window that is rendered to keeps premultiplied pixels. *)
LEMMA RendersIn ==
  ASSUME RnWindowTypes, NEW px, NEW m, Renders(px, m), \A c \in RnCols : px[c] \in RnPixels,
         px = [c \in RnCols |-> px[c]]
  PROVE  RnWindowTypes'
<1>1. rnPx' = px /\ rnDirty' = rnDirty \cup (m \cap RnCols) BY DEF Renders
<1>2. px \in [RnCols -> RnPixels] OBVIOUS
<1> QED  BY <1>1, <1>2 DEF RnWindowTypes

LEMMA CompositeIn ==
  ASSUME RnTypes, NEW op \in RnOps, NEW s \in RnIds, NEW d \in RnIds, NEW sx \in RnStarts,
         NEW x \in {-1, 1}, NEW n \in RnCounts, NEW mask \in {{}} \cup {{m} : m \in RnIds},
         Composite(op, s, mask, d, sx, x, n)
  PROVE  RnWindowTypes'
<1> DEFINE src == ResolveSourcePixels(s, sx, n)
           msk == IF mask = {} THEN {} ELSE ResolveSourcePixels(RnThe(mask), sx, n)
           skip(c) == /\ msk # {} /\ RnThe(msk)[c - x].a = 0 /\ ZeroSrcHasNoEffect("canonical", op)
           pixel(c) == LET p == RnThe(src)[c - x]
                       IN  IF msk = {} THEN p ELSE ScaledBy(p, RnThe(msk)[c - x].a, RnOne)
           px == [c \in RnCols |-> IF c \in RnSpan(x, n) /\ ClipAllows(d, c) /\ ~skip(c)
                                   THEN Put(d, op, pixel(c), rnPx[c]) ELSE rnPx[c]]
           marks == RnSpan(IF x < 0 THEN 0 ELSE x, n)
<1>0. RnPicTypes /\ RnWindowTypes BY DEF RnTypes
<1>1. src # {} /\ Renders(px, marks) /\ rnPics[d] # {} BY DEF Composite, OntoWindow
<1>2. RnThe(src) \in Row(n) BY <1>1, RnChosen, SourcesIn
<1>3. msk # {} => RnThe(msk) \in Row(n)
  <2>1. CASE mask = {} BY <2>1
  <2>2. CASE mask # {}
    <3>1. RnThe(mask) \in RnIds BY <2>2, RnChosen
    <3>2. msk = ResolveSourcePixels(RnThe(mask), sx, n) BY <2>2
    <3> HIDE DEF msk
    <3>3. ASSUME msk # {} PROVE RnThe(msk) \in msk
      BY <3>3, RnChosen
    <3> QED  BY <3>1, <3>2, <3>3, SourcesIn
  <2> QED  BY <2>1, <2>2
<1>4. ASSUME NEW c \in RnCols, c \in RnSpan(x, n) PROVE pixel(c) \in RnPixels
  <2>1. c - x \in 0..(n - 1) BY <1>4 DEF RnSpan, RnCols, RnCounts
  <2> DEFINE p == RnThe(src)[c - x]
             a == RnThe(msk)[c - x].a
  <2>2. p \in RnPixels BY <1>2, <2>1 DEF Row
  <2>3. msk # {} => RnThe(msk)[c - x] \in RnPixels BY <1>3, <2>1 DEF Row
  <2>4. msk # {} => a \in 0..1 BY <2>3, AlphaIn
  <2>5. pixel(c) = IF msk = {} THEN p ELSE ScaledBy(p, a, RnOne) OBVIOUS
  <2> HIDE DEF msk, p, a, pixel
  <2> QED  BY <2>2, <2>4, <2>5, ScaledIn
<1> HIDE DEF pixel, skip
<1>5. \A c \in RnCols : rnPx[c] \in RnPixels BY <1>0 DEF RnWindowTypes
<1>6. \A c \in RnCols : c \in RnSpan(x, n) => Put(d, op, pixel(c), rnPx[c]) \in RnPixels
  BY <1>0, <1>1, <1>4, <1>5, PutIn
<1>7. (\A c \in RnCols : px[c] \in RnPixels) /\ px = [c \in RnCols |-> px[c]] BY <1>5, <1>6
<1> HIDE DEF px, marks
<1> QED  BY <1>0, <1>1, <1>7, RendersIn

(* A shape of one colour. *)
LEMMA ShapeIn ==
  ASSUME RnTypes, NEW op \in RnOps, NEW d \in RnIds, rnPics[d] # {}, NEW pix \in RnPixels,
         NEW S, NEW T, NEW m,
         Renders([c \in RnCols |-> IF c \in S /\ ClipAllows(d, c)
                                   THEN Put(d, op, IF c \in T THEN pix ELSE RnClear, rnPx[c]) ELSE rnPx[c]], m)
  PROVE  RnWindowTypes'
<1> DEFINE q(c) == IF c \in T THEN pix ELSE RnClear
           px == [c \in RnCols |-> IF c \in S /\ ClipAllows(d, c) THEN Put(d, op, q(c), rnPx[c]) ELSE rnPx[c]]
<1>0. RnPicTypes /\ RnWindowTypes BY DEF RnTypes
<1>1. Renders(px, m) OBVIOUS
<1>2. \A c \in RnCols : q(c) \in RnPixels /\ rnPx[c] \in RnPixels
  BY <1>0, FixedPixels DEF RnWindowTypes
<1> HIDE DEF q
<1>3. \A c \in RnCols : Put(d, op, q(c), rnPx[c]) \in RnPixels BY <1>0, <1>2, PutIn
<1>4. (\A c \in RnCols : px[c] \in RnPixels) /\ px = [c \in RnCols |-> px[c]] BY <1>2, <1>3
<1> HIDE DEF px
<1> QED  BY <1>0, <1>1, <1>4, RendersIn

LEMMA PlainIn ==
  ASSUME RnTypes, NEW op \in RnOps, NEW d \in RnIds, rnPics[d] # {}, NEW pix \in RnPixels, NEW S, NEW m,
         Renders([c \in RnCols |-> IF c \in S /\ ClipAllows(d, c) THEN Put(d, op, pix, rnPx[c]) ELSE rnPx[c]], m)
  PROVE  RnWindowTypes'
<1>1. [c \in RnCols |-> IF c \in S /\ ClipAllows(d, c) THEN Put(d, op, pix, rnPx[c]) ELSE rnPx[c]]
        = [c \in RnCols |-> IF c \in S /\ ClipAllows(d, c)
                            THEN Put(d, op, IF c \in S THEN pix ELSE RnClear, rnPx[c]) ELSE rnPx[c]]
  OBVIOUS
<1> QED  BY <1>1, ShapeIn

LEMMA DrawsIn ==
  ASSUME RnTypes, NEW op \in RnOps, NEW s \in RnIds, NEW d \in RnIds,
         NEW x \in {-1, 1}, NEW n \in {0, 2}, RnDrawing(op, s, d, x, n)
  PROVE  RnWindowTypes'
<1> DEFINE pix == ResolveSourceColor(s)
<1>0. pix \in RnPixels BY ColorIn
<1>1. ASSUME NEW mask \in {{}} \cup {{m} : m \in RnIds}, NEW sx \in {-1, 0}, Composite(op, s, mask, d, sx, x, n)
      PROVE  RnWindowTypes'
  BY <1>1, CompositeIn DEF RnStarts, RnCounts
<1>2. ASSUME NEW p \in RnPixels, NEW m, rnPics[d] # {}, Renders(CompositePolygonAa(d, op, p, x, n), m)
      PROVE  RnWindowTypes'
  <2>1. Renders([c \in RnCols |-> IF c \in RnSpan(x, n) /\ ClipAllows(d, c)
                                  THEN Put(d, op, p, rnPx[c]) ELSE rnPx[c]], m)
    BY <1>2 DEF CompositePolygonAa
  <2> QED  BY <1>2, <2>1, PlainIn
<1> HIDE DEF pix
<1>3. CASE Trapezoids(op, s, d, x, n) BY <1>0, <1>2, <1>3 DEF Trapezoids, OntoWindow, pix
<1>4. CASE Triangles(op, s, d, x, n)
  <2> DEFINE full == ~ZeroSrcHasNoEffect("canonical", op)
             m == MarkedByTriangles(full, x, n)
  <2>1. rnPics[d] # {} BY <1>4 DEF Triangles, OntoWindow
  <2>2. CASE full
    <3>1. Renders(CompositeTrianglesFullDst(d, op, pix, x, n), m) BY <1>4, <2>2 DEF Triangles, pix
    <3> HIDE DEF full, m
    <3>2. CompositeTrianglesFullDst(d, op, pix, x, n) =
            [c \in RnCols |-> IF c \in RnCols /\ ClipAllows(d, c)
                              THEN Put(d, op, IF c \in RnSpan(x, n) THEN pix ELSE RnClear, rnPx[c]) ELSE rnPx[c]]
      BY DEF CompositeTrianglesFullDst
    <3> QED  BY <1>0, <2>1, <3>1, <3>2, ShapeIn
  <2>3. CASE ~full
    <3>1. Renders(CompositePolygonAa(d, op, pix, x, n), m) BY <1>4, <2>3 DEF Triangles, pix
    <3> HIDE DEF full, m
    <3> QED  BY <1>0, <1>2, <2>1, <3>1
  <2> QED  BY <2>2, <2>3
<1>5. ASSUME NEW p \in RnPixels, FillRectangles(op, d, p, x, n) PROVE RnWindowTypes'
  <2>1. rnPics[d] # {} /\ \E m : Renders([c \in RnCols |-> IF c \in RnSpan(x, n) /\ ClipAllows(d, c)
                                                    THEN Put(d, op, p, rnPx[c]) ELSE rnPx[c]], m)
    BY <1>5 DEF FillRectangles, OntoWindow
  <2> QED  BY <2>1, PlainIn
<1>6. CASE AddTraps(d, x, n)
  <2> DEFINE last == IF x + n < 0 THEN Max(RnCols) ELSE x + n - 1
             px == [c \in RnCols |-> IF c \in x..last THEN RnWhite ELSE rnPx[c]]
  <2>1. Renders(px, RnCols) BY <1>6 DEF AddTraps
  <2> HIDE DEF last
  <2>2. RnWindowTypes /\ \A c \in RnCols : rnPx[c] \in RnPixels BY DEF RnTypes, RnWindowTypes
  <2>3. (\A c \in RnCols : px[c] \in RnPixels) /\ px = [c \in RnCols |-> px[c]] BY <2>2, FixedPixels
  <2> HIDE DEF px
  <2> QED  BY <2>1, <2>2, <2>3, RendersIn
<1>7. ASSUME NEW gs \in RnIds, NEW text, CompositeGlyphs(op, s, d, gs, text, x) PROVE RnWindowTypes'
  <2>1. rnPics[d] # {} /\ \E at : Renders([c \in RnCols |-> IF c \in at /\ ClipAllows(d, c)
                                                     THEN Put(d, op, pix, rnPx[c]) ELSE rnPx[c]], at)
    BY <1>7 DEF CompositeGlyphs, OntoWindow, pix
  <2> QED  BY <1>0, <2>1, PlainIn
<1> QED  BY <1>1, <1>3, <1>4, <1>5, <1>6, <1>7 DEF RnDrawing, TriStrip, TriFan

LEMMA DrawsKeep ==
  ASSUME RnDraws
  PROVE  UNCHANGED <<rnPics, rnSolid, rnPixmap, rnFreed, rnUse>>
<1>1. PICK op \in RnOps, s \in RnIds, d \in RnIds, x \in {-1, 1}, n \in {0, 2} : RnDrawing(op, s, d, x, n)
  BY DEF RnDraws
<1>2. \E px, m : Renders(px, m)
  BY <1>1 DEF RnDrawing, Composite, Trapezoids, TriStrip, TriFan, Triangles, FillRectangles, AddTraps,
              CompositeGlyphs
<1> QED  BY <1>2 DEF Renders

LEMMA OnIdKeeps ==
  ASSUME RnTypes, NEW i \in RnIds, RnOnId(i)
  PROVE  RnTypes'
<1>0. RnPicTypes /\ RnSourceTypes /\ RnWindowTypes /\ RnFreedTypes BY DEF RnTypes
<1>1. RnWindowTypes'
  <2>1. UNCHANGED <<rnPx, rnDirty>>
    BY DEF RnOnId, CreatePicture, CreateSolidFill, CreateGradient, FreePicture, ChangePicture,
           SetPictureClipRectangles, SetPictureTransform, CreateGlyphSet, FreeGlyphSet, CreateCursor,
           ReferenceGlyphSet, AddGlyphs, FreeGlyphs, RnKeepFb
  <2> QED  BY <1>0, <2>1 DEF RnWindowTypes
<1>2. RnSourceTypes'
  <2>1. ASSUME NEW pix \in RnPixels, CreateSolidFill(i, pix) PROVE RnSourceTypes'
    <3>1. rnSolid' = [rnSolid EXCEPT ![i] = {pix}] /\ rnPixmap' = rnPixmap
      BY <2>1 DEF CreateSolidFill
    <3> QED  BY <1>0, <3>1 DEF RnSourceTypes
  <2>2. (\E pix \in RnPixels : CreateSolidFill(i, pix)) \/ UNCHANGED <<rnSolid, rnPixmap>>
    BY DEF RnOnId, CreatePicture, CreateGradient, FreePicture, ChangePicture,
           SetPictureClipRectangles, SetPictureTransform, CreateGlyphSet, FreeGlyphSet, CreateCursor,
           ReferenceGlyphSet, AddGlyphs, FreeGlyphs, RnKeepPics
  <2> QED  BY <1>0, <2>1, <2>2 DEF RnSourceTypes
<1>3. RnPicTypes'
  <2>1. \/ \E d \in {"w", "p"}, alpha \in BOOLEAN, repeat \in {"none", "normal"} : CreatePicture(i, d, alpha, repeat)
        \/ CreateGradient(i) \/ FreePicture(i)
        \/ \E repeat \in {"none", "pad"}, mask \in BOOLEAN, org \in {0, 1} : ChangePicture(i, repeat, mask, org)
        \/ \E rects \in RnRects, org \in {0, 1} : SetPictureClipRectangles(i, rects, org)
        \/ rnPics' = rnPics
    BY DEF RnOnId, CreateSolidFill, SetPictureTransform, CreateGlyphSet, FreeGlyphSet, CreateCursor,
           ReferenceGlyphSet, AddGlyphs, FreeGlyphs, RnKeepPics
  <2>2. CASE rnPics' = rnPics BY <1>0, <2>2 DEF RnPicTypes
  <2> QED  BY <1>0, <2>1, <2>2, PictureRequests
<1>4. RnFreedTypes'
  <2>1. \/ (\E kind : Takes(i, kind)) /\ rnFreed' = rnFreed
        \/ UNCHANGED <<rnFreed, rnUse>>
        \/ FreePicture(i) \/ FreeGlyphSet(i)
    BY DEF RnOnId, CreatePicture, CreateSolidFill, CreateGradient, ChangePicture,
           SetPictureClipRectangles, SetPictureTransform, CreateGlyphSet, CreateCursor,
           ReferenceGlyphSet, AddGlyphs, FreeGlyphs
  <2>2. CASE FreePicture(i) \/ FreeGlyphSet(i)
    <3>1. /\ rnUse[i] # "none" /\ rnFreed' = <<i>> \o rnFreed
          /\ rnUse' = [rnUse EXCEPT ![i] = "none"]
      BY <2>2 DEF FreePicture, FreeGlyphSet
    <3> QED  BY <1>0, <3>1, FreedAgain
  <2>3. CASE UNCHANGED <<rnFreed, rnUse>> BY <1>0, <2>3 DEF RnFreedTypes
  <2> QED  BY <1>0, <2>1, <2>2, <2>3, TakenId
<1> QED  BY <1>1, <1>2, <1>3, <1>4 DEF RnTypes

LEMMA RnTypesNext == ASSUME RnTypes, RnNext PROVE RnTypes'
<1>0. RnPicTypes /\ RnSourceTypes /\ RnWindowTypes /\ RnFreedTypes BY DEF RnTypes
<1>1. CASE GetXIDList
  <2>1. UNCHANGED <<rnPics, rnSolid, rnPixmap, rnPx, rnDirty>> BY <1>1 DEF GetXIDList, RnKeepFb
  <2>2. RnFreedTypes' BY <1>0, <1>1, FreedTaken
  <2> QED  BY <1>0, <2>1, <2>2 DEF RnTypes, RnPicTypes, RnSourceTypes, RnWindowTypes
<1>2. CASE PixmapGoes
  <2>1. UNCHANGED <<rnPics, rnSolid, rnPx, rnDirty, rnFreed, rnUse>> /\ rnPixmap' = {}
    BY <1>2 DEF PixmapGoes, RnKeepFb
  <2>2. RnFreedTypes' BY <1>0, <2>1 DEF RnFreedTypes
  <2> QED  BY <1>0, <2>1, <2>2 DEF RnTypes, RnPicTypes, RnSourceTypes, RnWindowTypes
<1>3. CASE RnFlush \/ \E frames \in 0..2 : CreateAnimCursor(frames)
  <2>1. UNCHANGED <<rnPics, rnSolid, rnPixmap, rnPx, rnFreed, rnUse>> /\ rnDirty' \subseteq rnDirty
    BY <1>3 DEF RnFlush, CreateAnimCursor
  <2>2. RnFreedTypes' BY <1>0, <2>1 DEF RnFreedTypes
  <2> QED  BY <1>0, <2>1, <2>2 DEF RnTypes, RnPicTypes, RnSourceTypes, RnWindowTypes
<1>4. CASE RnDraws
  <2>1. RnWindowTypes' BY <1>4, DrawsIn DEF RnDraws
  <2>2. UNCHANGED <<rnPics, rnSolid, rnPixmap, rnFreed, rnUse>> BY <1>4, DrawsKeep
  <2>3. RnFreedTypes' BY <1>0, <2>2 DEF RnFreedTypes
  <2> QED  BY <1>0, <2>1, <2>2, <2>3 DEF RnTypes, RnPicTypes, RnSourceTypes
<1> QED  BY <1>1, <1>2, <1>3, <1>4, RnSplits, OnIdKeeps

LEMMA RnTypesStart == RnInit => RnTypes
<1> SUFFICES ASSUME RnInit PROVE RnTypes
  OBVIOUS
<1>1. RnPicTypes BY DEF RnInit, RnPicTypes, Alone
<1>2. RnSourceTypes BY DEF RnInit, RnSourceTypes
<1>3. RnWindowTypes
  <2>1. [c |-> 0, a |-> 1] \in RnPixels BY DEF RnPixels
  <2> QED  BY <2>1 DEF RnInit, RnWindowTypes
<1>4. RnFreedTypes BY DEF RnInit, RnFreedTypes
<1> QED  BY <1>1, <1>2, <1>3, <1>4 DEF RnTypes

LEMMA RnTypesStep == RnTypes /\ (RnNext \/ UNCHANGED rnVars) => RnTypes'
<1>1. ASSUME RnTypes, UNCHANGED rnVars PROVE RnTypes'
  <2>1. UNCHANGED <<rnPics, rnSolid, rnPixmap, rnPx, rnDirty, rnFreed, rnUse>> BY <1>1 DEF rnVars
  <2>2. RnFreedTypes' BY <1>1, <2>1 DEF RnTypes, RnFreedTypes
  <2> QED  BY <1>1, <2>1, <2>2 DEF RnTypes, RnPicTypes, RnSourceTypes, RnWindowTypes
<1> QED  BY <1>1, RnTypesNext

LEMMA RnTypesHold == RnTypes => RnTypeOK
<1> SUFFICES ASSUME RnTypes PROVE RnTypeOK
  OBVIOUS
<1>1. \A i \in RnIds : Cardinality(rnPics[i]) <= 1 BY AllEqualFew DEF RnTypes, RnPicTypes, Alone
<1>2. \A i \in RnIds : rnSolid[i] \subseteq RnPixels BY DEF RnTypes, RnSourceTypes
<1> QED  BY <1>1, <1>2 DEF RnTypes, RnWindowTypes, RnFreedTypes, RnTypeOK

-----------------------------------------------------------------------------
LEMMA DrTypesHold == DrInv => DrTypeOK
<1> SUFFICES ASSUME DrInv PROVE DrTypeOK
  OBVIOUS
<1>1. ASSUME NEW d \in Drawables
      PROVE  /\ drBuf[d].px \in [Cols(drBuf[d]) -> {0, 1}]
             /\ drBuf[d].dirty = Hull(drBuf[d].dirty) /\ drBuf[d].dirty \subseteq 0..2
  <2>1. drBuf[d] \in Bufs BY DEF DrInv, DrShapes
  <2>2. /\ drBuf[d].px \in [Cols(drBuf[d]) -> DrBits]
        /\ drBuf[d].dirty = Hull(drBuf[d].dirty) /\ drBuf[d].dirty \subseteq 0..2
    BY <2>1, BufHas
  <2> QED  BY <2>2 DEF DrBits
<1>2. \A d \in {"w", "k"} : Cardinality(drSaved[d]) <= 1 BY AllEqualFew DEF DrInv, DrShapes
<1> QED  BY <1>1, <1>2 DEF DrInv, DrShapes, DrTypeOK

LEMMA GlTypesHold == GlTypes => GlTypeOK
<1> SUFFICES ASSUME GlTypes PROVE GlTypeOK
  OBVIOUS
<1>1. ASSUME NEW c \in GlClients, NEW k \in GlIds, NEW x \in glCtx[c][k]
      PROVE  /\ x.tag \in 1..(glTag[c] - 1) /\ x.drw \in GlDrawables /\ x.refused \in BOOLEAN
             /\ \A m \in x.mesa : m.px \in GlPictures /\ m.by \subseteq GlClients
  <2>1. x \in GlContextsOf(glTag[c]) BY DEF GlTypes, CtxTypes
  <2> QED  BY <2>1 DEF GlContextsOf, Mesas
<1>2. \A c \in GlClients : glWin[c] \in GlPictures /\ glShown[c] \in GlPictures
  BY DEF GlTypes, WinTypes
<1> QED  BY <1>1, <1>2 DEF GlTypes, BindTypes, Bound, GlTypeOK

TypesInv == MarkInv /\ GcInv /\ RgInv /\ WaitInv /\ AlarmInv /\ SyTypes /\ RnTypes /\ ClTypes

(* MCXResources, for any ids, operators, rectangles, deltas, colours and      *)
(* counts and any number of requests: the state of every component has its    *)
(* type.  In particular the window keeps premultiplied pixels whatever is     *)
(* composited from whatever source, no freed id is on the list twice or still *)
(* in use, a connection waits for one thing at a time, the search position of *)
(* a colormap stays inside its table and an id stands for one resource.       *)
THEOREM ResourceTypesKept == MCSpec => []ResourcesTypeOK
<1>1. MCInit => TypesInv
  <2> SUFFICES ASSUME MCInit PROVE TypesInv
    OBVIOUS
  <2>1. WaitInv BY DEF MCInit, SyInit, WaitInv, WaitsJustified, SyCounters
  <2>2. AlarmInv BY DEF MCInit, SyInit, AlarmInv, Alarm
  <2>3. SyTypes /\ RnTypes /\ ClTypes BY SyTypesStart, RnTypesStart, ClTypesStart DEF MCInit
  <2> QED  BY <2>1, <2>2, <2>3, MarkStarts, AlgorithmsStart DEF TypesInv
<1>2. TypesInv /\ [MCNext]_mcVars => TypesInv'
  <2> SUFFICES ASSUME TypesInv, [MCNext]_mcVars PROVE TypesInv'
    OBVIOUS
  <2>0. MarkInv /\ GcInv /\ RgInv /\ SyInv /\ SyTypes /\ RnTypes /\ ClTypes BY DEF TypesInv, SyInv
  <2>1. (SyNext \/ UNCHANGED syVars) /\ (RnNext \/ UNCHANGED rnVars) /\ (ClNext \/ UNCHANGED clVars)
    BY DEF MCNext, mcVars
  <2>2. MarkInv' /\ GcInv' /\ RgInv' BY <2>0, MarkStep, AlgorithmsStep
  <2>3. WaitInv' /\ AlarmInv' BY <2>0, <2>1, SyStep, SyUntouched DEF SyInv
  <2>4. SyTypes' /\ RnTypes' /\ ClTypes' BY <2>0, <2>1, <2>3, SyTypesStep, RnTypesStep, ClTypesStep
  <2> QED  BY <2>2, <2>3, <2>4 DEF TypesInv
<1>3. TypesInv => ResourcesTypeOK
  BY DrTypesHold, GlTypesHold, GcHolds, RgHolds, SyTypesHold, RnTypesHold, ClTypesHold
     DEF TypesInv, MarkInv, ResourcesTypeOK
<1> QED  BY <1>1, <1>2, <1>3, PTL DEF MCSpec

=============================================================================
