-------------------------------- MODULE XGlx --------------------------------
(***************************************************************************)
(* GLX: contexts rendered in software by OSMesa, made current on a         *)
(* drawable, and copied into the window when the client swaps buffers.     *)
(* The client tasks run on the worker threads of the runtime, and OSMesa   *)
(* keeps its current context per thread: every request that calls the GL   *)
(* must first make its own context current on the thread it runs on.       *)
(* OSMesa may be missing, and it may refuse a context or a size.           *)
(*                                                                         *)
(* Abstracted: one axis, as in XDraw; a picture holds "gl" where the GL    *)
(* drew, "x" where an X request drew and "bg", the same with red and blue  *)
(* exchanged, elsewhere; a context knows which clients' commands it        *)
(* executed and whether it has the font lists.                             *)
(* Every client has one window "w" and one id "g" for its GLX drawables.   *)
(* A GL call on a thread whose context was destroyed from another thread   *)
(* is undefined; here it changes no picture (a crash ends the behaviour).  *)
(***************************************************************************)
EXTENDS XGlxWire, Sequences

CONSTANTS GlClients,   \* clients
          GlIds,       \* context ids of a client
          GlThreads,   \* worker threads
          GlMaxSteps   \* bound on the number of requests

GlNone == "none"                     \* id 0
GlWidths == {1, 2}
GlScreen == 3                        \* width of the screen
GlDrawables == {"w", "g", GlNone}
GlInk == {"bg", "x", "gl", "x swapped", "gl swapped"}
\* A pixel whose red and blue are exchanged.
Swapped(v) ==
    CASE v = "x" -> "x swapped"  [] v = "x swapped" -> "x"
      [] v = "gl" -> "gl swapped" [] v = "gl swapped" -> "gl"
      [] OTHER -> v
\* Rendering commands: a Clear, one cut short, a BindTexture.
GlCommands == {<<127, 4>>, <<127, 2>>, <<4117, 8>>}

VARIABLES
    glCtx,     \* glCtx[c][k]: {} or {[tag, drw, refused, mesa]}; mesa: {} or {[px, by, lists]};
               \* refused: OSMesa did not make it current when it was bound last
    glCur,     \* glCur[c]: current_context
    glCurDrw,  \* glCurDrw[c]: current_drawable
    glTag,     \* glTag[c]: next_tag
    glDrw,     \* glDrw[c]: {} or {kind of the GLX drawable "g"}
    glThread,  \* glThread[t]: {} or {Binding} OSMesa has current there
    glWin,     \* glWin[c]: the window's pixels
    glDirty,   \* glDirty[c]: its dirty columns
    glShown,   \* glShown[c]: the pixels the frontend has (history)
    glSteps

glVars == <<glCtx, glCur, glCurDrw, glTag, glDrw, glThread, glWin, glDirty, glShown, glSteps>>

GlInit ==
    /\ glCtx = [c \in GlClients |-> [k \in GlIds |-> {}]]
    /\ glCur = [c \in GlClients |-> GlNone] /\ glCurDrw = [c \in GlClients |-> GlNone]
    /\ glTag = [c \in GlClients |-> 1]
    /\ glDrw = [c \in GlClients |-> {}] /\ glThread = [t \in GlThreads |-> {}]
    /\ glWin = [c \in GlClients |-> [i \in 0..1 |-> "bg"]] /\ glShown = glWin
    /\ glDirty = [c \in GlClients |-> {}]
    /\ glSteps = 0

GlThe(S) == CHOOSE e \in S : TRUE
GlCtx(c, k) == GlThe(glCtx[c][k])
Wide(f) == Cardinality(DOMAIN f)
Blank(n, v) == [i \in 0..(n - 1) |-> v]

GlCounted == glSteps < GlMaxSteps /\ glSteps' = glSteps + 1
WindowKept == UNCHANGED <<glWin, glDirty, glShown>>
BindingKept == UNCHANGED <<glCur, glCurDrw, glTag, glDrw>>

(***************************************************************************)
(* Contexts.                                                               *)
(***************************************************************************)
\* A Mesa context is named by the tag of the context it was made for: an id may be
\* used again, a tag never is.
Binding(c, k) == <<c, k, GlCtx(c, k).tag>>

\* A Mesa context that is dropped is destroyed on the thread of the request: it is
\* no longer current there, and stays current on any other thread.
Dropped(c, k, t) ==
    [glThread EXCEPT ![t] = IF glCtx[c][k] = {} THEN @ ELSE @ \ {Binding(c, k)}]

\* Creating a context again under its id replaces it.
CreateContext(c, k, t) ==
    /\ GlCounted
    /\ glCtx' = [glCtx EXCEPT ![c][k] =
                    {[tag |-> glTag[c], drw |-> GlNone, refused |-> FALSE, mesa |-> {}]}]
    /\ glTag' = [glTag EXCEPT ![c] = @ + 1]
    /\ glThread' = Dropped(c, k, t)
    /\ UNCHANGED <<glCur, glCurDrw, glDrw>> /\ WindowKept

DestroyContext(c, k, t) ==
    /\ GlCounted
    /\ glCtx' = [glCtx EXCEPT ![c][k] = {}]
    /\ glThread' = Dropped(c, k, t)
    /\ glCur' = [glCur EXCEPT ![c] = IF @ = k THEN GlNone ELSE @]
    /\ glCurDrw' = [glCurDrw EXCEPT ![c] = IF glCur[c] = k THEN GlNone ELSE @]
    /\ UNCHANGED <<glTag, glDrw>> /\ WindowKept

\* Only windows and pixmaps have a size of their own: the id of a GLX window
\* is neither and counts as the screen.
GetDrawableSize(c, d) == IF d = "w" THEN Wide(glWin[c]) ELSE GlScreen

\* The picture of a context of n columns: made when there is none, made anew when
\* it has another width.
Sized(mesa, n) ==
    IF mesa # {} /\ Wide(GlThe(mesa).px) = n THEN mesa
    ELSE {[px |-> Blank(n, "bg"),
           by |-> IF mesa = {} THEN {} ELSE GlThe(mesa).by,
           lists |-> mesa # {} /\ GlThe(mesa).lists]}

\* ok: OSMesa makes the context current with a picture of that size.  Without ok (it
\* is not available, returns no context or refuses the size) no context is made, and
\* one that was there has its new picture and is not current on the thread.
DoMakeCurrent(c, k, d, t, ok) ==
    /\ GlCounted
    /\ glCur' = [glCur EXCEPT ![c] = k] /\ glCurDrw' = [glCurDrw EXCEPT ![c] = d]
    /\ IF glCtx[c][k] = {} THEN UNCHANGED <<glCtx, glThread>>
       ELSE LET mesa == GlCtx(c, k).mesa
                picture == IF ok \/ mesa # {} THEN Sized(mesa, GetDrawableSize(c, d)) ELSE {}
            IN  /\ glCtx' = [glCtx EXCEPT ![c][k] =
                       {[GlCtx(c, k) EXCEPT !.drw = d, !.refused = ~ok, !.mesa = picture]}]
                /\ glThread' = [glThread EXCEPT ![t] = IF ok THEN {Binding(c, k)} ELSE @]
    /\ UNCHANGED <<glTag, glDrw>> /\ WindowKept

\* Context 0: OSMesa is not told.
ReleaseCurrent(c) ==
    /\ GlCounted
    /\ glCur' = [glCur EXCEPT ![c] = GlNone] /\ glCurDrw' = [glCurDrw EXCEPT ![c] = GlNone]
    /\ UNCHANGED <<glCtx, glTag, glDrw, glThread>> /\ WindowKept

\* The GLX drawables share one table: the same id made again is replaced, and any
\* of the destroying requests removes any kind.
GlxDrawable(c, kind) ==
    /\ GlCounted /\ glDrw' = [glDrw EXCEPT ![c] = kind]
    /\ UNCHANGED <<glCtx, glCur, glCurDrw, glTag, glThread>> /\ WindowKept
CreateGlxWindow(c) == GlxDrawable(c, {"Window"})
CreateGlxPixmap(c) == GlxDrawable(c, {"Pixmap"})
CreatePbuffer(c) == GlxDrawable(c, {"Pbuffer"})
DestroyGlxPixmap(c) == glDrw[c] # {} /\ GlxDrawable(c, {})

(***************************************************************************)
(* Calls of the GL.                                                        *)
(***************************************************************************)
HasPicture(c) == glCur[c] # GlNone /\ glCtx[c][glCur[c]] # {} /\ GlCtx(c, glCur[c]).mesa # {}
Picture(c) == GlThe(GlCtx(c, glCur[c]).mesa)

\* "Ensure the context is current": without a picture, or with one of a size OSMesa
\* refuses, the thread keeps the context it had last.
EnsureCurrent(c, t) ==
    IF HasPicture(c) /\ ~GlCtx(c, glCur[c]).refused THEN {Binding(c, glCur[c])} ELSE glThread[t]

\* What a rendering command of len bytes does to a picture.
Rendered(m, op, len) ==
    LET d == CHOOSE e \in Families[FamilyOf(op)] : e.op = op
    IN  IF op = 127 /\ len >= d.need
        THEN [m EXCEPT !.px = Blank(Wide(m.px), "gl")] ELSE m

\* The calls of the GL: rendering commands, and those about display lists.
Command(op, len) == [call |-> "render", op |-> op, len |-> len]
Lists(there) == [call |-> "lists", there |-> there]

Called(m, g) == IF g.call = "render" THEN Rendered(m, g.op, g.len) ELSE [m EXCEPT !.lists = g.there]

\* The GL executes in the context that is current on the thread, if any.
Executes(c, on, g) ==
    glCtx' = [e \in GlClients |-> [k \in GlIds |->
        IF glCtx[e][k] = {} \/ Binding(e, k) \notin on THEN glCtx[e][k]
        ELSE {[x EXCEPT !.mesa = {[Called(m, g) EXCEPT !.by = @ \cup {c}] : m \in @}]
                 : x \in glCtx[e][k]}]]

\* Render and RenderLarge, whose commands are walked alike.
Render(c, t, op, len) ==
    /\ GlCounted
    /\ glThread' = [glThread EXCEPT ![t] = EnsureCurrent(c, t)]
    /\ Executes(c, EnsureCurrent(c, t), Command(op, len))
    /\ BindingKept /\ WindowKept

\* DeleteLists, as one of the requests that answer at once.
Single(c, t) ==
    /\ GlCounted
    /\ glThread' = [glThread EXCEPT ![t] = EnsureCurrent(c, t)]
    /\ Executes(c, EnsureCurrent(c, t), Lists(FALSE))
    /\ BindingKept /\ WindowKept

\* The lists of an X font; the context tag is read and not used.
UseXFont(c, t) ==
    /\ GlCounted
    /\ Executes(c, glThread[t], Lists(TRUE))
    /\ UNCHANGED glThread /\ BindingKept /\ WindowKept

(***************************************************************************)
(* Between the picture and the window.                                     *)
(***************************************************************************)
\* A slip: the columns are marked for the width of the picture's old window.
BlitMarksLess(c, n) == 0..(n - 2)

BlitMarks(c, n) == 0..(n - 1)

\* blit_osmesa_to_drawable; an id that is no window or pixmap is not found.
BlitOsmesaToDrawable(c, d, t) ==
    /\ glThread' = [glThread EXCEPT ![t] = EnsureCurrent(c, t)]
    /\ IF HasPicture(c) /\ d = "w"
       THEN LET n == Min({Wide(Picture(c).px), Wide(glWin[c])})
            IN  /\ glWin' = [glWin EXCEPT ![c] = [i \in DOMAIN @ |->
                                 IF i < n THEN Picture(c).px[i] ELSE @[i]]]
                /\ glDirty' = [glDirty EXCEPT ![c] = @ \cup BlitMarks(c, n)]
       ELSE UNCHANGED <<glWin, glDirty>>
    /\ UNCHANGED glShown

SwapBuffers(c, d, t) ==
    GlCounted /\ BlitOsmesaToDrawable(c, d, t) /\ UNCHANGED glCtx /\ BindingKept

\* glFinish in the own context; then, with a drawable, as a swap.
WaitGL(c, t) ==
    /\ glCur[c] # GlNone
    /\ GlCounted /\ BlitOsmesaToDrawable(c, glCurDrw[c], t)
    /\ UNCHANGED glCtx /\ BindingKept

\* The window's pixels become the context's picture, as far as both go.  A swap
\* turns RGBA into the window's BGRA; here the bytes are copied as they are.
WaitX(c, t) ==
    /\ HasPicture(c) /\ glCurDrw[c] = "w" /\ GlCounted
    /\ glThread' = [glThread EXCEPT ![t] = EnsureCurrent(c, t)]
    /\ LET n == Min({Wide(Picture(c).px), Wide(glWin[c])})
       IN  glCtx' = [glCtx EXCEPT ![c][glCur[c]] = {[x EXCEPT !.mesa =
               {[m EXCEPT !.px = [i \in DOMAIN @ |-> IF i < n THEN Swapped(glWin[c][i]) ELSE @[i]]]
                   : m \in @}] : x \in @}]
    /\ BindingKept /\ WindowKept

\* An X request draws in the window; the window changes its width, which clears
\* and marks it; the flush sends the dirty columns.
XDraws(c) ==
    /\ GlCounted /\ glWin' = [glWin EXCEPT ![c] = Blank(Wide(@), "x")]
    /\ glDirty' = [glDirty EXCEPT ![c] = DOMAIN glWin[c]]
    /\ UNCHANGED <<glShown, glCtx, glThread>> /\ BindingKept

XResizes(c, n) ==
    /\ n # Wide(glWin[c]) /\ GlCounted
    /\ glWin' = [glWin EXCEPT ![c] = Blank(n, "bg")]
    /\ glShown' = [glShown EXCEPT ![c] = Blank(n, "bg")]
    /\ glDirty' = [glDirty EXCEPT ![c] = 0..(n - 1)]
    /\ UNCHANGED <<glCtx, glThread>> /\ BindingKept

GlFlush(c) ==
    /\ glDirty[c] # {}
    /\ glShown' = [glShown EXCEPT ![c] = [i \in DOMAIN @ |->
                      IF i \in glDirty[c] THEN glWin[c][i] ELSE @[i]]]
    /\ glDirty' = [glDirty EXCEPT ![c] = {}]
    /\ UNCHANGED <<glCtx, glThread, glWin, glSteps>> /\ BindingKept

GlContexts(c) ==
    \/ \E k \in GlIds, t \in GlThreads : CreateContext(c, k, t) \/ DestroyContext(c, k, t)
    \/ \E k \in GlIds, d \in GlDrawables, t \in GlThreads, ok \in BOOLEAN :
           DoMakeCurrent(c, k, d, t, ok)
    \/ ReleaseCurrent(c)
    \/ CreateGlxWindow(c) \/ CreateGlxPixmap(c) \/ CreatePbuffer(c) \/ DestroyGlxPixmap(c)
GlCalls(c, t) ==
    \/ \E m \in GlCommands : Render(c, t, m[1], m[2])
    \/ Single(c, t) \/ UseXFont(c, t)
    \/ \E d \in {"w", "g"} : SwapBuffers(c, d, t)
    \/ WaitGL(c, t) \/ WaitX(c, t)
GlNext ==
    \E c \in GlClients :
        \/ GlContexts(c)
        \/ \E t \in GlThreads : GlCalls(c, t)
        \/ XDraws(c) \/ GlFlush(c) \/ \E n \in GlWidths : XResizes(c, n)

GlSpec == GlInit /\ [][GlNext]_glVars

(***************************************************************************)
(* Properties.                                                             *)
(***************************************************************************)
GlPictures == UNION {[0..(n - 1) -> GlInk] : n \in GlWidths \cup {GlScreen}}
GlTypeOK ==
    /\ \A c \in GlClients, k \in GlIds : \A x \in glCtx[c][k] :
           /\ x.tag \in 1..(glTag[c] - 1) /\ x.drw \in GlDrawables /\ x.refused \in BOOLEAN
           /\ \A m \in x.mesa : m.px \in GlPictures /\ m.by \subseteq GlClients
    /\ glCur \in [GlClients -> GlIds \cup {GlNone}]
    /\ glCurDrw \in [GlClients -> GlDrawables]
    /\ \A c \in GlClients : glWin[c] \in GlPictures /\ glShown[c] \in GlPictures
    /\ \A t \in GlThreads : \A b \in glThread[t] : b \in GlClients \X GlIds \X Nat

\* Whatever the interleaving of the GL with X requests and window changes, a
\* column whose pixel the frontend does not have is dirty: a swap marks all it
\* writes.
GlReported ==
    \A c \in GlClients : \A i \in DOMAIN glWin[c] :
        glWin[c][i] # glShown[c][i] => i \in glDirty[c]

\* A client's contexts have different tags.  A context bound to a drawable has a
\* picture unless OSMesa refused it.  And what a thread has current is the picture
\* of the context it was made for or of one that is gone, never of a context made
\* later under the same id: the tag of a binding was given out, and if a context
\* still has it, that context has a picture.
TagsDistinct ==
    /\ \A c \in GlClients : \A j, k \in GlIds :
           /\ (j # k /\ glCtx[c][j] # {} /\ glCtx[c][k] # {})
                  => GlCtx(c, j).tag # GlCtx(c, k).tag
           /\ \A x \in glCtx[c][k] : x.drw # GlNone => x.mesa # {} \/ x.refused
    /\ \A t \in GlThreads : \A b \in glThread[t] :
           /\ b[3] < glTag[b[1]]
           /\ \A x \in glCtx[b[1]][b[2]] : x.tag = b[3] => x.mesa # {}

\* The comment that makes OSMesa contexts Send: a context is only ever used by the
\* task of its own client.
CommandsStayHome ==
    \A c \in GlClients, k \in GlIds : \A x \in glCtx[c][k] : \A m \in x.mesa :
        m.by \subseteq {c}

=============================================================================
