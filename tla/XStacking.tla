----------------------------- MODULE XStacking -----------------------------
(***************************************************************************)
(* The stacking order, geometry and visibility of the children of one      *)
(* window (the root), in one client's copy of the tree: MapWindow,         *)
(* UnmapWindow, ConfigureWindow, CirculateWindow and the EWMH layers.      *)
(*                                                                         *)
(* Abstracted: geometry has one axis (all windows share the other one) and *)
(* no borders; every window is InputOutput, has a uuid and is not          *)
(* redirected (XRegistry has the redirect); events are not delivered       *)
(* and the frontend is not told.  One of the windows has a child of its    *)
(* own, for window gravity.                                                *)
(***************************************************************************)
EXTENDS Integers, Sequences, FiniteSets, SequencesExt

CONSTANTS StWins,        \* the siblings
          StLayerOf,     \* WindowType::stacking_layer of every window
          StTransient,   \* WM_TRANSIENT_FOR: a partial function StWins -> StWins
          StManaged,     \* the windows whose _NET_WM_STATE changes
          StXs,          \* the positions ConfigureWindow may ask for
          StWidths,      \* the widths it may ask for; 0 is refused
          StHints,       \* WM_NORMAL_HINTS [min, max, inc, base] (0: not given)
          StPlace,       \* the position WM_NORMAL_HINTS asks for: a partial function
          StKidOf,       \* the window that has a child
          StKidGravity   \* that child's win_gravity

ASSUME StAssumption ==
    /\ IsFiniteSet(StWins) /\ StKidOf \in StWins
    /\ StLayerOf \in [StWins -> 0..4]
    /\ DOMAIN StTransient \subseteq StWins
    /\ \A w \in DOMAIN StTransient : StTransient[w] \in StWins \ {w}
    /\ StManaged \subseteq StWins
    /\ StXs \subseteq Int /\ StWidths \subseteq Nat
    /\ StHints \in [{"min", "max", "inc", "base"} -> Nat]
    /\ DOMAIN StPlace \subseteq StWins /\ \A w \in DOMAIN StPlace : StPlace[w] \in Int
    /\ StKidGravity \in 0..10

VARIABLES
    stOrder,    \* children_order, bottom first
    stMapped,   \* the mapped windows
    stX, stW,   \* geometry
    stState,    \* _NET_WM_STATE: "none", "above" or "below"
    stVis,      \* WindowState.visibility, as last computed
    stKidX      \* position of the child in StKidOf

stVars == <<stOrder, stMapped, stX, stW, stState, stVis, stKidX>>

Unobscured == 0
PartiallyObscured == 1
FullyObscured == 2

StTypeOK ==
    /\ stOrder \in SetToSeqs(StWins)
    /\ stMapped \subseteq StWins
    /\ stX \in [StWins -> Int] /\ stW \in [StWins -> Nat]
    /\ stState \in [StWins -> {"none", "above", "below"}]
    /\ stVis \in [StWins -> 0..2]
    /\ stKidX \in Int

(***************************************************************************)
(* Layers and insertion into the order.                                    *)
(***************************************************************************)
StMax(i, j) == IF i >= j THEN i ELSE j
StMin(i, j) == IF i <= j THEN i ELSE j

EffectiveLayer(w) ==
    CASE stState[w] = "above" -> StMax(StLayerOf[w], 3)
      [] stState[w] = "below" -> 1
      [] OTHER -> StLayerOf[w]

\* An order lists every sibling once.
PosIn(order, w) == CHOOSE i \in 1..Len(order) : order[i] = w
Drop(order, w) == RemoveAt(order, PosIn(order, w))

\* restack_by_window_type: above the last sibling of the same or a lower layer.
RestackByWindowType(order, w) ==
    LET rest == Drop(order, w)
        le == {i \in 1..Len(rest) : EffectiveLayer(rest[i]) <= EffectiveLayer(w)}
        pos == IF le = {} THEN 1 ELSE 1 + CHOOSE i \in le : \A j \in le : j <= i
    IN  InsertAt(rest, pos, w)

\* Mutant: to the very bottom, whatever the layer.
LowerToBottom(order, w) == <<w>> \o Drop(order, w)

\* Stack mode Below without a sibling: under the first one of its layer or above.
LowerInLayer(order, w) ==
    LET rest == Drop(order, w)
        ge == {i \in 1..Len(rest) : EffectiveLayer(rest[i]) >= EffectiveLayer(w)}
        pos == IF ge = {} THEN Len(rest) + 1 ELSE CHOOSE i \in ge : \A j \in ge : i <= j
    IN  InsertAt(rest, pos, w)

\* Mutant: the old place is not given up.
AboveKeepsOld(order, w, s) == InsertAt(order, PosIn(order, s) + 1, w)

\* Stack modes Above and Below with a sibling, and the ends of the order.
AboveSibling(order, w, s) ==
    LET rest == Drop(order, w) IN InsertAt(rest, PosIn(rest, s) + 1, w)
BelowSibling(order, w, s) ==
    LET rest == Drop(order, w) IN InsertAt(rest, PosIn(rest, s), w)
ToTop(order, w) == Append(Drop(order, w), w)
ToBottom(order, w) == <<w>> \o Drop(order, w)

\* A mapped transient goes right above the window it is transient for.
TransientRestack(order, w) ==
    IF w \in DOMAIN StTransient THEN AboveSibling(order, w, StTransient[w]) ELSE order

(***************************************************************************)
(* Overlap and visibility.                                                 *)
(***************************************************************************)
OverlapLen(x, wd, v, s) ==
    StMax(0, StMin(x[v] + wd[v], x[s] + wd[s]) - StMax(x[v], x[s]))
StOverlap(x, wd, v, s) == OverlapLen(x, wd, v, s) > 0

\* The siblings above (below) w that can occlude (be occluded by) it: one
\* named sibling or all of them.  Unmapped ones count, as in the code.
StAbove(order, w, sib) ==
    {order[i] : i \in PosIn(order, w)+1..Len(order)} \cap (IF sib = {} THEN StWins ELSE sib)
StBelow(order, w, sib) ==
    {order[i] : i \in 1..PosIn(order, w)-1} \cap (IF sib = {} THEN StWins ELSE sib)
OccludedByAbove(order, x, wd, w, sib) ==
    \E s \in StAbove(order, w, sib) : StOverlap(x, wd, w, s)
OccludesBelow(order, x, wd, w, sib) ==
    \E s \in StBelow(order, w, sib) : StOverlap(x, wd, w, s)

\* compute_visibility adds the overlaps of the mapped siblings above.
ComputeVisibility(order, mapped, x, wd, w) ==
    LET over == {s \in StAbove(order, w, {}) \cap mapped : StOverlap(x, wd, w, s)}
        area == FoldLeft(LAMBDA acc, s : acc + OverlapLen(x, wd, w, s), 0, SetToSeq(over))
    IN  CASE w \notin mapped -> FullyObscured
          [] w \in mapped /\ over = {} -> Unobscured
          [] w \in mapped /\ over # {} /\ area >= wd[w] -> FullyObscured
          [] OTHER -> PartiallyObscured

SiblingVisibility(order, mapped, x, wd) ==
    [w \in StWins |-> ComputeVisibility(order, mapped, x, wd, w)]

StInit ==
    /\ stOrder \in SetToSeqs(StWins)
    /\ stMapped = {}
    /\ stX = [w \in StWins |-> 0] /\ stW = [w \in StWins |-> StMax(1, StHints.min)]
    /\ stState = [w \in StWins |-> "none"]
    /\ stVis = [w \in StWins |-> Unobscured]
    /\ stKidX = 0

\* The position hint moves a window when it is mapped.
Placed(x, w) == IF w \in DOMAIN StPlace THEN [x EXCEPT ![w] = StPlace[w]] ELSE x

\* What MapWindow does to one unmapped window: it goes to the place its hints ask
\* for, its visibility is computed at its old place in the order, then it is
\* restacked; its siblings' is not.
StMap(w) ==
    /\ w \notin stMapped
    /\ stMapped' = stMapped \cup {w}
    /\ stX' = Placed(stX, w)
    /\ stVis' = [stVis EXCEPT ![w] =
                    ComputeVisibility(stOrder, stMapped \cup {w}, Placed(stX, w), stW, w)]
    /\ stOrder' = TransientRestack(RestackByWindowType(stOrder, w), w)
    /\ UNCHANGED <<stW, stState, stKidX>>

\* MapSubwindows maps the unmapped children in the order of a HashMap.
MapOne(acc, w) ==
    [order |-> TransientRestack(RestackByWindowType(acc.order, w), w),
     mapped |-> acc.mapped \cup {w},
     x |-> Placed(acc.x, w),
     vis |-> [acc.vis EXCEPT ![w] =
                ComputeVisibility(acc.order, acc.mapped \cup {w}, Placed(acc.x, w), stW, w)]]

MappedAll(seq) ==
    LET after[i \in 0..Len(seq)] ==
            IF i = 0 THEN [order |-> stOrder, mapped |-> stMapped, x |-> stX, vis |-> stVis]
            ELSE MapOne(after[i-1], seq[i])
    IN  after[Len(seq)]

StMapSubwindows ==
    /\ stMapped # StWins
    /\ \E seq \in SetToSeqs(StWins \ stMapped) :
        LET r == MappedAll(seq)
        IN  stOrder' = r.order /\ stMapped' = r.mapped /\ stX' = r.x /\ stVis' = r.vis
    /\ UNCHANGED <<stW, stState, stKidX>>

\* UnmapWindow takes the mapped transients of a window, and theirs, with it.
UnmapSet(w) ==
    LET f[n \in 0..Cardinality(StWins)] ==
            IF n = 0 THEN {w}
            ELSE f[n-1] \cup {t \in DOMAIN StTransient \cap stMapped : StTransient[t] \in f[n-1]}
    IN  f[Cardinality(StWins)]

StUnmap(w) ==
    /\ w \in stMapped
    /\ stMapped' = stMapped \ UnmapSet(w)
    /\ stVis' = SiblingVisibility(stOrder, stMapped \ UnmapSet(w), stX, stW)
    /\ UNCHANGED <<stOrder, stX, stW, stState, stKidX>>

StUnmapSubwindows ==
    /\ stMapped # {}
    /\ stMapped' = {}
    /\ stVis' = SiblingVisibility(stOrder, {}, stX, stW)
    /\ UNCHANGED <<stOrder, stX, stW, stState, stKidX>>

(***************************************************************************)
(* ConfigureWindow.  A request is [x, width, bad, sib, mode]; x and width  *)
(* are sets with at most one element (given or not), mode 5 means not      *)
(* given, and bad names what is refused after the width was set: a zero    *)
(* height, a stack mode above 4, or a sibling that is none.                *)
(***************************************************************************)
ClampWidth(v) ==
    LET h == StHints
        base == IF h.base > 0 THEN h.base ELSE h.min
        whole == IF h.inc > 1 /\ v > base THEN v - ((v - base) % h.inc) ELSE v
        atLeast == IF h.min > 0 /\ whole < h.min THEN h.min ELSE whole
    IN  IF h.max > 0 /\ atLeast > h.max THEN h.max ELSE atLeast

\* Rust's division truncates towards zero.
StHalf(d) == IF d >= 0 THEN d \div 2 ELSE -((-d) \div 2)
WinGravityDelta(g, d) ==
    CASE g \in {2, 5, 8} -> StHalf(d)
      [] g \in {3, 6, 9} -> d
      [] OTHER -> 0

\* A resize moves the child by what its gravity says of the size really set.
KidMoved(w, oldW, newW) ==
    IF w = StKidOf THEN stKidX + WinGravityDelta(StKidGravity, newW - oldW) ELSE stKidX

\* The order after stack mode m; a sibling set is empty or a singleton.
Restacked(order, x, wd, w, sib, m) ==
    LET s == CHOOSE v \in sib : TRUE
    IN  CASE m = 0 /\ sib = {} -> RestackByWindowType(order, w)
          [] m = 0 /\ sib # {} -> AboveSibling(order, w, s)
          [] m = 1 /\ sib = {} -> LowerInLayer(order, w)
          [] m = 1 /\ sib # {} -> BelowSibling(order, w, s)
          [] m \in {2, 4} /\ OccludedByAbove(order, x, wd, w, sib) -> ToTop(order, w)
          [] m = 3 /\ OccludesBelow(order, x, wd, w, sib) -> ToBottom(order, w)
          [] m = 4 /\ ~OccludedByAbove(order, x, wd, w, sib)
                   /\ OccludesBelow(order, x, wd, w, sib) -> ToBottom(order, w)
          [] OTHER -> order

\* A request that fails half way keeps what it did: x is already set when a
\* zero width is refused, x and the width when a zero height or the stack mode
\* is, before the child is moved; geometry, the child and the shared copy are
\* already changed when the sibling turns out not to be one.
ConfigureRefused(w, nx, nw) ==
    /\ stX' = [stX EXCEPT ![w] = nx]
    /\ stW' = [stW EXCEPT ![w] = nw]
    /\ UNCHANGED <<stOrder, stMapped, stState, stVis, stKidX>>

StConfigure(w, nx, nw, bad, sib, m) ==
    LET x2 == [stX EXCEPT ![w] = IF nx = {} THEN @ ELSE CHOOSE v \in nx : TRUE]
        asked == CHOOSE v \in nw : TRUE
        w2 == [stW EXCEPT ![w] = IF nw = {} THEN @ ELSE ClampWidth(asked)]
        order2 == Restacked(stOrder, x2, w2, w, sib, m)
        changed == nx # {} \/ nw # {}
    IN  \/ nw = {0} /\ ConfigureRefused(w, x2[w], stW[w])
        \/ nw # {0} /\ bad \in {"height", "mode"} /\ ConfigureRefused(w, x2[w], w2[w])
        \/ /\ nw # {0} /\ bad \in {"none", "sibling"}
           /\ stX' = x2 /\ stW' = w2
           /\ stKidX' = KidMoved(w, stW[w], w2[w])
           /\ IF m # 5 /\ bad = "sibling"
              THEN UNCHANGED <<stOrder, stVis>>
              ELSE /\ stOrder' = order2
                   /\ stVis' = IF changed \/ m # 5
                               THEN SiblingVisibility(order2, stMapped, x2, w2) ELSE stVis
           /\ UNCHANGED <<stMapped, stState>>

\* CirculateWindow on the parent: among the mapped children, the lowest is
\* raised or the highest lowered.  Visibility is not recomputed.
StCirculate(raise) ==
    LET kids == {i \in 1..Len(stOrder) : stOrder[i] \in stMapped}
        target == stOrder[CHOOSE i \in kids :
                            \A j \in kids : IF raise THEN i <= j ELSE j <= i]
    IN  /\ Cardinality(kids) >= 2
        /\ stOrder' = IF raise THEN ToTop(stOrder, target) ELSE ToBottom(stOrder, target)
        /\ UNCHANGED <<stMapped, stX, stW, stState, stVis, stKidX>>

\* A property change of _NET_WM_STATE moves a window to another layer.
StSetState(w, s) ==
    /\ w \in StManaged /\ stState[w] # s
    /\ stState' = [stState EXCEPT ![w] = s]
    /\ UNCHANGED <<stOrder, stMapped, stX, stW, stVis, stKidX>>

StOpt(S) == {{}} \cup {{e} : e \in S}

\* ConfigureWindow requests: of the geometry, those refused half way, and of the
\* stacking order.
StRequests(w) ==
    (StOpt(StXs) \X StOpt(StWidths) \X {"none", "height", "mode"} \X {{}} \X {5})
    \cup ({{}} \X StOpt(StWidths) \X {"sibling"} \X {{}} \X {0})
    \cup ({{}} \X {{}} \X {"none"} \X StOpt(StWins \ {w}) \X (0..4))

StNext ==
    \/ \E w \in StWins :
        \/ StMap(w) \/ StUnmap(w)
        \/ \E s \in {"none", "above", "below"} : StSetState(w, s)
        \/ \E q \in StRequests(w) : StConfigure(w, q[1], q[2], q[3], q[4], q[5])
    \/ StMapSubwindows \/ StUnmapSubwindows
    \/ \E raise \in BOOLEAN : StCirculate(raise)

StSorted(order) ==
    \A i \in 1..Len(order)-1 : EffectiveLayer(order[i]) <= EffectiveLayer(order[i+1])

\* The steps that go through the layers: a map (of a transient: for a window
\* of its own layer), and a raise or lower that names no sibling.
StLayered ==
    \/ /\ stMapped' # stMapped
       /\ \A w \in DOMAIN StTransient \cap (stMapped' \ stMapped) :
              EffectiveLayer(w) = EffectiveLayer(StTransient[w])
    \/ \E w \in StWins, m \in {0, 1} : StConfigure(w, {}, {}, "none", {}, m)

LayersKept ==
    StSorted(stOrder) /\ stState' = stState /\ ~StSorted(stOrder') => ~StLayered

\* A resize of the parent that is refused after the width was set.
StHalfDone ==
    \E nx \in StOpt(StXs), nw \in StOpt(StWidths), bad \in {"height", "mode"} :
        StConfigure(StKidOf, nx, nw, bad, {}, 5)

EastGravityKept ==
    StKidGravity \in {3, 6, 9} /\ ~StHalfDone =>
        stKidX' - stW'[StKidOf] = stKidX - stW[StKidOf]

\* restack_by_window_type, the lowering of ConfigureWindow and the transient
\* rule of MapWindow never break the EWMH layers between them: an order that
\* was sorted by layer is left unsorted only by a step outside StLayered.  And
\* a child whose gravity is an east one keeps its distance from its parent's
\* right edge, whatever the size hints made of the size asked for and even
\* when the request is then refused for its sibling; only a request refused for
\* its height or stack mode, which the code does after it has set the width and
\* before it moves the children, leaves the child behind.
StackingKept == [][LayersKept /\ EastGravityKept]_stVars

StSpec == StInit /\ [][StNext]_stVars
=============================================================================
