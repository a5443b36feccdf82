------------------------------ MODULE XPointer ------------------------------
(***************************************************************************)
(* Where a pointer event goes in one X11 connection: confinement, pointer  *)
(* barriers, the deepest window under the pointer, the window the event is *)
(* reported to, and the EnterNotify and LeaveNotify events of every change *)
(* of the window the pointer is in (last_entered_window).                  *)
(*                                                                         *)
(* A point is a column and a row.  Windows reach over the whole height, so *)
(* a window is the set of columns it covers.  The tree is fixed, windows   *)
(* come into being with the connection and may be unmapped and destroyed.  *)
(* The browser's coordinates are those of the top-level window, whose      *)
(* place is PtOffset; the pointer's, those of a barrier and those of the   *)
(* requests that move it are the root's.                                   *)
(*                                                                         *)
(* ptInside is what a toolkit that selects crossing events on all its      *)
(* windows believes: the windows it was told the pointer is in.            *)
(***************************************************************************)
EXTENDS Integers, Sequences, SequencesExt, FiniteSets, XWalks

CONSTANTS PtWins,        \* windows other than the root
          PtRoot,        \* the root window
          PtParent,      \* PtParent[w]
          PtStack,       \* the windows from bottom to top
          PtArea,        \* PtArea[w]: the columns w covers
          PtOffset,      \* PtOffset[w]: the column the top-level window w begins at
          PtPoints,      \* the points the browser and the requests name
          PtFar,         \* the largest coordinate (i16::MAX)
          PtKeyMoves,    \* what the movement keys of MouseKeys add to the pointer
          PtSelects,     \* windows selecting motion and button events
          PtStops,       \* windows whose do_not_propagate_mask holds them back
          PtHints,       \* windows selecting PointerMotionHint
          PtModal,       \* PtModal[w]: what the modal dialog w is transient for
          PtGrabs,       \* grabs the client may make: [win, owner, sel, confine]
          PtBarriers     \* barriers the client may create: [axis, at, from, to, dirs],
                         \* axis 1 for one that blocks motion along the columns

ASSUME PtAssumption ==
    /\ PtRoot \notin PtWins
    /\ PtParent \in [PtWins -> PtWins \cup {PtRoot}]
    /\ PtStack \in Seq(PtWins) /\ ToSet(PtStack) = PtWins
    /\ PtArea \in [PtWins -> SUBSET Int]
    /\ PtOffset \in [PtWins -> Int]
    /\ PtFar \in Nat
    /\ PtPoints \subseteq Int \X Int /\ PtKeyMoves \subseteq Int \X Int
    /\ IsTree(PtParent, PtRoot, Len(PtStack))
    /\ DOMAIN PtModal \subseteq PtWins
    /\ \A g \in PtGrabs : /\ g.win \in PtWins \cup {PtRoot}
                        /\ g.confine \subseteq Int /\ IsFiniteSet(g.confine)
    /\ \A b \in PtBarriers : b.axis \in 1..2 /\ b.at \in Int /\ b.from \in Int /\ b.to \in Int

VARIABLES
    ptLive,      \* the windows that exist
    ptMapped,    \* the mapped ones
    ptAt,        \* pointer_x and pointer_y
    ptLast,      \* last_entered_window
    ptInside,    \* windows the client believes the pointer to be in
    ptGrab,      \* the pointer grab: {} or {[win, owner, sel, confine]}
    ptFences,    \* xfixes.barriers
    ptHint,      \* motion_hint_suppressed
    ptMisled,    \* history: windows a warp said the pointer left, not entered since
    ptLeak       \* history: a motion in root coordinates crossed a closed barrier

ptVars == <<ptLive, ptMapped, ptAt, ptLast, ptInside, ptGrab, ptFences, ptHint, ptMisled, ptLeak>>

PtTypeOK ==
    /\ ptMapped \subseteq ptLive /\ ptLive \subseteq PtWins
    /\ ptAt \in Int \X Int
    /\ ptLast \in PtWins \cup {PtRoot}
    /\ ptInside \subseteq PtWins
    /\ ptGrab = {} \/ \E g \in PtGrabs : ptGrab = {g}
    /\ ptFences \subseteq PtBarriers
    /\ ptHint \in BOOLEAN
    /\ ptMisled \subseteq PtWins
    /\ ptLeak \in BOOLEAN

PtInit ==
    /\ ptLive = PtWins /\ ptMapped = PtWins
    /\ ptAt = <<0, 0>>
    /\ ptLast = PtRoot /\ ptInside = {}
    /\ ptGrab = {} /\ ptFences = {}
    /\ ptHint = FALSE /\ ptMisled = {} /\ ptLeak = FALSE

(***************************************************************************)
(* Walks of the tree.                                                      *)
(***************************************************************************)
Known(w) == w \in ptLive \cup {PtRoot}
PtAll == PtWins \cup {PtRoot}
Lo(S) == CHOOSE x \in S : \A y \in S : x <= y
Hi(S) == CHOOSE x \in S : \A y \in S : x >= y

\* ancestor_path: the window and its ancestors; a window that is gone has none.
PtUp == Upwards(PtParent, PtRoot)
AncestorPath(w) == Walk(PtUp, w, {v \in PtAll : v = PtRoot \/ ~Known(v)}, Len(PtStack))

\* find_deepest_window: descend to the topmost mapped child under the point.
KidsAt(w, p) ==
    {i \in DOMAIN PtStack : LET v == PtStack[i]
                            IN  v \in ptMapped /\ PtParent[v] = w /\ p \in PtArea[v]}
PtDown(p) ==
    [v \in PtAll |-> IF KidsAt(v, p) = {} THEN v ELSE PtStack[Hi(KidsAt(v, p))]]
FindDeepest(w, p) == Iterate(PtDown(p), w)[Len(PtStack)]

\* find_event_subwindow: from the deepest window up to the first that selects
\* the event; stopped, or selected by nobody, it is reported to the deepest.
FindEventSubwindow(w, p) ==
    LET src == FindDeepest(w, p)
        path == AncestorPath(src)
        ends == {i \in DOMAIN path : Known(path[i]) /\ path[i] \in PtSelects \cup PtStops}
    IN  IF ends # {} /\ path[Lo(ends)] \in PtSelects THEN path[Lo(ends)] ELSE src

\* resolve_pointer_event_target: a grab takes the event if its mask has it,
\* with owner_events only when the normal target does not select it.
ResolveTarget(w, p) ==
    LET normal == FindEventSubwindow(w, p)
        own == normal = PtRoot \/ (Known(normal) /\ normal \in PtSelects)
    IN  IF ptGrab = {} THEN normal
        ELSE LET g == CHOOSE x \in ptGrab : TRUE
             IN  IF g.owner /\ own THEN normal
                 ELSE IF g.sel THEN g.win
                 ELSE IF g.owner THEN normal ELSE PtRoot

\* is_blocked_by_modal: a mapped modal dialog for the window or an ancestor.
BlockedByModal(w) ==
    \E d \in DOMAIN PtModal \cap ptMapped :
        d # w /\ \E i \in DOMAIN AncestorPath(w) : AncestorPath(w)[i] = PtModal[d]

(***************************************************************************)
(* Crossing events: <<kind, window>> in the order they are emitted, and    *)
(* what they tell the client about where the pointer is.                   *)
(***************************************************************************)
Between(path, w) == SubSeq(path, 2, IndexIn(path, w) - 1)

\* The virtual events of each case, between the window left and the one entered.
CrossingSteps(old, new) ==
    LET op == AncestorPath(old)
        np == AncestorPath(new)
        common == {i \in DOMAIN np : np[i] \in ToSet(op)}
        lca == IF common = {} THEN PtRoot ELSE np[Lo(common)]
        enters(s) == [i \in DOMAIN s |-> <<"Enter", Reverse(s)[i]>>]
        leaves(s) == [i \in DOMAIN s |-> <<"Leave", s[i]>>]
        upto(path) == IF lca \in ToSet(path) THEN Between(path, lca) ELSE <<>>
    IN  IF old \in ToSet(np)
        THEN <<<<"LeaveInferior", old>>>> \o enters(Between(np, old)) \o <<<<"Enter", new>>>>
        ELSE IF new \in ToSet(op)
        THEN <<<<"Leave", old>>>> \o leaves(Between(op, new)) \o <<<<"Enter", new>>>>
        ELSE <<<<"Leave", old>>>> \o leaves(upto(op)) \o enters(upto(np)) \o <<<<"Enter", new>>>>

\* The client goes by the last it hears of a window; emit_crossing sends nothing
\* about one that is gone.
Told(inside, steps) ==
    LET about(w) == {i \in DOMAIN steps : steps[i][1] \in {"Enter", "Leave"} /\ steps[i][2] = w}
    IN  {w \in PtWins : IF ~Known(w) \/ about(w) = {} THEN w \in inside
                        ELSE steps[Hi(about(w))][1] = "Enter"}

Crossed(inside, old, new) ==
    IF old = new THEN inside ELSE Told(inside, CrossingSteps(old, new))

\* What the client believes after hearing of some crossings.
Hears(inside) == ptInside' = inside /\ ptMisled' = ptMisled \ inside

(***************************************************************************)
(* Confinement and barriers.                                               *)
(***************************************************************************)
\* clamp_to_confine holds the browser's coordinate, which is relative to the
\* top-level window, against the root coordinates of the confining window.
ClampToConfine(p) ==
    LET bounds == UNION {g.confine : g \in ptGrab}
    IN  IF bounds = {} THEN p
        ELSE IF p[1] < Lo(bounds) THEN <<Lo(bounds), p[2]>>
        ELSE IF p[1] > Hi(bounds) THEN <<Hi(bounds), p[2]>> ELSE p

\* One barrier: a motion from old to p that crosses it within its span ends on it.
AtBarrier(old, p, b) ==
    LET ahead == old[b.axis] <= b.at /\ p[b.axis] > b.at
        back == old[b.axis] >= b.at /\ p[b.axis] < b.at
    IN  IF /\ p[3 - b.axis] \in b.from..b.to
           /\ \/ ahead /\ (b.dirs = {} \/ "Positive" \in b.dirs)
              \/ back /\ (b.dirs = {} \/ "Negative" \in b.dirs)
        THEN IF b.axis = 1 THEN <<b.at, p[2]>> ELSE <<p[1], b.at>>
        ELSE p

\* enforce_barriers takes the barriers of a hash map in any order.
EnforceBarriers(old, p) ==
    LET met(o) == LET q[n \in 0..Len(o)] == IF n = 0 THEN p ELSE AtBarrier(old, q[n-1], o[n])
                  IN  q[Len(o)]
    IN  {met(o) : o \in SetToSeqs(ptFences)}

\* A motion from old that asked for p and came to q has crossed b, within the
\* span of b both where it was asked to go and where it came to.
Crosses(old, p, q, b) ==
    /\ p[3 - b.axis] \in b.from..b.to /\ q[3 - b.axis] \in b.from..b.to
    /\ \/ old[b.axis] < b.at /\ q[b.axis] > b.at
       \/ old[b.axis] > b.at /\ q[b.axis] < b.at

\* The pointer moves to q where p was asked for, in root coordinates.
Leaks(p, q) == ptLeak' = (ptLeak \/ \E b \in ptFences : b.dirs = {} /\ Crosses(ptAt, p, q, b))

(***************************************************************************)
(* The browser's input.  x11_wid is the window the router resolved, which  *)
(* may be gone.  Its coordinates meet the confinement and the barriers as  *)
(* they are, relative to the window, before they are made root ones: only  *)
(* on a window at the screen's origin do the two mean the same.            *)
(***************************************************************************)
Begins(top) == IF top \in ptLive THEN PtOffset[top] ELSE 0
Narrow(x) == IF x > PtFar THEN PtFar ELSE IF x < -PtFar - 1 THEN -PtFar - 1 ELSE x
LocalToRoot(top, p) == <<Narrow(Begins(top) + p[1]), p[2]>>

\* The hint that more motion follows is given once, until a crossing.
HintGiven(win, moved) == ptHint' = ((ptHint /\ ~moved) \/ (Known(win) /\ win \in PtHints))

MotionNotify(top, l) == \E q \in EnforceBarriers(ptAt, ClampToConfine(l)) :
    LET r == LocalToRoot(top, q)
        deep == FindDeepest(top, r[1])
        win == ResolveTarget(top, r[1])
        mid == Crossed(ptInside, ptLast, deep)
    IN  /\ ptAt' = r
        /\ Hears(Crossed(mid, deep, win))
        /\ ptLast' = win
        /\ HintGiven(win, deep # win)
        /\ IF Begins(top) = 0 THEN Leaks(ClampToConfine(l), q) ELSE UNCHANGED ptLeak
        /\ UNCHANGED <<ptLive, ptMapped, ptGrab, ptFences>>

\* A motion followed by another on the same window moves the pointer alone, and
\* to the coordinates as they came.
SkippedMotion(top, l) == \E q \in EnforceBarriers(ptAt, l) :
    /\ ptAt' = q
    /\ IF Begins(top) = 0 THEN Leaks(l, q) ELSE UNCHANGED ptLeak
    /\ UNCHANGED <<ptLive, ptMapped, ptLast, ptInside, ptGrab, ptFences, ptHint, ptMisled>>

Button(top, l) ==
    LET r == LocalToRoot(top, l)
        deep == FindDeepest(top, r[1])
        win == ResolveTarget(top, r[1])
    IN  /\ ptAt' = r
        /\ Hears(Crossed(ptInside, ptLast, deep))
        /\ ptLast' = deep
        /\ ptHint' = (ptHint /\ BlockedByModal(win))
        /\ UNCHANGED <<ptLive, ptMapped, ptGrab, ptFences, ptLeak>>

\* MouseKeys: the pointer's root coordinates are taken for the window's and
\* the window's place is added once more; there is no barrier and no confinement.
\* The i16 sum wraps to a negative number, and those become 0.
Shifted(x, d) == IF x + d < 0 \/ x + d > PtFar THEN 0 ELSE x + d

MouseKeysMove(top, d) ==
    LET r == LocalToRoot(top, <<Shifted(ptAt[1], d[1]), Shifted(ptAt[2], d[2])>>)
        win == ResolveTarget(top, r[1])
    IN  /\ ptAt' = r
        /\ Hears(Crossed(ptInside, ptLast, win))
        /\ ptLast' = win
        /\ HintGiven(win, ptLast # win)
        /\ UNCHANGED <<ptLive, ptMapped, ptGrab, ptFences, ptLeak>>

\* Either half of a KP_5 click.
MouseKeysClick(top) ==
    LET r == LocalToRoot(top, ptAt)
    IN  /\ ptAt' = r
        /\ ptHint' = (ptHint /\ BlockedByModal(ResolveTarget(top, r[1])))
        /\ UNCHANGED <<ptLive, ptMapped, ptLast, ptInside, ptGrab, ptFences, ptMisled, ptLeak>>

(***************************************************************************)
(* Requests that move the pointer, in root coordinates, absolute or        *)
(* relative.  They look for the window in the shared registry, where the   *)
(* highest XID stands for the topmost window: the windows of PtStack are   *)
(* created from bottom to top.                                             *)
(***************************************************************************)
XTestMotion(p) == \E q \in EnforceBarriers(ptAt, p) :
    LET win == FindEventSubwindow(PtRoot, q[1])
    IN  /\ ptAt' = q
        /\ Hears(Crossed(ptInside, ptLast, win))
        /\ ptLast' = win
        /\ Leaks(p, q)
        /\ UNCHANGED <<ptLive, ptMapped, ptGrab, ptFences, ptHint>>

\* A warp within last_entered_window has no crossings of its own; then it falls
\* back on a bare Leave of the window that was under the pointer.
WarpPointer(p) == \E q \in EnforceBarriers(ptAt, p) :
    LET win == FindEventSubwindow(PtRoot, q[1])
        under == FindDeepest(PtRoot, ptAt[1])
        bare == Told(ptInside, <<<<"Leave", under>>, <<"Enter", win>>>>)
    IN  /\ ptAt' = q
        /\ IF ptLast = win /\ under # win
           THEN ptInside' = bare /\ ptMisled' = (ptMisled \cup ({under} \ {PtRoot})) \ bare
           ELSE Hears(Crossed(ptInside, ptLast, win))
        /\ ptLast' = win
        /\ Leaks(p, q)
        /\ UNCHANGED <<ptLive, ptMapped, ptGrab, ptFences, ptHint>>

(***************************************************************************)
(* Grabs enter their window; the end of a grab leaves it for the root.     *)
(***************************************************************************)
BeginGrab(g) ==
    /\ Known(g.win)
    /\ ptGrab' = {g}
    /\ Hears(Crossed(ptInside, ptLast, g.win))
    /\ ptLast' = g.win
    /\ UNCHANGED <<ptLive, ptMapped, ptAt, ptFences, ptHint, ptLeak>>

EndGrab == \E g \in ptGrab :
    /\ ptGrab' = {}
    /\ IF g.win = PtRoot THEN UNCHANGED <<ptInside, ptLast, ptMisled>>
       ELSE Hears(Crossed(ptInside, g.win, PtRoot)) /\ ptLast' = PtRoot
    /\ UNCHANGED <<ptLive, ptMapped, ptAt, ptFences, ptHint, ptLeak>>

(***************************************************************************)
(* The window requests that emit crossing events, or should.               *)
(***************************************************************************)
PtMap(w) ==
    /\ w \in ptLive \ ptMapped
    /\ ptMapped' = ptMapped \cup {w}
    /\ \E under \in BOOLEAN :      \* the test compares relative with root coordinates
        IF under THEN Hears(Crossed(ptInside, ptLast, w)) /\ ptLast' = w
        ELSE UNCHANGED <<ptInside, ptLast, ptMisled>>
    /\ UNCHANGED <<ptLive, ptAt, ptGrab, ptFences, ptHint, ptLeak>>

PtUnmap(w) ==
    /\ w \in ptMapped
    /\ ptMapped' = ptMapped \ {w}
    /\ IF ptLast = w
       THEN Hears(Crossed(ptInside, w, PtParent[w])) /\ ptLast' = PtParent[w]
       ELSE UNCHANGED <<ptInside, ptLast, ptMisled>>
    /\ UNCHANGED <<ptLive, ptAt, ptGrab, ptFences, ptHint, ptLeak>>

\* DestroyWindow says nothing about the pointer.
PtDestroy(w) ==
    LET gone == {v \in ptLive : \E i \in DOMAIN AncestorPath(v) : AncestorPath(v)[i] = w}
    IN  /\ w \in ptLive
        /\ ptLive' = ptLive \ gone
        /\ ptMapped' = ptMapped \ gone
        /\ ptInside' = ptInside \ gone /\ ptMisled' = ptMisled \ gone
        /\ UNCHANGED <<ptAt, ptLast, ptGrab, ptFences, ptHint, ptLeak>>

CreateBarrier(b) ==
    /\ b \notin ptFences
    /\ ptFences' = ptFences \cup {b}
    /\ UNCHANGED <<ptLive, ptMapped, ptAt, ptLast, ptInside, ptGrab, ptHint, ptMisled, ptLeak>>

DeleteBarrier(b) ==
    /\ b \in ptFences
    /\ ptFences' = ptFences \ {b}
    /\ UNCHANGED <<ptLive, ptMapped, ptAt, ptLast, ptInside, ptGrab, ptHint, ptMisled, ptLeak>>

PtNext ==
    \/ \E top \in PtWins :
        /\ PtParent[top] = PtRoot
        /\ \/ \E l \in PtPoints :
                MotionNotify(top, l) \/ SkippedMotion(top, l) \/ Button(top, l)
           \/ \E d \in PtKeyMoves : MouseKeysMove(top, d)
           \/ MouseKeysClick(top)
    \/ \E p \in PtPoints : WarpPointer(p) \/ XTestMotion(p)
    \/ \E g \in PtGrabs : BeginGrab(g)
    \/ EndGrab
    \/ \E w \in PtWins : PtMap(w) \/ PtUnmap(w) \/ PtDestroy(w)
    \/ \E b \in PtBarriers : CreateBarrier(b) \/ DeleteBarrier(b)

PtSpec == PtInit /\ [][PtNext]_ptVars

\* "GDK never considers the pointer inside the window and drops pointer events":
\* the window the pointer was last seen in, and every ancestor below the root,
\* was told so, whatever mixture of motion, warps, grabs, mapping and destruction
\* led there, unless a warp inside that window said after it that the pointer
\* left: WarpPointer's fallback does, and nothing takes it back.
EntersNotMissed ==
    \A w \in ToSet(AncestorPath(ptLast)) \cap ptLive : w \in ptInside \cup ptMisled

\* A barrier that blocks both ways is never crossed by a motion in root
\* coordinates: in whichever order the barriers are taken, a warp, an XTEST
\* motion, or the browser's motion on a window at the screen's origin, that
\* starts on one side of it does not end on the other within its span.
BarriersHold == ~ptLeak

=============================================================================
