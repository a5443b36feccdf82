------------------------- MODULE WaylandCompositor -------------------------
(***************************************************************************)
(* The headless Wayland compositor and the session that ships its frames:  *)
(* crates/wayland-server (window registry, surface commits, render tick,   *)
(* focus, window management, WindowRouter) and run_session of              *)
(* crates/sidecar-wayland.                                                 *)
(*                                                                         *)
(* Pixels are abstracted to tiles.  What matters about a tile is whether   *)
(* the far end holds its current contents, so a frame carries the set of   *)
(* tiles for which it is still up to date ("fresh"), and a commit that     *)
(* changes a tile removes it from every frame on its way.                  *)
(***************************************************************************)
EXTENDS Naturals, Sequences, FiniteSets, SequencesExt

CONSTANTS
  Toplevels, Popups,  \* window UUIDs by WindowKind
  Tiles,              \* the pixels of a window
  Sizes,              \* buffer sizes a client may commit, none of them 0
  WmStates,           \* the titlebar actions offered, as WindowWmState
  MaxInFlight,        \* MAX_FRAMES_IN_FLIGHT
  MaxSessions,        \* bound: backend sessions explored
  MaxInputs,          \* bound: client requests and embedder commands
  None

ASSUME KindsDisjoint == Toplevels \cap Popups = {}
ASSUME SizesPositive == Sizes \subseteq Nat \ {0}
ASSUME WmStatesKnown ==
  WmStates \subseteq {"Normal", "Minimized", "Maximized", "Fullscreen"}
ASSUME BoundsAssumption ==
  /\ MaxInFlight \in Nat \ {0}
  /\ MaxSessions \in Nat /\ MaxInputs \in Nat

Windows == Toplevels \cup Popups

VARIABLES
  consuming, pending,                   \* WindowRouter, shared
  entries,                              \* WindowRegistry and root surfaces
  focused,                              \* WindowRegistry.focused
  streaming, ticking, todo, stalled,    \* the render tick
  awaiting,                             \* clients waiting for a callback
  chan, coding, out, sessions,          \* update channel and session
  inputs,                               \* inputs consumed (MaxInputs)
  told,                                 \* map state last reported of a window
  shown,                                \* tiles the far end has current
  carried                               \* see FrameCredit

routerVars == <<consuming, pending, carried>>
tickVars   == <<streaming, ticking, todo, stalled>>
linkVars   == <<chan, coding, out, sessions>>
vars == <<routerVars, tickVars, linkVars, entries, focused, awaiting,
          inputs, told, shown>>

Frame == [win : Windows, fresh : SUBSET Tiles]

ASSUME NoneAssumption == None \notin Windows \cup Frame

(* A WindowEntry together with its root SurfaceBuffer.  size is the size    *)
(* last reported, fb that of the framebuffer allocated and buf that of the  *)
(* surface's buffer, each 0 for none.  damage joins the entry's own with    *)
(* the surface's, which every composite drains together; a commit that      *)
(* leaves no damage has no other trace, so dirty needs no field.            *)
NewEntry == [reg |-> "unborn", mapped |-> FALSE, size |-> 0, buf |-> 0,
             fb |-> 0, damage |-> {}, unmap |-> FALSE, wm |-> "Normal"]

Live == {w \in Windows : entries[w].reg \in {"new", "created"}}

Count(q, w) == Cardinality({i \in DOMAIN q : q[i].win = w})
InCoder(w)  == IF coding # None /\ coding.win = w THEN 1 ELSE 0
InFlight(w) == Count(chan, w) + InCoder(w) + Count(out, w)
FreshInFlight(w) ==
  UNION {f.fresh : f \in {g \in Range(chan) \cup Range(out) \cup
                             (IF coding = None THEN {} ELSE {coding}) :
                            g.win = w}}

Init ==
  /\ consuming = FALSE /\ streaming = FALSE /\ ticking = FALSE
  /\ pending = [w \in Windows |-> 0]
  /\ carried = [w \in Windows |-> 0]
  /\ entries = [w \in Windows |-> NewEntry]
  /\ focused = None
  /\ todo = {} /\ stalled = {} /\ awaiting = {}
  /\ chan = <<>> /\ coding = None /\ out = <<>>
  /\ sessions = 0 /\ inputs = 0
  /\ told = [w \in Windows |-> "unknown"]
  /\ shown = [w \in Windows |-> {}]

-----------------------------------------------------------------------------
(* Regression forms of definitions below, each a slip the code comments     *)
(* warn about; used by mutation checks only.                                *)

MayEmitOffByOne(w) == pending[w] <= MaxInFlight

FrameShippedForgotten(w) == UNCHANGED pending

UntrackKeepsDebt(w) == UNCHANGED <<pending, carried>>

UnmappedKeepsSize(e) == [e EXCEPT !.mapped = FALSE, !.damage = {}, !.fb = 0]

FocusLeftBehind(w) == {focused}

RestoreNoDamage(w) ==
  LET restored == entries[w].wm = "Minimized" /\ entries[w].mapped
  IN /\ entries' = [entries EXCEPT ![w].wm = "Normal"]
     /\ told' = IF restored THEN [told EXCEPT ![w] = "mapped"] ELSE told
     /\ UNCHANGED <<chan, coding, out, sessions, shown>>

-----------------------------------------------------------------------------
(* An input handled between two ticks. *)
Input ==
  /\ ~ticking
  /\ inputs < MaxInputs
  /\ inputs' = inputs + 1

-----------------------------------------------------------------------------
(* Content bookkeeping: the tiles T of w changed at the source, so nothing  *)
(* in flight or at the far end has them current any more.                   *)

Stale(f, w, T) == IF f.win = w THEN [f EXCEPT !.fresh = @ \ T] ELSE f

Changed(w, T) ==
  /\ chan' = [i \in DOMAIN chan |-> Stale(chan[i], w, T)]
  /\ out' = [i \in DOMAIN out |-> Stale(out[i], w, T)]
  /\ coding' = IF coding = None THEN None ELSE Stale(coding, w, T)
  /\ shown' = [shown EXCEPT ![w] = @ \ T]
  /\ UNCHANGED sessions

-----------------------------------------------------------------------------
(* Client requests. *)

(* new_toplevel, new_popup: WindowRegistry::register. *)
Register(w) ==
  /\ Input
  /\ entries[w].reg = "unborn"
  /\ entries' = [entries EXCEPT ![w].reg = "new"]
  /\ UNCHANGED <<routerVars, tickVars, linkVars, focused, awaiting, told, shown>>

(* commit of a buffer of size s whose tiles T differ from the previous one. *)
CommitBuffer(w, s, T) ==
  LET resized == entries[w].buf # s
      D == IF resized THEN Tiles ELSE T
  IN /\ Input
     /\ w \in Live
     /\ entries' = [entries EXCEPT ![w].buf = s, ![w].damage = @ \cup D]
     /\ awaiting' = awaiting \cup {w}
     /\ Changed(w, D)
     /\ UNCHANGED <<routerVars, tickVars, focused, told>>

(* commit of a NULL buffer: the surface's pixels go, the tick will unmap. *)
CommitNull(w) ==
  /\ Input
  /\ w \in Live
  /\ entries' = [entries EXCEPT ![w].buf = 0, ![w].unmap = TRUE]
  /\ awaiting' = awaiting \cup {w}
  /\ UNCHANGED <<routerVars, tickVars, linkVars, focused, told, shown>>

(* WindowStateChanged does not change whether the far end shows the window. *)
EmitState(w, a) ==
  /\ entries' = [entries EXCEPT ![w].wm = a]
  /\ UNCHANGED told

(* maximize, unmaximize, fullscreen, unfullscreen, minimize requests. *)
ClientStateRequest(w, a) ==
  /\ Input
  /\ w \in Live \cap Toplevels
  /\ EmitState(w, a)
  /\ UNCHANGED <<routerVars, tickVars, linkVars, focused, awaiting, shown>>

(* Focus moves to any other mapped toplevel when the focused one goes. *)
FocusAfterDestroy(w) ==
  LET others == {x \in Toplevels \ {w} : entries[x].mapped}
  IN IF focused # w THEN {focused}
     ELSE IF others = {} THEN {None} ELSE others

(* WindowRouter::untrack: the window's credit debt is forgotten. *)
Untrack(w) ==
  /\ pending' = [pending EXCEPT ![w] = 0]
  /\ carried' = [carried EXCEPT ![w] = InFlight(w)]

(* windows::destroy, from the role's destructor or the surface's. *)
Destroy(w) ==
  /\ Input
  /\ w \in Live
  /\ entries' = [entries EXCEPT ![w] = [NewEntry EXCEPT !.reg = "dead"]]
  /\ focused' \in FocusAfterDestroy(w)
  /\ awaiting' = awaiting \ {w}
  /\ Untrack(w)
  /\ told' = IF entries[w].reg = "created"
               THEN [told EXCEPT ![w] = "destroyed"] ELSE told
  /\ UNCHANGED <<consuming, tickVars, linkVars, shown>>

-----------------------------------------------------------------------------
(* Embedder commands; apply_command drops them for a window that is gone,   *)
(* and the router never lets one through before the window was created.     *)

(* input::focus_window, on a button press or a key. *)
FocusWindow(w) ==
  /\ Input
  /\ w \in Toplevels /\ entries[w].reg = "created"
  /\ focused' = w
  /\ UNCHANGED <<routerVars, tickVars, linkVars, entries, awaiting, told, shown>>

(* The far end drops the canvas of a window reported unmapped. *)
Minimize(w) ==
  /\ IF entries[w].mapped
       THEN /\ Changed(w, Tiles)
            /\ told' = [told EXCEPT ![w] = "unmapped"]
       ELSE UNCHANGED <<linkVars, shown, told>>
  /\ entries' = [entries EXCEPT ![w].wm = "Minimized"]

(* emit_restored: only a window whose state is still Minimized comes back. *)
Restore(w) ==
  LET restored == entries[w].wm = "Minimized" /\ entries[w].mapped
  IN /\ entries' = [entries EXCEPT
                      ![w].wm = "Normal",
                      ![w].damage = IF restored THEN Tiles ELSE @]
     /\ told' = IF restored THEN [told EXCEPT ![w] = "mapped"] ELSE told
     /\ UNCHANGED <<linkVars, shown>>

(* input::manage: a titlebar action from the frontend. *)
Manage(w, a) ==
  /\ Input
  /\ w \in Toplevels /\ entries[w].reg = "created"
  /\ CASE a = "Minimized" -> Minimize(w)
       [] a = "Normal" -> Restore(w)
       [] OTHER -> EmitState(w, a) /\ UNCHANGED <<linkVars, shown>>
  /\ UNCHANGED <<routerVars, tickVars, focused, awaiting>>

-----------------------------------------------------------------------------
(* The render tick. *)

TickBegin ==
  LET edge == consuming # streaming
  IN /\ ~ticking
     /\ ticking' = TRUE
     /\ todo' = Live
     /\ stalled' = {}
     /\ streaming' = consuming
     /\ pending' = IF edge THEN [w \in Windows |-> 0] ELSE pending
     /\ carried' = IF edge THEN [w \in Windows |-> InFlight(w)] ELSE carried
     \* Attaching: the next update of every window has to be complete.
     /\ entries' = IF edge /\ consuming
                     THEN [w \in Windows |->
                             IF w \in Live
                               THEN [entries[w] EXCEPT !.damage = Tiles]
                               ELSE entries[w]]
                     ELSE entries
     /\ UNCHANGED <<consuming, linkVars, focused, awaiting, inputs, told, shown>>

(* The lifecycle half of a visit: resize, first map and remap. *)
Settled(e) ==
  [e EXCEPT !.size = e.buf,
            !.fb = IF e.size # e.buf THEN e.buf ELSE @,
            !.reg = "created",
            !.mapped = TRUE,
            !.damage = IF e.size # e.buf \/ ~e.mapped THEN Tiles ELSE @]

MayEmit(w) == pending[w] < MaxInFlight

(* composite_and_emit on the settled entry e of w; a crop of a framebuffer  *)
(* of another size comes up short and is dropped.  m is what the far end    *)
(* has been told: it has no canvas for a window reported unmapped.          *)
Composite(w, e, m) ==
  /\ entries' = [entries EXCEPT ![w] = [e EXCEPT !.damage = {}]]
  /\ IF e.damage # {} /\ e.fb = e.size /\ streaming
       THEN /\ pending' = [pending EXCEPT ![w] = @ + 1]
            /\ chan' = Append(chan, [win |-> w,
                 fresh |-> IF m = "mapped" THEN e.damage ELSE {}])
       ELSE UNCHANGED <<pending, chan>>

Visit(w) ==
  /\ ticking /\ w \in todo
  /\ todo' = todo \ {w}
  /\ UNCHANGED <<consuming, carried, streaming, ticking, awaiting,
                 coding, out, sessions, inputs, shown>>

(* The framebuffer and the reported size go together. *)
Unmapped(e) == [e EXCEPT !.mapped = FALSE, !.damage = {}, !.fb = 0, !.size = 0]

(* A NULL buffer was committed since the last tick. *)
TickUnmap(w) ==
  LET e == entries[w] IN
  /\ Visit(w)
  /\ e.unmap
  /\ entries' = [entries EXCEPT ![w] =
       [(IF e.mapped THEN Unmapped(e) ELSE e) EXCEPT !.unmap = FALSE]]
  /\ told' = IF e.mapped THEN [told EXCEPT ![w] = "unmapped"] ELSE told
  /\ UNCHANGED <<pending, chan, stalled, focused>>

(* No buffer on the root surface: nothing to composite or announce. *)
TickNoBuffer(w) ==
  /\ Visit(w)
  /\ ~entries[w].unmap /\ entries[w].buf = 0
  /\ UNCHANGED <<entries, told, pending, chan, stalled, focused>>

(* First buffer: WindowCreated, WindowMapped, focus, and a first frame that *)
(* is not subject to the credit check.                                      *)
TickCreate(w) ==
  LET e == entries[w] IN
  /\ Visit(w)
  /\ ~e.unmap /\ e.buf # 0 /\ e.reg = "new"
  /\ told' = [told EXCEPT ![w] = "mapped"]
  /\ focused' = IF w \in Toplevels THEN w ELSE focused
  /\ Composite(w, Settled(e), "mapped")
  /\ UNCHANGED stalled

(* Any later visit: remap and resize are reported unconditionally, only the *)
(* pixels are throttled.                                                    *)
TickPaint(w) ==
  LET e == entries[w]
      m == IF e.mapped THEN told[w] ELSE "mapped"
  IN /\ Visit(w)
     /\ ~e.unmap /\ e.buf # 0 /\ e.reg = "created"
     /\ told' = [told EXCEPT ![w] = m]
     /\ IF streaming /\ ~MayEmit(w)
          THEN /\ stalled' = stalled \cup {w}
               /\ entries' = [entries EXCEPT ![w] = Settled(e)]
               /\ UNCHANGED <<pending, chan>>
          ELSE Composite(w, Settled(e), m) /\ UNCHANGED stalled
     /\ UNCHANGED focused

TickEnd ==
  /\ ticking /\ todo = {}
  /\ ticking' = FALSE
  /\ awaiting' = awaiting \cap stalled
  /\ UNCHANGED <<todo, stalled, streaming, routerVars, linkVars, entries,
                 focused, inputs, told, shown>>

-----------------------------------------------------------------------------
(* The session. *)

DetachObserved == ~streaming

(* A fresh backend session holds no pixels. *)
SessionUp ==
  /\ ~consuming /\ DetachObserved
  /\ sessions < MaxSessions
  /\ sessions' = sessions + 1
  /\ consuming' = TRUE
  /\ shown' = [w \in Windows |-> {}]
  /\ UNCHANGED <<pending, carried, tickVars, chan, coding, out, entries,
                 focused, awaiting, inputs, told>>

Encode ==
  /\ consuming /\ coding = None /\ chan # <<>>
  /\ coding' = Head(chan)
  /\ chan' = Tail(chan)
  /\ UNCHANGED <<out, sessions, routerVars, tickVars, entries, focused,
                 awaiting, inputs, told, shown>>

Encoded ==
  /\ consuming /\ coding # None
  /\ coding' = None
  /\ out' = Append(out, coding)
  /\ UNCHANGED <<chan, sessions, routerVars, tickVars, entries, focused,
                 awaiting, inputs, told, shown>>

(* WindowRouter::frame_shipped saturates at zero. *)
FrameShipped(w) ==
  pending' = [pending EXCEPT ![w] = IF @ = 0 THEN 0 ELSE @ - 1]

Ship ==
  LET f == Head(out) IN
  /\ consuming /\ out # <<>>
  /\ out' = Tail(out)
  /\ shown' = [shown EXCEPT ![f.win] = @ \cup f.fresh]
  /\ FrameShipped(f.win)
  /\ UNCHANGED <<consuming, carried, chan, coding, sessions, tickVars,
                 entries, focused, awaiting, inputs, told>>

SessionDown ==
  /\ consuming
  /\ consuming' = FALSE
  /\ coding' = None
  /\ out' = <<>>
  /\ UNCHANGED <<pending, carried, chan, sessions, tickVars, entries,
                 focused, awaiting, inputs, told, shown>>

-----------------------------------------------------------------------------
Next ==
  \/ TickBegin \/ TickEnd
  \/ SessionUp \/ Encode \/ Encoded \/ Ship \/ SessionDown
  \/ \E w \in Windows :
       \/ Register(w) \/ CommitNull(w) \/ Destroy(w) \/ FocusWindow(w)
       \/ \E s \in Sizes, T \in SUBSET Tiles : CommitBuffer(w, s, T)
       \/ \E a \in WmStates : ClientStateRequest(w, a) \/ Manage(w, a)
       \/ TickUnmap(w) \/ TickNoBuffer(w) \/ TickCreate(w) \/ TickPaint(w)

Spec == Init /\ [][Next]_vars

(* As in FrameCredit; the channel and the session queue are FIFO here, so   *)
(* weak fairness of their consumers is enough.                              *)
Fairness ==
  /\ WF_vars(TickBegin) /\ WF_vars(TickEnd)
  /\ WF_vars(\E w \in Windows : TickUnmap(w) \/ TickNoBuffer(w) \/
                                TickCreate(w) \/ TickPaint(w))
  /\ WF_vars(Encode) /\ WF_vars(Encoded) /\ WF_vars(Ship)

FairSpec == Spec /\ Fairness

-----------------------------------------------------------------------------
TypeOK ==
  /\ consuming \in BOOLEAN /\ streaming \in BOOLEAN /\ ticking \in BOOLEAN
  /\ pending \in [Windows -> 0..MaxInFlight]
  /\ entries \in [Windows -> [reg : {"unborn", "new", "created", "dead"},
                              mapped : BOOLEAN, size : Sizes \cup {0},
                              buf : Sizes \cup {0}, fb : Sizes \cup {0},
                              damage : SUBSET Tiles,
                              unmap : BOOLEAN, wm : WmStates \cup {"Normal"}]]
  /\ focused \in Toplevels \cup {None}
  /\ todo \subseteq Windows /\ stalled \subseteq Windows
  /\ awaiting \subseteq Windows
  /\ chan \in Seq(Frame) /\ out \in Seq(Frame) /\ coding \in Frame \cup {None}
  /\ told \in [Windows -> {"unknown", "mapped", "unmapped", "destroyed"}]
  /\ shown \in [Windows -> SUBSET Tiles]

(* Skipping a window that is out of credit, dropping frames while nobody    *)
(* consumes and losing the frames of a dead session never lose a repaint:   *)
(* every tile the far end does not have current is still damaged or on its  *)
(* way ("Damage is left accumulated, so nothing is lost", windows.rs).      *)
NoLostDamage ==
  consuming /\ streaming =>
    \A w \in Windows :
      entries[w].mapped /\ told[w] = "mapped" =>
        Tiles \ shown[w] \subseteq entries[w].damage \cup FreshInFlight(w)

(* The keyboard focus never rests on a destroyed window, a popup or a       *)
(* window that was never mapped, through every order of map, click and      *)
(* destroy (windows::destroy, apply_focus).                                 *)
FocusValid ==
  focused # None =>
    focused \in Toplevels /\ entries[focused].reg = "created"

(* Once the inputs stop and a session stays up, every visible window ends   *)
(* up complete at the far end.                                              *)
Converges ==
  <>[]consuming =>
    \A w \in Windows :
      <>[](entries[w].mapped /\ told[w] = "mapped" => shown[w] = Tiles)

-----------------------------------------------------------------------------
(* The compositor implements the flow-control specification. *)
Credit == INSTANCE FrameCredit WITH
  reg <- [w \in Windows |-> entries[w].reg],
  queued <- [w \in Windows |-> Count(chan, w)],
  outgoing <- [w \in Windows |-> Count(out, w)],
  coding <- IF coding = None THEN None ELSE coding.win

ImplementsFrameCredit == Credit!Spec

=============================================================================
