---------------------------- MODULE FrameCredit ----------------------------
(***************************************************************************)
(* The flow control between the Wayland compositor thread and the sidecar  *)
(* session that ships its frames (wayland-server/src/router.rs, the render *)
(* tick in windows.rs and run_session in sidecar-wayland/src/linux.rs).    *)
(*                                                                         *)
(* Two threads share a WindowRouter.  The compositor thread spends one     *)
(* credit of a window for every PutImage it puts on the update channel;    *)
(* the session returns it once the frame has been written to the wire.  A  *)
(* session may die at any point, taking the frames it had dequeued with    *)
(* it and leaving the rest in the channel for the next session.            *)
(*                                                                         *)
(* Pixels, sizes and the order of frames are left to WaylandCompositor,    *)
(* which implements this specification; here a frame is one unit of a      *)
(* per-window counter.                                                     *)
(***************************************************************************)
EXTENDS Naturals

CONSTANTS
  Windows,      \* the window UUIDs; one is never used again once destroyed
  MaxInFlight,  \* MAX_FRAMES_IN_FLIGHT
  MaxSessions,  \* bound: how many backend sessions are explored
  None          \* "no window"

ASSUME MaxInFlightAssumption == MaxInFlight \in Nat \ {0}
ASSUME MaxSessionsAssumption == MaxSessions \in Nat
ASSUME NoneAssumption == None \notin Windows

VARIABLES
  consuming,  \* WindowRouter.consuming, written by the session
  pending,    \* WindowRouter.pending; an absent entry reads as 0
  streaming,  \* State.streaming, what the last tick saw of consuming
  ticking,    \* the compositor thread is inside tick()
  todo,       \* roots this tick has still to visit
  stalled,    \* roots this tick skipped for want of credit
  reg,        \* registration of each window
  awaiting,   \* windows whose client waits for a frame callback
  queued,     \* frames per window in the update channel (display_rx)
  coding,     \* the window whose frame is being encoded, or None
  outgoing,   \* frames per window in the session's tx/rx queue
  sessions,   \* sessions started so far
  carried     \* history: frames in flight when credit was last forgotten

routerVars == <<consuming, pending, carried>>
tickVars   == <<streaming, ticking, todo, stalled>>
clientVars == <<reg, awaiting>>
linkVars   == <<queued, coding, outgoing, sessions>>
vars == <<routerVars, tickVars, clientVars, linkVars>>

InCoder(w)  == IF coding = w THEN 1 ELSE 0
InFlight(w) == queued[w] + InCoder(w) + outgoing[w]

Live == {w \in Windows : reg[w] \in {"new", "created"}}

(* Regression forms of the definitions below, for mutation checks. *)
MayEmitOffByOne(w) == pending[w] <= MaxInFlight
DetachUnobserved == TRUE
FrameShippedUnderflows(w) == pending' = [pending EXCEPT ![w] = @ - 1]
FrameShippedForgotten(w) == UNCHANGED pending

(* WindowRouter::may_emit: the window has credit for another frame. *)
MayEmit(w) == pending[w] < MaxInFlight

Init ==
  /\ consuming = FALSE /\ streaming = FALSE
  /\ pending = [w \in Windows |-> 0]
  /\ carried = [w \in Windows |-> 0]
  /\ ticking = FALSE /\ todo = {} /\ stalled = {}
  /\ reg = [w \in Windows |-> "unborn"]
  /\ awaiting = {}
  /\ queued = [w \in Windows |-> 0]
  /\ outgoing = [w \in Windows |-> 0]
  /\ coding = None
  /\ sessions = 0

-----------------------------------------------------------------------------
(* Client requests.  They are dispatched on the compositor thread, so       *)
(* never in the middle of a tick.                                           *)

Register(w) ==
  /\ ~ticking /\ reg[w] = "unborn"
  /\ reg' = [reg EXCEPT ![w] = "new"]
  /\ UNCHANGED <<awaiting, routerVars, tickVars, linkVars>>

(* wl_surface.commit carrying a wl_surface.frame request. *)
Commit(w) ==
  /\ ~ticking /\ w \in Live
  /\ awaiting' = awaiting \cup {w}
  /\ UNCHANGED <<reg, routerVars, tickVars, linkVars>>

(* windows::destroy with WindowRouter::untrack: the credit debt goes too. *)
Destroy(w) ==
  /\ ~ticking /\ w \in Live
  /\ reg' = [reg EXCEPT ![w] = "dead"]
  /\ awaiting' = awaiting \ {w}
  /\ pending' = [pending EXCEPT ![w] = 0]
  /\ carried' = [carried EXCEPT ![w] = InFlight(w)]
  /\ UNCHANGED <<consuming, tickVars, linkVars>>

-----------------------------------------------------------------------------
(* The render tick.  The flag is read once; crossing an edge in either      *)
(* direction forgets every outstanding credit (clear_pending).              *)

ClearPending ==
  /\ pending' = [w \in Windows |-> 0]
  /\ carried' = [w \in Windows |-> InFlight(w)]

TickBegin ==
  /\ ~ticking
  /\ ticking' = TRUE
  /\ todo' = Live
  /\ stalled' = {}
  /\ streaming' = consuming
  /\ IF consuming # streaming
       THEN ClearPending
       ELSE UNCHANGED <<pending, carried>>
  /\ UNCHANGED <<consuming, clientVars, linkVars>>

Visit(w) ==
  /\ ticking /\ w \in todo
  /\ todo' = todo \ {w}
  /\ UNCHANGED <<consuming, carried, streaming, ticking, awaiting,
                 coding, outgoing, sessions>>

(* Out of credit: no frame now, and no callback at the end of the tick. *)
TickStall(w) ==
  /\ Visit(w)
  /\ reg[w] = "created" /\ streaming /\ ~MayEmit(w)
  /\ stalled' = stalled \cup {w}
  /\ UNCHANGED <<pending, queued, reg>>

(* One PutImage: frame_emitted, then send.  The first frame of a window     *)
(* is not subject to the credit check.                                      *)
TickEmit(w) ==
  /\ Visit(w)
  /\ streaming
  /\ reg[w] = "new" \/ MayEmit(w)
  /\ reg' = [reg EXCEPT ![w] = "created"]
  /\ pending' = [pending EXCEPT ![w] = @ + 1]
  /\ queued' = [queued EXCEPT ![w] = @ + 1]
  /\ UNCHANGED stalled

(* No PutImage: no buffer yet, an unmap, nothing damaged, or nobody         *)
(* consuming, in which case the composited frame is dropped.                *)
TickQuiet(w) ==
  /\ Visit(w)
  /\ reg' \in {reg, [reg EXCEPT ![w] = "created"]}
  /\ UNCHANGED <<pending, queued, stalled>>

(* Callbacks come last, for every window that was not stalled. *)
TickEnd ==
  /\ ticking /\ todo = {}
  /\ ticking' = FALSE
  /\ awaiting' = awaiting \cap stalled
  /\ UNCHANGED <<todo, stalled, streaming, routerVars, reg, linkVars>>

-----------------------------------------------------------------------------
(* The session (run_session).  A reconnect waits BACKEND_RECONNECT_DELAY    *)
(* (5 s), over which the 16 ms render tick is taken to have run at least    *)
(* once: DetachObserved.  Everything the credit scheme promises about a     *)
(* dropped session rests on it.                                             *)

DetachObserved == ~streaming

SessionUp ==
  /\ ~consuming /\ DetachObserved
  /\ sessions < MaxSessions
  /\ sessions' = sessions + 1
  /\ consuming' = TRUE
  /\ UNCHANGED <<pending, carried, tickVars, clientVars,
                 queued, coding, outgoing>>

(* display_loop takes a PutImage off the channel and starts the encoder. *)
Encode(w) ==
  /\ consuming /\ coding = None /\ queued[w] > 0
  /\ coding' = w
  /\ queued' = [queued EXCEPT ![w] = @ - 1]
  /\ UNCHANGED <<outgoing, sessions, routerVars, tickVars, clientVars>>

Encoded(w) ==
  /\ consuming /\ coding = w
  /\ coding' = None
  /\ outgoing' = [outgoing EXCEPT ![w] = @ + 1]
  /\ UNCHANGED <<queued, sessions, routerVars, tickVars, clientVars>>

(* WindowRouter::frame_shipped saturates at zero. *)
FrameShipped(w) ==
  pending' = [pending EXCEPT ![w] = IF @ = 0 THEN 0 ELSE @ - 1]

(* The writer arm: the frame is on the wire, then its credit comes back. *)
Ship(w) ==
  /\ consuming /\ outgoing[w] > 0
  /\ outgoing' = [outgoing EXCEPT ![w] = @ - 1]
  /\ FrameShipped(w)
  /\ UNCHANGED <<consuming, carried, queued, coding, sessions,
                 tickVars, clientVars>>

(* recv, events or display loop ended: what the session had dequeued is     *)
(* dropped with it, what it had not stays in the channel.                   *)
SessionDown ==
  /\ consuming
  /\ consuming' = FALSE
  /\ coding' = None
  /\ outgoing' = [w \in Windows |-> 0]
  /\ UNCHANGED <<pending, carried, queued, sessions, tickVars, clientVars>>

-----------------------------------------------------------------------------
Next ==
  \/ TickBegin \/ TickEnd \/ SessionUp \/ SessionDown
  \/ \E w \in Windows :
       \/ Register(w) \/ Commit(w) \/ Destroy(w)
       \/ TickStall(w) \/ TickEmit(w) \/ TickQuiet(w)
       \/ Encode(w) \/ Encoded(w) \/ Ship(w)

Spec == Init /\ [][Next]_vars

(* The calloop timer keeps firing and a tick never blocks.  The session's   *)
(* loops keep being polled and both of its queues are FIFO, so no window's  *)
(* frame is overtaken for ever (strong fairness of Encode: the encoder is   *)
(* busy with other windows in between).  A write that cannot make progress  *)
(* ends with the connection's idle timeout, SessionDown, which disables     *)
(* Ship.  Nothing makes a session end, and nothing makes one come back.     *)
Fairness ==
  /\ WF_vars(TickBegin)
  /\ WF_vars(\E w \in Windows : TickStall(w) \/ TickEmit(w) \/ TickQuiet(w))
  /\ WF_vars(TickEnd)
  /\ \A w \in Windows :
       /\ SF_vars(Encode(w))
       /\ WF_vars(Encoded(w))
       /\ WF_vars(Ship(w))

FairSpec == Spec /\ Fairness

-----------------------------------------------------------------------------
TypeOK ==
  /\ consuming \in BOOLEAN /\ streaming \in BOOLEAN /\ ticking \in BOOLEAN
  /\ pending \in [Windows -> Nat]
  /\ carried \in [Windows -> Nat]
  /\ todo \in SUBSET Windows /\ stalled \in SUBSET Windows
  /\ awaiting \in SUBSET Windows
  /\ reg \in [Windows -> {"unborn", "new", "created", "dead"}]
  /\ queued \in [Windows -> Nat]
  /\ outgoing \in [Windows -> Nat]
  /\ coding \in Windows \cup {None}
  /\ sessions \in Nat

(* Un-shipped frames are bounded (MAX_FRAMES_IN_FLIGHT, router.rs): a       *)
(* window never has more of them than its credit plus the ones that were    *)
(* already in flight when the credit counters were last reset.  The second  *)
(* term is what a dropped session leaves in the update channel.             *)
InFlightBounded ==
  \A w \in Windows : InFlight(w) <= MaxInFlight + carried[w]

(* Every credit spent in the running session is held by a frame that is     *)
(* still on its way and will return it: whatever sessions came and went, a  *)
(* window is never throttled by a frame that no longer exists ("a dropped   *)
(* session cannot leave a window stalled", linux.rs).                       *)
CreditBacked ==
  consuming => \A w \in Windows : pending[w] <= InFlight(w)

(* The inductive strengthening of the two invariants above.                 *)
CreditInv ==
  /\ TypeOK
  /\ CreditBacked
  /\ ~streaming => \A w \in Windows : pending[w] = 0
  /\ \A w \in Windows : InFlight(w) <= pending[w] + carried[w]
  /\ \A w \in Windows : pending[w] <= MaxInFlight
  /\ \A w \in Windows : reg[w] \in {"unborn", "new"} => pending[w] = 0

(* A client that asked for a frame callback gets it: withholding callbacks  *)
(* from stalled windows (windows.rs tick) never freezes a client for good.  *)
CallbackReleased ==
  \A w \in Windows : w \in awaiting ~> w \notin awaiting

=============================================================================
