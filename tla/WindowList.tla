----------------------------- MODULE WindowList -----------------------------
(***************************************************************************)
(* The backend's window list: window_track and window_order, mutated by    *)
(* one receive loop per sidecar (apply_window_lifecycle), and published to *)
(* every frontend as a WindowList (broadcast_window_list).                 *)
(*                                                                         *)
(* A lifecycle message is applied under the locks of both maps.  Building  *)
(* the list takes them again for reading, and sending it takes the lock of *)
(* the frontend map: other tasks run in between.  A receive loop may also  *)
(* be dropped at any such point, when the session's send loop fails.       *)
(***************************************************************************)
EXTENDS Integers, Sequences, SequencesExt, FiniteSets

CONSTANTS
  Sidecars,   \* receive loops; a sidecar that comes back has a new id
  Toplevels,  \* top-level or override-redirect windows of a sidecar
  WlFrontends,
  Early,      \* frontends connected before anything happens
  MaxEvents,  \* bound: lifecycle messages
  Losses      \* bound: sessions lost

ASSUME EarlyAssumption == Early \subseteq WlFrontends
ASSUME FiniteAssumption == IsFiniteSet(Sidecars) /\ IsFiniteSet(Toplevels)
ASSUME BoundsAssumption == MaxEvents \in Nat /\ Losses \in Nat

VARIABLES
  track,      \* window_track: whether each tracked window is mapped
  order,      \* window_order, the top window last
  sidecar,    \* "up" or "gone", per sidecar
  stage,      \* each receive loop: "idle", "build" or "send"
  built,      \* the list a receive loop is about to broadcast
  frontend,   \* per frontend: "new", "registered", "built" or "ready"
  first,      \* the list a connecting frontend is about to be sent
  shown,      \* the last WindowList queued for each frontend
  spoke,      \* history: sidecars that sent a lifecycle message
  events, losses

listVars == <<track, order>>
loopVars == <<sidecar, stage, built>>
frontVars == <<frontend, first, shown>>
wlVars == <<listVars, loopVars, frontVars, spoke, events, losses>>

Keys == Sidecars \X Toplevels
Registered == {f \in WlFrontends : frontend[f] # "new"}

ListInit ==
  /\ track = <<>> /\ order = <<>>
  /\ sidecar = [s \in Sidecars |-> "up"] /\ stage = [s \in Sidecars |-> "idle"]
  /\ built = [s \in Sidecars |-> <<>>]
  /\ frontend = [f \in WlFrontends |-> IF f \in Early THEN "ready" ELSE "new"]
  /\ first = [f \in WlFrontends |-> <<>>]
  /\ shown = [f \in WlFrontends |-> <<>>]
  /\ spoke = {} /\ events = 0 /\ losses = 0

-----------------------------------------------------------------------------
(* Regression forms of definitions below, used by mutation checks only. *)

PlacedTwice(k) == Append(order, k)

BroadcastUnlessEmpty(s) ==
  /\ stage[s] = "send"
  /\ shown' = [f \in WlFrontends |->
       IF f \in Registered /\ built[s] # <<>> THEN built[s] ELSE shown[f]]
  /\ built' = [built EXCEPT ![s] = <<>>]
  /\ stage' = [stage EXCEPT ![s] = "idle"]
  /\ UNCHANGED <<listVars, sidecar, frontend, first, spoke, events, losses>>

DropTrackOnly(s) ==
  /\ track' = [k \in {k \in DOMAIN track : k[1] # s} |-> track[k]]
  /\ order' = order

-----------------------------------------------------------------------------
(* apply_window_lifecycle. *)

(* Vec::retain: seq without its elements outside K.  Kept(seq, K)[i] is     *)
(* what the pass has kept of the first i elements.                          *)
Kept(seq, K) ==
  LET kept[i \in 0..Len(seq)] ==
        CASE i = 0 -> <<>>
          [] i > 0 /\ seq[i] \in K -> Append(kept[i - 1], seq[i])
          [] OTHER -> kept[i - 1]
  IN  kept

Retain(seq, K) == Kept(seq, K)[Len(seq)]

Without(k) == Retain(order, Range(order) \ {k})

Placed(k) == IF k \in Range(order) THEN order ELSE Append(order, k)

Put(k, mapped) ==
  track' = [x \in DOMAIN track \cup {k} |-> IF x = k THEN mapped ELSE track[x]]

Update(k, mapped) ==
  track' = IF k \in DOMAIN track THEN [track EXCEPT ![k] = mapped] ELSE track

Created(k) == Put(k, FALSE) /\ order' = Placed(k)

(* The entry is made up when the window is not known: its WindowCreated     *)
(* went to an earlier session.                                              *)
Mapped(k) == Put(k, TRUE) /\ order' = Placed(k)

Unmapped(k) == Update(k, FALSE) /\ order' = order

Destroyed(k) ==
  /\ track' = [x \in DOMAIN track \ {k} |-> track[x]]
  /\ order' = Without(k)

(* Geometry is not modelled, but the message is broadcast like the others. *)
Configured(k) == UNCHANGED listVars

(* Raising does not ask whether the window is tracked. *)
Raised(k) == track' = track /\ order' = Append(Without(k), k)

(* on_window_lifecycle_after changes neither map. *)
Apply(s, w) ==
  /\ sidecar[s] = "up" /\ stage[s] = "idle" /\ events < MaxEvents
  /\ LET k == <<s, w>> IN
       \/ Created(k) \/ Mapped(k) \/ Unmapped(k)
       \/ Configured(k) \/ Destroyed(k) \/ Raised(k)
  /\ stage' = [stage EXCEPT ![s] = "build"]
  /\ events' = events + 1 /\ spoke' = spoke \cup {s}
  /\ UNCHANGED <<sidecar, built, frontVars, losses>>

(* build_window_list: only mapped windows, in stacking order. *)
Visible == Retain(order, {k \in DOMAIN track : track[k]})

Build(s) ==
  /\ stage[s] = "build"
  /\ built' = [built EXCEPT ![s] = Visible]
  /\ stage' = [stage EXCEPT ![s] = "send"]
  /\ UNCHANGED <<listVars, sidecar, frontVars, spoke, events, losses>>

Broadcast(s) ==
  /\ stage[s] = "send"
  /\ shown' = [f \in WlFrontends |->
                 IF f \in Registered THEN built[s] ELSE shown[f]]
  /\ built' = [built EXCEPT ![s] = <<>>]
  /\ stage' = [stage EXCEPT ![s] = "idle"]
  /\ UNCHANGED <<listVars, sidecar, frontend, first, spoke, events, losses>>

-----------------------------------------------------------------------------
Drop(s) ==
  /\ track' = [k \in {k \in DOMAIN track : k[1] # s} |-> track[k]]
  /\ order' = Retain(order, {k \in Range(order) : k[1] # s})

(* The session ends, wherever its receive loop is; cleanup_sidecar          *)
(* broadcasts only if it dropped a window.                                  *)
SidecarGone(s) ==
  /\ sidecar[s] = "up" /\ losses < Losses
  /\ sidecar' = [sidecar EXCEPT ![s] = "gone"]
  /\ Drop(s)
  /\ stage' = [stage EXCEPT ![s] = IF \E k \in DOMAIN track : k[1] = s
                               THEN "build" ELSE "idle"]
  /\ built' = [built EXCEPT ![s] = <<>>]
  /\ losses' = losses + 1
  /\ UNCHANGED <<frontVars, spoke, events>>

-----------------------------------------------------------------------------
(* handle_frontend_ws: register, then send the current list. *)

Register(f) ==
  /\ frontend[f] = "new"
  /\ frontend' = [frontend EXCEPT ![f] = "registered"]
  /\ UNCHANGED <<listVars, loopVars, first, shown, spoke, events, losses>>

BuildFirst(f) ==
  /\ frontend[f] = "registered"
  /\ first' = [first EXCEPT ![f] = Visible]
  /\ frontend' = [frontend EXCEPT ![f] = "built"]
  /\ UNCHANGED <<listVars, loopVars, shown, spoke, events, losses>>

SendFirst(f) ==
  /\ frontend[f] = "built"
  /\ shown' = [shown EXCEPT ![f] = first[f]]
  /\ first' = [first EXCEPT ![f] = <<>>]
  /\ frontend' = [frontend EXCEPT ![f] = "ready"]
  /\ UNCHANGED <<listVars, loopVars, spoke, events, losses>>

-----------------------------------------------------------------------------
ListNext ==
  \/ \E s \in Sidecars, w \in Toplevels : Apply(s, w)
  \/ \E s \in Sidecars : Build(s) \/ Broadcast(s) \/ SidecarGone(s)
  \/ \E f \in WlFrontends : Register(f) \/ BuildFirst(f) \/ SendFirst(f)

ListSpec == ListInit /\ [][ListNext]_wlVars

-----------------------------------------------------------------------------
ListTypeOK ==
  /\ DOMAIN track \subseteq Keys /\ \A k \in DOMAIN track : track[k] \in BOOLEAN
  /\ order \in Seq(Keys) /\ Len(order) <= Cardinality(Keys)
  /\ sidecar \in [Sidecars -> {"up", "gone"}]
  /\ stage \in [Sidecars -> {"idle", "build", "send"}]
  /\ frontend \in [WlFrontends -> {"new", "registered", "built", "ready"}]
  /\ \A f \in WlFrontends : first[f] \in Seq(Keys) /\ shown[f] \in Seq(Keys)
  /\ events \in 0..MaxEvents /\ losses \in 0..Losses

(* The two maps stay consistent, whatever order of messages a sidecar sends *)
(* (raises of unknown or destroyed windows included) and whenever it goes:  *)
(* every tracked window has exactly one place in the stacking order, and a  *)
(* sidecar that is gone has none.                                           *)
OrderConsistent ==
  /\ IsInjective(order)
  /\ DOMAIN track \subseteq Range(order)
  /\ \A k \in Range(order) : sidecar[k[1]] = "up"

AtRest ==
  /\ \A s \in Sidecars : stage[s] = "idle"
  /\ \A f \in WlFrontends : frontend[f] \in {"new", "ready"}

(* A frontend that is connected before the windows come, and hears of them  *)
(* from one sidecar whose session lasts, has the current list whenever the  *)
(* backend is at rest: every lifecycle message, WindowDestroyed of the last *)
(* window included, ends in a broadcast of what it left behind.             *)
ListFollows ==
  AtRest /\ Cardinality(spoke) = 1 /\ losses = 0 =>
    \A f \in Early : shown[f] = Visible

=============================================================================
