--------------------------- MODULE StreamControl ---------------------------
(***************************************************************************)
(* Which macOS windows are captured: the backend recounts the window nodes *)
(* of all workspace documents after every change                           *)
(* (reconcile_streaming_after_change), compares with the cached            *)
(* streaming_refcount and sends Start/StopWindowCapture to the sidecar,    *)
(* whose enumerator starts and stops the capture threads.                  *)
(*                                                                         *)
(* The recount, the comparison, the owner lookup and each send take        *)
(* different locks.  Every frontend's control task runs the function after *)
(* each sync message, the sidecar's receive loop after each                *)
(* WindowDestroyed, and their steps interleave.                            *)
(***************************************************************************)
EXTENDS Integers, Sequences, FiniteSets

CONSTANTS
  Frontends,   \* control tasks, one per connected browser
  Dispatch,    \* the sidecar's receive loop in the backend
  Workspaces,
  Windows,     \* window uuids the enumerator hands out
  MaxEdits     \* bound: sync messages that attach or detach a window

ASSUME TasksAssumption == Dispatch \notin Frontends
ASSUME EditsAssumption == MaxEdits \in Nat

VARIABLES
  docs,       \* window nodes of every workspace document
  refcount,   \* streaming_refcount: the windows with a count above zero
  owner,      \* window_owner: windows known to belong to the sidecar
  pc,         \* where each task is in reconcile_streaming_after_change
  counted,    \* new_counts of each task: the windows it saw attached
  todo,       \* starts and stops each task has still to send
  victim,     \* the window whose WindowDestroyed Dispatch is handling
  wire,       \* Start/StopWindowCapture on their way to the enumerator
  reports,    \* WindowCreated and WindowDestroyed on their way back
  up,         \* the sidecar's session
  born,       \* windows the enumerator has announced
  tracked,    \* the enumerator's Tracked entries
  capturing,  \* those with a capture_stop
  edits,
  crossed     \* history: one task counted before another was done

hubVars == <<docs, refcount, owner>>
taskVars == <<pc, counted, todo, victim>>
sideVars == <<born, tracked, capturing>>
vars == <<hubVars, taskVars, wire, reports, up, sideVars, edits, crossed>>

Tasks == Frontends \cup {Dispatch}
Attached == UNION {docs[ws] : ws \in Workspaces}
Start(w) == [kind |-> "start", win |-> w]
Stop(w) == [kind |-> "stop", win |-> w]

Init ==
  /\ docs = [ws \in Workspaces |-> {}]
  /\ refcount = {} /\ owner = {}
  /\ pc = [t \in Tasks |-> "idle"] /\ counted = [t \in Tasks |-> {}]
  /\ todo = [t \in Tasks |-> {}] /\ victim = {}
  /\ wire = <<>> /\ reports = <<>> /\ up = TRUE
  /\ born = {} /\ tracked = {} /\ capturing = {} /\ edits = 0
  /\ crossed = FALSE

-----------------------------------------------------------------------------
(* Regression forms of definitions below, used by mutation checks only. *)

StartAlways(w) == TRUE

TransitionsNoStops(t) ==
  {Start(w) : w \in counted[t] \ refcount}

-----------------------------------------------------------------------------
(* The sidecar: enumerate_step and handle_capture_control. *)

Appear(w) ==
  /\ up /\ w \notin born
  /\ born' = born \cup {w} /\ tracked' = tracked \cup {w}
  /\ reports' = Append(reports, [kind |-> "created", win |-> w])
  /\ UNCHANGED <<hubVars, taskVars, wire, up, capturing, edits, crossed>>

Vanish(w) ==
  /\ up /\ w \in tracked
  /\ tracked' = tracked \ {w} /\ capturing' = capturing \ {w}
  /\ reports' = Append(reports, [kind |-> "destroyed", win |-> w])
  /\ UNCHANGED <<hubVars, taskVars, wire, up, born, edits, crossed>>

(* A Start for a window that vanished is refused with a warning. *)
MayStart(w) == w \in tracked

Control ==
  /\ wire # <<>>
  /\ LET m == Head(wire) IN
       capturing' = IF m.kind = "stop" THEN capturing \ {m.win}
                    ELSE IF MayStart(m.win) THEN capturing \cup {m.win}
                    ELSE capturing
  /\ wire' = Tail(wire)
  /\ UNCHANGED <<hubVars, taskVars, reports, up, born, tracked, edits, crossed>>

(* The capture threads stop with the session; the documents keep the nodes. *)
SessionDown ==
  /\ up
  /\ up' = FALSE /\ wire' = <<>> /\ reports' = <<>>
  /\ tracked' = {} /\ capturing' = {}
  /\ UNCHANGED <<hubVars, taskVars, born, edits, crossed>>

-----------------------------------------------------------------------------
(* What makes a task reconcile. *)

(* A sync message adds or removes one window node of one document. *)
Attach(t, ws, w) ==
  /\ pc[t] = "idle" /\ edits < MaxEdits
  /\ w \in owner /\ w \notin docs[ws]
  /\ docs' = [docs EXCEPT ![ws] = @ \cup {w}]
  /\ pc' = [pc EXCEPT ![t] = "count"]
  /\ edits' = edits + 1
  /\ UNCHANGED <<refcount, owner, counted, todo, victim, wire, reports, up,
                 sideVars, crossed>>

Detach(t, ws, w) ==
  /\ pc[t] = "idle" /\ edits < MaxEdits
  /\ w \in docs[ws]
  /\ docs' = [docs EXCEPT ![ws] = @ \ {w}]
  /\ pc' = [pc EXCEPT ![t] = "count"]
  /\ edits' = edits + 1
  /\ UNCHANGED <<refcount, owner, counted, todo, victim, wire, reports, up,
                 sideVars, crossed>>

(* on_window_lifecycle_after, WindowCreated of a macOS window: no attach. *)
HandleCreated ==
  /\ pc[Dispatch] = "idle" /\ reports # <<>> /\ Head(reports).kind = "created"
  /\ reports' = Tail(reports)
  /\ owner' = owner \cup {Head(reports).win}
  /\ UNCHANGED <<docs, refcount, taskVars, wire, up, sideVars, edits,
                 crossed>>

HandleDestroyed ==
  /\ pc[Dispatch] = "idle" /\ reports # <<>> /\ Head(reports).kind = "destroyed"
  /\ reports' = Tail(reports)
  /\ victim' = {Head(reports).win}
  /\ docs' = [ws \in Workspaces |-> docs[ws] \ victim']
  /\ pc' = [pc EXCEPT ![Dispatch] = "count"]
  /\ UNCHANGED <<refcount, owner, counted, todo, wire, up, sideVars,
                 edits, crossed>>

-----------------------------------------------------------------------------
(* reconcile_streaming_after_change, one action per critical section. *)

(* Between its recount and its last send. *)
Reconciling(t) == pc[t] \in {"compare", "owners", "send"}

Count(t) ==
  /\ pc[t] = "count"
  /\ counted' = [counted EXCEPT ![t] = Attached]
  /\ pc' = [pc EXCEPT ![t] = "compare"]
  /\ crossed' = (crossed \/ \E u \in Tasks \ {t} : Reconciling(u))
  /\ UNCHANGED <<hubVars, todo, victim, wire, reports, up, sideVars, edits>>

Transitions(t) ==
  {Start(w) : w \in counted[t] \ refcount}
  \cup {Stop(w) : w \in refcount \ counted[t]}

Compare(t) ==
  /\ pc[t] = "compare"
  /\ todo' = [todo EXCEPT ![t] = Transitions(t)]
  /\ refcount' = counted[t]
  /\ counted' = [counted EXCEPT ![t] = {}]
  /\ pc' = [pc EXCEPT ![t] = "owners"]
  /\ UNCHANGED <<docs, owner, victim, wire, reports, up, sideVars, edits,
                 crossed>>

(* window_owner is cloned; what has no owner is skipped. *)
Owners(t) ==
  /\ pc[t] = "owners"
  /\ todo' = [todo EXCEPT ![t] = {m \in todo[t] : m.win \in owner}]
  /\ pc' = [pc EXCEPT ![t] = "send"]
  /\ UNCHANGED <<hubVars, counted, victim, wire, reports, up, sideVars,
                 edits, crossed>>

(* send_to_sidecar: all starts before all stops; nobody listens once the    *)
(* session is gone.                                                         *)
Send(t) ==
  /\ pc[t] = "send"
  /\ \E m \in todo[t] :
       /\ m.kind = "stop" => \A n \in todo[t] : n.kind = "stop"
       /\ todo' = [todo EXCEPT ![t] = @ \ {m}]
       /\ wire' = IF up THEN Append(wire, m) ELSE wire
  /\ UNCHANGED <<hubVars, pc, counted, victim, reports, up, sideVars,
                 edits, crossed>>

(* The handler of WindowDestroyed ends by forgetting the owner. *)
Done(t) ==
  /\ pc[t] = "send" /\ todo[t] = {}
  /\ pc' = [pc EXCEPT ![t] = "idle"]
  /\ IF t = Dispatch
       THEN owner' = owner \ victim /\ victim' = {}
       ELSE UNCHANGED <<owner, victim>>
  /\ UNCHANGED <<docs, refcount, counted, todo, wire, reports, up, sideVars,
                 edits, crossed>>

Reconcile(t) == Count(t) \/ Compare(t) \/ Owners(t) \/ Send(t) \/ Done(t)

-----------------------------------------------------------------------------
Next ==
  \/ \E w \in Windows : Appear(w) \/ Vanish(w)
  \/ Control \/ SessionDown \/ HandleCreated \/ HandleDestroyed
  \/ \E t \in Frontends, ws \in Workspaces, w \in Windows :
       Attach(t, ws, w) \/ Detach(t, ws, w)
  \/ \E t \in Tasks : Reconcile(t)

Spec == Init /\ [][Next]_vars

(* Tasks are polled, locks are fair, the enumerator reads its commands. *)
Fairness ==
  /\ \A t \in Tasks : WF_vars(Reconcile(t))
  /\ WF_vars(HandleCreated) /\ WF_vars(HandleDestroyed) /\ WF_vars(Control)

FairSpec == Spec /\ Fairness

-----------------------------------------------------------------------------
TypeOK ==
  /\ docs \in [Workspaces -> SUBSET Windows]
  /\ refcount \subseteq Windows /\ owner \subseteq Windows
  /\ pc \in [Tasks -> {"idle", "count", "compare", "owners", "send"}]
  /\ counted \in [Tasks -> SUBSET Windows]
  /\ todo \in [Tasks -> SUBSET [kind : {"start", "stop"}, win : Windows]]
  /\ victim \subseteq Windows
  /\ wire \in Seq([kind : {"start", "stop"}, win : Windows])
  /\ reports \in Seq([kind : {"created", "destroyed"}, win : Windows])
  /\ up \in BOOLEAN /\ edits \in 0..MaxEdits /\ crossed \in BOOLEAN
  /\ born \subseteq Windows /\ tracked \subseteq born
  /\ capturing \subseteq tracked

Quiet ==
  /\ \A t \in Tasks : pc[t] = "idle"
  /\ wire = <<>> /\ reports = <<>>

(* "When a window's count goes 0->N the backend tells the owning sidecar to *)
(* start live capture, N->0 stops it" (AppState.streaming_refcount): when   *)
(* all tasks and channels are at rest, the windows captured are the ones    *)
(* some workspace shows.  It does not hold when two recounts overlap.       *)
CaptureMatches == Quiet /\ up => capturing = Attached \cap tracked

(* The same as long as no task recounted before another had compared and    *)
(* sent: whatever appears, vanishes and is edited meanwhile, and whoever    *)
(* reconciles.                                                              *)
SerialCaptureMatches == ~crossed => CaptureMatches

(* A window that stays on some canvas is captured in the end, one that      *)
(* stays off every canvas is not, while the session lasts and the recounts  *)
(* do not overlap.                                                          *)
CaptureFollows ==
  \A w \in Windows :
    /\ <>[](~crossed /\ up /\ w \in tracked /\ w \in Attached)
         => <>[](w \in capturing)
    /\ <>[](~crossed /\ w \notin Attached) => <>[](w \notin capturing)

=============================================================================
