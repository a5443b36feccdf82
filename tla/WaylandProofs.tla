--------------------------- MODULE WaylandProofs ---------------------------
(***************************************************************************)
(* The Wayland compositor and its session, for any windows, tiles, buffer  *)
(* sizes and credit: types, the focus, no repaint is lost, and every step  *)
(* is one of FrameCredit, so that what is proved of the flow control there *)
(* holds of the queues here.                                               *)
(***************************************************************************)
EXTENDS WaylandCompositor, FiniteSetTheorems, TLAPS

Entry == [reg : {"unborn", "new", "created", "dead"},
          mapped : BOOLEAN, size : Sizes \cup {0},
          buf : Sizes \cup {0}, fb : Sizes \cup {0},
          damage : SUBSET Tiles,
          unmap : BOOLEAN, wm : WmStates \cup {"Normal"}]

(* The first frame of a window is not subject to the credit check: until    *)
(* it is created, no credit has been spent on it.                           *)
Untracked == \A w \in Windows : entries[w].reg # "created" => pending[w] = 0

(* A mapped window was announced, and the framebuffer fits what was         *)
(* reported, so that the crop of a composite never comes up short.          *)
Announced == \A w \in Windows : entries[w].mapped => entries[w].reg = "created"
Fitted == \A w \in Windows : entries[w].fb = entries[w].size

Typed == TypeOK /\ Untracked

WaylandInv == Typed /\ Announced /\ Fitted /\ FocusValid /\ NoLostDamage

(***************************************************************************)
(* Types.                                                                  *)
(***************************************************************************)
LEMMA FrameTyped ==
    /\ \A f \in Frame : f.win \in Windows /\ f.fresh \in SUBSET Tiles
    /\ \A w \in Windows, T \in SUBSET Tiles : [win |-> w, fresh |-> T] \in Frame
    /\ \A f \in Frame : \A w, T : Stale(f, w, T) \in Frame /\ Stale(f, w, T).win = f.win
    /\ \A f \in Frame : \A w, T :
         Stale(f, w, T).fresh = IF f.win = w THEN f.fresh \ T ELSE f.fresh
  BY DEF Frame, Stale

LEMMA QueueTyped ==
    ASSUME NEW S
    PROVE  /\ <<>> \in Seq(S)
           /\ \A q \in Seq(S), f \in S : Append(q, f) \in Seq(S)
           /\ \A q \in Seq(S) : q # <<>> => Head(q) \in S /\ Tail(q) \in Seq(S)
  OBVIOUS

LEMMA StaleQueue ==
    ASSUME NEW q \in Seq(Frame), NEW w, NEW T, NEW r,
           r = [i \in DOMAIN q |-> Stale(q[i], w, T)]
    PROVE  /\ r \in Seq(Frame) /\ DOMAIN r = DOMAIN q
           /\ \A i \in DOMAIN q : r[i] = Stale(q[i], w, T)
<1>1. DOMAIN q = 1..Len(q) /\ Len(q) \in Nat
  OBVIOUS
<1>2. \A i \in 1..Len(q) : Stale(q[i], w, T) \in Frame
  BY FrameTyped
<1>3. r \in [1..Len(q) -> Frame]
  BY <1>1, <1>2
<1>4. r \in Seq(Frame)
  BY <1>1, <1>3
<1> QED
  BY <1>4

LEMMA ChangedTyped ==
    ASSUME TypeOK, NEW w \in Windows, NEW T \in SUBSET Tiles, Changed(w, T)
    PROVE  /\ chan' \in Seq(Frame) /\ out' \in Seq(Frame)
           /\ coding' \in Frame \cup {None}
           /\ shown' \in [Windows -> SUBSET Tiles]
<1> USE DEF TypeOK, Changed
<1>1. chan' \in Seq(Frame) /\ out' \in Seq(Frame)
  BY StaleQueue
<1>2. coding' \in Frame \cup {None}
  BY FrameTyped
<1>3. shown' \in [Windows -> SUBSET Tiles]
  OBVIOUS
<1> QED
  BY <1>1, <1>2, <1>3

LEMMA InitTyped == Init => Typed
<1> SUFFICES ASSUME Init PROVE Typed
  OBVIOUS
<1>1. NewEntry \in Entry
  BY DEF NewEntry, Entry
<1>2. entries \in [Windows -> Entry]
  BY <1>1 DEF Init
<1>3. /\ pending \in [Windows -> 0..MaxInFlight]
      /\ told \in [Windows -> {"unknown", "mapped", "unmapped", "destroyed"}]
      /\ shown \in [Windows -> SUBSET Tiles]
  BY BoundsAssumption DEF Init
<1>4. /\ consuming \in BOOLEAN /\ streaming \in BOOLEAN /\ ticking \in BOOLEAN
      /\ focused \in Toplevels \cup {None}
      /\ todo \subseteq Windows /\ stalled \subseteq Windows
      /\ awaiting \subseteq Windows
  BY DEF Init
<1>5. chan \in Seq(Frame) /\ out \in Seq(Frame) /\ coding \in Frame \cup {None}
  BY DEF Init
<1>6. TypeOK
  BY <1>2, <1>3, <1>4, <1>5 DEF TypeOK, Entry
<1> QED
  BY <1>6 DEF Init, Typed, Untracked

(* One entry is replaced. *)
LEMMA EntryAt ==
    ASSUME NEW f \in [Windows -> Entry], NEW w \in Windows, NEW e \in Entry, NEW g,
           g = [f EXCEPT ![w] = e]
    PROVE  /\ g \in [Windows -> Entry] /\ g[w] = e
           /\ \A x \in Windows \ {w} : g[x] = f[x]
  OBVIOUS

(* A new WM state leaves the other fields alone. *)
LEMMA StateFields ==
    ASSUME entries \in [Windows -> Entry], NEW w \in Windows, NEW b,
           entries' = [entries EXCEPT ![w].wm = b]
    PROVE  \A x \in Windows :
             /\ entries'[x].reg = entries[x].reg /\ entries'[x].mapped = entries[x].mapped
             /\ entries'[x].damage = entries[x].damage /\ entries'[x].fb = entries[x].fb
             /\ entries'[x].size = entries[x].size
<1> DEFINE e == [entries[w] EXCEPT !.wm = b]
<1>1. /\ e.reg = entries[w].reg /\ e.mapped = entries[w].mapped
      /\ e.damage = entries[w].damage /\ e.fb = entries[w].fb /\ e.size = entries[w].size
  BY DEF Entry
<1>2. \A x \in Windows : entries'[x] = IF x = w THEN e ELSE entries[x]
  OBVIOUS
<1> HIDE DEF e
<1> QED
  BY <1>1, <1>2

LEMMA StateTyped ==
    ASSUME TypeOK, NEW w \in Windows, NEW a \in WmStates,
           entries' = [entries EXCEPT ![w].wm = a]
    PROVE  /\ entries' \in [Windows -> Entry]
           /\ \A x \in Windows : entries'[x].reg = entries[x].reg
<1> DEFINE e == [entries[w] EXCEPT !.wm = a]
<1>1. entries \in [Windows -> Entry]
  BY DEF TypeOK, Entry
<1>2. entries' = [entries EXCEPT ![w] = e] /\ e \in Entry /\ e.reg = entries[w].reg
  BY <1>1 DEF Entry
<1> HIDE DEF e
<1> QED
  BY <1>1, <1>2, EntryAt DEF Entry

LEMMA ClientTyped ==
    ASSUME Typed, NEW w \in Windows,
           \/ Register(w) \/ CommitNull(w)
           \/ \E s \in Sizes, T \in SUBSET Tiles : CommitBuffer(w, s, T)
           \/ \E a \in WmStates : ClientStateRequest(w, a)
           \/ FocusWindow(w)
    PROVE  Typed'
<1> USE DEF Typed, TypeOK, Untracked
<1>1. ASSUME Register(w) PROVE Typed'
  <2> DEFINE e == [entries[w] EXCEPT !.reg = "new"]
  <2>1. entries' = [entries EXCEPT ![w] = e]
    BY <1>1 DEF Register
  <2>2. e \in Entry /\ e.reg # "created" /\ entries[w].reg # "created"
    BY <1>1 DEF Register, Entry
  <2> HIDE DEF e
  <2>3. /\ entries' \in [Windows -> Entry]
        /\ \A x \in Windows : entries'[x].reg # "created" => entries[x].reg # "created"
    BY <2>1, <2>2, EntryAt DEF Entry
  <2> QED
    BY <1>1, <2>3 DEF Register, Entry, routerVars, tickVars, linkVars
<1>2. ASSUME CommitNull(w) PROVE Typed'
  <2> DEFINE e == [entries[w] EXCEPT !.buf = 0, !.unmap = TRUE]
  <2>0. entries' = [entries EXCEPT ![w] = e]
    BY <1>2, Zenon DEF CommitNull
  <2>1. e \in Entry /\ e.reg = entries[w].reg
    BY DEF Entry
  <2> HIDE DEF e
  <2>2. /\ entries' \in [Windows -> Entry]
        /\ \A x \in Windows : entries'[x].reg = entries[x].reg
    BY <2>0, <2>1, EntryAt DEF Entry
  <2> QED
    BY <1>2, <2>2 DEF CommitNull, Entry, routerVars, tickVars, linkVars
<1>3. ASSUME NEW s \in Sizes, NEW T \in SUBSET Tiles, CommitBuffer(w, s, T)
      PROVE  Typed'
  <2> DEFINE D == IF entries[w].buf # s THEN Tiles ELSE T
  <2>1. D \in SUBSET Tiles
    OBVIOUS
  <2>2. /\ entries' = [entries EXCEPT ![w].buf = s, ![w].damage = @ \cup D]
        /\ Changed(w, D) /\ awaiting' = awaiting \cup {w}
        /\ UNCHANGED <<consuming, pending, streaming, ticking, todo, stalled,
                       focused, told>>
    BY <1>3 DEF CommitBuffer, routerVars, tickVars
  <2> HIDE DEF D
  <2>3. /\ chan' \in Seq(Frame) /\ out' \in Seq(Frame)
        /\ coding' \in Frame \cup {None} /\ shown' \in [Windows -> SUBSET Tiles]
    BY <2>1, <2>2, ChangedTyped
  <2> DEFINE e == [entries[w] EXCEPT !.buf = s, !.damage = @ \cup D]
  <2>4. entries' = [entries EXCEPT ![w] = e] /\ e \in Entry /\ e.reg = entries[w].reg
    BY <2>1, <2>2 DEF Entry
  <2> HIDE DEF e
  <2>5. /\ entries' \in [Windows -> Entry]
        /\ \A x \in Windows : entries'[x].reg = entries[x].reg
    BY <2>4, EntryAt DEF Entry
  <2> QED
    BY <2>2, <2>3, <2>5 DEF Entry
<1>4. ASSUME NEW a \in WmStates, ClientStateRequest(w, a) PROVE Typed'
  <2>1. /\ entries' \in [Windows -> Entry]
        /\ \A x \in Windows : entries'[x].reg = entries[x].reg
    BY <1>4, StateTyped DEF ClientStateRequest, EmitState
  <2> QED
    BY <1>4, <2>1
       DEF ClientStateRequest, EmitState, Entry, routerVars, tickVars, linkVars
<1>5. ASSUME FocusWindow(w) PROVE Typed'
  BY <1>5 DEF FocusWindow, routerVars, tickVars, linkVars
<1> QED
  BY <1>1, <1>2, <1>3, <1>4, <1>5

LEMMA DestroyTyped ==
    ASSUME Typed, NEW w \in Windows, Destroy(w)
    PROVE  Typed'
<1> USE DEF Typed, TypeOK, Untracked
<1>1. entries' \in [Windows -> Entry]
  BY DEF Destroy, NewEntry, Entry
<1>2. \A x \in Windows : entries'[x].reg # "created" => pending'[x] = 0
  BY DEF Destroy, Untrack, NewEntry
<1>3. focused' \in Toplevels \cup {None}
  BY DEF Destroy, FocusAfterDestroy
<1>4. pending' \in [Windows -> 0..MaxInFlight]
  BY BoundsAssumption DEF Destroy, Untrack
<1>5. told' \in [Windows -> {"unknown", "mapped", "unmapped", "destroyed"}]
  BY DEF Destroy
<1>6. /\ awaiting' \subseteq Windows
      /\ UNCHANGED <<consuming, streaming, ticking, todo, stalled, chan, coding,
                     out, shown>>
  BY DEF Destroy, tickVars, linkVars
<1> QED
  BY <1>1, <1>2, <1>3, <1>4, <1>5, <1>6 DEF Entry

LEMMA ManageTyped ==
    ASSUME Typed, NEW w \in Windows, NEW a \in WmStates, Manage(w, a)
    PROVE  Typed'
<1> USE DEF Typed, TypeOK, Untracked
<1>1. UNCHANGED <<consuming, pending, streaming, ticking, todo, stalled,
                  focused, awaiting>>
  BY DEF Manage, routerVars, tickVars
<1>2. \/ a = "Minimized" /\ Minimize(w)
      \/ a = "Normal" /\ Restore(w)
      \/ EmitState(w, a) /\ UNCHANGED <<chan, coding, out, shown>>
  BY DEF Manage, linkVars
<1>3. ASSUME a = "Minimized", Minimize(w) PROVE Typed'
  <2>1. /\ entries' \in [Windows -> Entry]
        /\ \A x \in Windows : entries'[x].reg = entries[x].reg
    BY <1>3, StateTyped DEF Minimize
  <2>2. told' \in [Windows -> {"unknown", "mapped", "unmapped", "destroyed"}]
    BY <1>3 DEF Minimize
  <2>3. /\ chan' \in Seq(Frame) /\ out' \in Seq(Frame)
        /\ coding' \in Frame \cup {None} /\ shown' \in [Windows -> SUBSET Tiles]
    <3>1. CASE entries[w].mapped
      <4>1. Changed(w, Tiles)
        BY <1>3, <3>1 DEF Minimize
      <4> QED
        BY <4>1, ChangedTyped
    <3>2. CASE ~entries[w].mapped
      BY <1>3, <3>2 DEF Minimize, linkVars
    <3> QED
      BY <3>1, <3>2
  <2> QED
    BY <1>1, <2>1, <2>2, <2>3 DEF Entry
<1>4. ASSUME Restore(w) PROVE Typed'
  <2> DEFINE d == IF entries[w].wm = "Minimized" /\ entries[w].mapped
                    THEN Tiles ELSE entries[w].damage
             e == [entries[w] EXCEPT !.wm = "Normal", !.damage = d]
  <2>0. entries' = [entries EXCEPT ![w] = e]
    BY <1>4, Zenon DEF Restore
  <2>4. d \in SUBSET Tiles
    OBVIOUS
  <2> HIDE DEF d
  <2>3. e \in Entry /\ e.reg = entries[w].reg
    BY <2>4 DEF Entry
  <2> HIDE DEF e
  <2>1. /\ entries' \in [Windows -> Entry]
        /\ \A x \in Windows : entries'[x].reg = entries[x].reg
    BY <2>0, <2>3, EntryAt DEF Entry
  <2>2. /\ told' \in [Windows -> {"unknown", "mapped", "unmapped", "destroyed"}]
        /\ UNCHANGED <<chan, coding, out, shown>>
    BY <1>4 DEF Restore, linkVars
  <2> QED
    BY <1>1, <2>1, <2>2 DEF Entry
<1>5. ASSUME EmitState(w, a), UNCHANGED <<chan, coding, out, shown>> PROVE Typed'
  <2>1. /\ entries' \in [Windows -> Entry]
        /\ \A x \in Windows : entries'[x].reg = entries[x].reg
    BY <1>5, StateTyped DEF EmitState
  <2> QED
    BY <1>1, <1>5, <2>1 DEF EmitState, Entry
<1> QED
  BY <1>2, <1>3, <1>4, <1>5

(* What a visit makes of an entry, and the frame it may put on the channel. *)
LEMMA VisitEntries ==
    ASSUME NEW e \in Entry
    PROVE  /\ Settled(e) \in Entry /\ Settled(e).reg = "created"
           /\ Settled(e).mapped
           /\ e.fb = e.size => Settled(e).fb = Settled(e).size
           /\ Settled(e).damage = IF e.size # e.buf \/ ~e.mapped
                                    THEN Tiles ELSE e.damage
           /\ Unmapped(e) \in Entry /\ Unmapped(e).reg = e.reg
           /\ ~Unmapped(e).mapped /\ Unmapped(e).fb = Unmapped(e).size
           /\ [e EXCEPT !.unmap = FALSE] \in Entry
           /\ [e EXCEPT !.unmap = FALSE].reg = e.reg
           /\ [e EXCEPT !.unmap = FALSE].mapped = e.mapped
           /\ [e EXCEPT !.unmap = FALSE].fb = e.fb
           /\ [e EXCEPT !.unmap = FALSE].size = e.size
           /\ [e EXCEPT !.unmap = FALSE].damage = e.damage
           /\ [e EXCEPT !.damage = {}] \in Entry
           /\ [e EXCEPT !.damage = {}].reg = e.reg
           /\ [e EXCEPT !.damage = {}].mapped = e.mapped
           /\ [e EXCEPT !.damage = {}].fb = e.fb
           /\ [e EXCEPT !.damage = {}].size = e.size
           /\ [e EXCEPT !.damage = {}].damage = {}
  BY DEF Entry, Settled, Unmapped

LEMMA CompositeTyped ==
    ASSUME TypeOK, NEW w \in Windows, NEW e \in Entry, e.reg = "created", NEW m,
           pending[w] < MaxInFlight \/ ~streaming,
           Composite(w, e, m)
    PROVE  /\ entries' \in [Windows -> Entry] /\ entries'[w].reg = "created"
           /\ \A x \in Windows \ {w} : entries'[x] = entries[x]
           /\ pending' \in [Windows -> 0..MaxInFlight]
           /\ \A x \in Windows \ {w} : pending'[x] = pending[x]
           /\ chan' \in Seq(Frame)
<1>1. entries \in [Windows -> Entry] /\ pending \in [Windows -> 0..MaxInFlight]
      /\ chan \in Seq(Frame)
  BY DEF TypeOK, Entry
<1>2. [e EXCEPT !.damage = {}] \in Entry /\ [e EXCEPT !.damage = {}].reg = "created"
  BY VisitEntries
<1>3. entries' = [entries EXCEPT ![w] = [e EXCEPT !.damage = {}]]
  BY DEF Composite
<1>4. /\ entries' \in [Windows -> Entry] /\ entries'[w].reg = "created"
      /\ \A x \in Windows \ {w} : entries'[x] = entries[x]
  BY <1>1, <1>2, <1>3, EntryAt
<1>5. /\ pending' \in [Windows -> 0..MaxInFlight]
      /\ \A x \in Windows \ {w} : pending'[x] = pending[x]
  <2>1. \/ streaming /\ pending' = [pending EXCEPT ![w] = @ + 1]
        \/ pending' = pending
    BY DEF Composite
  <2>2. MaxInFlight \in Nat /\ pending[w] \in 0..MaxInFlight
    BY <1>1, BoundsAssumption
  <2>3. pending[w] < MaxInFlight => pending[w] + 1 \in 0..MaxInFlight
    BY <2>2
  <2> QED
    BY <1>1, <2>1, <2>3
<1>6. chan' \in Seq(Frame)
  <2>1. (IF m = "mapped" THEN e.damage ELSE {}) \in SUBSET Tiles
    BY DEF Entry
  <2> DEFINE f == [win |-> w, fresh |-> IF m = "mapped" THEN e.damage ELSE {}]
  <2>2. f \in Frame
    BY <2>1, FrameTyped
  <2>3. chan' = Append(chan, f) \/ chan' = chan
    BY DEF Composite
  <2> HIDE DEF f
  <2>4. Append(chan, f) \in Seq(Frame)
    BY <1>1, <2>2, QueueTyped
  <2> QED
    BY <1>1, <2>3, <2>4
<1> QED
  BY <1>4, <1>5, <1>6

LEMMA TickTyped ==
    ASSUME Typed, NEW w \in Windows,
           \/ TickUnmap(w) \/ TickNoBuffer(w) \/ TickCreate(w) \/ TickPaint(w)
    PROVE  Typed'
<1> USE DEF Typed, TypeOK, Untracked
<1>0. entries \in [Windows -> Entry] /\ entries[w] \in Entry
  BY DEF Entry
<1>1. /\ todo' \subseteq Windows
      /\ UNCHANGED <<consuming, streaming, ticking, awaiting, coding, out, shown>>
  BY DEF TickUnmap, TickNoBuffer, TickCreate, TickPaint, Visit
<1>2. ASSUME TickUnmap(w) PROVE Typed'
  <2> DEFINE u == IF entries[w].mapped THEN Unmapped(entries[w]) ELSE entries[w]
             e == [u EXCEPT !.unmap = FALSE]
  <2>1. u \in Entry /\ u.reg = entries[w].reg
    BY <1>0, VisitEntries
  <2>2. entries' = [entries EXCEPT ![w] = e]
    BY <1>2 DEF TickUnmap
  <2> HIDE DEF u
  <2>3. e \in Entry /\ e.reg = entries[w].reg
    BY <2>1, VisitEntries
  <2> HIDE DEF e
  <2>4. /\ entries' \in [Windows -> Entry]
        /\ \A x \in Windows : entries'[x].reg = entries[x].reg
    BY <1>0, <2>2, <2>3, EntryAt
  <2>5. /\ UNCHANGED <<pending, chan, stalled, focused>>
        /\ told' \in [Windows -> {"unknown", "mapped", "unmapped", "destroyed"}]
    BY <1>2 DEF TickUnmap
  <2> QED
    BY <1>1, <2>4, <2>5 DEF Entry
<1>3. ASSUME TickNoBuffer(w) PROVE Typed'
  BY <1>1, <1>3 DEF TickNoBuffer
<1>4. ASSUME TickCreate(w) PROVE Typed'
  <2>1. Settled(entries[w]) \in Entry /\ Settled(entries[w]).reg = "created"
    BY <1>0, VisitEntries
  <2>2. pending[w] < MaxInFlight
    <3>1. entries[w].reg = "new"
      BY <1>4 DEF TickCreate
    <3>2. pending[w] = 0
      BY <3>1
    <3> QED
      BY <3>2, BoundsAssumption
  <2>3. Composite(w, Settled(entries[w]), "mapped")
    BY <1>4 DEF TickCreate
  <2>4. /\ entries' \in [Windows -> Entry] /\ entries'[w].reg = "created"
        /\ \A x \in Windows \ {w} : entries'[x] = entries[x]
        /\ pending' \in [Windows -> 0..MaxInFlight]
        /\ \A x \in Windows \ {w} : pending'[x] = pending[x]
        /\ chan' \in Seq(Frame)
    BY <2>1, <2>2, <2>3, CompositeTyped
  <2>5. /\ UNCHANGED stalled /\ focused' \in Toplevels \cup {None}
        /\ told' \in [Windows -> {"unknown", "mapped", "unmapped", "destroyed"}]
    BY <1>4 DEF TickCreate
  <2> QED
    BY <1>1, <2>4, <2>5 DEF Entry
<1>5. ASSUME TickPaint(w) PROVE Typed'
  <2> DEFINE m == IF entries[w].mapped THEN told[w] ELSE "mapped"
  <2>0. m \in {"unknown", "mapped", "unmapped", "destroyed"}
    OBVIOUS
  <2>1. Settled(entries[w]) \in Entry /\ Settled(entries[w]).reg = "created"
    BY <1>0, VisitEntries
  <2>2. told' = [told EXCEPT ![w] = m] /\ UNCHANGED focused
    BY <1>5 DEF TickPaint
  <2>3. \/ /\ stalled' = stalled \cup {w}
           /\ entries' = [entries EXCEPT ![w] = Settled(entries[w])]
           /\ UNCHANGED <<pending, chan>>
        \/ /\ Composite(w, Settled(entries[w]), m) /\ UNCHANGED stalled
           /\ pending[w] < MaxInFlight \/ ~streaming
    BY <1>5 DEF TickPaint, MayEmit
  <2>4. entries[w].reg = "created"
    BY <1>5 DEF TickPaint
  <2> HIDE DEF m
  <2>5. /\ entries' \in [Windows -> Entry] /\ entries'[w].reg = "created"
        /\ \A x \in Windows \ {w} : entries'[x] = entries[x]
        /\ pending' \in [Windows -> 0..MaxInFlight]
        /\ \A x \in Windows \ {w} : pending'[x] = pending[x]
        /\ chan' \in Seq(Frame) /\ stalled' \subseteq Windows
    <3>1. CASE /\ stalled' = stalled \cup {w}
               /\ entries' = [entries EXCEPT ![w] = Settled(entries[w])]
               /\ UNCHANGED <<pending, chan>>
      <4>1. /\ entries' \in [Windows -> Entry] /\ entries'[w] = Settled(entries[w])
            /\ \A x \in Windows \ {w} : entries'[x] = entries[x]
        BY <1>0, <2>1, <3>1, EntryAt
      <4> QED
        BY <2>1, <3>1, <4>1
    <3>2. CASE /\ Composite(w, Settled(entries[w]), m) /\ UNCHANGED stalled
               /\ pending[w] < MaxInFlight \/ ~streaming
      BY <2>1, <3>2, CompositeTyped
    <3> QED
      BY <2>3, <3>1, <3>2
  <2>6. told' \in [Windows -> {"unknown", "mapped", "unmapped", "destroyed"}]
    BY <2>0, <2>2
  <2> QED
    BY <1>1, <2>2, <2>5, <2>6 DEF Entry
<1> QED
  BY <1>2, <1>3, <1>4, <1>5

LEMMA LinkTyped ==
    ASSUME Typed,
           \/ TickBegin \/ TickEnd
           \/ SessionUp \/ Encode \/ Encoded \/ Ship \/ SessionDown
    PROVE  Typed'
<1> USE DEF Typed, TypeOK, Untracked
<1>1. ASSUME TickBegin PROVE Typed'
  <2>1. entries' \in [Windows -> Entry] /\ \A x \in Windows : entries'[x].reg = entries[x].reg
    <3>1. CASE entries' = entries
      BY <3>1 DEF Entry
    <3>2. CASE entries' = [x \in Windows |-> IF x \in Live
                             THEN [entries[x] EXCEPT !.damage = Tiles] ELSE entries[x]]
      <4>1. \A e \in Entry : /\ [e EXCEPT !.damage = Tiles] \in Entry
                             /\ [e EXCEPT !.damage = Tiles].reg = e.reg
        BY DEF Entry
      <4>2. \A x \in Windows : entries[x] \in Entry
        BY DEF Entry
      <4> QED
        BY <3>2, <4>1, <4>2
    <3> QED
      BY <1>1, <3>1, <3>2 DEF TickBegin
  <2>2. pending' \in [Windows -> 0..MaxInFlight]
        /\ \A x \in Windows : pending[x] = 0 => pending'[x] = 0
    BY <1>1, BoundsAssumption DEF TickBegin
  <2>3. todo' \subseteq Windows /\ stalled' \subseteq Windows
    BY <1>1 DEF TickBegin, Live
  <2> QED
    BY <1>1, <2>1, <2>2, <2>3 DEF TickBegin, Entry, linkVars
<1>2. ASSUME TickEnd PROVE Typed'
  BY <1>2 DEF TickEnd, routerVars, linkVars
<1>3. ASSUME SessionUp PROVE Typed'
  <2>1. shown' \in [Windows -> SUBSET Tiles] /\ consuming' \in BOOLEAN
    BY <1>3 DEF SessionUp
  <2> QED
    BY <1>3, <2>1 DEF SessionUp, tickVars
<1>4. ASSUME Encode PROVE Typed'
  <2>1. chan' \in Seq(Frame) /\ coding' \in Frame
    BY <1>4 DEF Encode
  <2> QED
    BY <1>4, <2>1 DEF Encode, routerVars, tickVars
<1>5. ASSUME Encoded PROVE Typed'
  <2>1. out' \in Seq(Frame)
    BY <1>5 DEF Encoded
  <2> QED
    BY <1>5, <2>1 DEF Encoded, routerVars, tickVars
<1>6. ASSUME Ship PROVE Typed'
  <2> DEFINE f == Head(out)
  <2>1. f \in Frame /\ out' \in Seq(Frame)
    BY <1>6 DEF Ship
  <2>2. shown' = [shown EXCEPT ![f.win] = @ \cup f.fresh] /\ FrameShipped(f.win)
    BY <1>6 DEF Ship
  <2> HIDE DEF f
  <2>3. f.win \in Windows /\ f.fresh \in SUBSET Tiles
    BY <2>1, FrameTyped
  <2>4. shown' \in [Windows -> SUBSET Tiles]
    BY <2>2, <2>3
  <2>5. pending' \in [Windows -> 0..MaxInFlight]
        /\ \A x \in Windows : pending[x] = 0 => pending'[x] = 0
    BY <2>2, <2>3, BoundsAssumption DEF FrameShipped
  <2> QED
    BY <1>6, <2>1, <2>4, <2>5 DEF Ship, tickVars
<1>7. ASSUME SessionDown PROVE Typed'
  <2>1. out' \in Seq(Frame) /\ coding' \in Frame \cup {None} /\ consuming' \in BOOLEAN
    BY <1>7, QueueTyped DEF SessionDown
  <2> QED
    BY <1>7, <2>1 DEF SessionDown, tickVars
<1> QED
  BY <1>1, <1>2, <1>3, <1>4, <1>5, <1>6, <1>7

(* Every queue, entry and credit counter keeps its shape and its bound for  *)
(* any number of windows: the credit of a window never passes               *)
(* MAX_FRAMES_IN_FLIGHT although its first frame is emitted unchecked.      *)
THEOREM WaylandTypedAlways == Spec => []Typed
<1>1. Typed /\ [Next]_vars => Typed'
  <2> SUFFICES ASSUME Typed, [Next]_vars PROVE Typed'
    OBVIOUS
  <2>1. CASE UNCHANGED vars
    BY <2>1 DEF Typed, TypeOK, Untracked, vars, routerVars, tickVars, linkVars
  <2>2. CASE Next
    BY <2>2, ClientTyped, DestroyTyped, ManageTyped, TickTyped, LinkTyped DEF Next
  <2> QED
    BY <2>1, <2>2
<1> QED
  BY <1>1, InitTyped, PTL DEF Spec

(* Type correctness of the compositor, for every value of the constants. *)
THEOREM WaylandTypeCorrect == Spec => []TypeOK
<1>1. Typed => TypeOK
  BY DEF Typed
<1> QED
  BY <1>1, WaylandTypedAlways, PTL

(***************************************************************************)
(* The focus, and what is mapped.                                          *)
(***************************************************************************)
Shape == Announced /\ Fitted /\ FocusValid

(* A step that leaves of the entries what these speak of, or moves them     *)
(* along at one window only.                                                *)
LEMMA ShapeKept ==
    ASSUME Shape, NEW w \in Windows,
           entries'[w].mapped => entries'[w].reg = "created",
           entries'[w].fb = entries'[w].size,
           \A x \in Windows \ {w} :
             /\ entries'[x].mapped = entries[x].mapped /\ entries'[x].reg = entries[x].reg
             /\ entries'[x].fb = entries[x].fb /\ entries'[x].size = entries[x].size,
           focused' # None =>
             focused' \in Toplevels /\ entries'[focused'].reg = "created"
    PROVE  Shape'
  BY DEF Shape, Announced, Fitted, FocusValid

LEMMA ClientShape ==
    ASSUME TypeOK, Shape, NEW w \in Windows,
           \/ Register(w) \/ CommitNull(w)
           \/ \E s \in Sizes, T \in SUBSET Tiles : CommitBuffer(w, s, T)
           \/ \E a \in WmStates : ClientStateRequest(w, a) \/ Manage(w, a)
           \/ FocusWindow(w)
    PROVE  Shape'
<1>0. /\ entries \in [Windows -> Entry] /\ Toplevels \subseteq Windows
      /\ focused \in Windows \cup {None}
  BY DEF TypeOK, Entry, Windows
<1>1. ASSUME \A x \in Windows : /\ entries'[x].mapped = entries[x].mapped
                                /\ entries'[x].fb = entries[x].fb
                                /\ entries'[x].size = entries[x].size,
             \A x \in Windows : \/ entries'[x].reg = entries[x].reg
                                \/ entries[x].reg = "unborn",
             focused' = focused
      PROVE  Shape'
  <2>1. \A x \in Windows : entries[x].reg = "created" => entries'[x].reg = "created"
    BY <1>1
  <2> QED
    BY <1>0, <1>1, <2>1 DEF Shape, Announced, Fitted, FocusValid
<1>2. ASSUME Register(w) PROVE Shape'
  BY <1>0, <1>1, <1>2 DEF Register, Entry
<1>3. ASSUME CommitNull(w) PROVE Shape'
  BY <1>0, <1>1, <1>3 DEF CommitNull, Entry
<1>4. ASSUME NEW s \in Sizes, NEW T \in SUBSET Tiles, CommitBuffer(w, s, T)
      PROVE  Shape'
  <2>1. PICK D : entries' = [entries EXCEPT ![w].buf = s, ![w].damage = @ \cup D]
    BY <1>4 DEF CommitBuffer
  <2>2. \A x \in Windows : /\ entries'[x].mapped = entries[x].mapped
                           /\ entries'[x].fb = entries[x].fb
                           /\ entries'[x].size = entries[x].size
                           /\ entries'[x].reg = entries[x].reg
    BY <1>0, <2>1 DEF Entry
  <2> QED
    BY <1>1, <1>4, <2>2 DEF CommitBuffer
<1>5. ASSUME NEW a \in WmStates, ClientStateRequest(w, a) PROVE Shape'
  BY <1>0, <1>1, <1>5 DEF ClientStateRequest, EmitState, Entry
<1>6. ASSUME NEW a \in WmStates, Manage(w, a) PROVE Shape'
  <2>1. \/ \E b \in {"Minimized", a} : entries' = [entries EXCEPT ![w].wm = b]
        \/ \E D : entries' = [entries EXCEPT ![w].wm = "Normal", ![w].damage = D]
    BY <1>6 DEF Manage, Minimize, Restore, EmitState
  <2>2. \A x \in Windows : /\ entries'[x].mapped = entries[x].mapped
                           /\ entries'[x].fb = entries[x].fb
                           /\ entries'[x].size = entries[x].size
                           /\ entries'[x].reg = entries[x].reg
    BY <1>0, <2>1 DEF Entry
  <2> QED
    BY <1>1, <1>6, <2>2 DEF Manage
<1>7. ASSUME FocusWindow(w) PROVE Shape'
  BY <1>7 DEF FocusWindow, Shape, Announced, Fitted, FocusValid
<1> QED
  BY <1>2, <1>3, <1>4, <1>5, <1>6, <1>7

LEMMA DestroyShape ==
    ASSUME TypeOK, Shape, NEW w \in Windows, Destroy(w)
    PROVE  Shape'
<1>1. /\ entries \in [Windows -> Entry] /\ Toplevels \subseteq Windows
      /\ None \notin Windows
  BY NoneAssumption DEF TypeOK, Entry, Windows
<1>2. /\ ~entries'[w].mapped /\ entries'[w].fb = entries'[w].size
      /\ \A x \in Windows \ {w} : entries'[x] = entries[x]
  BY <1>1 DEF Destroy, NewEntry
<1>3. focused' # None => focused' \in Toplevels /\ entries'[focused'].reg = "created"
  <2>1. CASE focused # w
    BY <1>1, <1>2, <2>1 DEF Destroy, FocusAfterDestroy, Shape, FocusValid
  <2>2. CASE focused = w
    <3>1. focused' # None => focused' \in Toplevels \ {w} /\ entries[focused'].mapped
      BY <2>2 DEF Destroy, FocusAfterDestroy
    <3> QED
      BY <1>1, <1>2, <3>1 DEF Shape, Announced
  <2> QED
    BY <2>1, <2>2
<1> QED
  BY <1>2, <1>3, ShapeKept

LEMMA TickShape ==
    ASSUME TypeOK, Shape, NEW w \in Windows,
           \/ TickUnmap(w) \/ TickNoBuffer(w) \/ TickCreate(w) \/ TickPaint(w)
    PROVE  Shape'
<1>1. /\ entries \in [Windows -> Entry] /\ Toplevels \subseteq Windows
      /\ entries[w] \in Entry /\ focused \in Windows \cup {None}
  BY DEF TypeOK, Entry, Windows
<1>2. /\ entries[w].fb = entries[w].size
      /\ entries[w].mapped => entries[w].reg = "created"
      /\ focused # None => focused \in Toplevels /\ entries[focused].reg = "created"
  BY DEF Shape, Fitted, FocusValid, Announced
<1>3. ASSUME TickUnmap(w) PROVE Shape'
  <2> DEFINE u == IF entries[w].mapped THEN Unmapped(entries[w]) ELSE entries[w]
             e == [u EXCEPT !.unmap = FALSE]
  <2>1. u \in Entry /\ u.reg = entries[w].reg /\ u.fb = u.size /\ ~u.mapped
    BY <1>1, <1>2, VisitEntries
  <2>2. entries' = [entries EXCEPT ![w] = e] /\ focused' = focused
    BY <1>3 DEF TickUnmap
  <2> HIDE DEF u
  <2>3. e \in Entry /\ e.reg = entries[w].reg /\ e.fb = e.size /\ ~e.mapped
    BY <2>1, VisitEntries
  <2> HIDE DEF e
  <2>4. entries'[w] = e /\ \A x \in Windows \ {w} : entries'[x] = entries[x]
    BY <1>1, <2>2, <2>3, EntryAt
  <2>5. focused' # None => focused' \in Toplevels /\ entries'[focused'].reg = "created"
    BY <1>1, <1>2, <2>2, <2>3, <2>4
  <2> QED
    BY <2>3, <2>4, <2>5, ShapeKept
<1>4. ASSUME TickNoBuffer(w) PROVE Shape'
  BY <1>4 DEF TickNoBuffer, Shape, Announced, Fitted, FocusValid
<1>5. ASSUME TickCreate(w) \/ TickPaint(w) PROVE Shape'
  <2> DEFINE s == Settled(entries[w])
             d == [s EXCEPT !.damage = {}]
  <2>0. s \in Entry /\ s.fb = s.size /\ s.reg = "created"
    BY <1>1, <1>2, VisitEntries
  <2>2. entries' = [entries EXCEPT ![w] = s] \/ entries' = [entries EXCEPT ![w] = d]
    <3>1. CASE TickCreate(w)
      BY <3>1 DEF TickCreate, Composite
    <3>2. CASE TickPaint(w)
      BY <3>2, Zenon DEF TickPaint, Composite
    <3> QED
      BY <1>5, <3>1, <3>2
  <2>3. focused' = focused \/ (focused' = w /\ w \in Toplevels)
    BY <1>5 DEF TickCreate, TickPaint
  <2> HIDE DEF s
  <2>1. d \in Entry /\ d.fb = d.size /\ d.reg = "created"
    BY <2>0, VisitEntries
  <2> HIDE DEF d
  <2>4. PICK e \in Entry : /\ e.fb = e.size /\ e.reg = "created"
                           /\ entries' = [entries EXCEPT ![w] = e]
    BY <2>0, <2>1, <2>2
  <2>5. entries'[w] = e /\ \A x \in Windows \ {w} : entries'[x] = entries[x]
    BY <1>1, <2>4, EntryAt
  <2>6. focused' # None => focused' \in Toplevels /\ entries'[focused'].reg = "created"
    BY <1>1, <1>2, <2>3, <2>4, <2>5
  <2> QED
    BY <2>4, <2>5, <2>6, ShapeKept
<1> QED
  BY <1>3, <1>4, <1>5

LEMMA LinkShape ==
    ASSUME TypeOK, Shape,
           \/ TickBegin \/ TickEnd
           \/ SessionUp \/ Encode \/ Encoded \/ Ship \/ SessionDown
    PROVE  Shape'
<1>1. CASE TickBegin
  <2>1. /\ entries \in [Windows -> Entry] /\ Toplevels \subseteq Windows
        /\ focused' = focused
    BY <1>1 DEF TypeOK, Entry, Windows, TickBegin
  <2>2. \A x \in Windows : /\ entries'[x].mapped = entries[x].mapped
                           /\ entries'[x].fb = entries[x].fb
                           /\ entries'[x].size = entries[x].size
                           /\ entries'[x].reg = entries[x].reg
    BY <1>1, <2>1 DEF TickBegin, Entry
  <2> QED
    BY <2>1, <2>2 DEF Shape, Announced, Fitted, FocusValid
<1>2. CASE \/ TickEnd \/ SessionUp \/ Encode \/ Encoded \/ Ship \/ SessionDown
  <2>1. UNCHANGED <<entries, focused>>
    BY <1>2 DEF TickEnd, SessionUp, Encode, Encoded, Ship, SessionDown
  <2> QED
    BY <2>1 DEF Shape, Announced, Fitted, FocusValid
<1> QED
  BY <1>1, <1>2

(* What is mapped was announced, framebuffers fit what was reported, and    *)
(* the keyboard focus rests on a created toplevel or on none.               *)
THEOREM WaylandShape == Spec => []Shape
<1>1. Init => Shape
  BY DEF Init, Shape, Announced, Fitted, FocusValid, NewEntry
<1>2. Typed /\ Shape /\ [Next]_vars => Shape'
  <2> SUFFICES ASSUME Typed, Shape, [Next]_vars PROVE Shape'
    OBVIOUS
  <2>0. TypeOK
    BY DEF Typed
  <2>1. CASE UNCHANGED vars
    BY <2>1 DEF Shape, Announced, Fitted, FocusValid, vars
  <2>2. CASE Next
    BY <2>0, <2>2, ClientShape, DestroyShape, TickShape, LinkShape DEF Next
  <2> QED
    BY <2>1, <2>2
<1> QED
  BY <1>1, <1>2, WaylandTypedAlways, PTL DEF Spec

(* windows::destroy and apply_focus never leave the keyboard focus on a     *)
(* destroyed window, a popup or a window never mapped, whatever the number  *)
(* of windows and the order of maps, clicks and destructions.               *)
THEOREM WaylandFocusValid == Spec => []FocusValid
<1>1. Shape => FocusValid
  BY DEF Shape
<1> QED
  BY <1>1, WaylandShape, PTL

(***************************************************************************)
(* No repaint is lost.                                                     *)
(***************************************************************************)
Has(f, w, t) == f.win = w /\ t \in f.fresh

(* The tile t of w is current in a frame of the channel c, in the coder k   *)
(* or in the session's queue o.                                             *)
Flying(c, k, o, w, t) ==
  \/ \E i \in DOMAIN c : Has(c[i], w, t)
  \/ k # None /\ Has(k, w, t)
  \/ \E i \in DOMAIN o : Has(o[i], w, t)

LEMMA FreshAs ==
    /\ \A w, t : t \in FreshInFlight(w) <=> Flying(chan, coding, out, w, t)
    /\ \A w, t : t \in FreshInFlight(w)' <=> Flying(chan', coding', out', w, t)
<1>1. \A w, t : t \in FreshInFlight(w) <=> Flying(chan, coding, out, w, t)
  BY DEF FreshInFlight, Flying, Has, Range
<1>2. \A w, t : t \in FreshInFlight(w)' <=> Flying(chan', coding', out', w, t)
  BY DEF FreshInFlight, Flying, Has, Range
<1> QED
  BY <1>1, <1>2

(* What NoLostDamage says of one tile. *)
Accounted(w, t) ==
  \/ t \in shown[w] \/ t \in entries[w].damage
  \/ Flying(chan, coding, out, w, t)

Watched(w) == consuming /\ streaming /\ entries[w].mapped /\ told[w] = "mapped"

LEMMA LostAs ==
    /\ NoLostDamage <=> \A w \in Windows, t \in Tiles : Watched(w) => Accounted(w, t)
    /\ NoLostDamage' <=>
         \A w \in Windows, t \in Tiles : Watched(w)' => Accounted(w, t)'
<1>1. NoLostDamage <=> \A w \in Windows, t \in Tiles : Watched(w) => Accounted(w, t)
  BY FreshAs DEF NoLostDamage, Watched, Accounted
<1>2. NoLostDamage' <=>
         \A w \in Windows, t \in Tiles : Watched(w)' => Accounted(w, t)'
  BY FreshAs DEF NoLostDamage, Watched, Accounted
<1> QED
  BY <1>1, <1>2

(* A change leaves what it does not touch on its way. *)
LEMMA ChangedFlying ==
    ASSUME TypeOK, NEW w \in Windows, NEW T \in SUBSET Tiles, Changed(w, T),
           NEW x \in Windows, NEW t \in Tiles, ~(x = w /\ t \in T),
           Flying(chan, coding, out, x, t)
    PROVE  Flying(chan', coding', out', x, t)
<1> USE DEF Flying
<1>1. /\ chan \in Seq(Frame) /\ out \in Seq(Frame) /\ coding \in Frame \cup {None}
      /\ chan' = [i \in DOMAIN chan |-> Stale(chan[i], w, T)]
      /\ out' = [i \in DOMAIN out |-> Stale(out[i], w, T)]
      /\ coding' = IF coding = None THEN None ELSE Stale(coding, w, T)
  BY DEF TypeOK, Changed
<1>2. ASSUME NEW f \in Frame, Has(f, x, t) PROVE Has(Stale(f, w, T), x, t)
  <2>1. /\ Stale(f, w, T).win = f.win
        /\ Stale(f, w, T).fresh = IF f.win = w THEN f.fresh \ T ELSE f.fresh
    BY DEF Stale, Frame
  <2> QED
    BY <1>2, <2>1 DEF Has
<1>3. \A q \in Seq(Frame) : \A i \in DOMAIN q : q[i] \in Frame
  OBVIOUS
<1>4. CASE \E i \in DOMAIN chan : Has(chan[i], x, t)
  BY <1>1, <1>2, <1>3, <1>4
<1>5. CASE \E i \in DOMAIN out : Has(out[i], x, t)
  BY <1>1, <1>2, <1>3, <1>5
<1>6. CASE coding # None /\ Has(coding, x, t)
  <2>1. coding \in Frame /\ Stale(coding, w, T) \in Frame
    BY <1>1, <1>6, FrameTyped
  <2>2. None \notin Frame
    BY NoneAssumption
  <2> QED
    BY <1>1, <1>2, <1>6, <2>1, <2>2
<1> QED
  BY <1>4, <1>5, <1>6

LEMMA ClientLost ==
    ASSUME TypeOK, Shape, NoLostDamage, NEW w \in Windows,
           \/ Register(w) \/ CommitNull(w)
           \/ \E s \in Sizes, T \in SUBSET Tiles : CommitBuffer(w, s, T)
           \/ \E a \in WmStates : ClientStateRequest(w, a)
           \/ FocusWindow(w) \/ Destroy(w)
    PROVE  NoLostDamage'
<1> SUFFICES ASSUME NEW x \in Windows, NEW t \in Tiles, Watched(x)'
             PROVE  Accounted(x, t)'
  BY LostAs
<1>0. entries \in [Windows -> Entry] /\ shown \in [Windows -> SUBSET Tiles]
  BY DEF TypeOK, Entry
<1>1. Watched(x) => Accounted(x, t)
  BY LostAs
<1> USE DEF Watched, Accounted
<1>2. ASSUME UNCHANGED <<consuming, streaming, chan, coding, out, told, shown>>,
             entries'[x].mapped = entries[x].mapped,
             entries'[x].damage = entries[x].damage
      PROVE  Accounted(x, t)'
  BY <1>1, <1>2
<1>3. CASE Register(w)
  BY <1>0, <1>2, <1>3 DEF Register, Entry, routerVars, tickVars, linkVars
<1>4. CASE CommitNull(w)
  BY <1>0, <1>2, <1>4 DEF CommitNull, Entry, routerVars, tickVars, linkVars
<1>5. ASSUME NEW s \in Sizes, NEW T \in SUBSET Tiles, CommitBuffer(w, s, T)
      PROVE  Accounted(x, t)'
  <2> DEFINE D == IF entries[w].buf # s THEN Tiles ELSE T
  <2>1. D \in SUBSET Tiles
    OBVIOUS
  <2>2. /\ entries' = [entries EXCEPT ![w].buf = s, ![w].damage = @ \cup D]
        /\ Changed(w, D)
        /\ UNCHANGED <<consuming, streaming, told>>
    BY <1>5 DEF CommitBuffer, routerVars, tickVars
  <2> HIDE DEF D
  <2>3. /\ entries'[x].mapped = entries[x].mapped
        /\ entries'[x].damage = IF x = w THEN entries[x].damage \cup D
                                         ELSE entries[x].damage
    BY <1>0, <2>2 DEF Entry
  <2>4. shown'[x] = IF x = w THEN shown[x] \ D ELSE shown[x]
    BY <1>0, <2>2 DEF Changed
  <2>5. Watched(x)
    BY <2>2, <2>3
  <2>6. CASE x = w /\ t \in D
    BY <2>3, <2>6
  <2>7. CASE ~(x = w /\ t \in D)
    <3>1. Flying(chan, coding, out, x, t) => Flying(chan', coding', out', x, t)
      BY <2>1, <2>2, <2>7, ChangedFlying
    <3> QED
      BY <1>1, <2>3, <2>4, <2>5, <2>7, <3>1
  <2> QED
    BY <2>6, <2>7
<1>6. ASSUME NEW a \in WmStates, ClientStateRequest(w, a) PROVE Accounted(x, t)'
  <2>1. /\ entries'[x].mapped = entries[x].mapped
        /\ entries'[x].damage = entries[x].damage
    BY <1>0, <1>6, StateFields DEF ClientStateRequest, EmitState
  <2> QED
    BY <1>2, <1>6, <2>1
       DEF ClientStateRequest, EmitState, routerVars, tickVars, linkVars
<1>7. CASE FocusWindow(w)
  BY <1>2, <1>7 DEF FocusWindow, routerVars, tickVars, linkVars
<1>8. CASE Destroy(w)
  <2>1. ~entries'[w].mapped /\ \A y \in Windows \ {w} : entries'[y] = entries[y]
    BY <1>0, <1>8 DEF Destroy, NewEntry
  <2>2. x # w
    BY <2>1
  <2>3. told'[x] = told[x]
    BY <1>8, <2>2 DEF Destroy, TypeOK
  <2>4. UNCHANGED <<consuming, streaming, chan, coding, out, shown>>
    BY <1>8 DEF Destroy, tickVars, linkVars
  <2> QED
    BY <1>1, <2>1, <2>2, <2>3, <2>4
<1> QED
  BY <1>3, <1>4, <1>5, <1>6, <1>7, <1>8

LEMMA ManageLost ==
    ASSUME TypeOK, Shape, NoLostDamage, NEW w \in Windows, NEW a \in WmStates,
           Manage(w, a)
    PROVE  NoLostDamage'
<1> SUFFICES ASSUME NEW x \in Windows, NEW t \in Tiles, Watched(x)'
             PROVE  Accounted(x, t)'
  BY LostAs
<1>0. /\ entries \in [Windows -> Entry] /\ shown \in [Windows -> SUBSET Tiles]
      /\ DOMAIN told = Windows
  BY DEF TypeOK, Entry
<1>1. Watched(x) => Accounted(x, t)
  BY LostAs
<1>2. UNCHANGED <<consuming, streaming>>
  BY DEF Manage, routerVars, tickVars
<1> USE DEF Watched, Accounted
<1>3. \/ Minimize(w) \/ Restore(w)
      \/ EmitState(w, a) /\ UNCHANGED <<chan, coding, out, shown>>
  BY DEF Manage, linkVars
<1>4. CASE Minimize(w)
  <2>1. /\ entries'[x].mapped = entries[x].mapped
        /\ entries'[x].damage = entries[x].damage
    BY <1>0, <1>4, StateFields DEF Minimize
  <2>2. CASE entries[w].mapped
    <3>1. Changed(w, Tiles) /\ told' = [told EXCEPT ![w] = "unmapped"]
      BY <1>4, <2>2 DEF Minimize
    <3>2. x # w /\ told'[x] = told[x]
      BY <1>0, <3>1
    <3>3. Flying(chan, coding, out, x, t) => Flying(chan', coding', out', x, t)
      BY <3>1, <3>2, ChangedFlying
    <3>4. shown'[x] = shown[x]
      BY <1>0, <3>1, <3>2 DEF Changed
    <3> QED
      BY <1>1, <1>2, <2>1, <3>2, <3>3, <3>4
  <2>3. CASE ~entries[w].mapped
    <3>1. UNCHANGED <<chan, coding, out, shown, told>>
      BY <1>4, <2>3 DEF Minimize, linkVars
    <3> QED
      BY <1>1, <1>2, <2>1, <3>1
  <2> QED
    BY <2>2, <2>3
<1>5. CASE Restore(w)
  <2> DEFINE back == entries[w].wm = "Minimized" /\ entries[w].mapped
  <2>1. /\ entries'[x].mapped = entries[x].mapped
        /\ entries'[x].damage = IF x = w /\ back THEN Tiles ELSE entries[x].damage
    <3>1. entries' = [entries EXCEPT ![w].wm = "Normal",
                                     ![w].damage = IF back THEN Tiles ELSE @]
      BY <1>5 DEF Restore
    <3> DEFINE d == IF back THEN Tiles ELSE entries[w].damage
               e == [entries[w] EXCEPT !.wm = "Normal", !.damage = d]
    <3>2. entries' = [entries EXCEPT ![w] = e]
      BY <1>0, <3>1 DEF Entry
    <3>3. e.mapped = entries[w].mapped /\ e.damage = d
      BY <1>0 DEF Entry
    <3> HIDE DEF d, back, e
    <3>4. entries'[x] = IF x = w THEN e ELSE entries[x]
      BY <1>0, <3>2
    <3>5. CASE x = w
      BY <3>3, <3>4, <3>5 DEF d
    <3>6. CASE x # w
      BY <3>4, <3>6
    <3> QED
      BY <3>5, <3>6
  <2>2. /\ UNCHANGED <<chan, coding, out, shown>>
        /\ ~(x = w /\ back) => told'[x] = told[x]
    BY <1>0, <1>5 DEF Restore, linkVars
  <2> QED
    BY <1>1, <1>2, <2>1, <2>2
<1>6. CASE EmitState(w, a) /\ UNCHANGED <<chan, coding, out, shown>>
  <2>1. /\ entries'[x].mapped = entries[x].mapped
        /\ entries'[x].damage = entries[x].damage
    BY <1>0, <1>6, StateFields DEF EmitState
  <2> QED
    BY <1>1, <1>2, <1>6, <2>1 DEF EmitState
<1> QED
  BY <1>3, <1>4, <1>5, <1>6

(* Frames move along a queue, and a new one joins it. *)
LEMMA FlyingAppend ==
    ASSUME NEW c \in Seq(Frame), NEW o \in Seq(Frame), NEW k, NEW f \in Frame,
           NEW w, NEW t
    PROVE  /\ Flying(Append(c, f), k, o, w, t) <=> Flying(c, k, o, w, t) \/ Has(f, w, t)
           /\ Flying(c, k, Append(o, f), w, t) <=> Flying(c, k, o, w, t) \/ Has(f, w, t)
<1>1. ASSUME NEW q \in Seq(Frame)
      PROVE  (\E i \in DOMAIN Append(q, f) : Has(Append(q, f)[i], w, t))
               <=> (\E i \in DOMAIN q : Has(q[i], w, t)) \/ Has(f, w, t)
  <2> DEFINE u == Append(q, f)
  <2>1. /\ Len(q) \in Nat /\ DOMAIN q = 1..Len(q) /\ DOMAIN u = 1..(Len(q) + 1)
        /\ u[Len(q) + 1] = f /\ \A i \in 1..Len(q) : u[i] = q[i]
    OBVIOUS
  <2> HIDE DEF u
  <2>2. \A i \in 1..(Len(q) + 1) : i \in 1..Len(q) \/ i = Len(q) + 1
    BY <2>1
  <2>3. Len(q) + 1 \in DOMAIN u /\ \A i \in DOMAIN q : i \in DOMAIN u
    BY <2>1
  <2>4. (\E i \in DOMAIN u : Has(u[i], w, t))
          <=> (\E i \in DOMAIN q : Has(q[i], w, t)) \/ Has(f, w, t)
    BY <2>1, <2>2, <2>3
  <2> QED
    BY <2>4 DEF u
<1> QED
  BY <1>1, Zenon DEF Flying

LEMMA FlyingHead ==
    ASSUME NEW c \in Seq(Frame), c # <<>>, NEW w, NEW t
    PROVE  (\E i \in DOMAIN c : Has(c[i], w, t))
             <=> Has(Head(c), w, t) \/ \E i \in DOMAIN Tail(c) : Has(Tail(c)[i], w, t)
<1> DEFINE u == Tail(c)
           h == Head(c)
<1>1. /\ Len(c) \in Nat /\ Len(c) >= 1 /\ DOMAIN c = 1..Len(c)
      /\ DOMAIN u = 1..(Len(c) - 1) /\ h = c[1]
      /\ \A i \in 1..(Len(c) - 1) : u[i] = c[i + 1]
  OBVIOUS
<1> HIDE DEF u, h
<1>2. /\ \A i \in DOMAIN c : i = 1 \/ (i - 1 \in DOMAIN u /\ u[i - 1] = c[i])
      /\ \A i \in DOMAIN u : i + 1 \in DOMAIN c /\ u[i] = c[i + 1]
      /\ 1 \in DOMAIN c
  <2>1. \A i \in 1..Len(c) : i = 1 \/ (i - 1 \in 1..(Len(c) - 1) /\ (i - 1) + 1 = i)
    BY <1>1
  <2>2. \A i \in 1..(Len(c) - 1) : i + 1 \in 1..Len(c)
    BY <1>1
  <2>3. 1 \in 1..Len(c)
    BY <1>1
  <2>4. \A i \in 1..Len(c) : i = 1 \/ u[i - 1] = c[i]
    BY <1>1, <2>1
  <2> QED
    BY <1>1, <2>1, <2>2, <2>3, <2>4
<1>3. (\E i \in DOMAIN c : Has(c[i], w, t))
        <=> Has(h, w, t) \/ \E i \in DOMAIN u : Has(u[i], w, t)
  BY <1>1, <1>2, Zenon
<1> QED
  BY <1>3 DEF u, h

LEMMA CompositeLost ==
    ASSUME TypeOK, NEW w \in Windows, NEW e \in Entry, e.fb = e.size, streaming,
           Composite(w, e, "mapped"), NEW t \in Tiles, NEW x \in Windows,
           UNCHANGED <<coding, out>>
    PROVE  /\ t \in e.damage => Flying(chan', coding', out', w, t)
           /\ Flying(chan, coding, out, x, t) => Flying(chan', coding', out', x, t)
<1> DEFINE f == [win |-> w, fresh |-> e.damage]
<1>1. chan \in Seq(Frame) /\ out \in Seq(Frame)
  BY DEF TypeOK
<1>2. f \in Frame /\ (t \in e.damage => Has(f, w, t))
  BY FrameTyped DEF Has, Entry
<1>3. CASE e.damage # {}
  <2>1. chan' = Append(chan, f)
    BY <1>3 DEF Composite
  <2> HIDE DEF f
  <2> QED
    BY <1>1, <1>2, <2>1, FlyingAppend
<1>4. CASE e.damage = {}
  BY <1>4 DEF Composite
<1> QED
  BY <1>3, <1>4

(* What a composite for any map state does to the frames on their way. *)
LEMMA CompositeFlying ==
    ASSUME TypeOK, NEW w \in Windows, NEW e \in Entry, NEW m, Composite(w, e, m),
           NEW t \in Tiles, NEW x \in Windows, UNCHANGED <<coding, out>>
    PROVE  Flying(chan, coding, out, x, t) => Flying(chan', coding', out', x, t)
<1> DEFINE f == [win |-> w, fresh |-> IF m = "mapped" THEN e.damage ELSE {}]
<1>1. chan \in Seq(Frame) /\ out \in Seq(Frame)
  BY DEF TypeOK
<1>2. (IF m = "mapped" THEN e.damage ELSE {}) \in SUBSET Tiles
  BY DEF Entry
<1>3. f \in Frame
  BY <1>2, FrameTyped
<1>4. chan' = Append(chan, f) \/ chan' = chan
  BY DEF Composite
<1> HIDE DEF f
<1> QED
  BY <1>1, <1>3, <1>4, FlyingAppend

LEMMA TickLost ==
    ASSUME TypeOK, Shape, NoLostDamage, NEW w \in Windows,
           \/ TickUnmap(w) \/ TickNoBuffer(w) \/ TickCreate(w) \/ TickPaint(w)
    PROVE  NoLostDamage'
<1> SUFFICES ASSUME NEW x \in Windows, NEW t \in Tiles, Watched(x)'
             PROVE  Accounted(x, t)'
  BY LostAs
<1>0. /\ entries \in [Windows -> Entry] /\ DOMAIN told = Windows
      /\ entries[w] \in Entry /\ entries[w].fb = entries[w].size
  BY DEF TypeOK, Entry, Shape, Fitted
<1>1. Watched(x) => Accounted(x, t)
  BY LostAs
<1>2. UNCHANGED <<consuming, streaming, coding, out, shown>>
  BY DEF TickUnmap, TickNoBuffer, TickCreate, TickPaint, Visit
<1> USE DEF Watched, Accounted
<1>3. ASSUME x # w, entries'[x] = entries[x], told'[x] = told[x],
             Flying(chan, coding, out, x, t) => Flying(chan', coding', out', x, t)
      PROVE  Accounted(x, t)'
  BY <1>1, <1>2, <1>3
<1>4. CASE TickUnmap(w)
  <2> DEFINE u == IF entries[w].mapped THEN Unmapped(entries[w]) ELSE entries[w]
             e == [u EXCEPT !.unmap = FALSE]
  <2>1. u \in Entry /\ ~u.mapped
    BY <1>0, VisitEntries
  <2>2. /\ entries' = [entries EXCEPT ![w] = e] /\ chan' = chan
        /\ told' = told \/ told' = [told EXCEPT ![w] = "unmapped"]
    BY <1>4 DEF TickUnmap
  <2> HIDE DEF u
  <2>3. e \in Entry /\ ~e.mapped
    BY <2>1, VisitEntries
  <2> HIDE DEF e
  <2>4. entries'[w] = e /\ \A y \in Windows \ {w} : entries'[y] = entries[y]
    BY <1>0, <2>2, <2>3, EntryAt
  <2>5. x # w /\ told'[x] = told[x]
    BY <1>0, <2>2, <2>3, <2>4
  <2> QED
    BY <1>2, <1>3, <2>2, <2>4, <2>5
<1>5. CASE TickNoBuffer(w)
  BY <1>1, <1>2, <1>5 DEF TickNoBuffer
<1>6. ASSUME NEW m, told' = [told EXCEPT ![w] = m],
             m = told[w] \/ ~entries[w].mapped, Composite(w, Settled(entries[w]), m)
      PROVE  Accounted(x, t)'
  <2> DEFINE s == Settled(entries[w])
  <2>1. /\ s \in Entry /\ s.fb = s.size
        /\ s.damage = IF entries[w].size # entries[w].buf \/ ~entries[w].mapped
                        THEN Tiles ELSE entries[w].damage
    BY <1>0, VisitEntries
  <2> HIDE DEF s
  <2>2. \A y \in Windows \ {w} : entries'[y] = entries[y]
    BY <1>0, <1>6 DEF Composite
  <2>3. Flying(chan, coding, out, x, t) => Flying(chan', coding', out', x, t)
    BY <1>2, <1>6, <2>1, CompositeFlying DEF s
  <2>4. CASE x # w
    BY <1>0, <1>3, <1>6, <2>2, <2>3, <2>4
  <2>5. CASE x = w
    <3>1. m = "mapped" /\ streaming /\ consuming
      BY <1>0, <1>2, <1>6, <2>5
    <3>2. t \in s.damage => Flying(chan', coding', out', w, t)
      BY <1>2, <1>6, <2>1, <3>1, CompositeLost DEF s
    <3>3. CASE entries[w].size # entries[w].buf \/ ~entries[w].mapped
      BY <2>1, <2>5, <3>2, <3>3
    <3>4. CASE entries[w].size = entries[w].buf /\ entries[w].mapped
      BY <1>1, <1>2, <1>6, <2>1, <2>3, <2>5, <3>1, <3>2, <3>4
    <3> QED
      BY <3>3, <3>4
  <2> QED
    BY <2>4, <2>5
<1>7. CASE TickCreate(w)
  <2>1. ~entries[w].mapped
    BY <1>7 DEF TickCreate, Shape, Announced
  <2> QED
    BY <1>6, <1>7, <2>1 DEF TickCreate
<1>8. CASE TickPaint(w)
  <2> DEFINE m == IF entries[w].mapped THEN told[w] ELSE "mapped"
  <2>1. told' = [told EXCEPT ![w] = m] /\ (m = told[w] \/ ~entries[w].mapped)
    BY <1>8 DEF TickPaint
  <2>2. \/ Composite(w, Settled(entries[w]), m)
        \/ entries' = [entries EXCEPT ![w] = Settled(entries[w])] /\ chan' = chan
    BY <1>8 DEF TickPaint
  <2> HIDE DEF m
  <2>3. CASE Composite(w, Settled(entries[w]), m)
    BY <1>6, <2>1, <2>3
  <2>4. CASE entries' = [entries EXCEPT ![w] = Settled(entries[w])] /\ chan' = chan
    <3>1. /\ entries'[w] = Settled(entries[w])
          /\ \A y \in Windows \ {w} : entries'[y] = entries[y]
      BY <1>0, <2>4
    <3>2. Settled(entries[w]).damage =
            IF entries[w].size # entries[w].buf \/ ~entries[w].mapped
              THEN Tiles ELSE entries[w].damage
      BY <1>0, VisitEntries
    <3>3. CASE x # w
      BY <1>0, <1>2, <1>3, <2>1, <2>4, <3>1, <3>3
    <3>4. CASE x = w
      <4>1. CASE entries[w].size # entries[w].buf \/ ~entries[w].mapped
        BY <3>1, <3>2, <3>4, <4>1
      <4>2. CASE entries[w].size = entries[w].buf /\ entries[w].mapped
        BY <1>0, <1>1, <1>2, <2>1, <2>4, <3>1, <3>2, <3>4, <4>2
      <4> QED
        BY <4>1, <4>2
    <3> QED
      BY <3>3, <3>4
  <2> QED
    BY <2>2, <2>3, <2>4
<1> QED
  BY <1>4, <1>5, <1>7, <1>8

LEMMA LinkLost ==
    ASSUME TypeOK, Shape, NoLostDamage,
           \/ TickBegin \/ TickEnd
           \/ SessionUp \/ Encode \/ Encoded \/ Ship \/ SessionDown
    PROVE  NoLostDamage'
<1> SUFFICES ASSUME NEW x \in Windows, NEW t \in Tiles, Watched(x)'
             PROVE  Accounted(x, t)'
  BY LostAs
<1>0. /\ entries \in [Windows -> Entry] /\ shown \in [Windows -> SUBSET Tiles]
      /\ chan \in Seq(Frame) /\ out \in Seq(Frame) /\ coding \in Frame \cup {None}
      /\ None \notin Frame
  BY NoneAssumption DEF TypeOK, Entry
<1>1. Watched(x) => Accounted(x, t)
  BY LostAs
<1> USE DEF Watched, Accounted
<1>2. CASE TickBegin
  <2>1. UNCHANGED <<consuming, chan, coding, out, shown, told>> /\ streaming' = consuming
    BY <1>2 DEF TickBegin, linkVars
  <2>2. entries'[x].mapped = entries[x].mapped
    BY <1>0, <1>2 DEF TickBegin, Entry
  <2>3. CASE consuming = streaming
    <3>1. entries' = entries
      BY <1>2, <2>3 DEF TickBegin
    <3> QED
      BY <1>1, <2>1, <2>3, <3>1
  <2>4. CASE consuming # streaming
    <3>1. x \in Live
      BY <2>2 DEF Shape, Announced, Live
    <3>2. entries'[x] = [entries[x] EXCEPT !.damage = Tiles]
      BY <1>2, <2>1, <2>4, <3>1 DEF TickBegin
    <3>3. entries'[x].damage = Tiles
      BY <1>0, <3>2 DEF Entry
    <3> QED
      BY <3>3
  <2> QED
    BY <2>3, <2>4
<1>3. CASE TickEnd
  BY <1>1, <1>3 DEF TickEnd, routerVars, linkVars
<1>4. CASE SessionUp
  BY <1>4 DEF SessionUp, DetachObserved, tickVars
<1>5. CASE Encode
  <2>1. /\ UNCHANGED <<consuming, streaming, entries, told, shown, out>>
        /\ coding = None /\ chan # <<>>
        /\ coding' = Head(chan) /\ chan' = Tail(chan)
    BY <1>5 DEF Encode, routerVars, tickVars
  <2>2. Head(chan) \in Frame
    BY <1>0, <2>1, QueueTyped
  <2>3. Flying(chan, coding, out, x, t) => Flying(chan', coding', out', x, t)
    <3>1. (\E i \in DOMAIN chan : Has(chan[i], x, t))
             <=> Has(coding', x, t) \/ \E i \in DOMAIN chan' : Has(chan'[i], x, t)
      BY <1>0, <2>1, FlyingHead
    <3>2. coding' # None
      BY <1>0, <2>1, <2>2
    <3> QED
      BY <2>1, <3>1, <3>2 DEF Flying
  <2> QED
    BY <1>1, <2>1, <2>3
<1>6. CASE Encoded
  <2>1. /\ UNCHANGED <<consuming, streaming, entries, told, shown, chan>>
        /\ coding # None /\ coding' = None /\ out' = Append(out, coding)
    BY <1>6 DEF Encoded, routerVars, tickVars
  <2>2. Flying(chan', coding', out', x, t) <=>
          Flying(chan, None, out, x, t) \/ Has(coding, x, t)
    BY <1>0, <2>1, FlyingAppend
  <2>3. Flying(chan, coding, out, x, t) => Flying(chan', coding', out', x, t)
    BY <2>2 DEF Flying
  <2> QED
    BY <1>1, <2>1, <2>3
<1>7. CASE Ship
  <2> DEFINE f == Head(out)
  <2>1. /\ UNCHANGED <<consuming, streaming, entries, told, chan, coding>>
        /\ out # <<>> /\ out' = Tail(out)
        /\ shown' = [shown EXCEPT ![f.win] = @ \cup f.fresh]
    BY <1>7 DEF Ship, tickVars
  <2>2. (\E i \in DOMAIN out : Has(out[i], x, t))
             <=> Has(f, x, t) \/ \E i \in DOMAIN out' : Has(out'[i], x, t)
    BY <1>0, <2>1, FlyingHead
  <2>3. f \in Frame /\ f.win \in Windows
    BY <1>0, <2>1, QueueTyped, FrameTyped
  <2> HIDE DEF f
  <2>4. Flying(chan, coding, out, x, t) =>
          Flying(chan', coding', out', x, t) \/ Has(f, x, t)
    BY <2>1, <2>2 DEF Flying
  <2>5. t \in shown[x] \/ Has(f, x, t) => t \in shown'[x]
    BY <1>0, <2>1, <2>3 DEF Has
  <2> QED
    BY <1>1, <2>1, <2>4, <2>5
<1>8. CASE SessionDown
  BY <1>8 DEF SessionDown
<1> QED
  BY <1>2, <1>3, <1>4, <1>5, <1>6, <1>7, <1>8

(* "Damage is left accumulated, so nothing is lost" (windows.rs): whatever  *)
(* the windows, tiles, buffer sizes, credit and sessions, a tile of a       *)
(* visible window that the far end does not have current is damaged or on   *)
(* its way, through stalls, dropped frames, dead sessions, resizes,         *)
(* unmaps and restores.                                                     *)
THEOREM WaylandNothingLost == Spec => []NoLostDamage
<1>1. Init => NoLostDamage
  BY DEF Init, NoLostDamage
<1>2. Typed /\ Shape /\ NoLostDamage /\ [Next]_vars => NoLostDamage'
  <2> SUFFICES ASSUME Typed, Shape, NoLostDamage, [Next]_vars PROVE NoLostDamage'
    OBVIOUS
  <2>0. TypeOK
    BY DEF Typed
  <2>1. CASE UNCHANGED vars
    BY <2>1 DEF NoLostDamage, FreshInFlight, vars, routerVars, tickVars, linkVars
  <2>2. CASE Next
    BY <2>0, <2>2, ClientLost, ManageLost, TickLost, LinkLost DEF Next
  <2> QED
    BY <2>1, <2>2
<1> QED
  BY <1>1, <1>2, WaylandTypedAlways, WaylandShape, PTL DEF Spec

(***************************************************************************)
(* The compositor implements FrameCredit: the frames of a window in a      *)
(* queue, counted.                                                         *)
(***************************************************************************)
LEMMA CountFinite ==
    ASSUME NEW q \in Seq(Frame), NEW w
    PROVE  /\ IsFiniteSet({i \in DOMAIN q : q[i].win = w})
           /\ Count(q, w) \in Nat
<1> DEFINE I == {i \in DOMAIN q : q[i].win = w}
<1>1. I \in SUBSET (1..Len(q)) /\ Len(q) \in Nat
  OBVIOUS
<1>2. IsFiniteSet(1..Len(q))
  BY <1>1, FS_Interval
<1> HIDE DEF I
<1>3. IsFiniteSet(I) /\ Cardinality(I) \in Nat
  BY <1>1, <1>2, FS_Subset, FS_CardinalityType
<1> QED
  BY <1>3 DEF I, Count

LEMMA CountEmpty == \A w : Count(<<>>, w) = 0
<1> SUFFICES ASSUME NEW w PROVE Count(<<>>, w) = 0
  OBVIOUS
<1>1. {i \in DOMAIN <<>> : <<>>[i].win = w} = {}
  OBVIOUS
<1> QED
  BY <1>1, FS_EmptySet DEF Count

LEMMA CountAppend ==
    ASSUME NEW q \in Seq(Frame), NEW f \in Frame, NEW w
    PROVE  Count(Append(q, f), w) = Count(q, w) + (IF f.win = w THEN 1 ELSE 0)
<1> DEFINE I == {i \in DOMAIN q : q[i].win = w}
           u == Append(q, f)
           J == {i \in DOMAIN u : u[i].win = w}
<1>1. IsFiniteSet(I) /\ Cardinality(I) \in Nat
  BY CountFinite DEF Count
<1>2. /\ Len(q) \in Nat /\ DOMAIN q = 1..Len(q) /\ DOMAIN u = 1..(Len(q) + 1)
      /\ u[Len(q) + 1] = f /\ \A i \in 1..Len(q) : u[i] = q[i]
  OBVIOUS
<1>3. \A i \in 1..(Len(q) + 1) : i \in 1..Len(q) \/ i = Len(q) + 1
  BY <1>2
<1>4. /\ Len(q) + 1 \notin 1..Len(q) /\ Len(q) + 1 \in 1..(Len(q) + 1)
      /\ \A i \in 1..Len(q) : i \in 1..(Len(q) + 1)
  BY <1>2
<1> HIDE DEF u
<1>5. CASE f.win = w
  <2>1. J = I \cup {Len(q) + 1} /\ Len(q) + 1 \notin I
    BY <1>2, <1>3, <1>4, <1>5
  <2> HIDE DEF I, J
  <2>2. Cardinality(J) = Cardinality(I) + 1
    BY <1>1, <2>1, FS_AddElement
  <2> QED
    BY <1>5, <2>2 DEF I, J, u, Count
<1>6. CASE f.win # w
  <2>1. J = I
    BY <1>2, <1>3, <1>4, <1>6
  <2>2. Count(u, w) = Count(q, w)
    BY <2>1 DEF Count
  <2>3. Count(q, w) \in Nat
    BY CountFinite
  <2> QED
    BY <1>6, <2>2, <2>3 DEF u
<1> QED
  BY <1>5, <1>6

LEMMA CountTail ==
    ASSUME NEW q \in Seq(Frame), q # <<>>, NEW w
    PROVE  Count(q, w) = Count(Tail(q), w) + (IF Head(q).win = w THEN 1 ELSE 0)
<1> DEFINE u == Tail(q)
           h == Head(q)
           I == {i \in DOMAIN u : u[i].win = w}
           J == {i \in DOMAIN q : q[i].win = w}
           K == J \ {1}
           g == [i \in I |-> i + 1]
<1>1. /\ Len(q) \in Nat /\ Len(q) >= 1 /\ DOMAIN q = 1..Len(q)
      /\ DOMAIN u = 1..(Len(q) - 1) /\ h = q[1] /\ u \in Seq(Frame)
      /\ \A i \in 1..(Len(q) - 1) : u[i] = q[i + 1]
  OBVIOUS
<1> HIDE DEF u, h
<1>2. IsFiniteSet(I) /\ Cardinality(I) \in Nat /\ IsFiniteSet(J) /\ Cardinality(J) \in Nat
  BY <1>1, CountFinite DEF Count
<1>3. \A i \in I : i + 1 \in K /\ i \in Int
  <2>1. \A i \in 1..(Len(q) - 1) : i + 1 \in 1..Len(q) /\ i + 1 # 1 /\ i \in Int
    BY <1>1
  <2> QED
    BY <1>1, <2>1
<1>4. \A k \in K : k - 1 \in I /\ (k - 1) + 1 = k
  <2>1. \A k \in 1..Len(q) : k # 1 => k - 1 \in 1..(Len(q) - 1) /\ (k - 1) + 1 = k
    BY <1>1
  <2>2. \A k \in 1..Len(q) : k # 1 => u[k - 1] = q[k]
    BY <1>1, <2>1
  <2> QED
    BY <1>1, <2>1, <2>2
<1>5. 1 \in J <=> h.win = w
  BY <1>1
<1> HIDE DEF I, J, K
<1>6. g \in [I -> K] /\ \A i \in I : g[i] = i + 1
  BY <1>3
<1> HIDE DEF g
<1>7. \A i, j \in I : g[i] = g[j] => i = j
  BY <1>3, <1>6
<1>8. \A k \in K : \E i \in I : g[i] = k
  BY <1>4, <1>6
<1>9. ExistsBijection(I, K)
  BY <1>6, <1>7, <1>8 DEF ExistsBijection, Bijection, Injection, IsInjective, Surjection
<1>10. Cardinality(K) = Cardinality(I)
  BY <1>2, <1>9, FS_Bijection
<1>11. Cardinality(K) = IF 1 \in J THEN Cardinality(J) - 1 ELSE Cardinality(J)
  BY <1>2, FS_RemoveElement DEF K
<1>12. Cardinality(J) = Cardinality(I) + (IF h.win = w THEN 1 ELSE 0)
  BY <1>2, <1>5, <1>10, <1>11
<1> QED
  BY <1>12 DEF Count, I, J, u, h

LEMMA CountStale ==
    ASSUME NEW q, NEW r, DOMAIN r = DOMAIN q,
           \A i \in DOMAIN q : r[i].win = q[i].win
    PROVE  \A x : Count(r, x) = Count(q, x)
<1> SUFFICES ASSUME NEW x PROVE Count(r, x) = Count(q, x)
  OBVIOUS
<1>1. {i \in DOMAIN r : r[i].win = x} = {i \in DOMAIN q : q[i].win = x}
  OBVIOUS
<1> QED
  BY <1>1 DEF Count

(* The refinement mapping, by name. *)
RegOf(es) == [w \in Windows |-> es[w].reg]
Counts(q) == [w \in Windows |-> Count(q, w)]
CoderOf(k) == IF k = None THEN None ELSE k.win

(* One frame of v more, and one less. *)
LEMMA CountsStep ==
    ASSUME NEW q, NEW r, NEW v \in Windows,
           \A x \in Windows : Count(q, x) \in Nat,
           Count(r, v) = Count(q, v) + 1,
           \A x \in Windows \ {v} : Count(r, x) = Count(q, x)
    PROVE  /\ Counts(r) = [Counts(q) EXCEPT ![v] = @ + 1]
           /\ Counts(q) = [Counts(r) EXCEPT ![v] = @ - 1]
           /\ Counts(r)[v] > 0
<1> DEFINE a == Counts(q)
           b == Counts(r)
<1>1. /\ a = [x \in Windows |-> a[x]] /\ b = [x \in Windows |-> b[x]]
      /\ \A x \in Windows : a[x] \in Nat
      /\ b[v] = a[v] + 1 /\ \A x \in Windows \ {v} : b[x] = a[x]
  BY DEF Counts
<1> HIDE DEF a, b
<1>2. /\ \A x \in Windows : b[x] = [a EXCEPT ![v] = @ + 1][x]
      /\ \A x \in Windows : a[x] = [b EXCEPT ![v] = @ - 1][x]
      /\ b[v] > 0
  BY <1>1
<1>3. b = [a EXCEPT ![v] = @ + 1] /\ a = [b EXCEPT ![v] = @ - 1]
  BY <1>1, <1>2
<1> QED
  BY <1>2, <1>3 DEF a, b

LEMMA CoderTyped ==
    ASSUME TypeOK
    PROVE  /\ coding = None <=> CoderOf(coding) = None
           /\ CoderOf(coding) \in Windows \cup {None}
           /\ \A w \in Windows : InFlight(w) = Credit!InFlight(w)
<1>1. coding \in Frame \cup {None} /\ None \notin Windows
  BY NoneAssumption DEF TypeOK
<1>2. coding # None => coding.win \in Windows
  BY <1>1, FrameTyped
<1>3. \A w \in Windows : InCoder(w) = Credit!InCoder(w)
  BY <1>1, <1>2 DEF InCoder, Credit!InCoder
<1> QED
  BY <1>1, <1>2, <1>3 DEF CoderOf, InFlight, Credit!InFlight, Counts

LEMMA ChangedCounts ==
    ASSUME TypeOK, NEW w \in Windows, NEW T \in SUBSET Tiles, Changed(w, T)
    PROVE  /\ Counts(chan') = Counts(chan) /\ Counts(out') = Counts(out)
           /\ CoderOf(coding') = CoderOf(coding) /\ sessions' = sessions
<1>1. /\ chan \in Seq(Frame) /\ out \in Seq(Frame) /\ coding \in Frame \cup {None}
      /\ chan' = [i \in DOMAIN chan |-> Stale(chan[i], w, T)]
      /\ out' = [i \in DOMAIN out |-> Stale(out[i], w, T)]
      /\ coding' = IF coding = None THEN None ELSE Stale(coding, w, T)
      /\ sessions' = sessions
  BY DEF TypeOK, Changed
<1>2. /\ \A x : Count(chan', x) = Count(chan, x)
      /\ \A x : Count(out', x) = Count(out, x)
  <2>1. /\ DOMAIN chan' = DOMAIN chan
        /\ \A i \in DOMAIN chan : chan[i] \in Frame /\ chan'[i] = Stale(chan[i], w, T)
    BY <1>1
  <2>2. /\ DOMAIN out' = DOMAIN out
        /\ \A i \in DOMAIN out : out[i] \in Frame /\ out'[i] = Stale(out[i], w, T)
    BY <1>1
  <2>3. \A f \in Frame : Stale(f, w, T).win = f.win
    BY FrameTyped
  <2>4. /\ \A i \in DOMAIN chan : chan'[i].win = chan[i].win
        /\ \A i \in DOMAIN out : out'[i].win = out[i].win
    BY <2>1, <2>2, <2>3
  <2> QED
    BY <2>1, <2>2, <2>4, CountStale
<1>3. CoderOf(coding') = CoderOf(coding)
  <2>1. coding # None => Stale(coding, w, T) \in Frame /\ Stale(coding, w, T).win = coding.win
    BY <1>1, FrameTyped
  <2>2. None \notin Frame
    BY NoneAssumption
  <2> QED
    BY <1>1, <2>1, <2>2 DEF CoderOf
<1> QED
  BY <1>1, <1>2, <1>3 DEF Counts

LEMMA InitRefines == ASSUME Init PROVE Credit!Init
<1>1. RegOf(entries) = [w \in Windows |-> "unborn"]
  BY DEF Init, NewEntry, RegOf
<1>2. Counts(chan) = [w \in Windows |-> 0] /\ Counts(out) = [w \in Windows |-> 0]
  BY CountEmpty DEF Init, Counts
<1>3. CoderOf(coding) = None
  BY DEF Init, CoderOf
<1> QED
  BY <1>1, <1>2, <1>3 DEF Init, Credit!Init, RegOf, Counts, CoderOf

(* Nothing the flow control knows of changes. *)
LEMMA StutterRefines ==
    ASSUME UNCHANGED <<consuming, pending, carried, streaming, ticking, todo, stalled,
                       awaiting, sessions>>,
           RegOf(entries') = RegOf(entries),
           Counts(chan') = Counts(chan), Counts(out') = Counts(out),
           CoderOf(coding') = CoderOf(coding)
    PROVE  UNCHANGED Credit!vars
  BY DEF Credit!vars, Credit!routerVars, Credit!tickVars, Credit!clientVars,
         Credit!linkVars, RegOf, Counts, CoderOf

LEMMA ClientRefines ==
    ASSUME TypeOK, NEW w \in Windows,
           \/ Register(w) \/ CommitNull(w)
           \/ \E s \in Sizes, T \in SUBSET Tiles : CommitBuffer(w, s, T)
           \/ \E a \in WmStates : ClientStateRequest(w, a) \/ Manage(w, a)
           \/ FocusWindow(w)
    PROVE  Credit!Next \/ UNCHANGED Credit!vars
<1>0. entries \in [Windows -> Entry]
  BY DEF TypeOK, Entry
<1>1. ASSUME ~ticking, w \in Live, awaiting' = awaiting \cup {w},
             UNCHANGED <<consuming, pending, carried, streaming, ticking, todo, stalled>>,
             RegOf(entries') = RegOf(entries),
             Counts(chan') = Counts(chan), Counts(out') = Counts(out),
             CoderOf(coding') = CoderOf(coding), sessions' = sessions
      PROVE  Credit!Next
  <2>1. w \in Credit!Live
    BY <1>1 DEF Live, Credit!Live
  <2>2. Credit!Commit(w)
    BY <1>1, <2>1
       DEF Credit!Commit, Credit!routerVars, Credit!tickVars, Credit!linkVars,
           RegOf, Counts, CoderOf
  <2> QED
    BY <2>2 DEF Credit!Next
<1>2. CASE Register(w)
  <2>1. /\ RegOf(entries)[w] = "unborn"
        /\ RegOf(entries') = [RegOf(entries) EXCEPT ![w] = "new"]
    BY <1>0, <1>2 DEF Register, RegOf, Entry
  <2>2. Credit!Register(w)
    BY <1>2, <2>1
       DEF Register, Input, routerVars, tickVars, linkVars, RegOf,
           Credit!Register, Credit!routerVars, Credit!tickVars, Credit!linkVars
  <2> QED
    BY <2>2 DEF Credit!Next
<1>3. CASE CommitNull(w)
  <2>1. RegOf(entries') = RegOf(entries)
    BY <1>0, <1>3 DEF CommitNull, RegOf, Entry
  <2> QED
    BY <1>1, <1>3, <2>1 DEF CommitNull, Input, routerVars, tickVars, linkVars
<1>4. ASSUME NEW s \in Sizes, NEW T \in SUBSET Tiles, CommitBuffer(w, s, T)
      PROVE  Credit!Next
  <2> DEFINE D == IF entries[w].buf # s THEN Tiles ELSE T
  <2>1. D \in SUBSET Tiles
    OBVIOUS
  <2>2. /\ entries' = [entries EXCEPT ![w].buf = s, ![w].damage = @ \cup D]
        /\ Changed(w, D)
    BY <1>4 DEF CommitBuffer
  <2> HIDE DEF D
  <2>3. /\ Counts(chan') = Counts(chan) /\ Counts(out') = Counts(out)
        /\ CoderOf(coding') = CoderOf(coding) /\ sessions' = sessions
    BY <2>1, <2>2, ChangedCounts
  <2>4. RegOf(entries') = RegOf(entries)
    BY <1>0, <2>2 DEF RegOf, Entry
  <2> QED
    BY <1>1, <1>4, <2>3, <2>4 DEF CommitBuffer, Input, routerVars, tickVars
<1>5. ASSUME NEW a \in WmStates, ClientStateRequest(w, a)
      PROVE  UNCHANGED Credit!vars
  <2>1. RegOf(entries') = RegOf(entries)
    BY <1>0, <1>5 DEF ClientStateRequest, EmitState, RegOf, Entry
  <2> QED
    BY <1>5, <2>1, StutterRefines
       DEF ClientStateRequest, routerVars, tickVars, linkVars
<1>6. ASSUME NEW a \in WmStates, Manage(w, a) PROVE UNCHANGED Credit!vars
  <2>1. \/ \E b \in {"Minimized", a} : entries' = [entries EXCEPT ![w].wm = b]
        \/ \E D : entries' = [entries EXCEPT ![w].wm = "Normal", ![w].damage = D]
    BY <1>6 DEF Manage, Minimize, Restore, EmitState
  <2>2. RegOf(entries') = RegOf(entries)
    <3>1. DOMAIN entries' = Windows /\ \A x \in Windows : entries'[x].reg = entries[x].reg
      BY <1>0, <2>1 DEF Entry
    <3> QED
      BY <3>1 DEF RegOf
  <2>3. Changed(w, Tiles) \/ UNCHANGED <<chan, coding, out, sessions>>
    BY <1>6 DEF Manage, Minimize, Restore, linkVars
  <2>4. /\ Counts(chan') = Counts(chan) /\ Counts(out') = Counts(out)
        /\ CoderOf(coding') = CoderOf(coding) /\ sessions' = sessions
    <3>1. CASE Changed(w, Tiles)
      BY <3>1, ChangedCounts
    <3>2. CASE UNCHANGED <<chan, coding, out, sessions>>
      BY <3>2
    <3> QED
      BY <2>3, <3>1, <3>2
  <2>5. UNCHANGED <<consuming, pending, carried, streaming, ticking, todo, stalled,
                    awaiting>>
    BY <1>6 DEF Manage, routerVars, tickVars
  <2> QED
    BY <2>2, <2>4, <2>5, StutterRefines
<1>7. ASSUME FocusWindow(w) PROVE UNCHANGED Credit!vars
  BY <1>7, StutterRefines DEF FocusWindow, routerVars, tickVars, linkVars
<1> QED
  BY <1>2, <1>3, <1>4, <1>5, <1>6, <1>7

LEMMA DestroyRefines ==
    ASSUME TypeOK, NEW w \in Windows, Destroy(w)
    PROVE  Credit!Next
<1>0. entries \in [Windows -> Entry]
  BY DEF TypeOK, Entry
<1>1. RegOf(entries') = [RegOf(entries) EXCEPT ![w] = "dead"]
  BY <1>0 DEF Destroy, NewEntry, RegOf
<1>2. w \in Credit!Live
  BY DEF Destroy, Live, Credit!Live
<1>3. carried' = [carried EXCEPT ![w] = Credit!InFlight(w)]
  BY CoderTyped DEF Destroy, Untrack
<1>4. Credit!Destroy(w)
  BY <1>1, <1>2, <1>3
     DEF Destroy, Input, Untrack, tickVars, linkVars, RegOf,
         Credit!Destroy, Credit!tickVars, Credit!linkVars
<1> QED
  BY <1>4 DEF Credit!Next

LEMMA TickRefines ==
    ASSUME TypeOK, NEW w \in Windows,
           \/ TickUnmap(w) \/ TickNoBuffer(w) \/ TickCreate(w) \/ TickPaint(w)
    PROVE  Credit!Next
<1>0. /\ entries \in [Windows -> Entry] /\ entries[w] \in Entry
      /\ chan \in Seq(Frame) /\ RegOf(entries)[w] = entries[w].reg
  BY DEF TypeOK, Entry, RegOf
<1>1. Credit!Visit(w)
  BY DEF TickUnmap, TickNoBuffer, TickCreate, TickPaint, Visit, Credit!Visit
<1>2. ASSUME \/ RegOf(entries') = RegOf(entries)
             \/ RegOf(entries') = [RegOf(entries) EXCEPT ![w] = "created"],
             UNCHANGED <<pending, chan, stalled>>
      PROVE  Credit!Next
  <2>1. Credit!TickQuiet(w)
    BY <1>1, <1>2 DEF Credit!TickQuiet, RegOf
  <2> QED
    BY <2>1 DEF Credit!Next
<1>3. CASE TickUnmap(w)
  <2> DEFINE u == IF entries[w].mapped THEN Unmapped(entries[w]) ELSE entries[w]
             e == [u EXCEPT !.unmap = FALSE]
  <2>1. u \in Entry /\ u.reg = entries[w].reg
    BY <1>0, VisitEntries
  <2>2. entries' = [entries EXCEPT ![w] = e] /\ UNCHANGED <<pending, chan, stalled>>
    BY <1>3 DEF TickUnmap
  <2> HIDE DEF u
  <2>3. e \in Entry /\ e.reg = entries[w].reg
    BY <2>1, VisitEntries
  <2> HIDE DEF e
  <2>4. RegOf(entries') = RegOf(entries)
    BY <1>0, <2>2, <2>3 DEF RegOf
  <2> QED
    BY <1>2, <2>2, <2>4
<1>4. CASE TickNoBuffer(w)
  BY <1>2, <1>4 DEF TickNoBuffer
<1>5. ASSUME NEW e \in Entry, e.reg = "created", entries' = [entries EXCEPT ![w] = e]
      PROVE  RegOf(entries') = [RegOf(entries) EXCEPT ![w] = "created"]
  BY <1>0, <1>5 DEF RegOf
<1>6. ASSUME NEW m, Composite(w, Settled(entries[w]), m), UNCHANGED stalled,
             entries[w].reg = "new" \/ MayEmit(w) \/ ~streaming
      PROVE  Credit!Next
  <2> DEFINE s == Settled(entries[w])
             d == [s EXCEPT !.damage = {}]
             f == [win |-> w, fresh |-> IF m = "mapped" THEN s.damage ELSE {}]
  <2>1. s \in Entry /\ s.reg = "created"
    BY <1>0, VisitEntries
  <2>2. \/ /\ streaming /\ pending' = [pending EXCEPT ![w] = @ + 1]
           /\ chan' = Append(chan, f)
        \/ UNCHANGED <<pending, chan>>
    BY <1>6 DEF Composite
  <2>3. entries' = [entries EXCEPT ![w] = d]
    BY <1>6 DEF Composite
  <2> HIDE DEF s
  <2>4. d \in Entry /\ d.reg = "created"
    BY <2>1, VisitEntries
  <2> HIDE DEF d
  <2>5. RegOf(entries') = [RegOf(entries) EXCEPT ![w] = "created"]
    BY <1>5, <2>3, <2>4
  <2>6. CASE /\ streaming /\ pending' = [pending EXCEPT ![w] = @ + 1]
             /\ chan' = Append(chan, f)
    <3>1. f \in Frame /\ f.win = w
      <4>1. (IF m = "mapped" THEN s.damage ELSE {}) \in SUBSET Tiles
        BY <2>1 DEF Entry
      <4> QED
        BY <4>1, FrameTyped
    <3> HIDE DEF f
    <3>2. /\ Count(chan', w) = Count(chan, w) + 1
          /\ \A x \in Windows \ {w} : Count(chan', x) = Count(chan, x)
      <4>1. \A x : Count(chan', x) = Count(chan, x) + (IF x = w THEN 1 ELSE 0)
        BY <1>0, <2>6, <3>1, CountAppend
      <4>2. \A x \in Windows : Count(chan, x) \in Nat
        BY <1>0, CountFinite
      <4> QED
        BY <4>1, <4>2
    <3>3. \A x \in Windows : Count(chan, x) \in Nat
      BY <1>0, CountFinite
    <3>4. Counts(chan') = [Counts(chan) EXCEPT ![w] = @ + 1]
      BY <3>2, <3>3, CountsStep
    <3>5. Credit!TickEmit(w)
      BY <1>0, <1>1, <1>6, <2>5, <2>6, <3>4
         DEF Credit!TickEmit, Credit!MayEmit, MayEmit, RegOf, Counts
    <3> QED
      BY <3>5 DEF Credit!Next
  <2>7. CASE UNCHANGED <<pending, chan>>
    BY <1>2, <1>6, <2>5, <2>7
  <2> QED
    BY <2>2, <2>6, <2>7
<1>7. CASE TickCreate(w)
  BY <1>6, <1>7 DEF TickCreate
<1>8. CASE TickPaint(w)
  <2> DEFINE m == IF entries[w].mapped THEN told[w] ELSE "mapped"
  <2>1. CASE streaming /\ ~MayEmit(w)
    <3>1. /\ stalled' = stalled \cup {w} /\ UNCHANGED <<pending, chan>>
          /\ entries' = [entries EXCEPT ![w] = Settled(entries[w])]
          /\ entries[w].reg = "created"
      BY <1>8, <2>1 DEF TickPaint
    <3>2. Settled(entries[w]) \in Entry /\ Settled(entries[w]).reg = "created"
      BY <1>0, VisitEntries
    <3>3. RegOf(entries') = [RegOf(entries) EXCEPT ![w] = "created"]
      BY <1>5, <3>1, <3>2
    <3>4. RegOf(entries') = RegOf(entries)
      BY <1>0, <3>1, <3>3 DEF RegOf
    <3>5. Credit!TickStall(w)
      BY <1>0, <1>1, <2>1, <3>1, <3>4
         DEF Credit!TickStall, Credit!MayEmit, MayEmit, RegOf
    <3> QED
      BY <3>5 DEF Credit!Next
  <2>2. CASE ~(streaming /\ ~MayEmit(w))
    <3>1. Composite(w, Settled(entries[w]), m) /\ UNCHANGED stalled
      BY <1>8, <2>2 DEF TickPaint
    <3> HIDE DEF m
    <3> QED
      BY <1>6, <2>2, <3>1
  <2> QED
    BY <2>1, <2>2
<1> QED
  BY <1>3, <1>4, <1>7, <1>8

LEMMA LinkRefines ==
    ASSUME TypeOK,
           \/ TickBegin \/ TickEnd
           \/ SessionUp \/ Encode \/ Encoded \/ Ship \/ SessionDown
    PROVE  Credit!Next
<1>0. /\ entries \in [Windows -> Entry] /\ chan \in Seq(Frame) /\ out \in Seq(Frame)
      /\ coding \in Frame \cup {None} /\ None \notin Windows /\ None \notin Frame
      /\ \A x \in Windows : Count(chan, x) \in Nat /\ Count(out, x) \in Nat
  BY NoneAssumption, CountFinite DEF TypeOK, Entry
<1>1. CASE TickBegin
  <2>1. RegOf(entries') = RegOf(entries)
    <3>1. DOMAIN entries' = Windows /\ \A x \in Windows : entries'[x].reg = entries[x].reg
      BY <1>0, <1>1 DEF TickBegin, Entry
    <3> QED
      BY <3>1 DEF RegOf
  <2>2. Live = Credit!Live
    BY DEF Live, Credit!Live
  <2>3. [w \in Windows |-> InFlight(w)] = [w \in Windows |-> Credit!InFlight(w)]
    BY CoderTyped
  <2>4. Credit!TickBegin
    BY <1>1, <2>1, <2>2, <2>3
       DEF TickBegin, linkVars, RegOf, Credit!TickBegin, Credit!ClearPending,
           Credit!clientVars, Credit!linkVars
  <2> QED
    BY <2>4 DEF Credit!Next
<1>2. CASE TickEnd
  <2>1. Credit!TickEnd
    BY <1>2 DEF TickEnd, routerVars, linkVars,
                Credit!TickEnd, Credit!routerVars, Credit!linkVars
  <2> QED
    BY <2>1 DEF Credit!Next
<1>3. CASE SessionUp
  <2>1. Credit!SessionUp
    BY <1>3 DEF SessionUp, DetachObserved, tickVars,
                Credit!SessionUp, Credit!DetachObserved, Credit!tickVars, Credit!clientVars
  <2> QED
    BY <2>1 DEF Credit!Next
<1>4. CASE Encode
  <2> DEFINE f == Head(chan)
             v == f.win
  <2>1. /\ consuming /\ coding = None /\ chan # <<>> /\ coding' = f /\ chan' = Tail(chan)
        /\ UNCHANGED <<out, sessions, consuming, pending, carried, streaming, ticking,
                       todo, stalled, entries, awaiting>>
    BY <1>4 DEF Encode, routerVars, tickVars
  <2>2. f \in Frame /\ v \in Windows /\ chan' \in Seq(Frame)
    BY <1>0, <2>1, QueueTyped, FrameTyped
  <2>3. \A x : Count(chan, x) = Count(chan', x) + (IF x = v THEN 1 ELSE 0)
    BY <1>0, <2>1, CountTail
  <2>4. \A x \in Windows : Count(chan', x) \in Nat
    BY <2>2, CountFinite
  <2>8. /\ Count(chan, v) = Count(chan', v) + 1
        /\ \A x \in Windows \ {v} : Count(chan, x) = Count(chan', x)
    BY <2>3, <2>4
  <2> HIDE DEF f
  <2>5. CoderOf(coding') = v /\ CoderOf(coding) = None
    BY <1>0, <2>1, <2>2 DEF CoderOf
  <2> HIDE DEF v
  <2>6. Counts(chan') = [Counts(chan) EXCEPT ![v] = @ - 1] /\ Counts(chan)[v] > 0
    BY <2>2, <2>4, <2>8, CountsStep
  <2>7. Credit!Encode(v)
    BY <2>1, <2>2, <2>5, <2>6
       DEF Counts, CoderOf, Credit!Encode, Credit!routerVars, Credit!tickVars,
           Credit!clientVars
  <2> QED
    BY <2>2, <2>7 DEF Credit!Next
<1>5. CASE Encoded
  <2> DEFINE v == coding.win
  <2>1. /\ consuming /\ coding # None /\ coding' = None /\ out' = Append(out, coding)
        /\ UNCHANGED <<chan, sessions, consuming, pending, carried, streaming, ticking,
                       todo, stalled, entries, awaiting>>
    BY <1>5 DEF Encoded, routerVars, tickVars
  <2>2. coding \in Frame /\ v \in Windows
    BY <1>0, <2>1, FrameTyped
  <2>3. \A x : Count(out', x) = Count(out, x) + (IF x = v THEN 1 ELSE 0)
    BY <1>0, <2>1, <2>2, CountAppend
  <2>4. CoderOf(coding') = None /\ CoderOf(coding) = v
    BY <2>1 DEF CoderOf
  <2> HIDE DEF v
  <2>5. Counts(out') = [Counts(out) EXCEPT ![v] = @ + 1]
    <3>1. /\ Count(out', v) = Count(out, v) + 1
          /\ \A x \in Windows \ {v} : Count(out', x) = Count(out, x)
      BY <1>0, <2>3
    <3> QED
      BY <1>0, <2>2, <3>1, CountsStep
  <2>6. Credit!Encoded(v)
    BY <2>1, <2>2, <2>4, <2>5
       DEF Counts, CoderOf, Credit!Encoded, Credit!routerVars, Credit!tickVars,
           Credit!clientVars
  <2> QED
    BY <2>2, <2>6 DEF Credit!Next
<1>6. CASE Ship
  <2> DEFINE f == Head(out)
             v == f.win
  <2>1. /\ consuming /\ out # <<>> /\ out' = Tail(out) /\ FrameShipped(v)
        /\ UNCHANGED <<consuming, carried, chan, coding, sessions, streaming, ticking,
                       todo, stalled, entries, awaiting>>
    BY <1>6 DEF Ship, tickVars
  <2>2. f \in Frame /\ v \in Windows /\ out' \in Seq(Frame)
    BY <1>0, <2>1, QueueTyped, FrameTyped
  <2>3. \A x : Count(out, x) = Count(out', x) + (IF x = v THEN 1 ELSE 0)
    BY <1>0, <2>1, CountTail
  <2>4. \A x \in Windows : Count(out', x) \in Nat
    BY <2>2, CountFinite
  <2>8. /\ Count(out, v) = Count(out', v) + 1
        /\ \A x \in Windows \ {v} : Count(out, x) = Count(out', x)
    BY <2>3, <2>4
  <2> HIDE DEF f, v
  <2>5. Counts(out') = [Counts(out) EXCEPT ![v] = @ - 1] /\ Counts(out)[v] > 0
    BY <2>2, <2>4, <2>8, CountsStep
  <2>6. Credit!Ship(v)
    BY <2>1, <2>2, <2>5
       DEF Counts, FrameShipped, Credit!Ship, Credit!FrameShipped, Credit!tickVars,
           Credit!clientVars
  <2> QED
    BY <2>2, <2>6 DEF Credit!Next
<1>7. CASE SessionDown
  <2>1. Counts(out') = [w \in Windows |-> 0] /\ CoderOf(coding') = None
    BY <1>7, CountEmpty DEF SessionDown, Counts, CoderOf
  <2>2. Credit!SessionDown
    BY <1>7, <2>1
       DEF SessionDown, tickVars, Counts, CoderOf, Credit!SessionDown,
           Credit!tickVars, Credit!clientVars
  <2> QED
    BY <2>2 DEF Credit!Next
<1> QED
  BY <1>1, <1>2, <1>3, <1>4, <1>5, <1>6, <1>7

(* Pixels, sizes, map states, focus and the contents of frames forgotten,   *)
(* every step of the compositor and its session is a step of FrameCredit or *)
(* changes nothing it knows of.                                             *)
THEOREM WaylandRefinesCredit == Spec => ImplementsFrameCredit
<1>1. Init => Credit!Init
  BY InitRefines
<1>2. Typed /\ [Next]_vars => [Credit!Next]_Credit!vars
  <2> SUFFICES ASSUME Typed, [Next]_vars PROVE Credit!Next \/ UNCHANGED Credit!vars
    OBVIOUS
  <2>0. TypeOK
    BY DEF Typed
  <2>1. CASE UNCHANGED vars
    BY <2>1, StutterRefines DEF vars, routerVars, tickVars, linkVars
  <2>2. CASE Next
    BY <2>0, <2>2, ClientRefines, DestroyRefines, TickRefines, LinkRefines DEF Next
  <2> QED
    BY <2>1, <2>2
<1> QED
  BY <1>1, <1>2, WaylandTypedAlways, PTL DEF Spec, ImplementsFrameCredit, Credit!Spec

(* What FrameCreditProofs shows of the flow control, read through the       *)
(* refinement mapping.                                                      *)
Flow == INSTANCE FrameCreditProofs WITH
  reg <- [w \in Windows |-> entries[w].reg],
  queued <- [w \in Windows |-> Count(chan, w)],
  outgoing <- [w \in Windows |-> Count(out, w)],
  coding <- IF coding = None THEN None ELSE coding.win

LEMMA FlowSame == Credit!Spec => Flow!Spec
<1>1. Credit!Init => Flow!Init
  BY DEF Credit!Init, Flow!Init
<1>2. Credit!Next => Flow!Next
  BY DEF Credit!Next, Credit!TickBegin, Credit!ClearPending,
         Credit!TickEnd, Credit!SessionUp, Credit!DetachObserved,
         Credit!SessionDown, Credit!Register, Credit!Commit,
         Credit!Destroy, Credit!Visit, Credit!TickStall, Credit!TickEmit,
         Credit!TickQuiet, Credit!MayEmit, Credit!Encode, Credit!Encoded,
         Credit!Ship, Credit!FrameShipped, Credit!Live, Credit!InFlight,
         Credit!InCoder, Credit!routerVars, Credit!tickVars,
         Credit!clientVars, Credit!linkVars, Flow!Next, Flow!TickBegin,
         Flow!ClearPending, Flow!TickEnd, Flow!SessionUp,
         Flow!DetachObserved, Flow!SessionDown, Flow!Register, Flow!Commit,
         Flow!Destroy, Flow!Visit, Flow!TickStall, Flow!TickEmit,
         Flow!TickQuiet, Flow!MayEmit, Flow!Encode, Flow!Encoded,
         Flow!Ship, Flow!FrameShipped, Flow!Live, Flow!InFlight,
         Flow!InCoder, Flow!routerVars, Flow!tickVars, Flow!clientVars,
         Flow!linkVars
<1>3. UNCHANGED Credit!vars => UNCHANGED Flow!vars
  BY DEF Credit!vars, Credit!routerVars, Credit!tickVars, Credit!clientVars,
         Credit!linkVars, Flow!vars, Flow!routerVars, Flow!tickVars,
         Flow!clientVars, Flow!linkVars
<1>4. [Credit!Next]_Credit!vars => [Flow!Next]_Flow!vars
  BY <1>2, <1>3
<1> QED
  BY <1>1, <1>4, PTL DEF Credit!Spec, Flow!Spec

(* MAX_FRAMES_IN_FLIGHT bounds the frames of the queues themselves: no      *)
(* window has more frames in the channel, the coder and the session's queue *)
(* than its credit and the ones that were there when the credit was reset.  *)
THEOREM WaylandFlowBounded ==
    Spec => [](\A w \in Windows : InFlight(w) <= MaxInFlight + carried[w])
<1>1. /\ None \notin Windows
      /\ MaxSessions \in Nat
      /\ MaxInFlight \in Nat \ {0}
  BY BoundsAssumption, NoneAssumption
<1>2. Flow!Spec => []Flow!InFlightBounded
  BY <1>1, Flow!FlowBounded
<1>3. Typed /\ Flow!InFlightBounded =>
        \A w \in Windows : InFlight(w) <= MaxInFlight + carried[w]
  BY CoderTyped DEF Typed, Flow!InFlightBounded, Flow!InFlight, Flow!InCoder,
                    Credit!InFlight, Credit!InCoder
<1> QED
  BY <1>2, <1>3, FlowSame, WaylandRefinesCredit, WaylandTypedAlways, PTL
     DEF ImplementsFrameCredit

(* "A dropped session cannot leave a window stalled" (linux.rs): while a    *)
(* session runs, every credit spent is held by a frame in one of its        *)
(* queues, which will return it.                                            *)
THEOREM WaylandCreditBacked ==
    Spec => [](consuming => \A w \in Windows : pending[w] <= InFlight(w))
<1>1. /\ None \notin Windows
      /\ MaxSessions \in Nat
      /\ MaxInFlight \in Nat \ {0}
  BY BoundsAssumption, NoneAssumption
<1>2. Flow!Spec => []Flow!CreditBacked
  BY <1>1, Flow!NoOrphanCredit
<1>3. Typed /\ Flow!CreditBacked =>
        (consuming => \A w \in Windows : pending[w] <= InFlight(w))
  BY CoderTyped DEF Typed, Flow!CreditBacked, Flow!InFlight, Flow!InCoder,
                    Credit!InFlight, Credit!InCoder
<1> QED
  BY <1>2, <1>3, FlowSame, WaylandRefinesCredit, WaylandTypedAlways, PTL
     DEF ImplementsFrameCredit

=============================================================================
