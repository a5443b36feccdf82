------------------------------- MODULE XGrabs -------------------------------
(***************************************************************************)
(* Pointer and keyboard grabs of one X11 connection: active and passive    *)
(* grabs, the freezing of a device by a synchronous grab, the queue of a   *)
(* frozen device and its thawing by AllowEvents, by the end of a grab or   *)
(* by the release of the last button.  Grab state is kept per connection,  *)
(* so one client is modelled.                                              *)
(*                                                                         *)
(* Input events are numbered in the order they arrive.  An event reaches   *)
(* the wire directly, or through the queue of its frozen device and the    *)
(* list of pending events, which is written at the end of a batch of       *)
(* requests and after every input event.                                   *)
(*                                                                         *)
(* Abstracted: an active grab is its two modes (its window, event mask,     *)
(* cursor and confinement only shape the events); the crossing events a    *)
(* grab emits carry no input; requests refused with an error are not       *)
(* steps.                                                                  *)
(***************************************************************************)
EXTENDS Naturals, Sequences, SequencesExt, FiniteSets, XWalks

CONSTANTS GrWins,        \* windows of the client
          GrParent,      \* GrParent[w]: the parent of w, GrTop for a top-level
          GrTop,         \* the root window
          GrMapped,      \* the mapped windows
          GrMaxEvents,   \* bound on the input events that arrive
          GrQueue,       \* MAX_FROZEN_EVENTS
          GrPending,     \* max_pending_events
          GrOthers,      \* bound on the other events pending at the end of a batch
          GrPassives,    \* the passive grabs the client may establish
          GrMaxPassive   \* bound on the passive grabs of a device

Devices == {"pointer", "keyboard"}
Other(d) == IF d = "pointer" THEN "keyboard" ELSE "pointer"
GrabModes == {"Sync", "Async"}
AnyMod == "any"
GrMods == {"none", AnyMod}

\* A grab: the mode it puts its own device and the other one in.
Grabs == [own : GrabModes, other : GrabModes]
\* Code 0 is AnyButton and AnyKey.
PassiveGrabs == [win : GrWins \cup {GrTop}, own : GrabModes, other : GrabModes,
                 code : {0, 1}, mods : GrMods]

ASSUME GrAssumption ==
    /\ GrTop \notin GrWins
    /\ GrParent \in [GrWins -> GrWins \cup {GrTop}]
    /\ GrMapped \subseteq GrWins
    /\ IsFiniteSet(GrWins) /\ IsTree(GrParent, GrTop, Cardinality(GrWins))
    /\ {GrMaxEvents, GrQueue, GrPending, GrOthers, GrMaxPassive} \subseteq Nat /\ GrQueue > 0
    /\ GrPassives \subseteq PassiveGrabs

VARIABLES
    grGrab,     \* pointer_grab and keyboard_grab, {} for none
    grPassive,  \* button_grabs and key_grabs, newest first
    grFrozen,   \* pointer_frozen, keyboard_frozen
    grStep,     \* pointer_sync_pending, keyboard_sync_pending
    grQueue,    \* frozen_pointer_events, frozen_keyboard_events
    grWire,     \* the input events written to the client
    grCount,    \* events that arrived
    grLost      \* events dropped from a full queue or an overlong pending list

grVars == <<grGrab, grPassive, grFrozen, grStep, grQueue,
            grWire, grCount, grLost>>

GrTypeOK ==
    /\ grGrab \in [Devices -> SUBSET Grabs]
    /\ \A d \in Devices : grGrab[d] = {} \/ \E g \in Grabs : grGrab[d] = {g}
    /\ grPassive \in [Devices -> Seq(PassiveGrabs)]
    /\ \A d \in Devices : Len(grPassive[d]) <= GrMaxPassive
    /\ grFrozen \in [Devices -> BOOLEAN]
    /\ grStep \in [Devices -> BOOLEAN]
    /\ \A d \in Devices : Len(grQueue[d]) <= GrQueue
    /\ grCount \in 0..GrMaxEvents

GrInit ==
    /\ grGrab = [d \in Devices |-> {}]
    /\ grPassive = [d \in Devices |-> <<>>]
    /\ grFrozen = [d \in Devices |-> FALSE]
    /\ grStep = [d \in Devices |-> FALSE]
    /\ grQueue = [d \in Devices |-> <<>>]
    /\ grWire = <<>>
    /\ grCount = 0 /\ grLost = {}

\* The window and its ancestors, in the order the passive-grab checks walk.
GrPath(w) == Walk(Upwards(GrParent, GrTop), w, {GrTop}, Cardinality(GrWins))

\* A window is viewable when it and its ancestors up to the root are mapped.
IsViewable(w) == ToSet(GrPath(w)) \subseteq GrMapped \cup {GrTop}

\* What a request thawed is pending until its batch ends, and then written,
\* except the oldest n if the batch left more than GrPending events.
EndOfBatch(thawed) ==
    \E n \in 0..Len(thawed) :
        /\ n = 0 \/ GrPending + n <= Len(thawed) + GrOthers
        /\ grWire' = grWire \o SubSeq(thawed, n + 1, Len(thawed))
        /\ grLost' = grLost \cup ToSet(SubSeq(thawed, 1, n))

(***************************************************************************)
(* The grab requests.  GrabPointer and GrabKeyboard are each other's       *)
(* mirror image: the device's own mode sets or clears its freeze, the      *)
(* mode of the other device only sets it.                                  *)
(***************************************************************************)
GrabRefused(d, w, late) ==
    \/ grFrozen[d] /\ grGrab[d] = {}          \* FROZEN
    \/ w # GrTop /\ ~IsViewable(w)            \* NOT_VIEWABLE
    \/ late                                   \* INVALID_TIME

ActiveGrab(d, w, g, late) ==
    /\ ~GrabRefused(d, w, late)
    /\ grGrab' = [grGrab EXCEPT ![d] = {g}]
    /\ grFrozen' = [grFrozen EXCEPT ![d] = g.own = "Sync",
                                    ![Other(d)] = @ \/ g.other = "Sync"]
    /\ EndOfBatch(<<>>)
    /\ UNCHANGED <<grPassive, grStep, grQueue, grCount>>

GrabPointer(w, g, late) == ActiveGrab("pointer", w, g, late)
GrabKeyboard(w, g, late) == ActiveGrab("keyboard", w, g, late)

\* Mutant: the queued events go with the grab.
UngrabDropsQueue ==
    /\ grGrab["pointer"] # {}
    /\ grGrab' = [grGrab EXCEPT !["pointer"] = {}]
    /\ grFrozen' = [grFrozen EXCEPT !["pointer"] = FALSE]
    /\ grQueue' = [grQueue EXCEPT !["pointer"] = <<>>]
    /\ EndOfBatch(<<>>)
    /\ UNCHANGED <<grPassive, grStep, grCount>>

\* UngrabPointer thaws the pointer, and only the pointer.
UngrabPointer ==
    /\ grGrab["pointer"] # {}
    /\ grGrab' = [grGrab EXCEPT !["pointer"] = {}]
    /\ grFrozen' = [grFrozen EXCEPT !["pointer"] = FALSE]
    /\ grQueue' = [grQueue EXCEPT !["pointer"] = <<>>]
    /\ EndOfBatch(grQueue["pointer"])
    /\ UNCHANGED <<grPassive, grStep, grCount>>

\* UngrabKeyboard also thaws a pointer that this grab may have frozen.
UngrabKeyboard ==
    /\ grGrab["keyboard"] # {}
    /\ LET both == grGrab["pointer"] = {} /\ \E g \in grGrab["keyboard"] : g.other = "Sync"
           thawed == {d \in Devices : d = "keyboard" \/ both}
       IN  /\ grFrozen' = [d \in Devices |-> grFrozen[d] /\ d \notin thawed]
           /\ grStep' = [d \in Devices |-> grStep[d] /\ d \notin thawed]
           /\ grQueue' = [d \in Devices |-> IF d \in thawed THEN <<>> ELSE grQueue[d]]
           /\ EndOfBatch(grQueue["keyboard"] \o (IF both THEN grQueue["pointer"] ELSE <<>>))
    /\ grGrab' = [grGrab EXCEPT !["keyboard"] = {}]
    /\ UNCHANGED <<grPassive, grCount>>

SamePassive(p, w, code, mods) == p.win = w /\ p.code = code /\ p.mods = mods

AddPassive(d, p) ==
    /\ grPassive' = [grPassive EXCEPT ![d] =
            <<p>> \o Kept(@, {q \in PassiveGrabs : ~SamePassive(q, p.win, p.code, p.mods)})]
    /\ Len(grPassive'[d]) <= GrMaxPassive
    /\ EndOfBatch(<<>>)
    /\ UNCHANGED <<grGrab, grFrozen, grStep, grQueue, grCount>>

GrabButton(p) == AddPassive("pointer", p)
GrabKey(p) == AddPassive("keyboard", p)

RemovePassive(d, w, code, mods) ==
    /\ grPassive' = [grPassive EXCEPT ![d] = Kept(@, {q \in PassiveGrabs :
            IF code = 0 /\ mods = AnyMod THEN q.win # w ELSE ~SamePassive(q, w, code, mods)})]
    /\ grPassive' # grPassive
    /\ EndOfBatch(<<>>)
    /\ UNCHANGED <<grGrab, grFrozen, grStep, grQueue, grCount>>

UngrabButton(w, code, mods) == RemovePassive("pointer", w, code, mods)
UngrabKey(w, code, mods) == RemovePassive("keyboard", w, code, mods)

(***************************************************************************)
(* AllowEvents: the devices it thaws, whether each re-freezes after one    *)
(* more event, and whether it gives up the grab (Replay).                  *)
(***************************************************************************)
AllowModes == [devs : (SUBSET Devices) \ {{}}, step : BOOLEAN, replay : {FALSE}]
              \cup {[devs |-> {d}, step |-> FALSE, replay |-> TRUE] : d \in Devices}

AllowEvents(mode) ==
    LET thawed(d) == IF d \in mode.devs THEN grQueue[d] ELSE <<>>
    IN  /\ grFrozen' = [d \in Devices |-> grFrozen[d] /\ d \notin mode.devs]
        /\ grStep' = [d \in Devices |-> IF d \in mode.devs THEN mode.step ELSE grStep[d]]
        /\ grGrab' = [d \in Devices |-> IF d \in mode.devs /\ mode.replay THEN {} ELSE grGrab[d]]
        /\ grQueue' = [d \in Devices |-> IF d \in mode.devs THEN <<>> ELSE grQueue[d]]
        /\ EndOfBatch(thawed("pointer") \o thawed("keyboard"))
        /\ UNCHANGED <<grPassive, grCount>>

(***************************************************************************)
(* An input event: passive grabs first, then the freeze of its device.     *)
(***************************************************************************)
\* The passive grab that a press of code with no modifier on w activates: the
\* first match on the nearest window of the path that has one.
Activated(d, w, code) ==
    LET matching(v) == Kept(grPassive[d], {p \in PassiveGrabs : p.win = v /\ p.code \in {0, code}})
        hits == Kept(GrPath(w), {v \in GrWins \cup {GrTop} : matching(v) # <<>>})
    IN  IF hits = <<>> THEN {} ELSE {Head(matching(Head(hits)))}

ActivePart(p) == [own |-> p.own, other |-> p.other]

\* The event goes out, and the device is frozen again if it was thawed for one
\* event.  What the event itself thawed is pending, and written after it.
DeliverNow(d, e, frozen, step, queue, thawed) ==
    /\ grFrozen' = [frozen EXCEPT ![d] = step[d]]
    /\ grStep' = [step EXCEPT ![d] = FALSE]
    /\ grQueue' = queue
    /\ grWire' = Append(grWire, e) \o thawed
    /\ UNCHANGED grLost

\* check_pointer_sync_freeze, check_keyboard_sync_freeze: queue the event of a
\* frozen device, dropping the oldest of a full queue, or deliver it.
Deliver(d, e, frozen) ==
    IF frozen[d]
    THEN /\ grFrozen' = frozen
         /\ grQueue' = [grQueue EXCEPT ![d] =
                Append(IF Len(@) >= GrQueue THEN Tail(@) ELSE @, e)]
         /\ grLost' = grLost \cup (IF Len(grQueue[d]) >= GrQueue THEN {Head(grQueue[d])} ELSE {})
         /\ UNCHANGED <<grStep, grWire>>
    ELSE DeliverNow(d, e, frozen, grStep, grQueue, <<>>)

Arrives == grCount < GrMaxEvents /\ grCount' = grCount + 1

\* ButtonPress and KeyPress.
Press(d, w, code) ==
    LET act == Activated(d, w, code)
        frozen == [x \in Devices |-> grFrozen[x] \/ \E p \in act :
                        (IF x = d THEN p.own ELSE p.other) = "Sync"]
    IN  /\ Arrives
        /\ grGrab' = IF act = {} THEN grGrab
                     ELSE [grGrab EXCEPT ![d] = {ActivePart(p) : p \in act}]
        /\ Deliver(d, grCount', frozen)
        /\ UNCHANGED grPassive

\* A ButtonRelease that leaves no button held ends the pointer grab, active or
\* passive, and thaws the pointer.
AutoUngrab(held) == grGrab["pointer"] # {} /\ ~held

ButtonRelease(held) ==
    /\ Arrives
    /\ IF AutoUngrab(held)
       THEN /\ grGrab' = [grGrab EXCEPT !["pointer"] = {}]
            /\ DeliverNow("pointer", grCount', [grFrozen EXCEPT !["pointer"] = FALSE],
                          [grStep EXCEPT !["pointer"] = FALSE],
                          [grQueue EXCEPT !["pointer"] = <<>>], grQueue["pointer"])
       ELSE /\ UNCHANGED grGrab
            /\ Deliver("pointer", grCount', grFrozen)
    /\ UNCHANGED grPassive

\* MotionNotify and KeyRelease.
Moved(d) ==
    /\ Arrives
    /\ Deliver(d, grCount', grFrozen)
    /\ UNCHANGED <<grGrab, grPassive>>

GrNext ==
    \/ \E w \in GrWins \cup {GrTop}, g \in Grabs, late \in BOOLEAN :
            GrabPointer(w, g, late) \/ GrabKeyboard(w, g, late)
    \/ UngrabPointer \/ UngrabKeyboard
    \/ \E p \in GrPassives : GrabButton(p) \/ GrabKey(p)
    \/ \E w \in GrWins \cup {GrTop}, code \in {0, 1}, mods \in GrMods :
            UngrabButton(w, code, mods) \/ UngrabKey(w, code, mods)
    \/ \E mode \in AllowModes : AllowEvents(mode)
    \/ \E d \in Devices, w \in GrWins, code \in {1, 2} : Press(d, w, code)
    \/ \E held \in BOOLEAN : ButtonRelease(held)
    \/ \E d \in Devices : Moved(d)

GrSpec == GrInit /\ [][GrNext]_grVars

\* No input event is lost or duplicated by freezing, queueing, thawing,
\* replaying or replacing a grab: each one that arrived was written once, waits
\* in the queue of a frozen device, or was dropped by a full queue or by the
\* limit on pending events.
EveryEventOnce ==
    LET all == grWire \o grQueue["pointer"] \o grQueue["keyboard"]
    IN  /\ IsInjective(all)
        /\ ToSet(all) \cap grLost = {}
        /\ ToSet(all) \cup grLost = 1..grCount

=============================================================================
