------------------------------ MODULE XKeyboard ------------------------------
(***************************************************************************)
(* The keyboard of one connection: the keys that are down, the modifiers   *)
(* and the group XKB derives from them, the accessibility controls, key    *)
(* repeat, the compose buffer and the events a client that follows the     *)
(* keyboard gets.  Keys come from the browser and from XTEST.              *)
(*                                                                         *)
(* Abstracted: delays are a nondeterministic expiry; what the key events   *)
(* carry and which window they go to is in XFocus and XGrabs; the compose  *)
(* table (libxkbcommon) may answer anything it can answer.                 *)
(***************************************************************************)
EXTENDS Naturals, FiniteSets

CONSTANTS KbKeys,        \* key codes
          KbMod,         \* KbMod[k]: the modifiers k stands for, {} or one
          KbLockKeys,    \* the keys of them that lock
          KbRepeats,     \* keys whose bit in per_key_repeat is set
          KbMoveKeys,    \* the keypad keys that MouseKeys turns into motion
          KbClickKeys,   \* ... and into clicks
          KbDflts,       \* the default buttons clients set for MouseKeys
          KbLatchReqs,   \* the XkbLatchLockState requests that are made
          KbMaxBuf,      \* bound: keysyms in the compose buffer
          KbMaxSteps     \* bound: key events and requests

KbMods == UNION {KbMod[k] : k \in KbKeys}
KbCtrls == {"Repeat", "Slow", "Bounce", "Sticky", "Mouse"}
KbGroups == 0..3
KbEvents == {"State", "Controls"}

ASSUME KbAssumption ==
    /\ \A k \in KbKeys : Cardinality(KbMod[k]) <= 1
    /\ KbLockKeys \cup KbRepeats \cup KbMoveKeys \cup KbClickKeys \subseteq KbKeys
    /\ KbMoveKeys \cap KbClickKeys = {}
    /\ "none" \notin KbKeys
    /\ \A r \in KbLatchReqs :
          /\ r.locks[2] \subseteq KbMods /\ r.latches[2] \subseteq KbMods
          /\ r.lockGroup \subseteq KbGroups /\ r.latchGroup \subseteq KbGroups
    /\ KbDflts \subseteq Nat
    /\ KbMaxBuf \in Nat /\ KbMaxSteps \in Nat

VARIABLES
    kbCtrls,    \* enabled_ctrls
    kbHeld,     \* keys held down in the browser
    kbFake,     \* keys XTEST holds down
    kbPressed,  \* pressed_keys
    kbMods,     \* base_mods, latched_mods, locked_mods, sticky_mods
    kbGroup,    \* latched_group and locked_group (nothing sets base_group)
    kbRepeat,   \* key_repeat: the key that repeats, or "none"
    kbBounced,  \* keys released less than debounce_delay ago
    kbBuf,      \* length of the compose buffer
    kbDflt,     \* mk_dflt_btn: the button MouseKeys clicks with
    kbButtons,  \* the buttons MouseKeys holds down in button_mask
    kbMask,     \* the XKB events that are selected
    kbSeen,     \* what the client knows of modifiers and group, and of the
                \* controls: {}, or the one value it was told last
    kbClean,    \* neither a control nor the default button was changed while
                \* a key was down
    kbSteps     \* steps taken so far

kbVars == <<kbCtrls, kbHeld, kbFake, kbPressed, kbMods, kbGroup, kbRepeat, kbBounced,
            kbBuf, kbDflt, kbButtons, kbMask, kbSeen, kbClean, kbSteps>>

KbTypeOK ==
    /\ kbCtrls \subseteq KbCtrls
    /\ kbHeld \subseteq KbKeys /\ kbFake \subseteq KbKeys /\ kbPressed \subseteq KbKeys
    /\ kbMods \in [base : SUBSET KbMods, latched : SUBSET KbMods,
                   locked : SUBSET KbMods, sticky : SUBSET KbMods]
    /\ kbGroup \in [latched : KbGroups, locked : KbGroups]
    /\ kbRepeat \in KbKeys \cup {"none"}
    /\ kbBounced \subseteq KbKeys
    /\ kbBuf \in 0..KbMaxBuf
    /\ kbDflt \in KbDflts \cup {0} /\ kbButtons \subseteq Nat /\ kbClean \in BOOLEAN
    /\ kbMask \subseteq KbEvents
    /\ kbSeen.state \subseteq [mods : SUBSET KbMods, group : KbGroups]
    /\ kbSeen.ctrls \subseteq SUBSET KbCtrls
    /\ kbSteps \in 0..KbMaxSteps

EffectiveMods(m) == m.base \cup m.latched \cup m.locked
EffectiveGroup(g) == IF g.latched + g.locked > 3 THEN 3 ELSE g.latched + g.locked
XkbStateOf(m, g) == [mods |-> EffectiveMods(m), group |-> EffectiveGroup(g)]

KbInit ==
    /\ kbCtrls = {"Repeat"}
    /\ kbHeld = {} /\ kbFake = {} /\ kbPressed = {}
    /\ kbMods = [base |-> {}, latched |-> {}, locked |-> {}, sticky |-> {}]
    /\ kbGroup = [latched |-> 0, locked |-> 0]
    /\ kbRepeat = "none"
    /\ kbBounced = {}
    /\ kbBuf = 0 /\ kbDflt = 0 /\ kbButtons = {}
    /\ kbMask = {} /\ kbSeen = [state |-> {}, ctrls |-> {}]
    /\ kbClean = TRUE
    /\ kbSteps = 0

\* maybe_send_xkb_state_notify: if selected, and only if something changed.
KbNotify ==
    kbSeen' = IF "State" \in kbMask /\ <<kbMods', kbGroup'>> # <<kbMods, kbGroup>>
              THEN [kbSeen EXCEPT !.state = {XkbStateOf(kbMods', kbGroup')}] ELSE kbSeen

Sticky == "Sticky" \in kbCtrls

\* XkbState::key_press
PressMods(k) ==
    CASE KbMod[k] # {} /\ k \in KbLockKeys ->
            [kbMods EXCEPT !.locked = (@ \ KbMod[k]) \cup (KbMod[k] \ @)]
      [] KbMod[k] # {} /\ k \notin KbLockKeys /\ Sticky ->
            [kbMods EXCEPT !.sticky = @ \cup KbMod[k], !.latched = @ \cup KbMod[k]]
      [] KbMod[k] # {} /\ k \notin KbLockKeys /\ ~Sticky ->
            [kbMods EXCEPT !.base = @ \cup KbMod[k]]
      [] KbMod[k] = {} /\ Sticky /\ kbMods.sticky # {} ->
            [kbMods EXCEPT !.sticky = {}, !.latched = {}]
      [] OTHER -> kbMods

\* XkbState::key_release
ReleaseMods(k) ==
    IF k \notin KbLockKeys /\ ~Sticky
    THEN [kbMods EXCEPT !.base = @ \ KbMod[k], !.latched = @ \ KbMod[k]] ELSE kbMods
Bounce(k) == IF "Bounce" \in kbCtrls THEN kbBounced \cup {k} ELSE kbBounced

BouncesBack(k) == "Bounce" \in kbCtrls /\ k \in kbBounced       \* bounce_keys_reject
DfltButton(b) == IF b < 1 THEN 1 ELSE b                          \* mk_dflt_btn.max(1)
MouseKey(k) == "Mouse" \in kbCtrls /\ k \in KbMoveKeys \cup KbClickKeys

(***************************************************************************)
(* A key event of the browser.  kbHeld is the keyboard itself; everything  *)
(* else is what the connection makes of it.                                *)
(***************************************************************************)
\* What the compose table makes of a press: the length of the buffer after it.
Compose ==
    \/ kbBuf' = 0
    \/ kbBuf < KbMaxBuf /\ kbBuf' = kbBuf + 1

PressRejected(k) ==
    /\ BouncesBack(k)
    /\ UNCHANGED <<kbPressed, kbMods, kbRepeat, kbBuf, kbButtons, kbSeen>>

PressMouseKey(k) ==
    /\ ~BouncesBack(k) /\ MouseKey(k)
    /\ kbButtons' = IF k \in KbClickKeys THEN kbButtons \cup {DfltButton(kbDflt)} ELSE kbButtons
    /\ UNCHANGED <<kbPressed, kbMods, kbRepeat, kbBuf, kbSeen>>

\* Under SlowKeys the first press is not delivered: the repeat timer will.
PressSlow(k) ==
    /\ ~BouncesBack(k) /\ ~MouseKey(k)
    /\ "Slow" \in kbCtrls /\ k \notin kbPressed
    /\ kbPressed' = kbPressed \cup {k}
    /\ kbMods' = PressMods(k) /\ UNCHANGED kbGroup /\ KbNotify
    /\ kbRepeat' = k
    /\ UNCHANGED <<kbBuf, kbButtons>>

PressNow(k) ==
    /\ ~BouncesBack(k) /\ ~MouseKey(k)
    /\ ~("Slow" \in kbCtrls /\ k \notin kbPressed)
    /\ kbPressed' = kbPressed \cup {k}
    /\ kbMods' = PressMods(k) /\ UNCHANGED kbGroup /\ KbNotify
    /\ kbRepeat' = IF "Repeat" \in kbCtrls /\ k \in KbRepeats THEN k ELSE "none"
    /\ Compose
    /\ UNCHANGED kbButtons

KeyPress(k) ==
    /\ kbHeld' = kbHeld \cup {k}
    /\ PressRejected(k) \/ PressMouseKey(k) \/ PressSlow(k) \/ PressNow(k)
    /\ UNCHANGED <<kbCtrls, kbDflt, kbFake, kbGroup, kbBounced, kbMask, kbClean>>

\* The button is the default one of now, not the one that was pressed.
ReleaseMouseKey(k) ==
    /\ MouseKey(k)
    /\ kbButtons' = IF k \in KbClickKeys THEN kbButtons \ {DfltButton(kbDflt)} ELSE kbButtons
    /\ UNCHANGED <<kbPressed, kbMods, kbRepeat, kbBounced, kbSeen>>

\* Mutant: the repeat timer is not stopped.
ReleaseKeepsRepeat(k) ==
    /\ ~MouseKey(k)
    /\ kbPressed' = kbPressed \ {k}
    /\ kbMods' = ReleaseMods(k) /\ UNCHANGED kbGroup /\ KbNotify
    /\ kbBounced' = Bounce(k)
    /\ UNCHANGED <<kbRepeat, kbButtons>>

ReleaseNow(k) ==
    /\ ~MouseKey(k)
    /\ kbPressed' = kbPressed \ {k}
    /\ kbMods' = ReleaseMods(k) /\ UNCHANGED kbGroup /\ KbNotify
    /\ kbBounced' = Bounce(k)
    /\ kbRepeat' = IF kbRepeat = k THEN "none" ELSE kbRepeat
    /\ UNCHANGED kbButtons

KeyRelease(k) ==
    /\ k \in kbHeld
    /\ kbHeld' = kbHeld \ {k}
    /\ ReleaseMouseKey(k) \/ ReleaseNow(k)
    /\ UNCHANGED <<kbCtrls, kbDflt, kbFake, kbGroup, kbBuf, kbMask, kbClean>>

\* debounce_delay after a release.
DebounceExpires(k) ==
    /\ k \in kbBounced
    /\ kbBounced' = kbBounced \ {k}
    /\ UNCHANGED <<kbCtrls, kbHeld, kbFake, kbPressed, kbMods, kbGroup, kbRepeat, kbBuf,
                   kbDflt, kbButtons, kbMask, kbSeen, kbClean>>

(***************************************************************************)
(* Requests.                                                               *)
(***************************************************************************)
FakeInput(k, press) ==
    /\ kbFake' = IF press THEN kbFake \cup {k} ELSE kbFake \ {k}
    /\ kbPressed' = IF press THEN kbPressed \cup {k} ELSE kbPressed \ {k}
    /\ kbMods' = IF press THEN PressMods(k) ELSE ReleaseMods(k)
    /\ kbBounced' = IF press THEN kbBounced ELSE Bounce(k)
    /\ UNCHANGED kbGroup /\ KbNotify
    /\ UNCHANGED <<kbCtrls, kbHeld, kbRepeat, kbBuf, kbDflt, kbButtons, kbMask, kbClean>>

\* r.locks and r.latches: pairs of the modifiers affected and their values;
\* r.lockGroup and r.latchGroup: sets that hold the new group, or nothing.
LatchLockState(r) ==
    LET chosen(old, new) == IF new = {} THEN old ELSE CHOOSE g \in new : TRUE
    IN  /\ kbMods' = [kbMods EXCEPT
                        !.locked = (@ \ r.locks[1]) \cup (r.locks[2] \cap r.locks[1]),
                        !.latched = (@ \ r.latches[1]) \cup (r.latches[2] \cap r.latches[1])]
        /\ kbGroup' = [latched |-> chosen(kbGroup.latched, r.latchGroup),
                       locked |-> chosen(kbGroup.locked, r.lockGroup)]
        /\ KbNotify
        /\ UNCHANGED <<kbCtrls, kbHeld, kbFake, kbPressed, kbRepeat, kbBounced, kbBuf,
                       kbDflt, kbButtons, kbMask, kbClean>>

\* dflt: the set that holds the new default button, or nothing when the
\* request does not change the MouseKeys parameters.
SetControls(enable, affect, dflt) ==
    /\ kbCtrls' = (kbCtrls \cup enable) \ (affect \ enable)
    /\ kbSeen' = IF "Controls" \in kbMask THEN [kbSeen EXCEPT !.ctrls = {kbCtrls'}] ELSE kbSeen
    /\ kbDflt' = IF dflt = {} THEN kbDflt ELSE CHOOSE b \in dflt : TRUE
    /\ kbClean' = (kbClean /\ (<<kbCtrls', kbDflt'>> = <<kbCtrls, kbDflt>> \/ kbHeld \cup kbFake = {}))
    /\ UNCHANGED <<kbHeld, kbFake, kbPressed, kbMods, kbGroup, kbRepeat, kbBounced, kbBuf,
                   kbButtons, kbMask>>

\* What a client forgets by deselecting it has to ask for again.
SelectEvents(affect, clear, all) ==
    LET mask == (kbMask \ affect) \cup ((all \cap affect) \ clear)
    IN  /\ kbMask' = mask
        /\ kbSeen' = [state |-> IF "State" \in mask THEN kbSeen.state ELSE {},
                      ctrls |-> IF "Controls" \in mask THEN kbSeen.ctrls ELSE {}]
        /\ UNCHANGED <<kbCtrls, kbHeld, kbFake, kbPressed, kbMods, kbGroup, kbRepeat,
                       kbBounced, kbBuf, kbDflt, kbButtons, kbClean>>

GetState ==
    /\ "State" \in kbMask
    /\ kbSeen' = [kbSeen EXCEPT !.state = {XkbStateOf(kbMods, kbGroup)}]
    /\ UNCHANGED <<kbCtrls, kbHeld, kbFake, kbPressed, kbMods, kbGroup, kbRepeat, kbBounced,
                   kbBuf, kbDflt, kbButtons, kbMask, kbClean>>

GetControls ==
    /\ "Controls" \in kbMask
    /\ kbSeen' = [kbSeen EXCEPT !.ctrls = {kbCtrls}]
    /\ UNCHANGED <<kbCtrls, kbHeld, kbFake, kbPressed, kbMods, kbGroup, kbRepeat, kbBounced,
                   kbBuf, kbDflt, kbButtons, kbMask, kbClean>>

KbNext ==
    /\ kbSteps < KbMaxSteps /\ kbSteps' = kbSteps + 1
    /\ \/ \E k \in KbKeys : \/ KeyPress(k) \/ KeyRelease(k) \/ DebounceExpires(k)
                            \/ \E press \in BOOLEAN : FakeInput(k, press)
       \/ \E r \in KbLatchReqs : LatchLockState(r)
       \/ \E ctrl \in KbCtrls, on \in BOOLEAN : SetControls(IF on THEN {ctrl} ELSE {}, {ctrl}, {})
       \/ \E b \in KbDflts : SetControls({}, {}, {b})
       \/ \E all \in {{}, KbEvents} : SelectEvents(KbEvents, {}, all)
       \/ GetState \/ GetControls

KbSpec == KbInit /\ [][KbNext]_kbVars

(***************************************************************************)
(* Properties.                                                             *)
(***************************************************************************)
\* While no control and no default button is changed under a pressed key (a
\* button changed so is never released), nothing outlives the key
\* that caused it, whatever the order in which the browser and XTEST press
\* and release, and whichever presses the controls swallow: not its modifier,
\* not its bit in pressed_keys, not its repeat (a repeat that outlives its key
\* types for ever), not the button MouseKeys holds down.
NoStuckKeys ==
    kbClean =>
        /\ kbMods.base \subseteq UNION {KbMod[k] : k \in kbHeld \cup kbFake}
        /\ kbPressed \subseteq kbHeld \cup kbFake
        /\ kbRepeat \in kbHeld \cup {"none"}
        /\ kbButtons # {} => kbHeld \cap KbClickKeys # {}

\* A client that asked for the state once and follows the notifications knows
\* the effective modifiers, the group and the enabled controls.
ListenerFollows ==
    /\ kbSeen.state \subseteq {XkbStateOf(kbMods, kbGroup)}
    /\ kbSeen.ctrls \subseteq {kbCtrls}
=============================================================================
