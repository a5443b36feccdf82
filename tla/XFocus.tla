------------------------------- MODULE XFocus -------------------------------
(***************************************************************************)
(* The input focus.  It is server-wide (shared_focus), but every client    *)
(* keeps a copy (focus_window) that is refreshed only by GetInputFocus,    *)
(* by XTEST key events and by a click; the requests that move the focus    *)
(* or take it away from a dying window work on the copy, and the browser   *)
(* is told of a change only when the copy says there was one.              *)
(*                                                                         *)
(* Abstracted: which windows exist is one set (XRegistry is about the      *)
(* copies of it), and fcCopies only tells which windows of others a client *)
(* has pulled into its own table; every window a client creates has its    *)
(* uuid; focus and key events are operators, checked against what they     *)
(* should compute.                                                         *)
(***************************************************************************)
EXTENDS Naturals, Sequences, SequencesExt, XWalks

CONSTANTS FcClients,    \* connections
          FcRoot,       \* the root window
          FcOrder,      \* all other windows, parents before their children
          FcParent,     \* FcParent[w]
          FcOwner,      \* FcOwner[w]: the client that creates w
          FcSelects,    \* windows that select key events
          FcStops,      \* windows whose do_not_propagate_mask holds them back
          FcNoInput,    \* windows whose WM_HINTS refuse the focus
          FcReverts,    \* the revert-to values clients ask for
          FcLookUps     \* <<c, w>>: c asks for the attributes of another's window w

FcWins == ToSet(FcOrder)

ASSUME FcAssumption ==
    /\ FcOrder \in Seq(FcWins) /\ FcRoot \notin FcWins
    /\ FcParent \in [FcWins -> FcWins \cup {FcRoot}]
    /\ FcOwner \in [FcWins -> FcClients]
    /\ FcNoInput \subseteq FcWins
    /\ FcReverts \subseteq {"None", "PointerRoot", "Parent"}
    /\ IsTree(FcParent, FcRoot, Len(FcOrder))
    /\ (FcWins \cup {FcRoot}) \cap {"None", "PointerRoot", "none"} = {}

VARIABLES
    fcLive,     \* windows that exist
    fcMapped,   \* the mapped ones
    fcUp,       \* clients that are connected
    fcLocal,    \* focus_window of every client
    fcRevert,   \* focus_revert_to of every client
    fcShared,   \* shared_focus
    fcTold,     \* the window of the last WindowFocused update, or "none"
    fcCopies    \* windows of others in every client's own table

fcVars == <<fcLive, fcMapped, fcUp, fcLocal, fcRevert, fcShared, fcTold, fcCopies>>

Reverts == {"None", "PointerRoot", "Parent"}
FcSpecial == {"None", "PointerRoot"}
FcTargets == FcWins \cup {FcRoot} \cup FcSpecial

FcTypeOK ==
    /\ fcMapped \subseteq fcLive /\ fcLive \subseteq FcWins
    /\ fcUp \subseteq FcClients
    /\ fcLocal \in [FcClients -> FcTargets]
    /\ fcRevert \in [FcClients -> Reverts]
    /\ fcShared \in FcTargets
    /\ fcTold \in FcWins \cup {"none"}
    /\ fcCopies \in [FcClients -> SUBSET FcWins]

FcInit ==
    /\ fcLive = FcWins /\ fcMapped = {}
    /\ fcUp = FcClients
    /\ fcLocal = [c \in FcClients |-> FcRoot]
    /\ fcRevert = [c \in FcClients |-> "PointerRoot"]
    /\ fcShared = FcRoot
    /\ fcTold = "none"
    /\ fcCopies = [c \in FcClients |-> {}]

(***************************************************************************)
(* The focus of client c as its handlers see it: the copy, the shared      *)
(* value and what the browser was told.                                    *)
(***************************************************************************)
Focus(c) == [local |-> fcLocal[c], shared |-> fcShared, told |-> fcTold]

FcAll == FcWins \cup {FcRoot}
FcUp == Upwards(FcParent, FcRoot)

\* top_level_uuid_for: the client's own window, or through the copies it has of
\* others' windows up to one of its own, or nothing.
UuidFor(c, w) ==
    LET own == {v \in fcLive : FcOwner[v] = c}
        top == Last(Walk(FcUp, w, FcAll \ (fcCopies[c] \ own), Len(FcOrder)))
    IN  IF w \in FcAll /\ top \in own THEN top ELSE "none"

\* set_focus_window
SetFocusWindow(c, f, w) ==
    [local |-> w, shared |-> w,
     told |-> IF UuidFor(c, f.local) = UuidFor(c, w) THEN f.told ELSE UuidFor(c, w)]

\* revert_focus_from: only if the copy says w has the focus.
RevertTarget(c, w) ==
    CASE fcRevert[c] = "Parent" -> IF w \in fcLive /\ FcParent[w] \in fcLive THEN FcParent[w] ELSE FcRoot
      [] OTHER                  -> fcRevert[c]
RevertFocusFrom(c, f, w) ==
    IF f.local # w THEN f ELSE SetFocusWindow(c, f, RevertTarget(c, w))

Leaves(c, f) ==
    /\ fcLocal' = [fcLocal EXCEPT ![c] = f.local]
    /\ fcShared' = f.shared
    /\ fcTold' = f.told

\* The window and its ancestors, up to the root or to one that is gone.
FcPath(w) == Walk(FcUp, w, FcAll \ fcLive, Len(FcOrder))
FcChain(w) == IF w \in fcLive THEN Tail(FcPath(w)) ELSE <<>>      \* ancestor_chain
Below(w) == Kept(FcOrder, {v \in fcLive : w \in ToSet(FcChain(v))})

(***************************************************************************)
(* The requests.                                                           *)
(***************************************************************************)
SetInputFocus(c, w, revert) ==
    /\ c \in fcUp
    /\ w \in fcLive \cup {FcRoot} \cup FcSpecial
    /\ fcRevert' = [fcRevert EXCEPT ![c] = revert]
    /\ Leaves(c, SetFocusWindow(c, Focus(c), w))
    /\ UNCHANGED <<fcLive, fcMapped, fcUp, fcCopies>>

\* GetInputFocus, and an XTEST key event, which refresh the copy first.
GetInputFocus(c) ==
    /\ c \in fcUp
    /\ fcLocal' = [fcLocal EXCEPT ![c] = fcShared]
    /\ UNCHANGED <<fcLive, fcMapped, fcUp, fcRevert, fcShared, fcTold, fcCopies>>

\* ChangeWindowAttributes and GetWindowAttributes pull another client's window
\* into the client's own table.
FcLookUp(c, w) ==
    /\ c \in fcUp /\ w \in fcLive \ fcCopies[c] /\ <<c, w>> \in FcLookUps /\ FcOwner[w] # c
    /\ fcCopies' = [fcCopies EXCEPT ![c] = @ \cup {w}]
    /\ UNCHANGED <<fcLive, fcMapped, fcUp, fcLocal, fcRevert, fcShared, fcTold>>

\* A ButtonPress from the browser on a top-level window of c.
ClickToFocus(c, w) ==
    LET f == [Focus(c) EXCEPT !.local = fcShared]
        top == Kept(<<f.local>> \o FcChain(f.local), {v \in fcLive : FcParent[v] = FcRoot})
    IN  /\ c \in fcUp /\ w \in fcLive /\ FcOwner[w] = c /\ FcParent[w] = FcRoot
        /\ IF top = <<w>> THEN Leaves(c, f)
           ELSE Leaves(c, [SetFocusWindow(c, f, w) EXCEPT !.told = w])
        /\ UNCHANGED <<fcLive, fcMapped, fcUp, fcRevert, fcCopies>>

\* A _NET_ACTIVE_WINDOW message names any window, without asking whether it exists.
NetActiveWindow(c, w) ==
    /\ c \in fcUp /\ w \notin FcNoInput
    /\ Leaves(c, SetFocusWindow(c, Focus(c), w))
    /\ UNCHANGED <<fcLive, fcMapped, fcUp, fcRevert, fcCopies>>

\* Mapping a top-level window that accepts input focuses it.
FcMap(c, w) ==
    /\ c \in fcUp /\ w \in fcLive \ fcMapped /\ FcOwner[w] = c
    /\ fcMapped' = fcMapped \cup {w}
    /\ IF FcParent[w] = FcRoot /\ w \notin FcNoInput
       THEN Leaves(c, SetFocusWindow(c, Focus(c), w))
       ELSE UNCHANGED <<fcLocal, fcShared, fcTold>>
    /\ UNCHANGED <<fcLive, fcUp, fcRevert, fcCopies>>

FcUnmap(c, w) ==
    /\ c \in fcUp /\ w \in fcMapped
    /\ fcMapped' = fcMapped \ {w}
    /\ Leaves(c, RevertFocusFrom(c, Focus(c), w))
    /\ UNCHANGED <<fcLive, fcUp, fcRevert, fcCopies>>

\* DestroyWindow reverts from the window, then from each descendant in turn.
DestroyReverts(c, w) ==
    LET doomed == <<w>> \o Below(w)
        f[n \in 0..Len(doomed)] ==
            IF n = 0 THEN Focus(c) ELSE RevertFocusFrom(c, f[n-1], doomed[n])
    IN  f[Len(doomed)]

\* Mutant: the destroyed windows stay in the set of mapped ones.
FcDestroyKeepsMapped(c, w) ==
    LET gone == {w} \cup ToSet(Below(w))
    IN  /\ c \in fcUp /\ w \in fcLive
        /\ Leaves(c, DestroyReverts(c, w))
        /\ fcLive' = fcLive \ gone
        /\ fcCopies' = [fcCopies EXCEPT ![c] = @ \ gone]
        /\ UNCHANGED <<fcMapped, fcUp, fcRevert>>

FcDestroy(c, w) ==
    LET gone == {w} \cup ToSet(Below(w))
    IN  /\ c \in fcUp /\ w \in fcLive
        /\ Leaves(c, DestroyReverts(c, w))
        /\ fcLive' = fcLive \ gone /\ fcMapped' = fcMapped \ gone
        /\ fcCopies' = [fcCopies EXCEPT ![c] = @ \ gone]
        /\ UNCHANGED <<fcUp, fcRevert>>

FcDestroySubwindows(c, w) ==
    LET gone == ToSet(Below(w))
    IN  /\ c \in fcUp /\ w \in fcLive /\ gone # {}
        /\ Leaves(c, IF fcLocal[c] \in gone THEN RevertFocusFrom(c, Focus(c), fcLocal[c])
                     ELSE Focus(c))
        /\ fcLive' = fcLive \ gone /\ fcMapped' = fcMapped \ gone
        /\ fcCopies' = [fcCopies EXCEPT ![c] = @ \ gone]
        /\ UNCHANGED <<fcUp, fcRevert>>

\* The connection closes (the focus is reverted) or breaks (it is not).
FcDisconnect(c, clean) ==
    LET gone == {w \in fcLive : FcOwner[w] = c}
    IN  /\ c \in fcUp
        /\ fcUp' = fcUp \ {c}
        /\ Leaves(c, IF clean /\ fcLocal[c] \in gone
                     THEN RevertFocusFrom(c, Focus(c), fcLocal[c]) ELSE Focus(c))
        /\ fcLive' = fcLive \ gone /\ fcMapped' = fcMapped \ gone
        /\ fcCopies' = [fcCopies EXCEPT ![c] = {}]
        /\ UNCHANGED fcRevert

FcNext == \E c \in FcClients :
    \/ \E w \in FcTargets, r \in FcReverts : SetInputFocus(c, w, r)
    \/ GetInputFocus(c)
    \/ \E clean \in BOOLEAN : FcDisconnect(c, clean)
    \/ \E w \in FcWins :
        \/ ClickToFocus(c, w) \/ NetActiveWindow(c, w) \/ FcLookUp(c, w)
        \/ FcMap(c, w) \/ FcUnmap(c, w)
        \/ FcDestroy(c, w) \/ FcDestroySubwindows(c, w)

FcSpec == FcInit /\ [][FcNext]_fcVars

(***************************************************************************)
(* The focus events of a move from old to new: compute_focus_detail and    *)
(* the loops of set_focus_window that send them.                           *)
(***************************************************************************)
Before(s, w) == SubSeq(s, 1, IndexIn(s, w) - 1)

VirtualPath(old, new) ==
    LET oc == FcChain(old)
        nc == FcChain(new)
        met == Kept(oc, ToSet(nc) \cup {FcRoot})
    IN  IF {old, new} \cap FcSpecial # {} THEN <<>>
        ELSE IF old \in ToSet(nc) THEN Before(nc, old)
        ELSE IF new \in ToSet(oc) THEN Before(oc, new)
        ELSE IF met = <<>> THEN <<>>
        ELSE Before(oc, Head(met)) \o <<Head(met)>>
             \o Reverse(IF Head(met) \in ToSet(nc) THEN Before(nc, Head(met)) ELSE nc)

\* Both loops walk the whole virtual path.
FocusEvents(old, new) ==
    LET way == Kept(VirtualPath(old, new), FcAll \ {old, new})
        out == CASE old = "None"        -> <<>>
                 [] old = "PointerRoot" -> <<FcRoot>>
                 [] OTHER               -> <<old>> \o way
        in  == CASE new = "None"        -> <<>>
                 [] new = "PointerRoot" -> <<FcRoot>>
                 [] OTHER               -> Reverse(way) \o <<new>>
    IN  [out |-> out, in |-> in]

\* The windows that exist and have not lost an ancestor of another client.
Attached == {w \in fcLive \cup {FcRoot} : Last(FcPath(w)) = FcRoot}

\* Of two such windows, each that has the old focus below it and not the new one
\* hears FocusOut and each that gains it hears FocusIn, all of them once: the losers
\* from the inside out, the gainers from the outside in when the focus moves down.
\* When it moves across the tree the new window is the last to hear and its ancestors
\* come first from the inside out: the loop that sends FocusIn reverses a path that
\* already leads down to the new window.
FocusEventsComplete ==
    \A old, new \in Attached : old # new =>
        LET losers == Kept(FcPath(old), FcAll \ ToSet(FcPath(new)))
            gainers == Kept(FcPath(new), FcAll \ ToSet(FcPath(old)))
            ev == FocusEvents(old, new)
            down == gainers = <<>> \/ old \in ToSet(FcPath(new))
        IN  /\ Kept(ev.out, ToSet(losers)) = losers
            /\ Kept(ev.in, ToSet(gainers)) =
                   IF down THEN Reverse(gainers) ELSE Tail(gainers) \o <<new>>

(***************************************************************************)
(* Key events: propagate_keyboard_event and resolve_keyboard_event_target. *)
(***************************************************************************)
PropagateKey(w) ==
    LET ends == FcSelects \cup FcStops \cup (FcAll \ fcLive)
        v == Last(Walk(FcUp, w, ends, Len(FcOrder)))
    IN  IF v \notin fcLive \cup {FcRoot} THEN w
        ELSE IF v \in FcSelects THEN v
        ELSE IF v \in FcStops THEN "None" ELSE w

KeyTarget(focus, top, grab) ==
    LET from == IF focus \in {"PointerRoot", FcRoot} THEN top ELSE focus
        t == PropagateKey(from)
    IN  IF grab # {}
        THEN LET g == CHOOSE x \in grab : TRUE
             IN  IF g.owner /\ focus # "None" /\ t \in FcSelects \cap (fcLive \cup {FcRoot})
                 THEN t ELSE g.win
        ELSE IF focus = "None" THEN "None"
        ELSE IF focus \in {"PointerRoot", FcRoot} THEN top ELSE t

\* A key finds the nearest window from the focus upwards that selects it and
\* is not cut off by one that stops it below; a grab that shares events with
\* its owner does not take it away.
KeysFindSelector ==
    \A w \in Attached \cap fcLive, g \in {{}} \cup {{[win |-> v, owner |-> TRUE]} : v \in fcLive} :
        LET ends == Kept(FcPath(w), FcSelects \cup FcStops)
        IN  ends # <<>> /\ Head(ends) \in FcSelects => KeyTarget(w, w, g) = Head(ends)

=============================================================================
