-------------------------------- MODULE XEwmh --------------------------------
(***************************************************************************)
(* The window manager inside the X11 server, for one top-level window: the *)
(* client messages that ask for another state or place, and the browser,   *)
(* which changes both on its own.  The server keeps the EWMH state, the    *)
(* ICCCM WM_STATE, the geometry, the geometry to come back to and the      *)
(* framebuffer, and tells the browser what became of them.                 *)
(*                                                                         *)
(* Abstracted: one dimension; the two maximised atoms are one.  Also here: *)
(* where SendEvent delivers an event, as a function of a chain of windows. *)
(***************************************************************************)
EXTENDS Integers, Sequences

CONSTANTS EwXs, EwWidths,  \* places and widths the requests ask for
          EwScreens,       \* widths of the screen
          EwMaxSteps       \* bound on the number of requests

EwStates == {"full", "max", "hidden", "modal"}
EwWmStates == {"Normal", "Minimized", "Maximized", "Fullscreen"}
EwGeos == [x : EwXs \cup {0}, w : EwWidths \cup EwScreens]

VARIABLES
    ewAtoms,    \* _NET_WM_STATE
    ewWmState,  \* WM_STATE: "none", "normal", "iconic"
    ewGeo,      \* geometry of the window
    ewFb,       \* width of its framebuffer
    ewSaved,    \* saved_geometry: {} or {geometry}
    ewModal,    \* the window is modal for the input routing
    ewTold,     \* state the browser was told last
    ewToldGeo,  \* geometry the browser was told last
    ewScreen,   \* width of the screen
    ewStrut,    \* left strut of the window: {} or {width}
    ewWork,     \* _NET_WORKAREA of the root window
    ewAsked,    \* the client was asked to close the window
    ewAlive,    \* the window exists
    ewHome,     \* the geometry last asked for outside fullscreen (history)
    ewLoose,    \* the window was resized without its framebuffer (history)
    ewSteps

ewVars == <<ewAtoms, ewWmState, ewGeo, ewFb, ewSaved, ewModal, ewTold, ewToldGeo, ewScreen,
            ewStrut, ewWork, ewAsked, ewAlive, ewHome, ewLoose, ewSteps>>
ewPlace == <<ewGeo, ewFb, ewSaved, ewToldGeo, ewHome, ewLoose>>
ewRoot == <<ewScreen, ewStrut, ewWork>>
ewLife == <<ewAsked, ewAlive>>

EwInit ==
    /\ ewAtoms = {} /\ ewWmState = "none" /\ ewModal = FALSE /\ ewTold = "Normal"
    /\ ewGeo \in [x : EwXs, w : EwWidths]
    /\ ewFb = ewGeo.w /\ ewToldGeo = ewGeo /\ ewHome = ewGeo /\ ewSaved = {} /\ ewLoose = FALSE
    /\ ewScreen \in EwScreens /\ ewStrut = {} /\ ewWork = [x |-> 0, w |-> ewScreen]
    /\ ewAsked = FALSE /\ ewAlive = TRUE /\ ewSteps = 0

EwStep == ewAlive /\ ewSteps < EwMaxSteps /\ ewSteps' = ewSteps + 1

(***************************************************************************)
(* _NET_WM_STATE.                                                          *)
(***************************************************************************)
Edited(action, atoms) ==
    CASE action = "remove" -> ewAtoms \ atoms
      [] action = "add"    -> ewAtoms \cup atoms
      [] action = "toggle" -> (ewAtoms \ atoms) \cup (atoms \ ewAtoms)

StateOf(atoms) ==
    CASE "full" \in atoms   -> "Fullscreen"
      [] "max" \in atoms    -> "Maximized"
      [] "hidden" \in atoms -> "Minimized"
      [] OTHER              -> "Normal"

Enlarged(atoms) == atoms \cap {"full", "max"} # {}

\* A slip: going from maximised to fullscreen saves the geometry once more.
EnlargeAgain(atoms) == Enlarged(atoms)

\* The geometry is saved, and the window made as large as the screen, only when
\* none is saved yet.
Enlarges(atoms) == Enlarged(atoms) /\ ewSaved = {}
Restores(atoms) == ~Enlarged(atoms) /\ ewSaved # {}

Enlarge ==
    LET g == [x |-> 0, w |-> ewScreen]
    IN  /\ ewSaved' = {ewGeo} /\ ewGeo' = g /\ ewToldGeo' = g
        /\ ewFb' = g.w /\ ewLoose' = FALSE /\ UNCHANGED ewHome

Restore ==
    \E g \in ewSaved :
        /\ ewSaved' = {} /\ ewGeo' = g /\ ewToldGeo' = g
        /\ ewFb' = g.w /\ ewLoose' = FALSE /\ UNCHANGED ewHome

NetWmState(action, atoms) ==
    LET new == Edited(action, atoms)
    IN  /\ EwStep
        /\ ewAtoms' = new /\ ewTold' = StateOf(new) /\ ewModal' = ("modal" \in new)
        /\ CASE Enlarges(new) -> Enlarge
             [] Restores(new) -> Restore
             [] OTHER -> UNCHANGED ewPlace
        /\ UNCHANGED <<ewWmState, ewRoot, ewLife>>

(***************************************************************************)
(* The other messages to the root window.                                  *)
(***************************************************************************)
\* Iconify replaces the whole state, de-iconify removes the hidden atom and
\* reports a normal window; neither moves the window or changes WM_STATE.
WmChangeState(hide) ==
    /\ EwStep
    /\ ewAtoms' = (IF hide THEN {"hidden"} ELSE ewAtoms \ {"hidden"})
    /\ ewTold' = (IF hide THEN "Minimized" ELSE "Normal")
    /\ UNCHANGED <<ewWmState, ewModal, ewPlace, ewRoot, ewLife>>

\* A move or resize started by the client is reported as a normal window.
NetWmMoveResize ==
    /\ EwStep /\ ewTold' = "Normal"
    /\ UNCHANGED <<ewAtoms, ewWmState, ewModal, ewPlace, ewRoot, ewLife>>

\* The flags choose what is set, the report carries the numbers of the message;
\* the framebuffer keeps its size.
NetMoveResizeWindow(g, flags) ==
    LET new == [x |-> IF "x" \in flags THEN g.x ELSE ewGeo.x,
                w |-> IF "w" \in flags THEN g.w ELSE ewGeo.w]
    IN  /\ EwStep
        /\ ewGeo' = new /\ ewToldGeo' = g
        /\ ewHome' = IF ewSaved = {} THEN new ELSE ewHome
        /\ ewLoose' = (ewLoose \/ "w" \in flags)
        /\ UNCHANGED <<ewAtoms, ewWmState, ewModal, ewTold, ewFb, ewSaved, ewRoot, ewLife>>

\* A raise, a pong, a request for the frame extents: nothing kept here changes.
NetRestackWindow == EwStep /\ UNCHANGED <<ewAtoms, ewWmState, ewModal, ewTold, ewPlace, ewRoot, ewLife>>

\* deletes: the window lists WM_DELETE_WINDOW among its protocols.  Without it a
\* client's request to close is ignored.
NetCloseWindow(deletes) ==
    /\ EwStep /\ ewAsked' = (ewAsked \/ deletes)
    /\ UNCHANGED <<ewAlive, ewAtoms, ewWmState, ewModal, ewTold, ewPlace, ewRoot>>

\* The browser's is not: the window is destroyed.
BrowserCloses(deletes) ==
    /\ EwStep
    /\ ewAsked' = (ewAsked \/ deletes) /\ ewAlive' = deletes
    /\ UNCHANGED <<ewAtoms, ewWmState, ewModal, ewTold, ewPlace, ewRoot>>

(***************************************************************************)
(* The browser.                                                            *)
(***************************************************************************)
AtomsFor(state) ==
    CASE state = "Normal"     -> {}
      [] state = "Minimized"  -> {"hidden"}
      [] state = "Maximized"  -> {"max"}
      [] state = "Fullscreen" -> {"full"}

\* The state is replaced; the geometry follows in a resize of its own.
WindowManage(state) ==
    /\ EwStep
    /\ ewAtoms' = AtomsFor(state) /\ ewTold' = state
    /\ ewWmState' = IF state = "Minimized" THEN "iconic" ELSE "normal"
    /\ UNCHANGED <<ewModal, ewPlace, ewRoot, ewLife>>

ResizeWindow(w) ==
    LET g == [ewGeo EXCEPT !.w = w]
    IN  /\ EwStep
        /\ ewGeo' = g /\ ewToldGeo' = g /\ ewFb' = w /\ ewLoose' = FALSE
        /\ ewHome' = IF ewSaved = {} THEN g ELSE ewHome
        /\ UNCHANGED <<ewAtoms, ewWmState, ewModal, ewTold, ewSaved, ewRoot, ewLife>>

(***************************************************************************)
(* ConfigureWindow, by the client that owns the window.                    *)
(***************************************************************************)
\* What the request names is written first.  A height of zero or an unknown stack
\* mode ("refused") is found only then: the request ends there, with the width
\* written, the framebuffer as it was and nothing told.
ConfigureWindow(g, flags, refused) ==
    LET new == [x |-> IF "x" \in flags THEN g.x ELSE ewGeo.x,
                w |-> IF "w" \in flags THEN g.w ELSE ewGeo.w]
    IN  /\ EwStep /\ flags # {}
        /\ ewGeo' = new
        /\ ewHome' = IF ewSaved = {} THEN new ELSE ewHome
        /\ IF refused
           THEN ewLoose' = (ewLoose \/ "w" \in flags) /\ UNCHANGED <<ewFb, ewToldGeo>>
           ELSE ewLoose' = FALSE /\ ewFb' = new.w /\ ewToldGeo' = new
        /\ UNCHANGED <<ewAtoms, ewWmState, ewModal, ewTold, ewSaved, ewRoot, ewLife>>

(***************************************************************************)
(* The screen.                                                             *)
(***************************************************************************)
WorkArea(strut, screen) ==
    LET left == IF strut = {} THEN 0 ELSE CHOOSE s \in strut : TRUE
    IN  [x |-> left, w |-> IF screen > left THEN screen - left ELSE 0]

RecalculateWorkarea(s) ==
    /\ EwStep
    /\ ewStrut' = {s} /\ ewWork' = WorkArea({s}, ewScreen)
    /\ UNCHANGED <<ewScreen, ewAtoms, ewWmState, ewModal, ewTold, ewPlace, ewLife>>

\* A new screen size makes the whole screen the work area: the struts are not
\* looked at, and no enlarged window follows.
ApplyScreenResize(w) ==
    /\ w # ewScreen /\ EwStep
    /\ ewScreen' = w /\ ewWork' = [x |-> 0, w |-> w]
    /\ UNCHANGED <<ewStrut, ewAtoms, ewWmState, ewModal, ewTold, ewPlace, ewLife>>

EwNext ==
    \/ \E action \in {"remove", "add", "toggle"},
          atoms \in {{"full"}, {"max"}, {"hidden"}, {"max", "modal"}} : NetWmState(action, atoms)
    \/ \E hide \in BOOLEAN : WmChangeState(hide)
    \/ NetWmMoveResize \/ NetRestackWindow
    \/ \E deletes \in BOOLEAN : NetCloseWindow(deletes) \/ BrowserCloses(deletes)
    \/ \E g \in [x : EwXs, w : EwWidths], flags \in SUBSET {"x", "w"} : 
            \/ NetMoveResizeWindow(g, flags)
            \/ \E refused \in BOOLEAN : ConfigureWindow(g, flags, refused)
    \/ \E state \in EwWmStates : WindowManage(state)
    \/ \E w \in EwWidths \cup EwScreens : ResizeWindow(w)
    \/ \E s \in EwWidths : RecalculateWorkarea(s)
    \/ \E w \in EwScreens : ApplyScreenResize(w)

EwSpec == EwInit /\ [][EwNext]_ewVars

(***************************************************************************)
(* Where SendEvent delivers.  A chain is a sequence of windows, the root   *)
(* first, each [x, w, mapped, mask, blocks]; mask is what clients select.  *)
(***************************************************************************)
\* A slip: a window that blocks the event may still take it.
PropagateLate(chain, from, mask) ==
    LET takes(i) == IF mask = {} THEN chain[i].mask # {} ELSE chain[i].mask \cap mask # {}
        up[i \in 0..Len(chain)] ==
            IF i = 0 THEN 0 ELSE IF takes(i) THEN i
            ELSE IF chain[i].blocks THEN 0 ELSE up[i - 1]
    IN  up[from]

\* The first window on the way to the root that selects the event (any event,
\* with an empty mask), unless one before it, or it itself, does not propagate it.
\* 0: the event is dropped.
Propagate(chain, from, mask) ==
    LET takes(i) == IF mask = {} THEN chain[i].mask # {} ELSE chain[i].mask \cap mask # {}
        up[i \in 0..Len(chain)] ==
            IF i = 0 \/ chain[i].blocks THEN 0 ELSE IF takes(i) THEN i ELSE up[i - 1]
    IN  up[from]

\* Without propagation only the target counts (what this connection selects on
\* it), and an empty mask always fits.
DeliveryTarget(chain, from, mask, propagate) ==
    IF propagate THEN Propagate(chain, from, mask)
    ELSE IF mask # {} /\ chain[from].mask \cap mask = {} THEN 0 ELSE from

(***************************************************************************)
(* Properties.                                                             *)
(***************************************************************************)
EwTypeOK ==
    /\ ewAtoms \subseteq EwStates /\ ewWmState \in {"none", "normal", "iconic"}
    /\ ewGeo \in EwGeos /\ ewToldGeo \in EwGeos /\ ewSaved \subseteq EwGeos /\ ewHome \in EwGeos
    /\ ewFb \in EwWidths \cup EwScreens /\ ewTold \in EwWmStates /\ ewModal \in BOOLEAN
    /\ ewScreen \in EwScreens /\ ewLoose \in BOOLEAN /\ ewAlive \in BOOLEAN

\* Whatever sequence of maximising, fullscreen, iconifying and moving comes, by
\* the client or the browser, the geometry kept for the way back is the one the
\* window had before it was enlarged, and a window that came back has it.
GeometryRestored == IF ewSaved = {} THEN ewGeo = ewHome ELSE ewSaved = {ewHome}

\* The framebuffer is as large as the window, whatever resized it last, but for
\* the two requests that write the width alone: _NET_MOVERESIZE_WINDOW, and a
\* ConfigureWindow that is refused after its width.  Anything else that resizes
\* the window brings the two together again.
FramebufferFits == ewLoose \/ ewFb = ewGeo.w

\* An event that is sent with propagation reaches the nearest window that wants
\* it, never one behind a window that does not let it pass, and is dropped only
\* if there is none.
DeliveredNearest ==
    LET link == [x : {0}, w : {2}, mapped : {TRUE}, mask : SUBSET {"k"}, blocks : BOOLEAN]
    IN  \A chain \in [1..3 -> link], from \in 1..3, mask \in SUBSET {"k"} :
            LET open(i) == \A j \in i..from : ~chain[j].blocks
                wants(i) == chain[i].mask # {} /\ open(i)
                at == DeliveryTarget(chain, from, mask, TRUE)
            IN  IF at = 0 THEN \A i \in 1..from : ~wants(i)
                ELSE at <= from /\ wants(at) /\ \A i \in at + 1..from : ~wants(i)
=============================================================================
