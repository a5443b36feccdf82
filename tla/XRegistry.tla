----------------------------- MODULE XRegistry -----------------------------
(***************************************************************************)
(* The X11 server's window registries.  A client is a task that works on   *)
(* its own copy of the window tree (ClientState.windows) and reconciles it *)
(* with the map all tasks share (shared_windows) in sync_windows, before a *)
(* batch, after a request and on every tick.  A request is therefore one   *)
(* action: the handler and the sync_windows that follows it.  Sync is the  *)
(* reconciliation on its own.                                              *)
(*                                                                         *)
(* Abstracted: a window is its parent, its children and four flags: mapped, *)
(* whether the copy selects SubstructureRedirect, override_redirect and    *)
(* retained_temporary; geometry, properties                                *)
(* and pixels (copied by the same assignments) are left out, events are    *)
(* not delivered, and a window's uuid is the window itself.  Focus is the  *)
(* subject of XFocus, stacking of XStacking.                               *)
(***************************************************************************)
EXTENDS FiniteSets, Naturals

CONSTANTS RegClients,   \* client connections
          RegWins,      \* the XIDs clients may create windows with
          RegRoot,      \* the root window, owned by no client
          RegOwner,     \* RegOwner[w]: the client whose id range holds w
          RegMaxReqs    \* bound on the requests of all clients together

ASSUME RegAssumption ==
    /\ RegRoot \notin RegWins
    /\ RegOwner \in [RegWins -> RegClients]
    /\ RegMaxReqs \in Nat

VARIABLES
    regStatus,   \* "new", "up", "closed" (read 0 bytes), "died" (I/O error)
                 \* or "hung" (the task loops in a handler)
    regLocal,    \* ClientState.windows of every client
    regShared,   \* shared_windows
    regDirty,    \* shared_dirty_windows
    regUuids,    \* x11_to_uuid: the windows a client announced and still holds
    regIndex,    \* the menu tracker's WindowIndex
    regRoutes,   \* WindowRouter: the windows input can be routed to
    regListed,   \* the windows the backend believes to exist
    regSubs,     \* EventBroadcaster: clients selecting redirect on the root
    regWm,       \* WmState.client_id: a client, or {} for none
    regSaveSet,  \* save_set
    regMode,     \* close_down_mode
    regKilled,   \* history: the windows a client announced the end of with
                 \* KillClient, which leaves them in the shared map
    regReqs      \* requests served so far

regVars == <<regStatus, regLocal, regShared, regDirty, regUuids, regIndex,
             regRoutes, regListed, regSubs, regWm, regSaveSet, regMode, regKilled,
             regReqs>>

RegNodes == RegWins \cup {RegRoot}
RegNoParent == "none"
CloseModes == {"Destroy", "RetainPermanent", "RetainTemporary"}

RegWindow == [parent : RegNodes \cup {RegNoParent}, kids : SUBSET RegWins,
              mapped : BOOLEAN, redir : BOOLEAN, ovr : BOOLEAN, kept : BOOLEAN]
IsRegMap(m) == DOMAIN m \subseteq RegNodes /\ m \in [DOMAIN m -> RegWindow]

RegTypeOK ==
    /\ regStatus \in [RegClients -> {"new", "up", "closed", "died", "hung"}]
    /\ DOMAIN regLocal = RegClients /\ \A c \in RegClients : IsRegMap(regLocal[c])
    /\ IsRegMap(regShared)
    /\ regDirty \in [RegClients -> SUBSET RegNodes]
    /\ regUuids \in [RegClients -> SUBSET RegWins]
    /\ {regIndex, regRoutes, regListed} \subseteq SUBSET RegWins
    /\ regSubs \subseteq RegClients
    /\ regWm \subseteq RegClients
    /\ regSaveSet \in [RegClients -> SUBSET RegWins]
    /\ regMode \in [RegClients -> CloseModes]
    /\ regKilled \subseteq RegWins
    /\ regReqs \in 0..RegMaxReqs

RegMine(c, w) == w = RegRoot \/ RegOwner[w] = c

(***************************************************************************)
(* Operators on one window map m.                                          *)
(***************************************************************************)
Without(m, S) == [w \in DOMAIN m \ S |-> m[w]]
Put(m, w, win) == [v \in DOMAIN m \cup {w} |-> IF v = w THEN win ELSE m[v]]
Unlink(m, p, S) ==
    IF p \in DOMAIN m THEN [m EXCEPT ![p].kids = @ \ S] ELSE m
Link(m, p, w) ==
    IF p \in DOMAIN m THEN [m EXCEPT ![p].kids = @ \cup {w}] ELSE m

\* The windows reached from S by the relation Step within RegNodes: the stack
\* walks of the destroy handlers, cut after as many rounds as there are nodes.
RegReach(S, Step(_)) ==
    LET f[n \in 0..Cardinality(RegNodes)] ==
            IF n = 0 THEN S ELSE f[n-1] \cup UNION {Step(v) : v \in f[n-1]}
    IN  f[Cardinality(RegNodes)]

KidsOf(m, w) == IF w \in DOMAIN m THEN m[w].kids ELSE {}
ParentedBy(m, w) == {v \in DOMAIN m : m[v].parent = w}
ParentOf(m, w) ==
    IF w \in DOMAIN m /\ m[w].parent # RegNoParent THEN {m[w].parent} ELSE {}

\* handle_destroy_window follows children_order, handle_destroy_subwindows the
\* parent links: two walks of one tree that its copies may disagree about.
DescendantsByKids(m, w) == RegReach(KidsOf(m, w), LAMBDA v : KidsOf(m, v))
DescendantsByParent(m, w) == RegReach(ParentedBy(m, w), LAMBDA v : ParentedBy(m, v))
Ancestors(m, w) == RegReach(ParentOf(m, w), LAMBDA v : ParentOf(m, v))

(***************************************************************************)
(* sync_windows.  Step 1 pulls, but only when the maps differ in size or   *)
(* the first key of a HashMap (any key) is unknown locally; of a foreign   *)
(* window it already knows it takes only a promotion to mapped.  Step 2    *)
(* pushes the dirty windows; a foreign one is only promoted.               *)
(***************************************************************************)
PullChoices(m, sh) ==
    IF Cardinality(DOMAIN m) # Cardinality(DOMAIN sh) THEN {TRUE}
    ELSE IF DOMAIN sh = {} THEN {FALSE}
    ELSE {k \notin DOMAIN m : k \in DOMAIN sh}

Pulled(c, m, sh) ==
    LET keep == {w \in DOMAIN m : RegMine(c, w) \/ w \in DOMAIN sh}
    IN  [w \in keep \cup DOMAIN sh |->
            IF w \notin DOMAIN m THEN sh[w]
            ELSE IF RegMine(c, w) \/ w \notin DOMAIN sh THEN m[w]
            ELSE [m[w] EXCEPT !.mapped = @ \/ sh[w].mapped]]

Pushed(c, m, sh, dirty) ==
    LET new == {w \in dirty \cap DOMAIN m : w \notin DOMAIN sh /\ RegMine(c, w)}
    IN  [w \in DOMAIN sh \cup new |->
            IF w \in new THEN m[w]
            ELSE IF w \notin dirty \cap DOMAIN m THEN sh[w]
            ELSE [sh[w] EXCEPT !.mapped = m[w].mapped \/ (@ /\ ~RegMine(c, w))]]

\* The handler of c left the copy m, the shared map sh and the dirty set d.
SyncWindows(c, m, sh, d) ==
    \E pull \in PullChoices(m, sh) :
        LET m2 == IF pull THEN Pulled(c, m, sh) ELSE m
        IN  /\ regLocal' = [regLocal EXCEPT ![c] = m2]
            /\ regShared' = Pushed(c, m2, sh, d)
            /\ regDirty' = [regDirty EXCEPT ![c] = {}]

RegInit ==
    LET root == [parent |-> RegNoParent, kids |-> {}, mapped |-> TRUE, redir |-> FALSE,
                 ovr |-> FALSE, kept |-> FALSE]
    IN  /\ regStatus = [c \in RegClients |-> "new"]
        /\ regShared = [w \in {RegRoot} |-> root]
        /\ regLocal = [c \in RegClients |-> [w \in {} |-> root]]
        /\ regDirty = [c \in RegClients |-> {}]
        /\ regUuids = [c \in RegClients |-> {}]
        /\ regIndex = {} /\ regRoutes = {} /\ regListed = {}
        /\ regSubs = {} /\ regWm = {}
        /\ regSaveSet = [c \in RegClients |-> {}]
        /\ regMode = [c \in RegClients |-> "Destroy"]
        /\ regKilled = {}
        /\ regReqs = 0

\* A request of c is being served.
RegRequest(c) ==
    /\ regStatus[c] = "up"
    /\ regReqs < RegMaxReqs
    /\ regReqs' = regReqs + 1

\* A new connection starts from a clone of the shared map.
Connect(c) ==
    /\ regStatus[c] = "new"
    /\ regStatus' = [regStatus EXCEPT ![c] = "up"]
    /\ regLocal' = [regLocal EXCEPT ![c] = regShared]
    /\ UNCHANGED <<regShared, regDirty, regUuids, regIndex, regRoutes,
                   regListed, regSubs, regWm, regSaveSet, regMode, regKilled, regReqs>>

Sync(c) ==
    /\ regStatus[c] = "up"
    /\ SyncWindows(c, regLocal[c], regShared, regDirty[c])
    /\ UNCHANGED <<regStatus, regUuids, regIndex, regRoutes, regListed,
                   regSubs, regWm, regSaveSet, regMode, regKilled, regReqs>>

\* CreateWindow: the id must be free here and in the shared map, the parent
\* may be known to the shared map only (then it is not linked).
CreateAllowed(c, w, p) ==
    /\ RegOwner[w] = c
    /\ w \notin DOMAIN regLocal[c] \cup DOMAIN regShared
    /\ p \in DOMAIN regLocal[c] \cup DOMAIN regShared \cup {RegRoot}

NewWindow(p, o) == [parent |-> p, kids |-> {}, mapped |-> FALSE, redir |-> FALSE,
                    ovr |-> o, kept |-> FALSE]

CreateWindow(c, w, p, o) ==
    LET m == regLocal[c]
    IN  /\ RegRequest(c) /\ CreateAllowed(c, w, p)
        /\ regUuids' = [regUuids EXCEPT ![c] = @ \cup {w}]
        /\ regIndex' = regIndex \cup {w}
        /\ regRoutes' = regRoutes \cup {w}
        /\ regListed' = regListed \cup {w}
        /\ regKilled' = regKilled \ {w}
        /\ SyncWindows(c, Link(Put(m, w, NewWindow(p, o)), p, w), regShared,
                       regDirty[c] \cup {w})
        /\ UNCHANGED <<regStatus, regSubs, regWm, regSaveSet, regMode>>

\* A handler that is asked about a window it does not know copies it from the
\* shared map (GetWindowAttributes).
LookUpWindow(c, w) ==
    /\ RegRequest(c) /\ w \in DOMAIN regShared \ DOMAIN regLocal[c]
    /\ SyncWindows(c, Put(regLocal[c], w, regShared[w]), regShared, regDirty[c])
    /\ UNCHANGED <<regStatus, regUuids, regIndex, regRoutes, regListed,
                   regSubs, regWm, regSaveSet, regMode, regKilled>>

\* ChangeWindowAttributes of override_redirect.
ChangeOverride(c, w) ==
    /\ RegRequest(c) /\ w \in DOMAIN regLocal[c]
    /\ SyncWindows(c, [regLocal[c] EXCEPT ![w].ovr = ~@], regShared, regDirty[c] \cup {w})
    /\ UNCHANGED <<regStatus, regUuids, regIndex, regRoutes, regListed,
                   regSubs, regWm, regSaveSet, regMode, regKilled>>

\* What both destroy handlers do with the windows they remove.
RemoveWindows(c, gone, unlinked) ==
    LET told == gone \cap regUuids[c]
    IN  /\ regIndex' = regIndex \ gone
        /\ regUuids' = [regUuids EXCEPT ![c] = @ \ gone]
        /\ regRoutes' = regRoutes \ told
        /\ regListed' = regListed \ told
        /\ SyncWindows(c, Without(unlinked, gone), Without(regShared, gone), regDirty[c])

DestroyWindow(c, w) ==
    LET m == regLocal[c]
    IN  /\ RegRequest(c) /\ w \in DOMAIN m
        /\ ~ \E v \in DescendantsByKids(m, w) : v \in DescendantsByKids(m, v)
        /\ RemoveWindows(c, DescendantsByKids(m, w) \cup {w},
                         Unlink(m, m[w].parent, {w}))
        /\ UNCHANGED <<regStatus, regSubs, regWm, regSaveSet, regMode, regKilled>>

\* DestroySubwindows leaves the destroyed children in children_order.
DestroySubwindows(c, w) ==
    LET m == regLocal[c]
    IN  /\ RegRequest(c) /\ w \in DOMAIN m
        /\ w \notin DescendantsByParent(m, w)
        /\ RemoveWindows(c, DescendantsByParent(m, w), m)
        /\ UNCHANGED <<regStatus, regSubs, regWm, regSaveSet, regMode, regKilled>>

\* Neither walk remembers where it has been: on a cycle it does not end.
DestroyHangs(c, w) ==
    LET m == regLocal[c]
    IN  /\ RegRequest(c) /\ w \in DOMAIN m
        /\ \/ \E v \in DescendantsByKids(m, w) : v \in DescendantsByKids(m, v)
           \/ w \in DescendantsByParent(m, w)
        /\ regStatus' = [regStatus EXCEPT ![c] = "hung"]
        /\ UNCHANGED <<regLocal, regShared, regDirty, regUuids, regIndex, regRoutes,
                       regListed, regSubs, regWm, regSaveSet, regMode, regKilled>>

\* Whether MapWindow turns into a MapRequest: the window is not override_redirect,
\* and another client is the window manager, or this client's own copy of the
\* parent selects the redirect.
Redirected(c, m, w) ==
    /\ ~m[w].ovr /\ m[w].parent # RegNoParent
    /\ \/ regWm # {} /\ regWm # {c}
       \/ m[w].parent \in DOMAIN m /\ m[m[w].parent].redir

MapsNow(c, m, w) ==
    /\ ~Redirected(c, m, w)
    /\ ~m[w].mapped
    /\ w \in regUuids[c] \cup regRoutes

MapWindow(c, w) ==
    LET m == regLocal[c]
    IN  /\ RegRequest(c) /\ w \in DOMAIN m
        /\ MapsNow(c, m, w)
        /\ SyncWindows(c, [m EXCEPT ![w].mapped = TRUE], regShared, regDirty[c] \cup {w})
        /\ UNCHANGED <<regStatus, regUuids, regIndex, regRoutes, regListed,
                       regSubs, regWm, regSaveSet, regMode, regKilled>>

UnmapWindow(c, w) ==
    LET m == regLocal[c]
    IN  /\ RegRequest(c) /\ w \in DOMAIN m \ {RegRoot} /\ m[w].mapped
        /\ SyncWindows(c, [m EXCEPT ![w].mapped = FALSE], regShared, regDirty[c] \cup {w})
        /\ UNCHANGED <<regStatus, regUuids, regIndex, regRoutes, regListed,
                       regSubs, regWm, regSaveSet, regMode, regKilled>>

\* ReparentWindow unmaps, relinks this client's copy only, and maps again
\* through MapWindow, which may be redirected.
ReparentWindow(c, w, p) ==
    LET m == regLocal[c]
        moved == Link([Unlink(m, m[w].parent, {w}) EXCEPT
                          ![w].parent = p, ![w].mapped = FALSE], p, w)
        again == m[w].mapped /\ MapsNow(c, moved, w)
    IN  /\ RegRequest(c)
        /\ {w, p} \subseteq DOMAIN m
        /\ w # p /\ w \notin Ancestors(m, p)
        /\ SyncWindows(c, [moved EXCEPT ![w].mapped = again], regShared,
                       regDirty[c] \cup {w})
        /\ UNCHANGED <<regStatus, regUuids, regIndex, regRoutes, regListed,
                       regSubs, regWm, regSaveSet, regMode, regKilled>>

\* ChangeWindowAttributes selecting SubstructureRedirect on the root: the
\* conflict check, then the subscription and the window manager's registration.
SelectRedirect(c) ==
    /\ RegRequest(c) /\ RegRoot \in DOMAIN regLocal[c]
    /\ regSubs \ {c} = {}
    /\ regSubs' = {c}
    /\ regWm' = {c}
    /\ SyncWindows(c, [regLocal[c] EXCEPT ![RegRoot].redir = TRUE], regShared,
                   regDirty[c] \cup {RegRoot})
    /\ UNCHANGED <<regStatus, regUuids, regIndex, regRoutes, regListed,
                   regSaveSet, regMode, regKilled>>

ChangeSaveSet(c, w) ==
    /\ RegRequest(c) /\ w \in DOMAIN regLocal[c]
    /\ \E S \in {regSaveSet[c] \cup {w}, regSaveSet[c] \ {w}} :
        regSaveSet' = [regSaveSet EXCEPT ![c] = S]
    /\ SyncWindows(c, regLocal[c], regShared, regDirty[c])
    /\ UNCHANGED <<regStatus, regUuids, regIndex, regRoutes, regListed,
                   regSubs, regWm, regMode, regKilled>>

SetCloseDownMode(c, mode) ==
    /\ RegRequest(c)
    /\ regMode' = [regMode EXCEPT ![c] = mode]
    /\ SyncWindows(c, regLocal[c], regShared, regDirty[c])
    /\ UNCHANGED <<regStatus, regUuids, regIndex, regRoutes, regListed,
                   regSubs, regWm, regSaveSet, regKilled>>

\* KillClient of a window: the caller's copies of its owner's windows go, and if
\* the owner is the caller itself their end is announced; the shared map keeps
\* them, so that the sync that follows brings them back without their uuids.
KillClient(c, w) ==
    LET m == regLocal[c]
        kin == IF w = RegRoot THEN {RegRoot}
               ELSE {v \in DOMAIN m \ {RegRoot} : RegOwner[v] = RegOwner[w]}
        told == kin \cap regUuids[c]
    IN  /\ RegRequest(c) /\ w \in DOMAIN m
        /\ regUuids' = [regUuids EXCEPT ![c] = @ \ kin]
        /\ regRoutes' = regRoutes \ told
        /\ regListed' = regListed \ told
        /\ regKilled' = regKilled \cup told
        /\ SyncWindows(c, Without(m, kin), regShared, regDirty[c])
        /\ UNCHANGED <<regStatus, regIndex, regSubs, regWm, regSaveSet, regMode>>

\* KillClient(AllTemporary): every window marked retained_temporary in the copy or
\* in the shared map goes from both, the root and live clients' windows included.
KillAllTemporary(c) ==
    LET m == regLocal[c]
        gone == {w \in DOMAIN m : m[w].kept} \cup {w \in DOMAIN regShared : regShared[w].kept}
        told == gone \cap regUuids[c]
    IN  /\ RegRequest(c)
        /\ regUuids' = [regUuids EXCEPT ![c] = @ \ gone]
        /\ regRoutes' = regRoutes \ told
        /\ regListed' = regListed \ told
        /\ SyncWindows(c, Without(m, gone), Without(regShared, gone), regDirty[c])
        /\ UNCHANGED <<regStatus, regIndex, regSubs, regWm, regSaveSet, regMode, regKilled>>

(***************************************************************************)
(* The end of a connection.                                                *)
(***************************************************************************)
\* Save-set windows below one of the client's own windows go to the nearest
\* ancestor that another client (or nobody) owns.
Rescued(c) ==
    {w \in regSaveSet[c] \cap DOMAIN regLocal[c] :
        \E v \in Ancestors(regLocal[c], w) \ {w, RegRoot} :
            v \in DOMAIN regLocal[c] /\ RegOwner[v] = c}

NewParent(c, w) ==
    LET m == regLocal[c]
        foreign == {v \in Ancestors(m, w) \cap DOMAIN m : v = RegRoot \/ RegOwner[v] # c}
        nearest == {v \in foreign : foreign \cap Ancestors(m, v) \subseteq foreign \ {v}
                                    /\ \A u \in foreign \ {v} : v \notin Ancestors(m, u)}
    IN  IF nearest = {} THEN {RegRoot} ELSE nearest

RescuedShared(c) ==
    [w \in DOMAIN regShared |->
        IF w \in Rescued(c) THEN [regShared[w] EXCEPT !.parent = CHOOSE p \in NewParent(c, w) : TRUE]
        ELSE regShared[w]]

RemovedFromShared(sh, gone) ==
    [w \in DOMAIN sh \ gone |-> [sh[w] EXCEPT !.kids = @ \ {v \in gone \cap DOMAIN sh : sh[v].parent = w}]]

\* RetainTemporary marks every window of the client's copy, whoever owns it.
MarkedTemporary(sh, S) ==
    [w \in DOMAIN sh |-> IF w \in S THEN [sh[w] EXCEPT !.kept = TRUE] ELSE sh[w]]

\* Mutant: the guard forgets the window manager's registration.
TaskEndsKeepsWm(c, how) ==
    /\ regStatus' = [regStatus EXCEPT ![c] = how]
    /\ regLocal' = [regLocal EXCEPT ![c] = [w \in {} |-> 0]]
    /\ regDirty' = [regDirty EXCEPT ![c] = {}]
    /\ regUuids' = [regUuids EXCEPT ![c] = {}]
    /\ regSaveSet' = [regSaveSet EXCEPT ![c] = {}]
    /\ regSubs' = regSubs \ {c}
    /\ UNCHANGED <<regWm, regMode, regKilled, regReqs>>

\* The task is gone: its copy, its dirty set and its ids with it, and the
\* guards clear its subscriptions and the window manager's registration.
TaskEnds(c, how) ==
    /\ regStatus' = [regStatus EXCEPT ![c] = how]
    /\ regLocal' = [regLocal EXCEPT ![c] = [w \in {} |-> 0]]
    /\ regDirty' = [regDirty EXCEPT ![c] = {}]
    /\ regUuids' = [regUuids EXCEPT ![c] = {}]
    /\ regSaveSet' = [regSaveSet EXCEPT ![c] = {}]
    /\ regSubs' = regSubs \ {c}
    /\ regWm' = regWm \ {c}
    /\ UNCHANGED <<regMode, regKilled, regReqs>>

\* read returned 0: the full cleanup, by close-down mode.
Disconnect(c) ==
    LET gone == regUuids[c] \ Rescued(c)
    IN  /\ regStatus[c] = "up"
        /\ TaskEnds(c, "closed")
        /\ \/ /\ regMode[c] = "Destroy"
              /\ regShared' = RemovedFromShared(RescuedShared(c), gone)
              /\ regListed' = regListed \ gone
              /\ regIndex' = regIndex \ gone
              /\ regRoutes' = regRoutes \ gone
           \/ /\ regMode[c] = "RetainPermanent"
              /\ regShared' = RescuedShared(c)
              /\ UNCHANGED <<regListed, regIndex, regRoutes>>
           \/ /\ regMode[c] = "RetainTemporary"
              /\ regShared' = MarkedTemporary(RescuedShared(c), DOMAIN regLocal[c])
              /\ regRoutes' = regRoutes \ regUuids[c]
              /\ UNCHANGED <<regListed, regIndex>>

\* A read or write failed: only the guards run.
ConnectionDies(c) ==
    LET owned == {w \in RegWins : RegOwner[w] = c}
    IN  /\ regStatus[c] = "up"
        /\ TaskEnds(c, "died")
        /\ UNCHANGED regRoutes
        /\ IF regMode[c] = "Destroy"
           THEN /\ regListed' = regListed \ (regIndex \cap owned)
                /\ regIndex' = regIndex \ owned
                /\ regShared' = RemovedFromShared(regShared, owned \cap DOMAIN regShared)
           ELSE UNCHANGED <<regListed, regIndex, regShared>>

RegNext == \E c \in RegClients :
    \/ Connect(c) \/ Sync(c) \/ SelectRedirect(c)
    \/ KillAllTemporary(c) \/ Disconnect(c) \/ ConnectionDies(c)
    \/ \E w \in RegNodes : KillClient(c, w) \/ LookUpWindow(c, w)
    \/ \E mode \in CloseModes : SetCloseDownMode(c, mode)
    \/ \E w \in RegWins :
        \/ DestroyWindow(c, w) \/ DestroySubwindows(c, w) \/ DestroyHangs(c, w)
        \/ MapWindow(c, w) \/ UnmapWindow(c, w) \/ ChangeSaveSet(c, w)
        \/ ChangeOverride(c, w)
        \/ \E p \in RegNodes :
            \/ ReparentWindow(c, w, p)
            \/ \E o \in BOOLEAN : CreateWindow(c, w, p, o)

\* Every window of the shared map is one the backend was told of and was not
\* told to forget, whichever client destroyed, re-inserted, retained or abandoned
\* it; the one exception is a window whose own client killed itself and which
\* was not created again since.
SharedListed == DOMAIN regShared \subseteq regListed \cup {RegRoot} \cup regKilled

\* A client can name (route input to, announce the end of) exactly the windows
\* of its own it still holds, those it killed excepted.
UuidsFollowOwn ==
    \A c \in RegClients : regStatus[c] = "up" =>
        regUuids[c] = {w \in DOMAIN regLocal[c] \ {RegRoot} : RegOwner[w] = c} \ regKilled

\* Nobody who is gone, by whichever path, redirects requests or is the window
\* manager the others' MapWindow is handed to.
NoDeadRedirector ==
    \A c \in regSubs \cup regWm : regStatus[c] \in {"up", "hung"}

\* The registries agree: every shared window is one the backend knows, a client
\* can name exactly the windows it holds (both but for the windows a client killed
\* itself with), and nobody who is gone manages windows.
RegistryCoherent == SharedListed /\ UuidsFollowOwn /\ NoDeadRedirector

RegSpec == RegInit /\ [][RegNext]_regVars
=============================================================================
