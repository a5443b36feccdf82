--------------------------- MODULE XWindowsProofs ---------------------------
(***************************************************************************)
(* Proofs about the windows of the X11 server: XRegistry, for any set of   *)
(* clients and windows, any owners and any tree (cycles in a client's copy *)
(* included); XSelection, for any set of clients; XStacking, XProperty and *)
(* XEwmh, for any windows and requests.                                    *)
(***************************************************************************)
EXTENDS MCXWindows, SequenceTheorems, FiniteSetTheorems, WellFoundedInduction, TLAPS

-----------------------------------------------------------------------------
(* XRegistry. *)

(* The windows of S whose ids are in c's range. *)
OwnOf(c, S) == {w \in S \ {RegRoot} : RegOwner[w] = c}

(* The inductive invariant of the registries: a connected client announced  *)
(* the windows it owns and holds, the backend knows them all, and its       *)
(* windows in the shared map are windows it holds, so that a pull never     *)
(* brings one back that it destroyed; a client that has not connected has   *)
(* none.  The windows a client killed itself with are excepted.             *)
RegHeld ==
    /\ DOMAIN regStatus = RegClients
    /\ DOMAIN regLocal = RegClients /\ DOMAIN regUuids = RegClients
    /\ \A c \in RegClients : regStatus[c] = "up" =>
         /\ regUuids[c] = OwnOf(c, DOMAIN regLocal[c]) \ regKilled
         /\ regUuids[c] \subseteq regListed
         /\ OwnOf(c, DOMAIN regShared) \subseteq DOMAIN regLocal[c] \cup regKilled
    /\ \A c \in RegClients : regStatus[c] = "new" =>
         /\ regUuids[c] = {}
         /\ OwnOf(c, DOMAIN regShared) = {}
    /\ SharedListed

RegInv == RegHeld /\ regSubs \cup regWm \subseteq RegClients /\ NoDeadRedirector

(* sync_windows, of a copy m that holds c's shared windows but for those in *)
(* K: c gains and loses none of its own outside K, and only its own enter   *)
(* the shared map.                                                          *)
LEMMA SyncOwn ==
    ASSUME NEW c \in RegClients, NEW m, NEW sh, NEW d, NEW K, SyncWindows(c, m, sh, d),
           DOMAIN regLocal = RegClients, OwnOf(c, DOMAIN sh) \subseteq DOMAIN m \cup K
    PROVE  /\ DOMAIN regLocal' = RegClients
           /\ \A e \in RegClients \ {c} : regLocal'[e] = regLocal[e]
           /\ OwnOf(c, DOMAIN regLocal'[c]) \ K = OwnOf(c, DOMAIN m) \ K
           /\ OwnOf(c, DOMAIN regShared') \subseteq DOMAIN regLocal'[c] \cup K
           /\ DOMAIN regShared' \subseteq DOMAIN sh \cup OwnOf(c, DOMAIN m) \cup {RegRoot} \cup K
           /\ \A w \in DOMAIN regShared' \ DOMAIN sh : w = RegRoot \/ RegOwner[w] = c
<1>1. PICK pull \in PullChoices(m, sh) :
        LET m2 == IF pull THEN Pulled(c, m, sh) ELSE m
        IN  /\ regLocal' = [regLocal EXCEPT ![c] = m2]
            /\ regShared' = Pushed(c, m2, sh, d)
  BY DEF SyncWindows
<1> DEFINE m2 == IF pull THEN Pulled(c, m, sh) ELSE m
<1>2. regLocal' = [regLocal EXCEPT ![c] = m2] /\ regShared' = Pushed(c, m2, sh, d)
  BY <1>1
<1>3. OwnOf(c, DOMAIN m2) \ K = OwnOf(c, DOMAIN m) \ K /\ OwnOf(c, DOMAIN m) \subseteq DOMAIN m2
  <2>1. CASE pull
    <3>1. DOMAIN m2 = {w \in DOMAIN m : RegMine(c, w) \/ w \in DOMAIN sh} \cup DOMAIN sh
      BY <2>1 DEF Pulled
    <3> QED  BY <3>1 DEF OwnOf, RegMine
  <2>2. CASE ~pull
    BY <2>2 DEF OwnOf
  <2> QED  BY <2>1, <2>2
<1> HIDE DEF m2
<1>4. DOMAIN regShared' = DOMAIN sh \cup
        {w \in d \cap DOMAIN m2 : w \notin DOMAIN sh /\ RegMine(c, w)}
  BY <1>2 DEF Pushed
<1>5. DOMAIN regShared' \subseteq DOMAIN sh \cup OwnOf(c, DOMAIN m2) \cup {RegRoot}
      /\ \A w \in DOMAIN regShared' \ DOMAIN sh : w = RegRoot \/ RegOwner[w] = c
  BY <1>4 DEF OwnOf, RegMine
<1>6. /\ DOMAIN regLocal' = RegClients /\ regLocal'[c] = m2
      /\ \A e \in RegClients \ {c} : regLocal'[e] = regLocal[e]
  BY <1>2
<1>7. OwnOf(c, DOMAIN regShared') \subseteq DOMAIN m2 \cup K
  BY <1>3, <1>5 DEF OwnOf
<1> QED  BY <1>3, <1>5, <1>6, <1>7

(* A request of c, as far as the registries go: it leaves c a copy m and    *)
(* the shared map sh, announces, forgets or kills windows of c only, and    *)
(* syncs.                                                                   *)
LEMMA RequestHeld ==
    ASSUME RegHeld, NEW c \in RegClients, regStatus[c] = "up",
           NEW m, NEW sh, NEW d, SyncWindows(c, m, sh, d),
           DOMAIN sh \subseteq DOMAIN regShared,
           OwnOf(c, DOMAIN sh) \subseteq DOMAIN m \cup regKilled',
           DOMAIN regUuids' = RegClients, regUuids'[c] = OwnOf(c, DOMAIN m) \ regKilled',
           \A e \in RegClients \ {c} : regUuids'[e] = regUuids[e],
           regUuids'[c] \subseteq regListed',
           DOMAIN sh \subseteq regListed' \cup {RegRoot} \cup regKilled',
           \A w \in regListed \ regListed' : w \in regUuids[c],
           \A w \in regKilled' \ regKilled : RegOwner[w] = c,
           \A w \in regKilled \ regKilled' : RegOwner[w] = c,
           UNCHANGED regStatus
    PROVE  RegHeld'
<1>1. /\ DOMAIN regLocal' = RegClients
      /\ \A e \in RegClients \ {c} : regLocal'[e] = regLocal[e]
      /\ OwnOf(c, DOMAIN regLocal'[c]) \ regKilled' = OwnOf(c, DOMAIN m) \ regKilled'
      /\ OwnOf(c, DOMAIN regShared') \subseteq DOMAIN regLocal'[c] \cup regKilled'
      /\ DOMAIN regShared' \subseteq DOMAIN sh \cup OwnOf(c, DOMAIN m) \cup {RegRoot} \cup regKilled'
      /\ \A w \in DOMAIN regShared' \ DOMAIN sh : w = RegRoot \/ RegOwner[w] = c
  <2>1. DOMAIN regLocal = RegClients
    BY DEF RegHeld
  <2> DEFINE K == regKilled'
  <2>2. OwnOf(c, DOMAIN sh) \subseteq DOMAIN m \cup K
    OBVIOUS
  <2> HIDE DEF K
  <2>3. /\ DOMAIN regLocal' = RegClients
        /\ \A e \in RegClients \ {c} : regLocal'[e] = regLocal[e]
        /\ OwnOf(c, DOMAIN regLocal'[c]) \ K = OwnOf(c, DOMAIN m) \ K
        /\ OwnOf(c, DOMAIN regShared') \subseteq DOMAIN regLocal'[c] \cup K
        /\ DOMAIN regShared' \subseteq DOMAIN sh \cup OwnOf(c, DOMAIN m) \cup {RegRoot} \cup K
        /\ \A w \in DOMAIN regShared' \ DOMAIN sh : w = RegRoot \/ RegOwner[w] = c
    BY <2>1, <2>2, SyncOwn
  <2> QED  BY <2>3 DEF K
<1>2. /\ DOMAIN regUuids' = RegClients /\ regUuids'[c] = OwnOf(c, DOMAIN m) \ regKilled'
      /\ \A e \in RegClients \ {c} : regUuids'[e] = regUuids[e]
  OBVIOUS
<1>3. SharedListed'
  BY <1>1 DEF SharedListed
<1>4. \A e \in RegClients \ {c} : OwnOf(e, DOMAIN regShared') \subseteq OwnOf(e, DOMAIN regShared)
  BY <1>1 DEF OwnOf
<1>5. ASSUME NEW e \in RegClients, regStatus'[e] = "up"
      PROVE  /\ regUuids'[e] = OwnOf(e, DOMAIN regLocal'[e]) \ regKilled'
             /\ regUuids'[e] \subseteq regListed'
             /\ OwnOf(e, DOMAIN regShared') \subseteq DOMAIN regLocal'[e] \cup regKilled'
  <2>1. CASE e = c
    BY <1>1, <1>2, <2>1
  <2>2. CASE e # c
    <3>1. /\ regUuids[e] = OwnOf(e, DOMAIN regLocal[e]) \ regKilled
          /\ regUuids[e] \subseteq regListed
          /\ OwnOf(e, DOMAIN regShared) \subseteq DOMAIN regLocal[e] \cup regKilled
          /\ regUuids[c] = OwnOf(c, DOMAIN regLocal[c]) \ regKilled
      BY <1>5 DEF RegHeld
    <3>2. \A w \in regUuids[e] : w \notin regUuids[c]
      BY <2>2, <3>1 DEF OwnOf
    <3>3. \A w : w # RegRoot /\ RegOwner[w] = e => (w \in regKilled <=> w \in regKilled')
      BY <2>2
    <3>4. OwnOf(e, DOMAIN regLocal[e]) \ regKilled = OwnOf(e, DOMAIN regLocal[e]) \ regKilled'
      BY <3>3 DEF OwnOf
    <3>5. OwnOf(e, DOMAIN regShared) \subseteq DOMAIN regLocal[e] \cup regKilled'
      BY <3>1, <3>3 DEF OwnOf
    <3> QED  BY <1>1, <1>2, <1>4, <2>2, <3>1, <3>2, <3>4, <3>5
  <2> QED  BY <2>1, <2>2
<1>6. ASSUME NEW e \in RegClients, regStatus'[e] = "new"
      PROVE  regUuids'[e] = {} /\ OwnOf(e, DOMAIN regShared') = {}
  <2>1. e # c /\ regStatus[e] = "new"
    BY <1>6
  <2>2. regUuids[e] = {} /\ OwnOf(e, DOMAIN regShared) = {}
    BY <2>1 DEF RegHeld
  <2> QED  BY <1>2, <1>4, <2>1, <2>2
<1>7. DOMAIN regStatus' = RegClients
  BY DEF RegHeld
<1> QED  BY <1>1, <1>2, <1>3, <1>5, <1>6, <1>7 DEF RegHeld

(* Operators on window maps keep or change their domains as one expects. *)
LEMMA WithoutDomain == ASSUME NEW m, NEW S PROVE DOMAIN Without(m, S) = DOMAIN m \ S
  BY DEF Without

LEMMA PutDomain == ASSUME NEW m, NEW w, NEW x PROVE DOMAIN Put(m, w, x) = DOMAIN m \cup {w}
  BY DEF Put

LEMMA UnlinkDomain == ASSUME NEW m, NEW p, NEW S PROVE DOMAIN Unlink(m, p, S) = DOMAIN m
  BY DEF Unlink

LEMMA LinkDomain == ASSUME NEW m, NEW p, NEW w PROVE DOMAIN Link(m, p, w) = DOMAIN m
  BY DEF Link

(* A request that neither makes nor destroys a window of the client. *)
LEMMA SameHeld ==
    ASSUME RegHeld, NEW c \in RegClients, regStatus[c] = "up",
           NEW m, NEW d, SyncWindows(c, m, regShared, d),
           OwnOf(c, DOMAIN m) \ regKilled = OwnOf(c, DOMAIN regLocal[c]) \ regKilled,
           UNCHANGED <<regUuids, regListed, regStatus, regKilled>>
    PROVE  RegHeld'
<1>1. /\ regUuids[c] = OwnOf(c, DOMAIN m) \ regKilled /\ regUuids[c] \subseteq regListed
      /\ OwnOf(c, DOMAIN regShared) \subseteq DOMAIN m \cup regKilled
      /\ DOMAIN regShared \subseteq regListed \cup {RegRoot} \cup regKilled
  BY DEF RegHeld, SharedListed, OwnOf
<1>2. /\ regUuids'[c] \subseteq regListed'
      /\ DOMAIN regShared \subseteq regListed' \cup {RegRoot} \cup regKilled'
      /\ regListed \ regListed' = {} /\ regKilled' = regKilled
  BY <1>1
<1>3. /\ DOMAIN regUuids' = RegClients /\ regUuids'[c] = OwnOf(c, DOMAIN m) \ regKilled'
      /\ \A e \in RegClients \ {c} : regUuids'[e] = regUuids[e]
  BY <1>1, <1>2 DEF RegHeld
<1> QED  BY <1>1, <1>2, <1>3, RequestHeld

LEMMA HeldRequests ==
    ASSUME RegHeld, NEW c \in RegClients,
           \/ Sync(c) \/ SelectRedirect(c)
           \/ \E mode \in CloseModes : SetCloseDownMode(c, mode)
           \/ \E w \in RegNodes : LookUpWindow(c, w)
           \/ \E w \in RegWins :
                \/ MapWindow(c, w) \/ UnmapWindow(c, w) \/ ChangeSaveSet(c, w)
                \/ ChangeOverride(c, w)
                \/ \E p \in RegNodes : ReparentWindow(c, w, p)
    PROVE  RegHeld'
<1> DEFINE Q == UNCHANGED <<regUuids, regListed, regStatus, regKilled>> /\ regStatus[c] = "up"
<1>1. Q
  <2>1. CASE Sync(c)
    BY <2>1 DEF Sync, RegRequest
  <2>2. CASE SelectRedirect(c)
    BY <2>2 DEF SelectRedirect, RegRequest
  <2>3. ASSUME NEW mode, SetCloseDownMode(c, mode) PROVE Q
    BY <2>3 DEF SetCloseDownMode, RegRequest
  <2>4. ASSUME NEW w, MapWindow(c, w) PROVE Q
    BY <2>4 DEF MapWindow, RegRequest
  <2>5. ASSUME NEW w, UnmapWindow(c, w) PROVE Q
    BY <2>5 DEF UnmapWindow, RegRequest
  <2>6. ASSUME NEW w, ChangeSaveSet(c, w) PROVE Q
    BY <2>6, Zenon DEF ChangeSaveSet, RegRequest
  <2>7. ASSUME NEW w, NEW p, ReparentWindow(c, w, p) PROVE Q
    BY <2>7, Zenon DEF ReparentWindow, RegRequest
  <2>8. ASSUME NEW w, LookUpWindow(c, w) PROVE Q
    BY <2>8 DEF LookUpWindow, RegRequest
  <2>9. ASSUME NEW w, ChangeOverride(c, w) PROVE Q
    BY <2>9 DEF ChangeOverride, RegRequest
  <2> QED  BY <2>1, <2>2, <2>3, <2>4, <2>5, <2>6, <2>7, <2>8, <2>9
<1>2. CASE Sync(c) \/ \E mode \in CloseModes : SetCloseDownMode(c, mode)
  BY <1>1, <1>2, SameHeld DEF Sync, SetCloseDownMode
<1>3. CASE SelectRedirect(c)
  <2>1. SyncWindows(c, [regLocal[c] EXCEPT ![RegRoot].redir = TRUE], regShared,
                   regDirty[c] \cup {RegRoot})
    BY <1>3 DEF SelectRedirect
  <2>2. DOMAIN [regLocal[c] EXCEPT ![RegRoot].redir = TRUE] = DOMAIN regLocal[c]
    OBVIOUS
  <2> QED  BY <1>1, <2>1, <2>2, SameHeld
<1>4. ASSUME NEW w \in RegWins, ChangeSaveSet(c, w) PROVE RegHeld'
  BY <1>1, <1>4, SameHeld DEF ChangeSaveSet
<1>5. ASSUME NEW w \in RegWins, NEW b,
             SyncWindows(c, [regLocal[c] EXCEPT ![w].mapped = b], regShared, regDirty[c] \cup {w})
      PROVE  RegHeld'
  <2>1. DOMAIN [regLocal[c] EXCEPT ![w].mapped = b] = DOMAIN regLocal[c]
    OBVIOUS
  <2> QED  BY <1>1, <1>5, <2>1, SameHeld
<1>6. ASSUME NEW w \in RegWins, MapWindow(c, w) \/ UnmapWindow(c, w) PROVE RegHeld'
  BY <1>5, <1>6 DEF MapWindow, UnmapWindow
<1>7. ASSUME NEW w \in RegWins, NEW p \in RegNodes, ReparentWindow(c, w, p)
      PROVE  RegHeld'
  <2> DEFINE m == regLocal[c]
             away == [Unlink(m, m[w].parent, {w}) EXCEPT ![w].parent = p, ![w].mapped = FALSE]
             moved == Link(away, p, w)
             again == m[w].mapped /\ MapsNow(c, moved, w)
  <2>1. SyncWindows(c, [moved EXCEPT ![w].mapped = again], regShared, regDirty[c] \cup {w})
    BY <1>7, Zenon DEF ReparentWindow
  <2>2. DOMAIN away = DOMAIN m
    <3>1. DOMAIN away = DOMAIN Unlink(m, m[w].parent, {w})
      OBVIOUS
    <3> QED  BY <3>1, UnlinkDomain
  <2> HIDE DEF away
  <2>3. DOMAIN moved = DOMAIN away
    BY LinkDomain
  <2> HIDE DEF moved, again
  <2>4. DOMAIN [moved EXCEPT ![w].mapped = again] = DOMAIN moved
    OBVIOUS
  <2> QED  BY <1>1, <2>1, <2>2, <2>3, <2>4, SameHeld, Zenon
<1>8. ASSUME NEW w \in RegNodes, LookUpWindow(c, w) PROVE RegHeld'
  <2> DEFINE n == Put(regLocal[c], w, regShared[w])
  <2>1. SyncWindows(c, n, regShared, regDirty[c]) /\ w \in DOMAIN regShared \ DOMAIN regLocal[c]
    BY <1>8 DEF LookUpWindow
  <2>2. DOMAIN n = DOMAIN regLocal[c] \cup {w}
    BY PutDomain
  <2>3. OwnOf(c, DOMAIN regShared) \subseteq DOMAIN regLocal[c] \cup regKilled
    BY <1>1 DEF RegHeld
  <2> HIDE DEF n
  <2>4. OwnOf(c, DOMAIN n) \ regKilled = OwnOf(c, DOMAIN regLocal[c]) \ regKilled
    BY <2>1, <2>2, <2>3 DEF OwnOf
  <2> QED  BY <1>1, <2>1, <2>4, SameHeld
<1>9. ASSUME NEW w \in RegWins, ChangeOverride(c, w) PROVE RegHeld'
  <2> DEFINE n == [regLocal[c] EXCEPT ![w].ovr = ~@]
  <2>1. SyncWindows(c, n, regShared, regDirty[c] \cup {w})
    BY <1>9 DEF ChangeOverride
  <2>2. DOMAIN n = DOMAIN regLocal[c]
    OBVIOUS
  <2> HIDE DEF n
  <2> QED  BY <1>1, <2>1, <2>2, SameHeld
<1> QED  BY <1>2, <1>3, <1>4, <1>6, <1>7, <1>8, <1>9

LEMMA HeldCreate ==
    ASSUME RegHeld, NEW c \in RegClients, NEW w \in RegWins, NEW p \in RegNodes,
           NEW o \in BOOLEAN, CreateWindow(c, w, p, o)
    PROVE  RegHeld'
<1> DEFINE m == regLocal[c]
           n == Link(Put(m, w, NewWindow(p, o)), p, w)
<1>1. /\ regStatus[c] = "up" /\ RegOwner[w] = c /\ UNCHANGED regStatus
      /\ regUuids' = [regUuids EXCEPT ![c] = @ \cup {w}]
      /\ regListed' = regListed \cup {w} /\ regKilled' = regKilled \ {w}
      /\ SyncWindows(c, n, regShared, regDirty[c] \cup {w})
  BY DEF CreateWindow, CreateAllowed, RegRequest
<1>2. DOMAIN n = DOMAIN m \cup {w} /\ w # RegRoot
  <2>1. DOMAIN n = DOMAIN Put(m, w, NewWindow(p, o))
    BY LinkDomain
  <2>2. DOMAIN Put(m, w, NewWindow(p, o)) = DOMAIN m \cup {w}
    BY PutDomain
  <2> QED  BY <2>1, <2>2, RegAssumption
<1> HIDE DEF n
<1>3. /\ regUuids[c] = OwnOf(c, DOMAIN m) \ regKilled /\ regUuids[c] \subseteq regListed
      /\ OwnOf(c, DOMAIN regShared) \subseteq DOMAIN m \cup regKilled
      /\ DOMAIN regShared \subseteq regListed \cup {RegRoot} \cup regKilled
      /\ DOMAIN regUuids = RegClients
  BY <1>1 DEF RegHeld, SharedListed
<1>4. OwnOf(c, DOMAIN n) \ regKilled' = regUuids[c] \cup {w}
  BY <1>1, <1>2, <1>3 DEF OwnOf
<1>5. /\ DOMAIN regUuids' = RegClients /\ regUuids'[c] = OwnOf(c, DOMAIN n) \ regKilled'
      /\ \A e \in RegClients \ {c} : regUuids'[e] = regUuids[e]
      /\ regUuids'[c] \subseteq regListed'
      /\ DOMAIN regShared \subseteq regListed' \cup {RegRoot} \cup regKilled'
      /\ OwnOf(c, DOMAIN regShared) \subseteq DOMAIN n \cup regKilled'
      /\ \A v \in regListed \ regListed' : v \in regUuids[c]
      /\ \A v \in regKilled' \ regKilled : RegOwner[v] = c
      /\ \A v \in regKilled \ regKilled' : RegOwner[v] = c
  BY <1>1, <1>2, <1>3, <1>4
<1> QED  BY <1>1, <1>5, RequestHeld

(* Whatever set a destroy handler computes: its own windows among them are  *)
(* forgotten by the client, the backend and the shared map alike.           *)
LEMMA HeldDestroy ==
    ASSUME RegHeld, NEW c \in RegClients,
           \/ KillAllTemporary(c)
           \/ \E w \in RegWins : DestroyWindow(c, w) \/ DestroySubwindows(c, w)
    PROVE  RegHeld'
<1>1. regStatus[c] = "up" /\ UNCHANGED <<regStatus, regKilled>>
  BY DEF DestroyWindow, DestroySubwindows, KillAllTemporary, RegRequest
<1>2. PICK gone, unlinked :
          /\ regUuids' = [regUuids EXCEPT ![c] = @ \ gone]
          /\ regListed' = regListed \ (gone \cap regUuids[c])
          /\ SyncWindows(c, Without(unlinked, gone), Without(regShared, gone), regDirty[c])
          /\ DOMAIN unlinked = DOMAIN regLocal[c]
  <2>3. CASE KillAllTemporary(c)
    <3> DEFINE gone == {v \in DOMAIN regLocal[c] : regLocal[c][v].kept}
                       \cup {v \in DOMAIN regShared : regShared[v].kept}
    <3>1. /\ regUuids' = [regUuids EXCEPT ![c] = @ \ gone]
          /\ regListed' = regListed \ (gone \cap regUuids[c])
          /\ SyncWindows(c, Without(regLocal[c], gone), Without(regShared, gone), regDirty[c])
      BY <2>3, Zenon DEF KillAllTemporary
    <3> HIDE DEF gone
    <3> QED  BY <3>1
  <2> SUFFICES ASSUME NEW w \in RegWins, DestroyWindow(c, w) \/ DestroySubwindows(c, w)
               PROVE  \E gone, unlinked :
                        /\ regUuids' = [regUuids EXCEPT ![c] = @ \ gone]
                        /\ regListed' = regListed \ (gone \cap regUuids[c])
                        /\ SyncWindows(c, Without(unlinked, gone), Without(regShared, gone), regDirty[c])
                        /\ DOMAIN unlinked = DOMAIN regLocal[c]
    BY <2>3
  <2>1. DOMAIN Unlink(regLocal[c], regLocal[c][w].parent, {w}) = DOMAIN regLocal[c]
    BY UnlinkDomain
  <2>2. \/ RemoveWindows(c, DescendantsByKids(regLocal[c], w) \cup {w},
                         Unlink(regLocal[c], regLocal[c][w].parent, {w}))
        \/ RemoveWindows(c, DescendantsByParent(regLocal[c], w), regLocal[c])
    BY DEF DestroyWindow, DestroySubwindows
  <2>4. PICK gone, unlinked : RemoveWindows(c, gone, unlinked)
                              /\ DOMAIN unlinked = DOMAIN regLocal[c]
    BY <2>1, <2>2
  <2>5. /\ regUuids' = [regUuids EXCEPT ![c] = @ \ gone]
        /\ regListed' = regListed \ (gone \cap regUuids[c])
        /\ SyncWindows(c, Without(unlinked, gone), Without(regShared, gone), regDirty[c])
    BY <2>4 DEF RemoveWindows
  <2> QED  BY <2>4, <2>5
<1> DEFINE m == Without(unlinked, gone)
           sh == Without(regShared, gone)
<1>3. /\ regUuids' = [regUuids EXCEPT ![c] = @ \ gone]
      /\ regListed' = regListed \ (gone \cap regUuids[c])
      /\ SyncWindows(c, m, sh, regDirty[c])
  BY <1>2
<1>4. DOMAIN m = DOMAIN regLocal[c] \ gone /\ DOMAIN sh = DOMAIN regShared \ gone
  BY <1>2, WithoutDomain
<1> HIDE DEF m, sh
<1>5. /\ regUuids[c] = OwnOf(c, DOMAIN regLocal[c]) \ regKilled /\ regUuids[c] \subseteq regListed
      /\ OwnOf(c, DOMAIN regShared) \subseteq DOMAIN regLocal[c] \cup regKilled
      /\ DOMAIN regShared \subseteq regListed \cup {RegRoot} \cup regKilled
      /\ DOMAIN regUuids = RegClients
  BY <1>1 DEF RegHeld, SharedListed
<1>6. /\ OwnOf(c, DOMAIN m) \ regKilled = regUuids[c] \ gone
      /\ OwnOf(c, DOMAIN sh) \subseteq DOMAIN m \cup regKilled
  BY <1>4, <1>5 DEF OwnOf
<1>7. /\ DOMAIN regUuids' = RegClients /\ regUuids'[c] = OwnOf(c, DOMAIN m) \ regKilled
      /\ \A e \in RegClients \ {c} : regUuids'[e] = regUuids[e]
      /\ regUuids'[c] \subseteq regListed' /\ regKilled' = regKilled
      /\ DOMAIN sh \subseteq regListed' \cup {RegRoot} \cup regKilled
      /\ DOMAIN sh \subseteq DOMAIN regShared
      /\ \A v \in regListed \ regListed' : v \in regUuids[c]
  BY <1>1, <1>3, <1>4, <1>5, <1>6
<1> QED  BY <1>1, <1>3, <1>6, <1>7, RequestHeld

(* KillClient: the caller's windows go from its copy and from the backend's *)
(* list, and stay in the shared map as killed.                              *)
LEMMA HeldKill ==
    ASSUME RegHeld, NEW c \in RegClients, NEW w \in RegNodes, KillClient(c, w)
    PROVE  RegHeld'
<1> DEFINE kin == IF w = RegRoot THEN {RegRoot}
                  ELSE {v \in DOMAIN regLocal[c] \ {RegRoot} : RegOwner[v] = RegOwner[w]}
           told == kin \cap regUuids[c]
           m == Without(regLocal[c], kin)
<1>1. /\ regStatus[c] = "up" /\ UNCHANGED regStatus
      /\ regUuids' = [regUuids EXCEPT ![c] = @ \ kin]
      /\ regListed' = regListed \ told /\ regKilled' = regKilled \cup told
      /\ SyncWindows(c, m, regShared, regDirty[c])
  BY Zenon DEF KillClient, RegRequest
<1>2. DOMAIN m = DOMAIN regLocal[c] \ kin
  BY WithoutDomain
<1>3. /\ regUuids[c] = OwnOf(c, DOMAIN regLocal[c]) \ regKilled /\ regUuids[c] \subseteq regListed
      /\ OwnOf(c, DOMAIN regShared) \subseteq DOMAIN regLocal[c] \cup regKilled
      /\ DOMAIN regShared \subseteq regListed \cup {RegRoot} \cup regKilled
      /\ DOMAIN regUuids = RegClients
  BY <1>1 DEF RegHeld, SharedListed
<1> HIDE DEF m, kin
<1>4. /\ OwnOf(c, DOMAIN m) \ regKilled' = regUuids[c] \ kin
      /\ OwnOf(c, DOMAIN regShared) \subseteq DOMAIN m \cup regKilled'
      /\ \A v \in told : RegOwner[v] = c
  BY <1>1, <1>2, <1>3 DEF OwnOf
<1>5. /\ DOMAIN regUuids' = RegClients /\ regUuids'[c] = OwnOf(c, DOMAIN m) \ regKilled'
      /\ \A e \in RegClients \ {c} : regUuids'[e] = regUuids[e]
      /\ regUuids'[c] \subseteq regListed'
      /\ DOMAIN regShared \subseteq regListed' \cup {RegRoot} \cup regKilled'
      /\ \A v \in regListed \ regListed' : v \in regUuids[c]
      /\ \A v \in regKilled' \ regKilled : RegOwner[v] = c
      /\ \A v \in regKilled \ regKilled' : RegOwner[v] = c
  BY <1>1, <1>3, <1>4
<1> QED  BY <1>1, <1>4, <1>5, RequestHeld

LEMMA HeldConnect ==
    ASSUME RegHeld, NEW c \in RegClients,
           Connect(c) \/ \E w \in RegWins : DestroyHangs(c, w)
    PROVE  RegHeld'
<1>1. CASE Connect(c)
  <2>1. /\ regStatus' = [regStatus EXCEPT ![c] = "up"] /\ regStatus[c] = "new"
        /\ regLocal' = [regLocal EXCEPT ![c] = regShared]
        /\ UNCHANGED <<regShared, regUuids, regListed, regKilled>>
    BY <1>1 DEF Connect
  <2>2. regUuids[c] = {} /\ OwnOf(c, DOMAIN regShared) = {}
    BY <2>1 DEF RegHeld
  <2> QED  BY <2>1, <2>2 DEF RegHeld, SharedListed
<1>2. ASSUME NEW w \in RegWins, DestroyHangs(c, w) PROVE RegHeld'
  <2>1. /\ regStatus' = [regStatus EXCEPT ![c] = "hung"]
        /\ UNCHANGED <<regShared, regLocal, regUuids, regListed, regKilled>>
    BY <1>2 DEF DestroyHangs
  <2> QED  BY <2>1 DEF RegHeld, SharedListed
<1> QED  BY <1>1, <1>2

(* A client ends: of the shared map and of the backend's list only windows  *)
(* of its own go, and from the list no window that stays in the map.        *)
LEMMA EndHeld ==
    ASSUME RegHeld, NEW c \in RegClients, NEW how, how \notin {"up", "new"},
           regStatus' = [regStatus EXCEPT ![c] = how],
           regUuids' = [regUuids EXCEPT ![c] = {}],
           DOMAIN regLocal' = RegClients,
           \A e \in RegClients \ {c} : regLocal'[e] = regLocal[e],
           DOMAIN regShared' \subseteq DOMAIN regShared,
           \A w \in regListed \ regListed' : w # RegRoot /\ RegOwner[w] = c,
           SharedListed', regKilled' = regKilled
    PROVE  RegHeld'
<1>1. /\ DOMAIN regStatus' = RegClients /\ DOMAIN regUuids' = RegClients
      /\ regStatus'[c] = how
      /\ \A e \in RegClients \ {c} : regStatus'[e] = regStatus[e] /\ regUuids'[e] = regUuids[e]
  BY DEF RegHeld
<1>2. ASSUME NEW e \in RegClients, regStatus'[e] = "up"
      PROVE  /\ regUuids'[e] = OwnOf(e, DOMAIN regLocal'[e]) \ regKilled
             /\ regUuids'[e] \subseteq regListed'
             /\ OwnOf(e, DOMAIN regShared') \subseteq DOMAIN regLocal'[e] \cup regKilled
  <2>1. e # c /\ regStatus[e] = "up"
    BY <1>1, <1>2
  <2>2. /\ regUuids[e] = OwnOf(e, DOMAIN regLocal[e]) \ regKilled
        /\ regUuids[e] \subseteq regListed
        /\ OwnOf(e, DOMAIN regShared) \subseteq DOMAIN regLocal[e] \cup regKilled
    BY <2>1 DEF RegHeld
  <2>3. regUuids[e] \subseteq regListed'
    BY <2>1, <2>2 DEF OwnOf
  <2>4. OwnOf(e, DOMAIN regShared') \subseteq OwnOf(e, DOMAIN regShared)
    BY DEF OwnOf
  <2> QED  BY <1>1, <2>1, <2>2, <2>3, <2>4
<1>3. ASSUME NEW e \in RegClients, regStatus'[e] = "new"
      PROVE  regUuids'[e] = {} /\ OwnOf(e, DOMAIN regShared') = {}
  <2>1. e # c /\ regStatus[e] = "new"
    BY <1>1, <1>3
  <2>2. regUuids[e] = {} /\ OwnOf(e, DOMAIN regShared) = {}
    BY <2>1 DEF RegHeld
  <2> QED  BY <1>1, <2>1, <2>2 DEF OwnOf
<1> QED  BY <1>1, <1>2, <1>3 DEF RegHeld

LEMMA HeldEnd ==
    ASSUME RegHeld, NEW c \in RegClients, Disconnect(c) \/ ConnectionDies(c)
    PROVE  RegHeld'
<1>1. PICK how \in {"closed", "died"} : TaskEnds(c, how)
  BY DEF Disconnect, ConnectionDies
<1>2. /\ regStatus' = [regStatus EXCEPT ![c] = how]
      /\ regUuids' = [regUuids EXCEPT ![c] = {}]
      /\ regLocal' = [regLocal EXCEPT ![c] = [w \in {} |-> 0]]
      /\ regKilled' = regKilled
  BY <1>1 DEF TaskEnds
<1>3. /\ DOMAIN regLocal' = RegClients
      /\ \A e \in RegClients \ {c} : regLocal'[e] = regLocal[e]
  BY <1>2 DEF RegHeld
<1>4. regStatus[c] = "up" /\ DOMAIN regShared \subseteq regListed \cup {RegRoot} \cup regKilled
  BY DEF RegHeld, SharedListed, Disconnect, ConnectionDies
<1>5. CASE Disconnect(c)
  <2> DEFINE gone == regUuids[c] \ Rescued(c)
  <2>1. DOMAIN RescuedShared(c) = DOMAIN regShared
    BY DEF RescuedShared
  <2>2. DOMAIN RemovedFromShared(RescuedShared(c), gone) = DOMAIN regShared \ gone
    <3>1. DOMAIN RemovedFromShared(RescuedShared(c), gone) = DOMAIN RescuedShared(c) \ gone
      BY DEF RemovedFromShared
    <3> QED  BY <2>1, <3>1
  <2>6. DOMAIN MarkedTemporary(RescuedShared(c), DOMAIN regLocal[c]) = DOMAIN regShared
    BY <2>1 DEF MarkedTemporary
  <2>3. \/ DOMAIN regShared' = DOMAIN regShared \ gone /\ regListed' = regListed \ gone
        \/ DOMAIN regShared' = DOMAIN regShared /\ regListed' = regListed
    BY <1>5, <2>1, <2>2, <2>6 DEF Disconnect
  <2>4. \A w \in gone : w # RegRoot /\ RegOwner[w] = c
    BY <1>4 DEF RegHeld, OwnOf
  <2> HIDE DEF gone
  <2>5. /\ DOMAIN regShared' \subseteq DOMAIN regShared /\ SharedListed'
        /\ \A w \in regListed \ regListed' : w # RegRoot /\ RegOwner[w] = c
    BY <1>2, <1>4, <2>3, <2>4 DEF SharedListed
  <2> QED  BY <1>2, <1>3, <2>5, EndHeld
<1>6. CASE ConnectionDies(c)
  <2> DEFINE owned == {w \in RegWins : RegOwner[w] = c}
             out == owned \cap DOMAIN regShared
  <2>1. DOMAIN RemovedFromShared(regShared, out) = DOMAIN regShared \ out
    BY DEF RemovedFromShared
  <2>2. \/ /\ DOMAIN regShared' = DOMAIN regShared \ out
           /\ regListed' = regListed \ (regIndex \cap owned)
        \/ DOMAIN regShared' = DOMAIN regShared /\ regListed' = regListed
    BY <1>6, <2>1 DEF ConnectionDies
  <2>3. \A w \in owned : w # RegRoot /\ RegOwner[w] = c
    BY RegAssumption
  <2> HIDE DEF owned
  <2>4. /\ DOMAIN regShared' \subseteq DOMAIN regShared /\ SharedListed'
        /\ \A w \in regListed \ regListed' : w # RegRoot /\ RegOwner[w] = c
    BY <1>2, <1>4, <2>2, <2>3 DEF SharedListed
  <2> QED  BY <1>2, <1>3, <2>4, EndHeld
<1> QED  BY <1>5, <1>6

LEMMA HeldStep ==
    ASSUME RegHeld, [RegNext]_regVars
    PROVE  RegHeld'
<1>1. CASE UNCHANGED regVars
  BY <1>1 DEF RegHeld, SharedListed, OwnOf, regVars
<1>2. ASSUME NEW c \in RegClients,
             \/ KillAllTemporary(c)
             \/ \E w \in RegNodes : KillClient(c, w)
             \/ \E w \in RegWins :
                 \/ DestroyWindow(c, w) \/ DestroySubwindows(c, w)
                 \/ \E p \in RegNodes, o \in BOOLEAN : CreateWindow(c, w, p, o)
      PROVE  RegHeld'
  BY <1>2, HeldCreate, HeldDestroy, HeldKill
<1> QED  BY <1>1, <1>2, HeldRequests, HeldConnect, HeldEnd DEF RegNext

LEMMA RedirectorStep ==
    ASSUME RegInv, [RegNext]_regVars
    PROVE  (regSubs \cup regWm \subseteq RegClients /\ NoDeadRedirector)'
<1> DEFINE P == regSubs \cup regWm \subseteq RegClients /\ NoDeadRedirector
<1>1. /\ DOMAIN regStatus = RegClients /\ regSubs \cup regWm \subseteq RegClients
      /\ \A c \in regSubs \cup regWm : regStatus[c] \in {"up", "hung"}
  BY DEF RegInv, RegHeld, NoDeadRedirector
<1>2. CASE UNCHANGED <<regStatus, regSubs, regWm>>
  BY <1>1, <1>2 DEF NoDeadRedirector
<1>3. ASSUME NEW c \in RegClients, SelectRedirect(c) PROVE P'
  BY <1>1, <1>3 DEF SelectRedirect, RegRequest, NoDeadRedirector
<1>4. ASSUME NEW c \in RegClients,
             Connect(c) \/ \E w \in RegWins : DestroyHangs(c, w)
      PROVE  P'
  <2>1. /\ UNCHANGED <<regSubs, regWm>>
        /\ \/ regStatus' = [regStatus EXCEPT ![c] = "up"]
           \/ regStatus' = [regStatus EXCEPT ![c] = "hung"]
    BY <1>4 DEF Connect, DestroyHangs
  <2> QED  BY <1>1, <2>1 DEF NoDeadRedirector
<1>5. ASSUME NEW c \in RegClients, Disconnect(c) \/ ConnectionDies(c)
      PROVE  P'
  <2>1. PICK how \in {"closed", "died"} : TaskEnds(c, how)
    BY <1>5 DEF Disconnect, ConnectionDies
  <2> QED  BY <1>1, <2>1 DEF TaskEnds, NoDeadRedirector
<1>6. ASSUME NEW c \in RegClients,
             \/ Sync(c) \/ KillAllTemporary(c)
             \/ \E w \in RegNodes : KillClient(c, w) \/ LookUpWindow(c, w)
             \/ \E mode \in CloseModes : SetCloseDownMode(c, mode)
             \/ \E w \in RegWins :
                  \/ DestroyWindow(c, w) \/ DestroySubwindows(c, w)
                  \/ MapWindow(c, w) \/ UnmapWindow(c, w) \/ ChangeSaveSet(c, w)
                  \/ ChangeOverride(c, w)
                  \/ \E p \in RegNodes :
                      \/ ReparentWindow(c, w, p)
                      \/ \E o \in BOOLEAN : CreateWindow(c, w, p, o)
      PROVE  P'
  <2> DEFINE S == UNCHANGED <<regStatus, regSubs, regWm>>
  <2>1. CASE Sync(c)
    BY <1>2, <2>1 DEF Sync
  <2>2. ASSUME NEW mode, SetCloseDownMode(c, mode) PROVE S
    BY <2>2 DEF SetCloseDownMode
  <2>3. ASSUME NEW w, DestroyWindow(c, w) PROVE S
    BY <2>3 DEF DestroyWindow
  <2>4. ASSUME NEW w, DestroySubwindows(c, w) PROVE S
    BY <2>4 DEF DestroySubwindows
  <2>5. ASSUME NEW w, MapWindow(c, w) PROVE S
    BY <2>5 DEF MapWindow
  <2>6. ASSUME NEW w, UnmapWindow(c, w) PROVE S
    BY <2>6 DEF UnmapWindow
  <2>7. ASSUME NEW w, ChangeSaveSet(c, w) PROVE S
    BY <2>7 DEF ChangeSaveSet
  <2>8. ASSUME NEW w, NEW p, NEW o, CreateWindow(c, w, p, o) PROVE S
    BY <2>8, Zenon DEF CreateWindow
  <2>9. ASSUME NEW w, NEW p, ReparentWindow(c, w, p) PROVE S
    BY <2>9 DEF ReparentWindow
  <2>10. ASSUME NEW w, KillClient(c, w) PROVE S
    BY <2>10, Zenon DEF KillClient
  <2>11. ASSUME NEW w, LookUpWindow(c, w) \/ ChangeOverride(c, w) PROVE S
    BY <2>11 DEF LookUpWindow, ChangeOverride
  <2>12. CASE KillAllTemporary(c)
    BY <1>2, <2>12, Zenon DEF KillAllTemporary
  <2> QED  BY <1>2, <1>6, <2>1, <2>2, <2>3, <2>4, <2>5, <2>6, <2>7, <2>8, <2>9, <2>10, <2>11, <2>12
<1> QED  BY <1>2, <1>3, <1>4, <1>5, <1>6 DEF RegNext, regVars

(* The registries agree whatever the clients request, in whatever order     *)
(* they sync, whoever destroys whose window and however a connection ends:  *)
(* every shared window is one the backend knows, a connected client can     *)
(* name exactly the windows of its own it holds (both but for the windows   *)
(* of a client that killed itself), and nobody who is gone redirects        *)
(* requests or manages windows.                                             *)
THEOREM RegistriesCoherent == RegSpec => []RegistryCoherent
<1>1. RegInit => RegInv
  <2> SUFFICES ASSUME RegInit PROVE RegInv
    OBVIOUS
  <2>1. DOMAIN regShared = {RegRoot} /\ regListed = {} /\ regSubs = {} /\ regWm = {}
    BY DEF RegInit
  <2>2. /\ DOMAIN regStatus = RegClients /\ DOMAIN regLocal = RegClients
        /\ DOMAIN regUuids = RegClients
        /\ \A c \in RegClients : regStatus[c] = "new" /\ regUuids[c] = {}
    BY DEF RegInit
  <2> QED  BY <2>1, <2>2 DEF RegInv, RegHeld, SharedListed, NoDeadRedirector, OwnOf
<1>2. RegInv /\ [RegNext]_regVars => RegInv'
  BY HeldStep, RedirectorStep DEF RegInv
<1>3. RegInv => RegistryCoherent
  BY DEF RegInv, RegHeld, RegistryCoherent, UuidsFollowOwn, OwnOf
<1> QED  BY <1>1, <1>2, <1>3, PTL DEF RegSpec

-----------------------------------------------------------------------------
(* XSelection. *)

Contents == {Content(x) : x \in SlClients}

(* One conversion at phase ph: what the requestor's property holds in its   *)
(* own copy mi and in the shared copy th, the transfer tr that feeds it,    *)
(* the answer fr and what was read of it, go.  Before the last value the    *)
(* chunk in the property is the one after those read, and the transfer      *)
(* stands just behind it, unless it was dropped for its age: then the       *)
(* property holds at most that chunk and no other follows.                  *)
Conversion(ph, mi, th, tr, fr, go) ==
    /\ ph \in {"idle", "asked", "done"} => mi = {} /\ th = {} /\ tr = {}
    /\ ph = "asked" => go = <<>>
    /\ ph = "told" =>
         /\ go = <<>> /\ fr \in Contents
         /\ \/ tr = {} /\ mi \subseteq {fr} /\ th \subseteq {fr}
            \/ /\ tr \subseteq {[data |-> fr, off |-> 0]} /\ mi = {Incr} /\ th = {}
               /\ Len(fr) > 1
    /\ ph = "incr" =>
         /\ fr \in Contents /\ th = {}
         /\ \/ \E k \in 1..Len(fr) : /\ tr \subseteq {[data |-> fr, off |-> k]}
                                     /\ mi = {<<fr[k]>>}
                                     /\ go = SubSeq(fr, 1, k - 1)
            \/ tr = {} /\ mi = {<<>>} /\ go = fr
            \/ tr = {} /\ mi = {} /\ \E k \in 0..Len(fr) : go = SubSeq(fr, 1, k)
    /\ ph = "done" => go = fr

(* The inductive invariant of the selection: every conversion is as above,  *)
(* and a request is with an owner only while the requestor waits for it.    *)
SlInv ==
    /\ DOMAIN slPhase = SlClients /\ DOMAIN slMine = SlClients
    /\ DOMAIN slTheirs = SlClients /\ DOMAIN slIncr = SlClients
    /\ DOMAIN slFrom = SlClients /\ DOMAIN slGot = SlClients
    /\ slUp \subseteq SlClients /\ slAsks \subseteq SlClients \X SlClients
    /\ slSaved \subseteq Contents
    /\ \A c \in SlClients :
         Conversion(slPhase[c], slMine[c], slTheirs[c], slIncr[c], slFrom[c], slGot[c])
    /\ \A a \in slAsks : slPhase[a[2]] = "asked"
    /\ \A a, b \in slAsks : a[2] = b[2] => a = b

(* What clients copy: sequences of one chunk or three, none of them the     *)
(* marker of a transfer.                                                    *)
LEMMA ContentChunks ==
    ASSUME NEW f \in Contents
    PROVE  /\ f \in Seq(SlClients \X Nat) /\ Len(f) \in {1, 3} /\ f # <<>>
           /\ f # Incr
           /\ \A k \in 1..Len(f) : <<f[k]>> # Incr /\ <<f[k]>> # <<>>
<1>1. PICK x \in SlClients : f = Content(x)
  BY DEF Contents
<1>2. CASE x \in SlLarge
  <2>1. f = [i \in 1..3 |-> <<x, i>>]
    BY <1>1, <1>2 DEF Content
  <2>2. f \in Seq(SlClients \X Nat) /\ Len(f) = 3
    BY <2>1
  <2>3. \A k \in 1..Len(f) : f[k] = <<x, k>> /\ k # 0
    BY <2>1, <2>2
  <2> QED  BY <2>2, <2>3 DEF Incr
<1>3. CASE x \notin SlLarge
  <2>1. f = <<<<x, 1>>>>
    BY <1>1, <1>3 DEF Content
  <2>2. f \in Seq(SlClients \X Nat) /\ Len(f) = 1 /\ f[1] = <<x, 1>>
    BY <2>1
  <2> QED  BY <2>1, <2>2 DEF Incr
<1> QED  BY <1>2, <1>3

(* g is f but for the value v at client r. *)
At(g, f, r, v) == /\ DOMAIN g = SlClients /\ g[r] = v
                  /\ \A c \in SlClients \ {r} : g[c] = f[c]

LEMMA AtChange ==
    ASSUME NEW f, DOMAIN f = SlClients, NEW r \in SlClients, NEW v
    PROVE  At([f EXCEPT ![r] = v], f, r, v)
BY DEF At

LEMMA AtSame ==
    ASSUME NEW f, DOMAIN f = SlClients, NEW r \in SlClients
    PROVE  At(f, f, r, f[r])
BY DEF At

(* A step that touches the conversion of client r only. *)
LEMMA OneConversion ==
    ASSUME SlInv, NEW r \in SlClients,
           NEW ph, NEW mi, NEW th, NEW tr, NEW fr, NEW go,
           Conversion(ph, mi, th, tr, fr, go),
           At(slPhase', slPhase, r, ph), At(slMine', slMine, r, mi),
           At(slTheirs', slTheirs, r, th), At(slIncr', slIncr, r, tr),
           At(slFrom', slFrom, r, fr), At(slGot', slGot, r, go),
           slUp' \subseteq SlClients, slSaved' \subseteq Contents,
           slAsks' \subseteq SlClients \X SlClients,
           \A a \in slAsks' : slPhase'[a[2]] = "asked",
           \A a, b \in slAsks' : a[2] = b[2] => a = b
    PROVE  SlInv'
<1>1. ASSUME NEW c \in SlClients
      PROVE  Conversion(slPhase'[c], slMine'[c], slTheirs'[c],
                        slIncr'[c], slFrom'[c], slGot'[c])
  <2>1. CASE c = r
    BY <2>1 DEF At
  <2>2. CASE c # r
    <3>1. /\ slPhase'[c] = slPhase[c] /\ slMine'[c] = slMine[c]
          /\ slTheirs'[c] = slTheirs[c] /\ slIncr'[c] = slIncr[c]
          /\ slFrom'[c] = slFrom[c] /\ slGot'[c] = slGot[c]
      BY <1>1, <2>2 DEF At
    <3>2. Conversion(slPhase[c], slMine[c], slTheirs[c], slIncr[c], slFrom[c], slGot[c])
      BY <1>1 DEF SlInv
    <3> QED  BY <3>1, <3>2
  <2> QED  BY <2>1, <2>2
<1>2. /\ DOMAIN slPhase' = SlClients /\ DOMAIN slMine' = SlClients
      /\ DOMAIN slTheirs' = SlClients /\ DOMAIN slIncr' = SlClients
      /\ DOMAIN slFrom' = SlClients /\ DOMAIN slGot' = SlClients
  BY DEF At
<1> QED  BY <1>1, <1>2 DEF SlInv

(* The client waits for no answer when its conversion is touched: no        *)
(* request of it is with an owner.                                          *)
LEMMA NotAsked ==
    ASSUME SlInv, NEW r \in SlClients, slPhase[r] # "asked", NEW ph,
           At(slPhase', slPhase, r, ph), UNCHANGED slAsks
    PROVE  /\ slAsks' \subseteq SlClients \X SlClients
           /\ \A a \in slAsks' : slPhase'[a[2]] = "asked"
           /\ \A a, b \in slAsks' : a[2] = b[2] => a = b
<1>1. /\ slAsks \subseteq SlClients \X SlClients
      /\ \A a \in slAsks : slPhase[a[2]] = "asked"
      /\ \A a, b \in slAsks : a[2] = b[2] => a = b
  BY DEF SlInv
<1>2. ASSUME NEW a \in slAsks PROVE slPhase'[a[2]] = "asked"
  <2>1. a[2] \in SlClients \ {r}
    BY <1>1, <1>2
  <2> QED  BY <1>1, <2>1 DEF At
<1> QED  BY <1>1, <1>2

(* The request of o for r has been answered or refused. *)
LEMMA AskDone ==
    ASSUME SlInv, NEW o, NEW r \in SlClients, <<o, r>> \in slAsks, NEW ph,
           At(slPhase', slPhase, r, ph), slAsks' = slAsks \ {<<o, r>>}
    PROVE  /\ slAsks' \subseteq SlClients \X SlClients
           /\ \A a \in slAsks' : slPhase'[a[2]] = "asked"
           /\ \A a, b \in slAsks' : a[2] = b[2] => a = b
<1>1. /\ slAsks \subseteq SlClients \X SlClients
      /\ \A a \in slAsks : slPhase[a[2]] = "asked"
      /\ \A a, b \in slAsks : a[2] = b[2] => a = b
  BY DEF SlInv
<1>2. ASSUME NEW a \in slAsks' PROVE slPhase'[a[2]] = "asked"
  <2>1. a \in slAsks /\ a # <<o, r>>
    BY <1>2
  <2>2. a[2] # <<o, r>>[2]
    BY <1>1, <2>1
  <2>3. a[2] \in SlClients \ {r}
    BY <1>1, <2>1, <2>2
  <2> QED  BY <1>1, <2>1, <2>3 DEF At
<1> QED  BY <1>1, <1>2

(* A step that leaves every conversion alone: whoever takes, releases,      *)
(* deletes or hands over the selection, a paste under way is not disturbed. *)
LEMMA SameConversions ==
    ASSUME SlInv, UNCHANGED <<slPaste, slAsks>>, slUp' \subseteq SlClients,
           slSaved' \subseteq Contents
    PROVE  SlInv'
BY DEF SlInv, slPaste

LEMMA SlOwnership ==
    ASSUME SlInv, NEW c \in SlClients,
           \/ TakeBegin(c) \/ TakeEnd(c) \/ Release(c) \/ DeleteSelection(c)
           \/ LeaveBegin(c) \/ LeaveEnd(c) \/ SlBreak(c)
    PROVE  SlInv'
<1>1. slUp \subseteq SlClients /\ slSaved \subseteq Contents
  BY DEF SlInv
<1>2. CASE TakeBegin(c) \/ DeleteSelection(c)
  BY <1>1, <1>2, SameConversions DEF TakeBegin, DeleteSelection
<1>3. CASE TakeEnd(c) \/ Release(c)
  BY <1>1, <1>3, SameConversions DEF TakeEnd, Release
<1>4. CASE LeaveBegin(c)
  <2>1. UNCHANGED <<slUp, slSaved, slAsks, slPaste>>
    BY <1>4, Zenon DEF LeaveBegin, slOwners
  <2> QED  BY <1>1, <2>1, SameConversions
<1>5. CASE LeaveEnd(c) \/ SlBreak(c)
  <2>1. UNCHANGED <<slSaved, slAsks, slPaste>> /\ slUp' = slUp \ {c}
    BY <1>5, Zenon DEF LeaveEnd, SlBreak
  <2> QED  BY <1>1, <2>1, SameConversions
<1> QED  BY <1>2, <1>3, <1>4, <1>5

(* What SlInv says of one client. *)
LEMMA OwnConversion ==
    ASSUME SlInv, NEW r \in SlClients
    PROVE  /\ Conversion(slPhase[r], slMine[r], slTheirs[r], slIncr[r], slFrom[r], slGot[r])
           /\ DOMAIN slPhase = SlClients /\ DOMAIN slMine = SlClients
           /\ DOMAIN slTheirs = SlClients /\ DOMAIN slIncr = SlClients
           /\ DOMAIN slFrom = SlClients /\ DOMAIN slGot = SlClients
           /\ slUp \subseteq SlClients /\ slSaved \subseteq Contents
BY DEF SlInv

(* The cache is served: at once when it is small, else the transfer begins. *)
LEMMA SlServe ==
    ASSUME SlInv, NEW c \in SlClients, NEW data \in slSaved,
           slPhase[c] \in {"idle", "done"},
           slGot' = [slGot EXCEPT ![c] = <<>>], ServePersistent(c, data),
           UNCHANGED <<slUp, slSaved, slTheirs>>
    PROVE  SlInv'
<1> DEFINE mi == {IF Len(data) > 1 THEN Incr ELSE data}
           tr == IF Len(data) > 1 THEN {[data |-> data, off |-> 0]} ELSE slIncr[c]
<1>1. /\ data \in Contents /\ slTheirs[c] = {} /\ slIncr[c] = {}
  BY OwnConversion DEF Conversion
<1>2. Conversion("told", mi, slTheirs[c], tr, data, <<>>)
  BY <1>1 DEF Conversion
<1>3. /\ slMine' = [slMine EXCEPT ![c] = mi] /\ slIncr' = [slIncr EXCEPT ![c] = tr]
      /\ slPhase' = [slPhase EXCEPT ![c] = "told"] /\ slFrom' = [slFrom EXCEPT ![c] = data]
      /\ UNCHANGED slAsks
  BY DEF ServePersistent
<1> HIDE DEF mi, tr
<1>4. /\ At(slPhase', slPhase, c, "told") /\ At(slMine', slMine, c, mi)
      /\ At(slIncr', slIncr, c, tr) /\ At(slFrom', slFrom, c, data)
      /\ At(slGot', slGot, c, <<>>) /\ At(slTheirs', slTheirs, c, slTheirs[c])
  BY <1>3, OwnConversion, AtChange, AtSame
<1>5. /\ slAsks' \subseteq SlClients \X SlClients
      /\ \A a \in slAsks' : slPhase'[a[2]] = "asked"
      /\ \A a, b \in slAsks' : a[2] = b[2] => a = b
  BY <1>3, <1>4, NotAsked
<1>6. slUp' \subseteq SlClients /\ slSaved' \subseteq Contents
  BY OwnConversion
<1> QED  BY <1>2, <1>4, <1>5, <1>6, OneConversion

(* The request goes to the owner, who is a client, or fails at once. *)
LEMMA SlForward ==
    ASSUME SlInv, NEW c \in SlClients, slPhase[c] \in {"idle", "done"},
           slGot' = [slGot EXCEPT ![c] = <<>>], Forward(c),
           UNCHANGED <<slUp, slSaved, slTheirs>>
    PROVE  SlInv'
<1> DEFINE o == GetSelectionOwner(c)
           ph == IF o \in SlClients THEN "asked" ELSE "idle"
<1>1. /\ slPhase' = [slPhase EXCEPT ![c] = ph] /\ UNCHANGED <<slMine, slIncr, slFrom>>
      /\ slAsks' = IF o \in slUp THEN slAsks \cup {<<o, c>>} ELSE slAsks
  BY DEF Forward
<1>2. slMine[c] = {} /\ slTheirs[c] = {} /\ slIncr[c] = {}
  BY OwnConversion DEF Conversion
<1>3. Conversion(ph, slMine[c], slTheirs[c], slIncr[c], slFrom[c], <<>>)
  BY <1>2 DEF Conversion
<1>4. o \in slUp => o \in SlClients /\ ph = "asked"
  BY OwnConversion
<1> HIDE DEF o, ph
<1>5. /\ At(slPhase', slPhase, c, ph) /\ At(slMine', slMine, c, slMine[c])
      /\ At(slIncr', slIncr, c, slIncr[c]) /\ At(slFrom', slFrom, c, slFrom[c])
      /\ At(slGot', slGot, c, <<>>) /\ At(slTheirs', slTheirs, c, slTheirs[c])
  BY <1>1, OwnConversion, AtChange, AtSame
<1>6. /\ slAsks \subseteq SlClients \X SlClients
      /\ \A a \in slAsks : slPhase[a[2]] = "asked"
      /\ \A a, b \in slAsks : a[2] = b[2] => a = b
  BY DEF SlInv
<1>7. \A a \in slAsks : a[2] \in SlClients \ {c}
  BY <1>6
<1>8. \A a \in slAsks : slPhase'[a[2]] = "asked"
  BY <1>5, <1>6, <1>7 DEF At
<1>9. slPhase'[c] = ph
  BY <1>5 DEF At
<1>10. /\ slAsks' \subseteq SlClients \X SlClients
       /\ \A a \in slAsks' : slPhase'[a[2]] = "asked"
       /\ \A a, b \in slAsks' : a[2] = b[2] => a = b
  <2>1. CASE o \notin slUp
    BY <1>1, <1>6, <1>8, <2>1
  <2>2. CASE o \in slUp
    <3>1. slAsks' = slAsks \cup {<<o, c>>} /\ <<o, c>>[2] = c
      BY <1>1, <2>2
    <3>2. \A a \in slAsks' : a \in slAsks \/ (a = <<o, c>> /\ a[2] = c)
      BY <3>1
    <3>3. \A a, b \in slAsks' : a[2] = b[2] => a = b
      BY <1>6, <1>7, <3>2
    <3>4. \A a \in slAsks' : slPhase'[a[2]] = "asked"
      BY <1>4, <1>8, <1>9, <2>2, <3>2
    <3>5. slAsks' \subseteq SlClients \X SlClients
      BY <1>4, <1>6, <2>2, <3>1
    <3> QED  BY <3>3, <3>4, <3>5
  <2> QED  BY <2>1, <2>2
<1>11. slUp' \subseteq SlClients /\ slSaved' \subseteq Contents
  BY OwnConversion
<1> QED  BY <1>3, <1>5, <1>10, <1>11, OneConversion

LEMMA SlConvert ==
    ASSUME SlInv, NEW c \in SlClients, ConvertSelection(c)
    PROVE  SlInv'
<1>1. /\ slPhase[c] \in {"idle", "done"} /\ slGot' = [slGot EXCEPT ![c] = <<>>]
      /\ UNCHANGED <<slUp, slSaved, slTheirs>>
  BY DEF ConvertSelection, slOwners
<1>2. CASE slShared = "server" /\ slSaved # {}
  <2>1. PICK data \in slSaved : ServePersistent(c, data)
    BY <1>2 DEF ConvertSelection
  <2> QED  BY <1>1, <2>1, SlServe
<1>3. CASE ~(slShared = "server" /\ slSaved # {})
  <2>1. Forward(c)
    BY <1>3 DEF ConvertSelection
  <2> QED  BY <1>1, <2>1, SlForward
<1> QED  BY <1>2, <1>3

LEMMA SlAnswer ==
    ASSUME SlInv, NEW o \in SlClients, NEW r \in SlClients, Answer(o, r)
    PROVE  SlInv'
<1> DEFINE v == Content(o)
           mi == IF o = r THEN {v} ELSE slMine[r]
           th == IF r \in slUp THEN {v} ELSE slTheirs[r]
<1>1. /\ <<o, r>> \in slAsks /\ slAsks' = slAsks \ {<<o, r>>}
      /\ slMine' = IF o = r THEN [slMine EXCEPT ![r] = {v}] ELSE slMine
      /\ slTheirs' = IF r \in slUp THEN [slTheirs EXCEPT ![r] = {v}] ELSE slTheirs
      /\ slSaved' = {v} /\ slPhase' = [slPhase EXCEPT ![r] = "told"]
      /\ slFrom' = [slFrom EXCEPT ![r] = v] /\ UNCHANGED <<slUp, slIncr, slGot>>
  BY DEF Answer
<1>2. v \in Contents
  BY DEF Contents
<1>3. slPhase[r] = "asked"
  <2>1. slPhase[<<o, r>>[2]] = "asked"
    BY <1>1 DEF SlInv
  <2> QED  BY <2>1
<1>4. slMine[r] = {} /\ slTheirs[r] = {} /\ slIncr[r] = {} /\ slGot[r] = <<>>
  BY <1>3, OwnConversion DEF Conversion
<1> HIDE DEF v
<1>5. Conversion("told", mi, th, slIncr[r], v, slGot[r])
  BY <1>2, <1>4 DEF Conversion
<1>6. At(slMine', slMine, r, mi) /\ At(slTheirs', slTheirs, r, th)
  BY <1>1, OwnConversion, AtChange, AtSame
<1> HIDE DEF mi, th
<1>7. /\ At(slPhase', slPhase, r, "told") /\ At(slIncr', slIncr, r, slIncr[r])
      /\ At(slFrom', slFrom, r, v) /\ At(slGot', slGot, r, slGot[r])
  BY <1>1, OwnConversion, AtChange, AtSame
<1>8. /\ slAsks' \subseteq SlClients \X SlClients
      /\ \A a \in slAsks' : slPhase'[a[2]] = "asked"
      /\ \A a, b \in slAsks' : a[2] = b[2] => a = b
  BY <1>1, <1>7, AskDone
<1>9. slUp' \subseteq SlClients /\ slSaved' \subseteq Contents
  BY <1>1, <1>2, OwnConversion
<1> QED  BY <1>5, <1>6, <1>7, <1>8, <1>9, OneConversion

LEMMA SlRefuse ==
    ASSUME SlInv, NEW o \in SlClients, NEW r \in SlClients, Refuse(o, r)
    PROVE  SlInv'
<1>1. /\ <<o, r>> \in slAsks /\ slAsks' = slAsks \ {<<o, r>>}
      /\ slPhase' = [slPhase EXCEPT ![r] = "idle"]
      /\ UNCHANGED <<slUp, slSaved, slMine, slTheirs, slIncr, slFrom, slGot>>
  BY DEF Refuse, slOwners
<1>2. slPhase[r] = "asked"
  <2>1. slPhase[<<o, r>>[2]] = "asked"
    BY <1>1 DEF SlInv
  <2> QED  BY <2>1
<1>3. Conversion("idle", slMine[r], slTheirs[r], slIncr[r], slFrom[r], slGot[r])
  BY <1>2, OwnConversion DEF Conversion
<1>4. /\ At(slPhase', slPhase, r, "idle") /\ At(slMine', slMine, r, slMine[r])
      /\ At(slTheirs', slTheirs, r, slTheirs[r]) /\ At(slIncr', slIncr, r, slIncr[r])
      /\ At(slFrom', slFrom, r, slFrom[r]) /\ At(slGot', slGot, r, slGot[r])
  BY <1>1, OwnConversion, AtChange, AtSame
<1>5. /\ slAsks' \subseteq SlClients \X SlClients
      /\ \A a \in slAsks' : slPhase'[a[2]] = "asked"
      /\ \A a, b \in slAsks' : a[2] = b[2] => a = b
  BY <1>1, <1>4, AskDone
<1>6. slUp' \subseteq SlClients /\ slSaved' \subseteq Contents
  BY <1>1, OwnConversion
<1> QED  BY <1>3, <1>4, <1>5, <1>6, OneConversion

(* A chunk appended to those before it, and all of them once the last is in. *)
LEMMA ChunkAppended ==
    ASSUME NEW f \in Contents, NEW k \in 1..Len(f)
    PROVE  /\ SubSeq(f, 1, k - 1) \o <<f[k]>> = SubSeq(f, 1, k)
           /\ k = Len(f) => SubSeq(f, 1, k) = f
           /\ SubSeq(f, 1, 0) = <<>> /\ <<>> \o f = f /\ f \o <<>> = f
<1> DEFINE S == SlClients \X Nat
<1>1. f \in Seq(S) /\ Len(f) \in Nat
  BY ContentChunks
<1> HIDE DEF S
<1>2. SubSeq(f, 1, k - 1) \o <<f[k]>> = SubSeq(f, 1, k)
  BY <1>1
<1>3. k = Len(f) => SubSeq(f, 1, k) = f
  BY <1>1
<1>4. SubSeq(f, 1, 0) = <<>> /\ <<>> \o f = f /\ f \o <<>> = f
  BY <1>1
<1> QED  BY <1>2, <1>3, <1>4

LEMMA ChunkCount ==
    ASSUME NEW n \in {1, 3}
    PROVE  1 \in 1..n /\ n \in 1..n /\ 0 \in 0..n /\ 1..n \subseteq 0..n
OBVIOUS

(* Reading a property that no transfer feeds: the requestor goes to phase ph *)
(* with g read, and the property is empty.                                   *)
LEMMA SlReadAlone ==
    ASSUME SlInv, NEW c \in SlClients, GetProperty(c), slIncr[c] = {},
           NEW ph \in {"incr", "done"}, NEW g,
           slGot' = [slGot EXCEPT ![c] = g], slPhase' = [slPhase EXCEPT ![c] = ph],
           slFrom[c] \in Contents,
           ph = "done" => g = slFrom[c],
           ph = "incr" => \E k \in 0..Len(slFrom[c]) : g = SubSeq(slFrom[c], 1, k)
    PROVE  SlInv'
<1> DEFINE f == slFrom[c]
<1>2. /\ slPhase[c] \in {"told", "incr"} /\ slTheirs' = [slTheirs EXCEPT ![c] = {}]
      /\ slMine' = [slMine EXCEPT ![c] = {}]
      /\ UNCHANGED <<slIncr, slUp, slSaved, slAsks, slFrom>>
  BY DEF GetProperty, slOwners
<1>6. Conversion(ph, {}, {}, slIncr[c], f, g)
  BY DEF Conversion
<1> HIDE DEF f
<1>7. /\ At(slPhase', slPhase, c, ph) /\ At(slMine', slMine, c, {})
      /\ At(slTheirs', slTheirs, c, {}) /\ At(slIncr', slIncr, c, slIncr[c])
      /\ At(slGot', slGot, c, g)
  BY <1>2, OwnConversion, AtChange, AtSame
<1>8. At(slFrom', slFrom, c, f)
  BY <1>2, OwnConversion, AtSame DEF f
<1>9. /\ slAsks' \subseteq SlClients \X SlClients
      /\ \A a \in slAsks' : slPhase'[a[2]] = "asked"
      /\ \A a, b \in slAsks' : a[2] = b[2] => a = b
  BY <1>2, <1>7, NotAsked
<1>10. slUp' \subseteq SlClients /\ slSaved' \subseteq Contents
  BY <1>2, OwnConversion
<1> QED  BY <1>6, <1>7, <1>8, <1>9, <1>10, OneConversion

(* It is the value and the end, or what a dropped transfer left: the marker  *)
(* or its last chunk.                                                        *)
LEMMA SlReadLast ==
    ASSUME SlInv, NEW c \in SlClients, GetProperty(c), slIncr[c] = {}
    PROVE  SlInv'
<1> DEFINE f == slFrom[c]
<1>1. PICK v \in Value(c) :
        /\ slGot' = [slGot EXCEPT ![c] = IF v = Incr THEN slGot[c] ELSE slGot[c] \o v]
        /\ slPhase' = [slPhase EXCEPT ![c] = IF v = Incr \/ (slPhase[c] = "incr" /\ v # <<>>)
                                             THEN "incr" ELSE "done"]
  BY DEF GetProperty
<1>2. slPhase[c] \in {"told", "incr"}
  BY DEF GetProperty
<1>3. f \in Contents
  BY <1>2, OwnConversion DEF Conversion
<1>4. Conversion(slPhase[c], slMine[c], slTheirs[c], {}, f, slGot[c])
  BY OwnConversion
<1>5. Len(f) \in {1, 3} /\ f # Incr
  BY <1>3, ContentChunks
<1>6. 0 \in 0..Len(f) /\ 1 \in 1..Len(f)
  BY <1>5, ChunkCount
<1>7. SubSeq(f, 1, 0) = <<>> /\ <<>> \o f = f /\ f \o <<>> = f
  BY <1>3, <1>6, ChunkAppended
<1>8. CASE slPhase[c] = "told" /\ v = f
  <2>1. slGot[c] = <<>>
    BY <1>4, <1>8 DEF Conversion
  <2>2. slGot' = [slGot EXCEPT ![c] = f] /\ slPhase' = [slPhase EXCEPT ![c] = "done"]
    BY <1>1, <1>5, <1>7, <1>8, <2>1
  <2> QED  BY <1>3, <2>2, SlReadAlone
<1>9. CASE slPhase[c] = "told" /\ v = Incr
  <2>1. slGot[c] = SubSeq(f, 1, 0)
    BY <1>4, <1>7, <1>9 DEF Conversion
  <2>2. slGot' = [slGot EXCEPT ![c] = SubSeq(f, 1, 0)] /\ slPhase' = [slPhase EXCEPT ![c] = "incr"]
    BY <1>1, <1>9, <2>1
  <2> QED  BY <1>3, <1>6, <2>2, SlReadAlone
<1>10. CASE slPhase[c] = "incr" /\ v = <<>> /\ slGot[c] = f
  <2>1. v # Incr
    BY <1>10 DEF Incr
  <2>2. slGot' = [slGot EXCEPT ![c] = f] /\ slPhase' = [slPhase EXCEPT ![c] = "done"]
    BY <1>1, <1>7, <1>10, <2>1
  <2> QED  BY <1>3, <2>2, SlReadAlone
<1>11. ASSUME slPhase[c] = "incr", NEW k \in 1..Len(f), v = <<f[k]>>, slGot[c] = SubSeq(f, 1, k - 1)
       PROVE  SlInv'
  <2>1. v # Incr /\ v # <<>>
    BY <1>3, <1>11, ContentChunks
  <2>2. slGot[c] \o v = SubSeq(f, 1, k)
    <3>1. \A j \in 1..Len(f) : SubSeq(f, 1, j - 1) \o <<f[j]>> = SubSeq(f, 1, j)
      BY <1>3, ChunkAppended
    <3> QED  BY <1>11, <3>1, Zenon
  <2>3. k \in 0..Len(f)
    <3>1. 1..Len(f) \subseteq 0..Len(f)
      BY <1>5, ChunkCount
    <3> QED  BY <3>1
  <2>4. /\ slGot' = [slGot EXCEPT ![c] = SubSeq(f, 1, k)]
        /\ slPhase' = [slPhase EXCEPT ![c] = "incr"]
    BY <1>1, <1>11, <2>1, <2>2
  <2> QED  BY <1>3, <2>3, <2>4, SlReadAlone
<1>12. CASE slPhase[c] = "told"
  <2>1. \/ slMine[c] \subseteq {f} /\ slTheirs[c] \subseteq {f}
        \/ slMine[c] = {Incr} /\ slTheirs[c] = {}
    <3> HIDE DEF f
    <3> QED  BY <1>4, <1>12 DEF Conversion
  <2>2. v = f \/ v = Incr
    BY <2>1 DEF Value
  <2> QED  BY <1>8, <1>9, <1>12, <2>2
<1>13. CASE slPhase[c] = "incr"
  <2>1. /\ slTheirs[c] = {}
        /\ \/ \E k \in 1..Len(f) : slMine[c] = {<<f[k]>>} /\ slGot[c] = SubSeq(f, 1, k - 1)
           \/ slMine[c] = {<<>>} /\ slGot[c] = f
           \/ slMine[c] = {}
    <3> HIDE DEF f
    <3> QED  BY <1>4, <1>13 DEF Conversion
  <2>2. CASE slMine[c] = {<<>>} /\ slGot[c] = f
    <3>1. v = <<>>
      BY <2>2 DEF Value
    <3> QED  BY <1>10, <1>13, <2>2, <3>1
  <2>3. CASE slMine[c] = {}
    BY <2>1, <2>3 DEF Value
  <2>4. ASSUME NEW k \in 1..Len(f), slMine[c] = {<<f[k]>>}, slGot[c] = SubSeq(f, 1, k - 1)
        PROVE  SlInv'
    <3>1. v = <<f[k]>>
      BY <2>4 DEF Value
    <3> QED  BY <1>11, <1>13, <2>4, <3>1
  <2> QED  BY <2>1, <2>2, <2>3, <2>4
<1> QED  BY <1>2, <1>12, <1>13

(* A transfer that is dropped for its age. *)
LEMMA SlDropped ==
    ASSUME SlInv, NEW c \in SlClients, CleanupStale(c)
    PROVE  SlInv'
<1>1. /\ slIncr' = [slIncr EXCEPT ![c] = {}] /\ slIncr[c] # {}
      /\ UNCHANGED <<slUp, slSaved, slAsks, slPhase, slMine, slTheirs, slFrom, slGot>>
  BY DEF CleanupStale, slOwners
<1>2. Conversion(slPhase[c], slMine[c], slTheirs[c], {}, slFrom[c], slGot[c])
  <2>1. Conversion(slPhase[c], slMine[c], slTheirs[c], slIncr[c], slFrom[c], slGot[c])
    BY OwnConversion
  <2> QED  BY <1>1, <2>1 DEF Conversion
<1>3. /\ At(slPhase', slPhase, c, slPhase[c]) /\ At(slMine', slMine, c, slMine[c])
      /\ At(slTheirs', slTheirs, c, slTheirs[c]) /\ At(slIncr', slIncr, c, {})
      /\ At(slFrom', slFrom, c, slFrom[c]) /\ At(slGot', slGot, c, slGot[c])
  BY <1>1, OwnConversion, AtChange, AtSame
<1>4. /\ slAsks' \subseteq SlClients \X SlClients
      /\ \A a \in slAsks' : slPhase'[a[2]] = "asked"
      /\ \A a, b \in slAsks' : a[2] = b[2] => a = b
      /\ slUp' \subseteq SlClients /\ slSaved' \subseteq Contents
  BY <1>1 DEF SlInv
<1> QED  BY <1>2, <1>3, <1>4, OneConversion

(* A transfer that has written k chunks of f and whose k-th is read: the    *)
(* next one, or the empty value after the last, is in the property.         *)
LEMMA SlAdvance ==
    ASSUME SlInv, NEW c \in SlClients, slPhase[c] \in {"told", "incr"},
           NEW k \in 0..Len(slFrom[c]),
           slFrom[c] \in Contents,
           AdvanceIncr(c, [data |-> slFrom[c], off |-> k]),
           slTheirs' = [slTheirs EXCEPT ![c] = {}],
           slPhase' = [slPhase EXCEPT ![c] = "incr"],
           slGot' = [slGot EXCEPT ![c] = SubSeq(slFrom[c], 1, k)],
           UNCHANGED <<slUp, slSaved, slAsks, slFrom>>
    PROVE  SlInv'
<1> DEFINE f == slFrom[c]
           g == SubSeq(f, 1, k)
           mi == IF k = Len(f) THEN {<<>>} ELSE {<<f[k + 1]>>}
           tr == IF k = Len(f) THEN {} ELSE {[data |-> f, off |-> k + 1]}
<1>1. Len(f) \in {1, 3}
  BY ContentChunks
<1>2. Conversion("incr", mi, {}, tr, f, g)
  <2>1. CASE k = Len(f)
    <3>1. k \in 1..Len(f)
      BY <1>1, <2>1, ChunkCount
    <3>2. g = f
      <4>1. \A j \in 1..Len(f) : j = Len(f) => SubSeq(f, 1, j) = f
        BY ChunkAppended
      <4> QED  BY <2>1, <3>1, <4>1
    <3> QED  BY <2>1, <3>2 DEF Conversion
  <2>2. CASE k # Len(f)
    <3>1. k + 1 \in 1..Len(f) /\ (k + 1) - 1 = k
      BY <1>1, <2>2
    <3>2. mi = {<<f[k + 1]>>} /\ tr = {[data |-> f, off |-> k + 1]}
      BY <2>2
    <3>3. g = SubSeq(f, 1, (k + 1) - 1)
      BY <3>1
    <3> QED  BY <3>1, <3>2, <3>3 DEF Conversion
  <2> QED  BY <2>1, <2>2
<1>3. /\ slMine' = [slMine EXCEPT ![c] = mi] /\ slIncr' = [slIncr EXCEPT ![c] = tr]
  BY DEF AdvanceIncr
<1> HIDE DEF f, g, mi, tr
<1>4. /\ At(slPhase', slPhase, c, "incr") /\ At(slMine', slMine, c, mi)
      /\ At(slTheirs', slTheirs, c, {}) /\ At(slIncr', slIncr, c, tr)
  BY <1>3, OwnConversion, AtChange
<1>5. At(slFrom', slFrom, c, f) /\ At(slGot', slGot, c, g)
  BY OwnConversion, AtChange, AtSame DEF f, g
<1>6. /\ slAsks' \subseteq SlClients \X SlClients
      /\ \A a \in slAsks' : slPhase'[a[2]] = "asked"
      /\ \A a, b \in slAsks' : a[2] = b[2] => a = b
  BY <1>4, NotAsked
<1>7. slUp' \subseteq SlClients /\ slSaved' \subseteq Contents
  BY OwnConversion
<1> QED  BY <1>2, <1>4, <1>5, <1>6, <1>7, OneConversion

(* Reading a property that a transfer feeds: the marker or the k-th chunk. *)
LEMMA SlReadChunk ==
    ASSUME SlInv, NEW c \in SlClients, GetProperty(c), slIncr[c] # {}
    PROVE  SlInv'
<1> DEFINE f == slFrom[c]
<1>1. PICK v \in Value(c) :
        /\ slGot' = [slGot EXCEPT ![c] = IF v = Incr THEN slGot[c] ELSE slGot[c] \o v]
        /\ slPhase' = [slPhase EXCEPT ![c] = IF v = Incr \/ (slPhase[c] = "incr" /\ v # <<>>)
                                             THEN "incr" ELSE "done"]
  BY DEF GetProperty
<1>2. /\ slPhase[c] \in {"told", "incr"} /\ slTheirs' = [slTheirs EXCEPT ![c] = {}]
      /\ UNCHANGED <<slUp, slSaved, slAsks, slFrom>>
  BY DEF GetProperty, slOwners
<1>3. PICK t \in slIncr[c] : AdvanceIncr(c, t)
  BY DEF GetProperty
<1>4. f \in Contents
  BY <1>2, OwnConversion DEF Conversion
<1>5. Conversion(slPhase[c], slMine[c], slTheirs[c], slIncr[c], f, slGot[c])
  BY OwnConversion
<1>6. CASE slPhase[c] = "told"
  <2>1. /\ slIncr[c] = {[data |-> f, off |-> 0]} /\ slMine[c] = {Incr} /\ slGot[c] = <<>>
    <3> HIDE DEF f
    <3> QED  BY <1>5, <1>6 DEF Conversion
  <2>2. v = Incr /\ t = [data |-> f, off |-> 0]
    BY <2>1 DEF Value
  <2>3. Len(f) \in {1, 3}
    BY <1>4, ContentChunks
  <2>4. 0 \in 0..Len(f) /\ 1 \in 1..Len(f)
    BY <2>3, ChunkCount
  <2>5. SubSeq(f, 1, 0) = <<>>
    BY <1>4, <2>4, ChunkAppended
  <2>6. /\ slGot' = [slGot EXCEPT ![c] = SubSeq(f, 1, 0)]
        /\ slPhase' = [slPhase EXCEPT ![c] = "incr"]
    BY <1>1, <2>1, <2>2, <2>5
  <2>7. AdvanceIncr(c, [data |-> f, off |-> 0])
    BY <1>3, <2>2
  <2> QED  BY <1>2, <1>4, <2>4, <2>6, <2>7, SlAdvance
<1>7. CASE slPhase[c] = "incr"
  <2>1. PICK k \in 1..Len(f) : /\ slIncr[c] = {[data |-> f, off |-> k]}
                               /\ slMine[c] = {<<f[k]>>}
                               /\ slGot[c] = SubSeq(f, 1, k - 1)
    <3> HIDE DEF f
    <3> QED  BY <1>5, <1>7 DEF Conversion
  <2>2. v = <<f[k]>> /\ t = [data |-> f, off |-> k]
    BY <2>1 DEF Value
  <2>3. v # Incr /\ v # <<>> /\ Len(f) \in {1, 3}
    BY <1>4, <2>2, ContentChunks
  <2>4. k \in 0..Len(f)
    <3>1. 1..Len(f) \subseteq 0..Len(f)
      BY <2>3, ChunkCount
    <3> QED  BY <3>1
  <2>5. slGot[c] \o v = SubSeq(f, 1, k)
    <3>1. \A j \in 1..Len(f) : SubSeq(f, 1, j - 1) \o <<f[j]>> = SubSeq(f, 1, j)
      BY <1>4, ChunkAppended
    <3> QED  BY <2>1, <2>2, <3>1, Zenon
  <2>6. /\ slGot' = [slGot EXCEPT ![c] = SubSeq(f, 1, k)]
        /\ slPhase' = [slPhase EXCEPT ![c] = "incr"]
    BY <1>1, <1>7, <2>3, <2>5
  <2>7. AdvanceIncr(c, [data |-> f, off |-> k])
    BY <1>3, <2>2
  <2> QED  BY <1>2, <1>4, <2>4, <2>6, <2>7, SlAdvance
<1> QED  BY <1>2, <1>6, <1>7

LEMMA SlStep ==
    ASSUME SlInv, [SlNext]_slVars
    PROVE  SlInv'
<1>1. CASE UNCHANGED slVars
  <2>1. UNCHANGED <<slPaste, slAsks, slUp, slSaved>>
    BY <1>1 DEF slVars, slOwners
  <2> QED  BY <2>1, SameConversions DEF SlInv
<1>2. ASSUME NEW c \in SlClients, GetProperty(c) PROVE SlInv'
  BY <1>2, SlReadLast, SlReadChunk
<1>3. ASSUME NEW c \in SlClients, NEW r \in SlClients, Answer(c, r) \/ Refuse(c, r)
      PROVE  SlInv'
  BY <1>3, SlAnswer, SlRefuse
<1> QED  BY <1>1, <1>2, <1>3, SlOwnership, SlConvert, SlDropped DEF SlNext

LEMMA SlInitInv == SlInit => SlInv
<1> SUFFICES ASSUME SlInit PROVE SlInv
  OBVIOUS
<1>1. /\ slUp = SlClients /\ slAsks = {} /\ slSaved = {}
      /\ DOMAIN slPhase = SlClients /\ DOMAIN slMine = SlClients
      /\ DOMAIN slTheirs = SlClients /\ DOMAIN slIncr = SlClients
      /\ DOMAIN slFrom = SlClients /\ DOMAIN slGot = SlClients
      /\ \A c \in SlClients : /\ slPhase[c] = "idle" /\ slMine[c] = {}
                              /\ slTheirs[c] = {} /\ slIncr[c] = {}
  BY DEF SlInit
<1>2. \A c \in SlClients :
        Conversion(slPhase[c], slMine[c], slTheirs[c], slIncr[c], slFrom[c], slGot[c])
  BY <1>1 DEF Conversion
<1> QED  BY <1>1, <1>2 DEF SlInv

(* Whatever happens to the ownership of the selection while a client pastes *)
(* (it is taken, released, deleted, handed to the server, its owner leaves  *)
(* or breaks), what the client reads is a prefix of one answer and in the   *)
(* end all of it, whether it came at once or in chunks.                     *)
THEOREM PastesWhole == SlSpec => []PasteDelivers
<1>2. SlInv => PasteDelivers
  <2> SUFFICES ASSUME SlInv, NEW c \in SlClients
               PROVE  /\ slPhase[c] \in {"told", "incr"} => IsPrefix(slGot[c], slFrom[c])
                      /\ slPhase[c] = "done" => slGot[c] = slFrom[c]
    BY DEF PasteDelivers
  <2> DEFINE f == slFrom[c]
             g == slGot[c]
  <2>1. Conversion(slPhase[c], slMine[c], slTheirs[c], slIncr[c], f, g)
    BY OwnConversion
  <2>2. slPhase[c] = "done" => g = f
    BY <2>1 DEF Conversion
  <2>3. ASSUME slPhase[c] \in {"told", "incr"} PROVE IsPrefix(g, f)
    <3> HIDE DEF f, g
    <3>1. f \in Contents
      BY <2>1, <2>3 DEF Conversion
    <3>2. f \in Seq(SlClients \X Nat)
      BY <3>1, ContentChunks
    <3>3. \/ g = <<>> \/ g = f \/ \E k \in 1..Len(f) : g = SubSeq(f, 1, k - 1)
          \/ \E k \in 0..Len(f) : g = SubSeq(f, 1, k)
      BY <2>1, <2>3 DEF Conversion
    <3>4. CASE g = <<>> \/ g = f
      BY <3>2, <3>4 DEF IsPrefix
    <3>5. ASSUME NEW k \in 1..Len(f), g = SubSeq(f, 1, k - 1) PROVE IsPrefix(g, f)
      BY <3>2, <3>5 DEF IsPrefix
    <3>6. ASSUME NEW k \in 0..Len(f), g = SubSeq(f, 1, k) PROVE IsPrefix(g, f)
      BY <3>2, <3>6 DEF IsPrefix
    <3> QED  BY <3>3, <3>4, <3>5, <3>6
  <2> QED  BY <2>2, <2>3
<1> QED  BY <1>2, SlInitInv, SlStep, PTL DEF SlSpec

-----------------------------------------------------------------------------
(* Induction over numbers, and functions that are defined by recursion: a    *)
(* recursion whose steps stay in a set defines a function.                   *)
LEMMA NumInduction ==
  ASSUME NEW T, 0 \in T, \A n \in Nat : n \in T => n + 1 \in T
  PROVE  Nat \subseteq T
<1> DEFINE R == OpToRel(<, Nat)
           U == Nat \ T
<1> SUFFICES ASSUME U # {} PROVE FALSE
  OBVIOUS
<1>1. IsWellFoundedOn(R, Nat)
  BY NatLessThanWellFounded
<1>2. \A x, y \in Nat : <<x, y>> \in R <=> x < y
  BY DEF OpToRel
<1>3. U \subseteq Nat
  OBVIOUS
<1> HIDE DEF R, U
<1>4. PICK x \in U : \A y \in U : ~(<<y, x>> \in R)
  BY <1>1, <1>3, WFMin
<1>5. x \in Nat /\ x \notin T /\ x # 0
  BY <1>4 DEF U
<1>6. x - 1 \in Nat /\ x - 1 < x
  BY <1>5
<1>7. x - 1 \notin U
  BY <1>2, <1>3, <1>4, <1>6
<1>8. x - 1 \in T
  BY <1>6, <1>7 DEF U
<1>9. (x - 1) + 1 \in T
  BY <1>6, <1>8
<1> QED  BY <1>5, <1>9

Maps(S) == [S -> S]
Steps(n, S) == [1..n -> Maps(S)]
Chain(f, n, S, a, G) == f \in [0..n -> S] /\ f[0] = a /\ \A i \in 1..n : f[i] = G[i][f[i-1]]

LEMMA RecursionExists ==
  ASSUME NEW S, NEW n \in Nat, NEW a \in S, NEW G \in Steps(n, S)
  PROVE  \E f : Chain(f, n, S, a, G)
<1> DEFINE T == {m \in Nat : m <= n =>
                    \E f \in [0..m -> S] : f[0] = a /\ \A i \in 1..m : f[i] = G[i][f[i-1]]}
<1>1. 0 \in T
  <2> DEFINE f == [i \in 0..0 |-> a]
  <2>1. f \in [0..0 -> S] /\ f[0] = a /\ \A i \in 1..0 : f[i] = G[i][f[i-1]]
    OBVIOUS
  <2> QED  BY <2>1
<1>2. ASSUME NEW m \in Nat, m \in T PROVE m + 1 \in T
  <2> SUFFICES ASSUME m + 1 <= n
               PROVE  \E f \in [0..(m+1) -> S] : f[0] = a /\ \A i \in 1..(m+1) : f[i] = G[i][f[i-1]]
    OBVIOUS
  <2>1. PICK f \in [0..m -> S] : f[0] = a /\ \A i \in 1..m : f[i] = G[i][f[i-1]]
    BY <1>2
  <2> DEFINE h == [i \in 0..(m + 1) |-> IF i <= m THEN f[i] ELSE G[m+1][f[m]]]
  <2>2. G[m+1][f[m]] \in S
    <3>1. m + 1 \in 1..n /\ m \in 0..m OBVIOUS
    <3>2. G[m+1] \in [S -> S] /\ f[m] \in S BY <3>1 DEF Steps, Maps
    <3> QED  BY <3>2
  <2>3. h \in [0..(m+1) -> S]
    BY <2>2
  <2>4. h[0] = a
    BY <2>1
  <2>5. ASSUME NEW i \in 1..(m+1) PROVE h[i] = G[i][h[i-1]]
    <3>1. i - 1 \in 0..m /\ i - 1 \in 0..(m+1) /\ i \in 0..(m+1) OBVIOUS
    <3>2. h[i-1] = f[i-1] BY <3>1
    <3>3. CASE i <= m
      <4>1. h[i] = f[i] /\ i \in 1..m BY <3>3
      <4> QED  BY <2>1, <3>2, <4>1
    <3>4. CASE i = m + 1
      <4>1. h[i] = G[m+1][f[m]] /\ i - 1 = m BY <3>4
      <4> QED  BY <3>2, <3>4, <4>1
    <3> QED  BY <3>3, <3>4
  <2> HIDE DEF h
  <2> QED  BY <2>3, <2>4, <2>5
<1> HIDE DEF T
<1>3. n \in T
  BY <1>1, <1>2, NumInduction
<1> QED  BY <1>3 DEF T, Chain

-----------------------------------------------------------------------------
(* XEwmh. *)

(* The geometry to come back to and the framebuffer, with the types their    *)
(* updates need.                                                             *)
EwInv == EwTypeOK /\ GeometryRestored /\ FramebufferFits

LEMMA EwInitInv == EwInit => EwInv
  BY DEF EwInit, EwInv, EwTypeOK, GeometryRestored, FramebufferFits, EwGeos, EwWmStates, EwStates

(* Requests that leave the place of the window alone. *)
LEMMA EwPlaceKept ==
  ASSUME EwInv, UNCHANGED ewPlace
  PROVE  GeometryRestored' /\ FramebufferFits'
  BY DEF EwInv, GeometryRestored, FramebufferFits, ewPlace

LEMMA EwNetWmState ==
  ASSUME EwInv, NEW action \in {"remove", "add", "toggle"},
         NEW atoms \in {{"full"}, {"max"}, {"hidden"}, {"max", "modal"}},
         NetWmState(action, atoms)
  PROVE  EwInv'
<1> DEFINE new == Edited(action, atoms)
<1>1. atoms \subseteq EwStates
  BY DEF EwStates
<1>2. new \subseteq EwStates
  BY <1>1 DEF EwInv, EwTypeOK, Edited
<1>3. StateOf(new) \in EwWmStates
  BY DEF StateOf, EwWmStates
<1>4. /\ ewAtoms' = new /\ ewTold' = StateOf(new) /\ ewModal' \in BOOLEAN
      /\ UNCHANGED <<ewWmState, ewScreen, ewAlive>>
  BY DEF NetWmState, ewRoot, ewLife
<1> HIDE DEF new
<1>5. ASSUME Enlarge, ewSaved = {}
      PROVE  EwInv'
  BY <1>2, <1>3, <1>4, <1>5 DEF Enlarge, EwInv, EwTypeOK, GeometryRestored, FramebufferFits, EwGeos
<1>6. ASSUME Restore
      PROVE  EwInv'
  <2>1. PICK g \in ewSaved : /\ ewSaved' = {} /\ ewGeo' = g /\ ewToldGeo' = g
                             /\ ewFb' = g.w /\ ewLoose' = FALSE /\ UNCHANGED ewHome
    BY <1>6 DEF Restore
  <2>2. g = ewHome /\ g \in EwGeos
    BY DEF EwInv, GeometryRestored, EwTypeOK
  <2>3. g.w \in EwWidths \cup EwScreens
    BY <2>2 DEF EwGeos
  <2> QED
    BY <1>2, <1>3, <1>4, <2>1, <2>2, <2>3 DEF EwInv, EwTypeOK, GeometryRestored, FramebufferFits
<1>7. ASSUME UNCHANGED ewPlace
      PROVE  EwInv'
  <2>1. EwTypeOK'
    BY <1>2, <1>3, <1>4, <1>7 DEF ewPlace, EwInv, EwTypeOK
  <2> QED
    BY <1>7, <2>1, EwPlaceKept DEF EwInv
<1>8. (Enlarge /\ ewSaved = {}) \/ Restore \/ UNCHANGED ewPlace
  BY DEF NetWmState, new, Enlarges
<1> QED
  BY <1>5, <1>6, <1>7, <1>8

LEMMA EwStepInv == EwInv /\ [EwNext]_ewVars => EwInv'
<1> SUFFICES ASSUME EwInv, [EwNext]_ewVars PROVE EwInv'
  OBVIOUS
<1> USE DEF EwInv
<1>1. CASE \E action \in {"remove", "add", "toggle"},
              atoms \in {{"full"}, {"max"}, {"hidden"}, {"max", "modal"}} : NetWmState(action, atoms)
  BY <1>1, EwNetWmState
<1>2. CASE \E hide \in BOOLEAN : WmChangeState(hide)
  BY <1>2, EwPlaceKept DEF WmChangeState, ewRoot, ewLife, ewPlace, EwTypeOK, EwStates, EwWmStates
<1>3. CASE NetWmMoveResize \/ NetRestackWindow
  BY <1>3, EwPlaceKept
  DEF NetWmMoveResize, NetRestackWindow, ewRoot, ewLife, ewPlace, EwTypeOK, EwWmStates
<1>4. CASE \E deletes \in BOOLEAN : NetCloseWindow(deletes) \/ BrowserCloses(deletes)
  BY <1>4, EwPlaceKept DEF NetCloseWindow, BrowserCloses, ewRoot, ewPlace, EwTypeOK
<1>5. ASSUME NEW g \in [x : EwXs, w : EwWidths], NEW flags \in SUBSET {"x", "w"},
             NetMoveResizeWindow(g, flags)
      PROVE  EwInv'
  <2> DEFINE new == [x |-> IF "x" \in flags THEN g.x ELSE ewGeo.x,
                     w |-> IF "w" \in flags THEN g.w ELSE ewGeo.w]
  <2>1. new \in EwGeos /\ g \in EwGeos
    BY DEF EwTypeOK, EwGeos
  <2>2. /\ ewGeo' = new /\ ewToldGeo' = g
        /\ ewHome' = IF ewSaved = {} THEN new ELSE ewHome
        /\ ewLoose' = (ewLoose \/ "w" \in flags)
        /\ UNCHANGED <<ewAtoms, ewWmState, ewModal, ewTold, ewFb, ewSaved, ewScreen, ewAlive>>
    BY <1>5 DEF NetMoveResizeWindow, ewRoot, ewLife
  <2>3. ~("w" \in flags) => new.w = ewGeo.w
    OBVIOUS
  <2> HIDE DEF new
  <2>4. EwTypeOK' /\ GeometryRestored'
    BY <2>1, <2>2 DEF EwTypeOK, GeometryRestored
  <2>5. FramebufferFits'
    BY <2>2, <2>3 DEF FramebufferFits, EwTypeOK
  <2> QED
    BY <2>4, <2>5
<1>11. ASSUME NEW g \in [x : EwXs, w : EwWidths], NEW flags \in SUBSET {"x", "w"},
              NEW refused \in BOOLEAN, ConfigureWindow(g, flags, refused)
       PROVE  EwInv'
  <2> DEFINE new == [x |-> IF "x" \in flags THEN g.x ELSE ewGeo.x,
                     w |-> IF "w" \in flags THEN g.w ELSE ewGeo.w]
  <2>1. new \in EwGeos /\ new.w \in EwWidths \cup EwScreens
    BY DEF EwTypeOK, EwGeos
  <2>2. /\ ewGeo' = new
        /\ ewHome' = IF ewSaved = {} THEN new ELSE ewHome
        /\ UNCHANGED <<ewAtoms, ewWmState, ewModal, ewTold, ewSaved, ewScreen, ewAlive>>
    BY <1>11 DEF ConfigureWindow, ewRoot, ewLife
  <2>3. \/ ewLoose' = (ewLoose \/ "w" \in flags) /\ UNCHANGED <<ewFb, ewToldGeo>>
        \/ ewLoose' = FALSE /\ ewFb' = new.w /\ ewToldGeo' = new
    BY <1>11 DEF ConfigureWindow
  <2>4. ~("w" \in flags) => new.w = ewGeo.w
    OBVIOUS
  <2> HIDE DEF new
  <2>5. EwTypeOK' /\ GeometryRestored'
    BY <2>1, <2>2, <2>3 DEF EwTypeOK, GeometryRestored
  <2>6. FramebufferFits'
    BY <2>2, <2>3, <2>4 DEF FramebufferFits, EwTypeOK
  <2> QED
    BY <2>5, <2>6
<1>6. CASE \E state \in EwWmStates : WindowManage(state)
  BY <1>6, EwPlaceKept
  DEF WindowManage, AtomsFor, ewRoot, ewLife, ewPlace, EwTypeOK, EwWmStates, EwStates
<1>7. ASSUME NEW w \in EwWidths \cup EwScreens, ResizeWindow(w)
      PROVE  EwInv'
  BY <1>7 DEF ResizeWindow, ewRoot, ewLife, EwTypeOK, EwGeos, GeometryRestored, FramebufferFits
<1>8. CASE \E s \in EwWidths : RecalculateWorkarea(s)
  BY <1>8, EwPlaceKept DEF RecalculateWorkarea, ewLife, ewPlace, EwTypeOK
<1>9. CASE \E w \in EwScreens : ApplyScreenResize(w)
  BY <1>9, EwPlaceKept DEF ApplyScreenResize, ewLife, ewPlace, EwTypeOK
<1>10. CASE UNCHANGED ewVars
  BY <1>10, EwPlaceKept DEF ewVars, ewPlace, EwTypeOK
<1> QED
  BY <1>1, <1>2, <1>3, <1>4, <1>5, <1>6, <1>7, <1>8, <1>9, <1>10, <1>11 DEF EwNext

(* What the climb of SendEvent is for: at is the nearest place from `from`   *)
(* down to 1 that takes the event, no place from it on blocks, and 0 stands  *)
(* for nobody.                                                               *)
Wanting(takers, blockers, from, i) == i \in takers /\ \A j \in i..from : j \notin blockers
Nearest(takers, blockers, from, at) ==
    IF at = 0 THEN \A i \in 1..from : ~Wanting(takers, blockers, from, i)
    ELSE /\ at \in 1..from /\ Wanting(takers, blockers, from, at)
         /\ \A i \in (at + 1)..from : ~Wanting(takers, blockers, from, i)

Climbs(f, N, T, B) ==
    f = [i \in 0..N |-> IF i = 0 \/ i \in B THEN 0 ELSE IF i \in T THEN i ELSE f[i - 1]]

LEMMA ClimbExists ==
  ASSUME NEW N \in Nat, NEW T, NEW B
  PROVE  \E f : Climbs(f, N, T, B)
<1> DEFINE S == 0..N
           G == [i \in 1..N |-> [v \in S |-> IF i \in B THEN 0 ELSE IF i \in T THEN i ELSE v]]
<1>1. G \in Steps(N, S) /\ 0 \in S
  BY DEF Steps, Maps
<1>2. \A i \in 1..N : \A v \in S : G[i][v] = IF i \in B THEN 0 ELSE IF i \in T THEN i ELSE v
  OBVIOUS
<1> HIDE DEF G, S
<1>3. PICK f : Chain(f, N, S, 0, G)
  BY <1>1, RecursionExists
<1>4. f \in [0..N -> S] /\ f[0] = 0
  BY <1>3 DEF Chain
<1>5. ASSUME NEW i \in 0..N
      PROVE  f[i] = IF i = 0 \/ i \in B THEN 0 ELSE IF i \in T THEN i ELSE f[i - 1]
  <2>1. CASE i = 0
    BY <1>4, <2>1
  <2>2. CASE i # 0
    <3>1. i \in 1..N /\ i - 1 \in 0..N
      BY <2>2
    <3>2. f[i] = G[i][f[i - 1]] /\ f[i - 1] \in S
      BY <1>3, <1>4, <3>1 DEF Chain
    <3> QED  BY <1>2, <2>2, <3>1, <3>2
  <2> QED  BY <2>1, <2>2
<1>6. f = [i \in 0..N |-> f[i]]
  BY <1>4
<1>7. f = [i \in 0..N |-> IF i = 0 \/ i \in B THEN 0 ELSE IF i \in T THEN i ELSE f[i - 1]]
  BY <1>5, <1>6
<1> QED  BY <1>7 DEF Climbs

LEMMA ClimbNearest ==
  ASSUME NEW N \in Nat, NEW T, NEW B, NEW f, Climbs(f, N, T, B),
         NEW from \in 0..N
  PROVE  Nearest(T, B, from, f[from])
<1>0. f = [i \in 0..N |-> IF i = 0 \/ i \in B THEN 0 ELSE IF i \in T THEN i ELSE f[i - 1]]
  BY DEF Climbs
<1> DEFINE R == {m \in Nat : m <= N => Nearest(T, B, m, f[m])}
<1>1. 0 \in R
  <2>1. f[0] = 0 BY <1>0
  <2> QED  BY <2>1 DEF Nearest
<1>2. ASSUME NEW m \in Nat, m \in R PROVE m + 1 \in R
  <2> SUFFICES ASSUME m + 1 <= N PROVE Nearest(T, B, m + 1, f[m + 1])
    OBVIOUS
  <2> DEFINE k == m + 1
  <2>1. k \in 1..N /\ k \in 0..N /\ k - 1 = m /\ k # 0 /\ k \in Nat
    OBVIOUS
  <2>2. f[k] = IF k \in B THEN 0 ELSE IF k \in T THEN k ELSE f[m]
    BY <1>0, <2>1
  <2>3. Nearest(T, B, m, f[m])
    BY <1>2, <2>1
  <2>4. \A i \in 1..k : i \in 1..m \/ i = k
    OBVIOUS
  <2>5. ASSUME NEW i \in 1..k PROVE k \in i..k /\ (\A j \in i..k : j \in i..m \/ j = k)
    BY <2>1, <2>5
  <2>6. ASSUME k \notin B, NEW i \in 1..m
        PROVE  Wanting(T, B, k, i) <=> Wanting(T, B, m, i)
    <3>1. i \in 1..k /\ \A j \in i..m : j \in i..k
      OBVIOUS
    <3> HIDE DEF k
    <3> QED  BY <2>5, <2>6, <3>1 DEF Wanting
  <2>7. CASE k \in B
    <3>1. f[k] = 0 BY <2>2, <2>7
    <3>2. \A i \in 1..k : ~Wanting(T, B, k, i)
      BY <2>5, <2>7 DEF Wanting
    <3> QED  BY <3>1, <3>2 DEF Nearest
  <2>8. CASE k \notin B /\ k \in T
    <3>1. f[k] = k BY <2>2, <2>8
    <3>2. \A j \in k..k : j = k
      BY <2>1
    <3>3. Wanting(T, B, k, k)
      BY <2>8, <3>2 DEF Wanting
    <3>4. \A i \in (k + 1)..k : FALSE
      BY <2>1
    <3>5. k \in 1..k BY <2>1
    <3> HIDE DEF k
    <3> QED  BY <2>1, <3>1, <3>3, <3>4, <3>5 DEF Nearest
  <2>9. CASE k \notin B /\ k \notin T
    <3>1. f[k] = f[m] BY <2>2, <2>9
    <3>2. ~Wanting(T, B, k, k)
      BY <2>9 DEF Wanting
    <3>3. CASE f[m] = 0
      <4>1. \A i \in 1..m : ~Wanting(T, B, m, i)
        BY <2>3, <3>3 DEF Nearest
      <4>2. \A i \in 1..k : ~Wanting(T, B, k, i)
        BY <2>4, <2>6, <2>9, <3>2, <4>1
      <4> QED  BY <3>1, <3>3, <4>2 DEF Nearest
    <3>4. CASE f[m] # 0
      <4> DEFINE at == f[m]
      <4>1. /\ at \in 1..m /\ Wanting(T, B, m, at)
            /\ \A i \in (at + 1)..m : ~Wanting(T, B, m, i)
        BY <2>3, <3>4 DEF Nearest
      <4>2. at \in 1..k /\ Wanting(T, B, k, at)
        BY <2>6, <2>9, <4>1
      <4>3. \A i \in (at + 1)..k : (i \in 1..m /\ i \in (at + 1)..m) \/ i = k
        BY <4>1
      <4> HIDE DEF at
      <4>4. \A i \in (at + 1)..k : ~Wanting(T, B, k, i)
        BY <2>6, <2>9, <3>2, <4>1, <4>3
      <4>5. f[k] = at BY <3>1 DEF at
      <4>6. at # 0 BY <4>1
      <4>7. Nearest(T, B, k, f[k])
        <5> HIDE DEF k
        <5> QED  BY <4>2, <4>4, <4>5, <4>6 DEF Nearest
      <4> QED  BY <4>7
    <3> QED  BY <3>3, <3>4
  <2> QED  BY <2>7, <2>8, <2>9
<1> HIDE DEF R
<1>3. from \in R
  BY <1>1, <1>2, NumInduction
<1> QED  BY <1>3 DEF R

Takers(chain, mask) ==
    {i \in 1..Len(chain) : IF mask = {} THEN chain[i].mask # {} ELSE chain[i].mask \cap mask # {}}
Blockers(chain) == {i \in 1..Len(chain) : chain[i].blocks}

(* handle_send_event with propagation, for any chain from root to target:    *)
(* the event goes to the nearest window that selects it (any event at all    *)
(* when the mask is empty), never past one that does not let it propagate,   *)
(* and to nobody only if there is no such window.                            *)
THEOREM SentToNearest ==
  ASSUME NEW chain, Len(chain) \in Nat, NEW mask, NEW from \in 0..Len(chain)
  PROVE  Nearest(Takers(chain, mask), Blockers(chain), from, Propagate(chain, from, mask))
<1> DEFINE N == Len(chain)
           T == {i \in 1..N : IF mask = {} THEN chain[i].mask # {} ELSE chain[i].mask \cap mask # {}}
           B == {i \in 1..N : chain[i].blocks}
           takes(i) == IF mask = {} THEN chain[i].mask # {} ELSE chain[i].mask \cap mask # {}
           up == CHOOSE f : f = [i \in 0..N |-> IF i = 0 \/ chain[i].blocks THEN 0 ELSE IF takes(i) THEN i ELSE f[i - 1]]
<1>1. Propagate(chain, from, mask) = up[from]
  BY Zenon DEF Propagate
<1>2. ASSUME NEW f
      PROVE  [i \in 0..N |-> IF i = 0 \/ chain[i].blocks THEN 0 ELSE IF takes(i) THEN i ELSE f[i - 1]]
               = [i \in 0..N |-> IF i = 0 \/ i \in B THEN 0 ELSE IF i \in T THEN i ELSE f[i - 1]]
  <2>1. ASSUME NEW i \in 0..N
        PROVE  (IF i = 0 \/ chain[i].blocks THEN 0 ELSE IF takes(i) THEN i ELSE f[i - 1])
                 = (IF i = 0 \/ i \in B THEN 0 ELSE IF i \in T THEN i ELSE f[i - 1])
    <3>1. CASE i = 0
      BY <3>1
    <3>2. CASE i # 0
      <4>1. i \in 1..N BY <3>2
      <4>2. (i \in B) <=> chain[i].blocks BY <4>1
      <4>3. (i \in T) <=> takes(i) BY <4>1
      <4> HIDE DEF B, T, takes
      <4> QED  BY <3>2, <4>2, <4>3
    <3> QED  BY <3>1, <3>2
  <2> HIDE DEF B, T, takes
  <2> QED  BY <2>1
<1>3. N \in Nat OBVIOUS
<1>4. \E f : f = [i \in 0..N |-> IF i = 0 \/ chain[i].blocks THEN 0 ELSE IF takes(i) THEN i ELSE f[i - 1]]
  <2> HIDE DEF B, T, takes, N
  <2>1. PICK f : Climbs(f, N, T, B)
    BY <1>3, ClimbExists
  <2> QED  BY <1>2, <2>1 DEF Climbs
<1>5. up = [i \in 0..N |-> IF i = 0 \/ chain[i].blocks THEN 0 ELSE IF takes(i) THEN i ELSE up[i - 1]]
  <2> HIDE DEF takes, N
  <2> QED  BY <1>4
<1> HIDE DEF up
<1>6. Climbs(up, N, T, B)
  <2> HIDE DEF B, T, takes, N
  <2> QED  BY <1>2, <1>5 DEF Climbs
<1>7. Nearest(T, B, from, up[from])
  <2> HIDE DEF B, T
  <2> QED  BY <1>3, <1>6, ClimbNearest
<1> QED  BY <1>1, <1>7 DEF Takers, Blockers

(* A link of a chain blocks or not, and selects the event or not. *)
LEMMA NearestDelivered == DeliveredNearest
<1> DEFINE link == [x : {0}, w : {2}, mapped : {TRUE}, mask : SUBSET {"k"}, blocks : BOOLEAN]
<1>1. ASSUME NEW chain \in [1..3 -> link], NEW from \in 1..3, NEW mask \in SUBSET {"k"}
      PROVE  LET open(i) == \A j \in i..from : ~chain[j].blocks
                 wants(i) == chain[i].mask # {} /\ open(i)
                 at == DeliveryTarget(chain, from, mask, TRUE)
             IN  IF at = 0 THEN \A i \in 1..from : ~wants(i)
                 ELSE at <= from /\ wants(at) /\ \A i \in at + 1..from : ~wants(i)
  <2> DEFINE open(i) == \A j \in i..from : ~chain[j].blocks
             wants(i) == chain[i].mask # {} /\ open(i)
             at == DeliveryTarget(chain, from, mask, TRUE)
             takes(i) == IF mask = {} THEN chain[i].mask # {} ELSE chain[i].mask \cap mask # {}
             T == Takers(chain, mask)
             B == Blockers(chain)
  <2>1. Len(chain) = 3
    BY LenProperties
  <2>2. \A i \in 1..3 : chain[i].mask = {} \/ chain[i].mask = {"k"}
    OBVIOUS
  <2>3. mask = {} \/ mask = {"k"}
    OBVIOUS
  <2>4. \A i \in 1..3 : takes(i) <=> chain[i].mask # {}
    BY <2>2, <2>3
  <2>5. at = Propagate(chain, from, mask)
    BY DEF DeliveryTarget
  <2>6. Nearest(T, B, from, at)
    <3>1. Len(chain) \in Nat /\ from \in 0..Len(chain) BY <2>1
    <3>2. Nearest(T, B, from, Propagate(chain, from, mask))
      BY <3>1, SentToNearest
    <3> QED  BY <2>5, <3>2
  <2>7. ASSUME NEW i \in 1..from PROVE Wanting(T, B, from, i) <=> wants(i)
    <3>1. i \in 1..3 /\ \A j \in i..from : j \in 1..3
      OBVIOUS
    <3>2. i \in T <=> chain[i].mask # {}
      BY <2>1, <2>4, <3>1 DEF Takers
    <3>3. ASSUME NEW j \in i..from PROVE j \notin B <=> ~chain[j].blocks
      BY <2>1, <3>1 DEF Blockers
    <3> HIDE DEF T, B
    <3> QED  BY <3>2, <3>3 DEF Wanting
  <2> SUFFICES IF at = 0 THEN \A i \in 1..from : ~wants(i)
               ELSE at <= from /\ wants(at) /\ \A i \in at + 1..from : ~wants(i)
    OBVIOUS
  <2> HIDE DEF at, wants, T, B
  <2>8. CASE at = 0
    BY <2>6, <2>7, <2>8 DEF Nearest
  <2>9. CASE at # 0
    <3>1. /\ at \in 1..from /\ Wanting(T, B, from, at)
          /\ \A i \in (at + 1)..from : ~Wanting(T, B, from, i)
      BY <2>6, <2>9 DEF Nearest
    <3>2. at <= from /\ \A i \in (at + 1)..from : i \in 1..from
      BY <3>1
    <3> QED  BY <2>7, <2>9, <3>1, <3>2
  <2> QED  BY <2>8, <2>9
<1> QED
  BY <1>1 DEF DeliveredNearest

-----------------------------------------------------------------------------
(* XProperty. *)

(* Reading a value of n bytes in pieces of len bytes. *)
PieceWhole(n, len) ==
    LET at(k) == Part(n, (k - 1) * len, len)
        last == IF n = 0 THEN 1 ELSE (n + len - 1) \div len
    IN  \A k \in 1..last :
            /\ at(k).given = (IF k < last THEN len ELSE n - (last - 1) * len)
            /\ at(k).after = 0 <=> k = last

(* A division with its remainder. *)
LEMMA Quotient ==
  ASSUME NEW a \in Nat, NEW u \in Nat, u # 0
  PROVE  a \div u \in Int /\ a % u \in 0..(u - 1) /\ a = u * (a \div u) + (a % u)
<1>1. a = u * (a \div u) + (a % u) /\ a % u \in 0..(u - 1)
  OBVIOUS
<1>2. a \div u \in Int
  OBVIOUS
<1> QED
  BY <1>1, <1>2

(* Where the pieces end. *)
LEMMA PieceEnds ==
  ASSUME NEW n \in Nat, n # 0, NEW len \in Nat, len # 0
  PROVE  LET last == (n + len - 1) \div len
         IN  last \in Nat /\ last # 0 /\ (last - 1) * len < n /\ n <= last * len
<1> DEFINE m == n + len - 1
           q == m \div len
<1>1. m \in Nat /\ m >= len
  OBVIOUS
<1>2. q \in Int /\ m % len \in 0..(len - 1) /\ m = len * q + (m % len)
  BY <1>1, Quotient
<1>3. (q - 1) * len = len * q - len /\ q * len = len * q
  BY <1>2, SMT
<1>4. q # 0 /\ q > -1
  <2> HIDE DEF q, m
  <2>1. q <= -1 => len * q <= -len
    BY <1>2, SMT
  <2>2. q = 0 => len * q = 0
    BY <1>2
  <2> QED  BY <1>1, <1>2, <2>1, <2>2
<1>5. q \in Nat
  BY <1>2, <1>4
<1> DEFINE e == len * q
<1>6. e \in Int /\ m = e + (m % len) /\ (q - 1) * len = e - len /\ q * len = e
  BY <1>2, <1>3
<1>7. (q - 1) * len < n /\ n <= q * len
  <2> HIDE DEF e, q
  <2> QED  BY <1>2, <1>6
<1> QED  BY <1>4, <1>5, <1>7

(* GetProperty, for a value of any length and pieces of any length: reading  *)
(* piece by piece gives every byte once, and the answer that nothing is left, *)
(* on which the property is deleted, comes with the last piece and no sooner. *)
THEOREM PiecesAlwaysWhole ==
  ASSUME NEW n \in Nat, NEW len \in Nat, len # 0
  PROVE  PieceWhole(n, len)
<1> DEFINE last == IF n = 0 THEN 1 ELSE (n + len - 1) \div len
<1>1. last \in Nat /\ last # 0 /\ (n = 0 => last = 1)
      /\ (last - 1) * len <= n /\ (n # 0 => (last - 1) * len < n) /\ n <= last * len
  <2>1. CASE n = 0
    BY <2>1, SMT
  <2>2. CASE n # 0
    BY <2>2, PieceEnds
  <2> QED  BY <2>1, <2>2
<1> HIDE DEF last
<1>2. ASSUME NEW k \in 1..last
      PROVE  /\ Part(n, (k - 1) * len, len).given = (IF k < last THEN len ELSE n - (last - 1) * len)
             /\ Part(n, (k - 1) * len, len).after = 0 <=> k = last
  <2> DEFINE off == (k - 1) * len
             top == (last - 1) * len
  <2>1. off \in Int /\ off >= 0 /\ top \in Int /\ last * len = top + len
    BY <1>1, <1>2, SMT
  <2>2. k < last => off + len <= top
    <3>1. ASSUME k < last PROVE off + len <= top
      <4> DEFINE j == last - 1 - k
      <4>1. j \in Nat /\ last - 1 = (k - 1) + 1 + j
        BY <1>1, <1>2, <3>1
      <4>2. ((k - 1) + 1 + j) * len = (k - 1) * len + len + j * len
        BY <1>1, <1>2, <4>1, SMT
      <4>3. j * len >= 0 /\ j * len \in Int
        BY <4>1, SMT
      <4> HIDE DEF j
      <4> QED  BY <2>1, <4>1, <4>2, <4>3
    <3> QED  BY <3>1
  <2>3. k < last => n # 0
    BY <1>1, <1>2
  <2>4. k = last => off = top
    OBVIOUS
  <2>5. /\ top <= n /\ (n # 0 => top < n) /\ n <= top + len
    BY <1>1, <2>1
  <2> HIDE DEF off, top
  <2>6. /\ Part(n, off, len).given = (IF k < last THEN len ELSE n - top)
        /\ Part(n, off, len).after = 0 <=> k = last
    BY <1>1, <1>2, <2>1, <2>2, <2>3, <2>4, <2>5 DEF Part
  <2> QED  BY <2>6 DEF off, top
<1> QED  BY <1>2 DEF PieceWhole, last

LEMMA PropertyPieces == PiecesWhole
<1>1. \A n \in 0..9, len \in 1..4 : PieceWhole(n, len)
  BY PiecesAlwaysWhole
<1> QED
  BY <1>1 DEF PiecesWhole, PieceWhole

(* The copies are functions of the atoms, a value is one of PrValues, and the  *)
(* owner has the window.                                                       *)
PrTables(copy, shared) ==
    /\ copy \in [PrClients -> [PrAtoms -> SUBSET PrValues]]
    /\ shared \in [PrAtoms -> SUBSET PrValues]

PrInv ==
    /\ PrTables(prCopy, prShared)
    /\ prKnown \subseteq PrClients /\ PrOwner \in prKnown
    /\ prForeign \subseteq PrAtoms /\ prSteps \in 0..PrMaxSteps
    /\ OwnerCoherent

LEMMA PrInvType == PrInv => PrTypeOK
  BY DEF PrInv, PrTables, PrTypeOK

LEMMA PrInitInv == PrInit => PrInv
  BY PrAssumption DEF PrInit, PrInv, PrTables, PrNothing, PrClients, OwnerCoherent

(* What the copies are after a synchronisation of c, whose handler left copy,   *)
(* shared and dirty: the owner's copy is as its handler left it, the others'   *)
(* are as they were, and a push writes only what the copy of c holds.           *)
LEMMA PrSynced ==
  ASSUME PrInv, NEW c \in PrClients, NEW copy \in [PrAtoms -> SUBSET PrValues],
         NEW shared \in [PrAtoms -> SUBSET PrValues], NEW dirty \in BOOLEAN,
         PrSync(c, copy, shared, dirty)
  PROVE  /\ PrTables(prCopy, prShared)'
         /\ prKnown' \subseteq PrClients /\ PrOwner \in prKnown'
         /\ prCopy'[PrOwner] = IF c = PrOwner THEN copy ELSE prCopy[PrOwner]
         /\ ~dirty => prShared' = shared
         /\ c = PrOwner =>
              \A a \in PrAtoms : prShared'[a] = IF dirty /\ copy[a] # {} THEN copy[a] ELSE shared[a]
<1>1. PICK pull \in BOOLEAN :
        LET mine == IF pull THEN PrPulled(c, copy, shared) ELSE copy
            out  == IF dirty THEN PrPushed(mine, shared) ELSE shared
        IN  /\ prCopy' = [prCopy EXCEPT ![c] = mine]
            /\ prShared' = out
            /\ prKnown' = IF pull THEN prKnown \cup {c} ELSE prKnown
  BY DEF PrSync
<1> DEFINE mine == IF pull THEN PrPulled(c, copy, shared) ELSE copy
           out  == IF dirty THEN PrPushed(mine, shared) ELSE shared
<1>2. mine \in [PrAtoms -> SUBSET PrValues]
  BY DEF PrPulled
<1>3. c = PrOwner => mine = copy
  BY DEF PrPulled
<1>4. prCopy' = [prCopy EXCEPT ![c] = mine] /\ prShared' = out
  BY <1>1
<1>5. PrOwner \in PrClients /\ prCopy \in [PrClients -> [PrAtoms -> SUBSET PrValues]]
  BY DEF PrClients, PrInv, PrTables
<1> HIDE DEF mine
<1>6. out \in [PrAtoms -> SUBSET PrValues]
  BY <1>2 DEF PrPushed
<1>7. \A a \in PrAtoms : out[a] = IF dirty /\ mine[a] # {} THEN mine[a] ELSE shared[a]
  BY DEF PrPushed
<1>8. ~dirty => out = shared
  OBVIOUS
<1> HIDE DEF out
<1>9. prKnown' \subseteq PrClients /\ PrOwner \in prKnown'
  BY <1>1 DEF PrInv
<1>10. PrTables(prCopy, prShared)'
  BY <1>2, <1>4, <1>5, <1>6 DEF PrTables
<1>11. prCopy'[PrOwner] = IF c = PrOwner THEN copy ELSE prCopy[PrOwner]
  BY <1>3, <1>4, <1>5
<1>12. c = PrOwner =>
         \A a \in PrAtoms : prShared'[a] = IF dirty /\ copy[a] # {} THEN copy[a] ELSE shared[a]
  BY <1>3, <1>4, <1>7
<1> QED
  BY <1>4, <1>8, <1>9, <1>10, <1>11, <1>12

(* A request that writes the same value to both copies of one atom. *)
LEMMA PrWritten ==
  ASSUME PrInv, NEW c \in PrClients, NEW a \in PrAtoms, NEW S \in SUBSET PrValues,
         PrStep, PrSync(c, [prCopy[c] EXCEPT ![a] = S], [prShared EXCEPT ![a] = S], FALSE),
         prForeign' = IF c = PrOwner THEN prForeign \ {a} ELSE prForeign \cup {a}
  PROVE  PrInv'
<1> DEFINE copy == [prCopy[c] EXCEPT ![a] = S]
           shared == [prShared EXCEPT ![a] = S]
<1>1. /\ prCopy[c] \in [PrAtoms -> SUBSET PrValues] /\ prShared \in [PrAtoms -> SUBSET PrValues]
      /\ OwnerCoherent /\ prForeign \subseteq PrAtoms
  BY DEF PrInv, PrTables
<1>2. copy \in [PrAtoms -> SUBSET PrValues] /\ shared \in [PrAtoms -> SUBSET PrValues]
  BY <1>1
<1>3. /\ copy[a] = S /\ shared[a] = S
      /\ \A b \in PrAtoms \ {a} : copy[b] = prCopy[c][b] /\ shared[b] = prShared[b]
  BY <1>1
<1> HIDE DEF copy, shared
<1>4. /\ PrTables(prCopy, prShared)' /\ prKnown' \subseteq PrClients /\ PrOwner \in prKnown'
      /\ prCopy'[PrOwner] = IF c = PrOwner THEN copy ELSE prCopy[PrOwner]
      /\ prShared' = shared
  <2>1. PrSync(c, copy, shared, FALSE)
    BY DEF copy, shared
  <2> QED
    BY <1>2, <2>1, PrSynced
<1>5. OwnerCoherent'
  BY <1>1, <1>3, <1>4 DEF OwnerCoherent
<1>6. prSteps' \in 0..PrMaxSteps
  BY PrAssumption DEF PrStep, PrInv
<1>7. prForeign' \subseteq PrAtoms
  BY <1>1
<1> QED
  BY <1>4, <1>5, <1>6, <1>7 DEF PrInv

(* A change of a property gives a value of the known formats and lengths. *)
LEMMA PrCombined ==
  ASSUME NEW old \in SUBSET PrValues, NEW r \in PrChanges, Len(Combined(old, r).data) <= PrMaxLen
  PROVE  Combined(old, r) \in PrValues
<1> DEFINE fits == \E v \in old : v.fmt = r.fmt
           was == IF fits THEN (CHOOSE v \in old : TRUE).data ELSE <<>>
           data == CASE fits /\ r.mode = "Prepend" -> r.data \o was
                     [] fits /\ r.mode = "Append"  -> was \o r.data
                     [] OTHER -> r.data
<1>1. r.data \in Seq(PrUnits) /\ r.fmt \in PrFmts
  BY PrAssumption
<1>2. \A v \in PrValues : v.data \in Seq(PrUnits)
  <2> TAKE v \in PrValues
  <2>1. PICK n \in 0..PrMaxLen : v.data \in [1..n -> PrUnits]
    BY DEF PrValues
  <2> QED
    BY <2>1, SeqDef DEF PrMaxLen
<1>3. was \in Seq(PrUnits)
  <2>1. CASE fits
    <3>1. (CHOOSE v \in old : TRUE) \in old
      BY <2>1
    <3> QED
      BY <1>2, <2>1, <3>1
  <2>2. CASE ~fits
    BY <2>2
  <2> QED
    BY <2>1, <2>2
<1>4. Combined(old, r) = [fmt |-> r.fmt, data |-> data]
  BY Zenon DEF Combined
<1> HIDE DEF was, fits
<1>5. data \in Seq(PrUnits)
  BY <1>1, <1>3
<1> HIDE DEF data
<1>6. Len(data) \in 0..PrMaxLen
  <2>1. Combined(old, r).data = data
    BY <1>4
  <2>2. Len(data) \in Nat /\ Len(data) <= 2
    BY <1>5, <2>1, LenProperties DEF PrMaxLen
  <2>3. \A n \in Nat : n <= 2 => n \in 0..PrMaxLen
    BY DEF PrMaxLen
  <2> QED
    BY Zenon, <2>2, <2>3
<1>7. data \in [1..Len(data) -> PrUnits]
  BY <1>5, LenProperties
<1>8. data \in UNION {[1..n -> PrUnits] : n \in 0..PrMaxLen}
  BY <1>6, <1>7
<1> QED
  BY <1>1, <1>4, <1>8 DEF PrValues

LEMMA PrChangeInv ==
  ASSUME PrInv, NEW c \in PrClients, NEW r \in PrChanges, ChangeProperty(c, r)
  PROVE  PrInv'
<1> DEFINE v == Combined(prCopy[c][r.atom], r)
<1>1. r.atom \in PrAtoms
  BY PrAssumption
<1>2. prCopy[c][r.atom] \in SUBSET PrValues
  BY <1>1 DEF PrInv, PrTables
<1>3. v \in PrValues
  BY <1>2, PrCombined DEF ChangeProperty
<1>4. /\ PrStep
      /\ PrSync(c, [prCopy[c] EXCEPT ![r.atom] = {v}], [prShared EXCEPT ![r.atom] = {v}], FALSE)
      /\ prForeign' = IF c = PrOwner THEN prForeign \ {r.atom} ELSE prForeign \cup {r.atom}
  BY Zenon DEF ChangeProperty, Republished
<1> HIDE DEF v
<1>5. {v} \in SUBSET PrValues
  BY <1>3
<1> QED
  BY <1>1, <1>4, <1>5, PrWritten

LEMMA PrDeleteInv ==
  ASSUME PrInv, NEW c \in PrClients, NEW a \in PrAtoms, DeleteProperty(c, a)
  PROVE  PrInv'
  BY PrWritten DEF DeleteProperty

(* A turn that writes the atoms of wrote in its own copy alone; dirty or not. *)
LEMMA PrLocalInv ==
  ASSUME PrInv, NEW c \in PrClients, NEW dirty \in BOOLEAN, NEW wrote \in SUBSET PrAtoms,
         NEW copy \in [PrAtoms -> SUBSET PrValues],
         \A x \in PrAtoms \ wrote : copy[x] = prCopy[c][x],
         PrSync(c, copy, prShared, dirty), prSteps' \in 0..PrMaxSteps,
         prForeign' = PrBehind(c, dirty, wrote)
  PROVE  PrInv'
<1>1. /\ prShared \in [PrAtoms -> SUBSET PrValues]
      /\ OwnerCoherent /\ prForeign \subseteq PrAtoms
  BY DEF PrInv, PrTables
<1>2. /\ PrTables(prCopy, prShared)' /\ prKnown' \subseteq PrClients /\ PrOwner \in prKnown'
      /\ prCopy'[PrOwner] = IF c = PrOwner THEN copy ELSE prCopy[PrOwner]
      /\ c = PrOwner =>
           \A a \in PrAtoms : prShared'[a] = IF dirty /\ copy[a] # {} THEN copy[a] ELSE prShared[a]
  BY <1>1, PrSynced
<1>3. prForeign' \subseteq PrAtoms
  BY <1>1 DEF PrBehind
<1>4. ASSUME NEW a \in PrAtoms, a \notin prForeign' PROVE prCopy'[PrOwner][a] = prShared'[a]
  <2>1. CASE c # PrOwner
    BY <1>1, <1>2, <1>4, <2>1 DEF OwnerCoherent, PrBehind
  <2>2. CASE c = PrOwner /\ ~dirty
    BY <1>1, <1>2, <1>4, <2>2 DEF OwnerCoherent, PrBehind
  <2>3. CASE c = PrOwner /\ dirty
    <3>1. a \notin prForeign \cup wrote \/ copy[a] # {}
      BY <1>2, <1>4, <2>3 DEF PrBehind
    <3> QED  BY <1>1, <1>2, <2>3, <3>1 DEF OwnerCoherent
  <2> QED  BY <2>1, <2>2, <2>3
<1> QED
  BY <1>2, <1>3, <1>4 DEF PrInv, OwnerCoherent

(* A turn that writes nothing. *)
LEMMA PrTurnInv ==
  ASSUME PrInv, NEW c \in PrClients, PrSync(c, prCopy[c], prShared, FALSE),
         prSteps' \in 0..PrMaxSteps, prForeign' = prForeign
  PROVE  PrInv'
<1>1. prCopy[c] \in [PrAtoms -> SUBSET PrValues] /\ prShared \in [PrAtoms -> SUBSET PrValues]
  BY DEF PrInv, PrTables
<1>2. prShared' = prShared
  BY <1>1, PrSynced
<1>3. prForeign' = PrBehind(c, FALSE, {})
  BY <1>2 DEF PrBehind
<1> QED
  BY <1>1, <1>3, PrLocalInv

LEMMA PrReadInv ==
  ASSUME PrInv, NEW c \in PrClients, NEW a \in PrAtoms, ReadProperty(c, a, 0, 1)
  PROVE  PrInv'
<1>1. PrStep
  BY DEF ReadProperty
<1>2. CASE /\ PrSync(c, [prCopy[c] EXCEPT ![a] = {}], [prShared EXCEPT ![a] = {}], FALSE)
           /\ prForeign' = IF c = PrOwner THEN prForeign \ {a} ELSE prForeign \cup {a}
  BY <1>1, <1>2, PrWritten
<1>3. CASE PrSync(c, prCopy[c], prShared, FALSE) /\ UNCHANGED prForeign
  <2>1. prSteps' \in 0..PrMaxSteps
    BY <1>1, PrAssumption DEF PrStep, PrInv
  <2> QED
    BY <1>3, <2>1, PrTurnInv
<1> QED
  BY <1>2, <1>3 DEF ReadProperty

LEMMA PrRotateInv ==
  ASSUME PrInv, NEW c \in PrClients, NEW a \in PrAtoms, NEW b \in PrAtoms, RotateProperties(c, a, b)
  PROVE  PrInv'
<1> DEFINE m == prCopy[c]
           rot(x, y) == IF m[y] = {} THEN m[x] ELSE m[y]
           copy == [m EXCEPT ![a] = rot(a, b), ![b] = rot(b, a)]
<1>1. m \in [PrAtoms -> SUBSET PrValues]
  BY DEF PrInv, PrTables
<1>2. PrSync(c, copy, prShared, FALSE) /\ prForeign' = PrBehind(c, FALSE, {a, b}) /\ PrStep
  BY Zenon DEF RotateProperties
<1>3. copy \in [PrAtoms -> SUBSET PrValues] /\ \A x \in PrAtoms \ {a, b} : copy[x] = m[x]
  BY <1>1
<1> HIDE DEF copy
<1>4. prSteps' \in 0..PrMaxSteps
  BY <1>2, PrAssumption DEF PrStep, PrInv
<1> QED
  BY <1>2, <1>3, <1>4, PrLocalInv

LEMMA PrServerInv ==
  ASSUME PrInv, NEW c \in PrClients, NEW a \in PrAtoms, NEW u \in PrUnits, NEW marks \in BOOLEAN,
         ServerWrites(c, a, u, marks)
  PROVE  PrInv'
<1> DEFINE v == [fmt |-> 32, data |-> <<u>>]
           copy == [prCopy[c] EXCEPT ![a] = {v}]
<1>1. prCopy[c] \in [PrAtoms -> SUBSET PrValues]
  BY DEF PrInv, PrTables
<1>2. v \in PrValues
  <2>1. <<u>> \in [1..1 -> PrUnits] /\ 1 \in 0..PrMaxLen
    BY DEF PrMaxLen
  <2> QED  BY <2>1 DEF PrValues, PrFmts
<1>3. PrSync(c, copy, prShared, marks) /\ prForeign' = PrBehind(c, marks, {a}) /\ PrStep
  BY DEF ServerWrites
<1> HIDE DEF v
<1>4. copy \in [PrAtoms -> SUBSET PrValues] /\ \A x \in PrAtoms \ {a} : copy[x] = prCopy[c][x]
  BY <1>1, <1>2
<1> HIDE DEF copy
<1>5. prSteps' \in 0..PrMaxSteps
  BY <1>3, PrAssumption DEF PrStep, PrInv
<1> QED
  BY <1>3, <1>4, <1>5, PrLocalInv

LEMMA PrStepInv == PrInv /\ [PrNext]_prVars => PrInv'
<1> SUFFICES ASSUME PrInv, [PrNext]_prVars PROVE PrInv'
  OBVIOUS
<1>1. ASSUME NEW c \in PrClients, MarkWindow(c) PROVE PrInv'
  <2>1. prSteps' \in 0..PrMaxSteps
    BY <1>1, PrAssumption DEF MarkWindow, PrStep, PrInv
  <2>2. prCopy[c] \in [PrAtoms -> SUBSET PrValues]
    BY DEF PrInv, PrTables
  <2> QED
    BY <1>1, <2>1, <2>2, PrLocalInv DEF MarkWindow
<1>2. ASSUME NEW c \in PrClients, PrTurn(c) PROVE PrInv'
  <2>1. prSteps' \in 0..PrMaxSteps
    BY <1>2 DEF PrTurn, PrInv
  <2> QED
    BY <1>2, <2>1, PrTurnInv DEF PrTurn
<1>3. CASE UNCHANGED prVars
  BY <1>3 DEF prVars, PrInv, PrTables, OwnerCoherent
<1> QED
  BY <1>1, <1>2, <1>3, PrChangeInv, PrDeleteInv, PrReadInv, PrRotateInv, PrServerInv DEF PrNext

-----------------------------------------------------------------------------
(***************************************************************************)
(* XStacking.  Finite orders, their least and greatest positions, and what *)
(* removing and inserting an element makes of them.                        *)
(***************************************************************************)
LEMMA LeastOf ==
  ASSUME NEW P, P \subseteq Nat, P # {}
  PROVE  \E i \in P : \A j \in P : i <= j
<1> DEFINE R == OpToRel(<, Nat)
<1>1. IsWellFoundedOn(R, Nat)
  BY NatLessThanWellFounded
<1>2. \A x, y \in Nat : <<x, y>> \in R <=> x < y
  BY DEF OpToRel
<1> HIDE DEF R
<1>3. PICK x \in P : \A y \in P : ~(<<y, x>> \in R)
  BY <1>1, WFMin
<1>4. ASSUME NEW y \in P PROVE x <= y
  <2>1. ~(y < x)
    BY <1>2, <1>3
  <2>2. x \in Nat /\ y \in Nat
    OBVIOUS
  <2> QED  BY <2>1, <2>2
<1> QED  BY <1>4

LEMMA GreatestOf ==
  ASSUME NEW n \in Nat, NEW P, P \subseteq 1..n, P # {}
  PROVE  \E i \in P : \A j \in P : j <= i
<1> DEFINE Q == {k \in Nat : n - k \in P}
<1>1. PICK e \in P : TRUE
  OBVIOUS
<1>2. n - e \in Nat /\ n - (n - e) = e
  OBVIOUS
<1>3. n - e \in Q
  BY <1>1, <1>2
<1>4. Q \subseteq Nat
  OBVIOUS
<1> HIDE DEF Q
<1>5. PICK k \in Q : \A j \in Q : k <= j
  BY <1>3, <1>4, LeastOf
<1>6. k \in Nat /\ n - k \in P
  BY <1>5 DEF Q
<1>7. ASSUME NEW j \in P PROVE j <= n - k
  <2>1. n - j \in Nat /\ n - (n - j) = j
    OBVIOUS
  <2>2. n - j \in Q
    BY <2>1 DEF Q
  <2>3. k <= n - j
    BY <1>5, <2>2
  <2> QED  BY <1>6, <2>1, <2>3
<1> QED  BY <1>6, <1>7

LEMMA OrderFacts ==
  ASSUME NEW S, IsFiniteSet(S), NEW o \in SetToSeqs(S)
  PROVE  /\ o \in Seq(S) /\ Len(o) = Cardinality(S) /\ Len(o) \in Nat
         /\ \A i, j \in 1..Len(o) : o[i] = o[j] => i = j
         /\ \A w \in S : \E i \in 1..Len(o) : o[i] = w
<1> DEFINE n == Cardinality(S)
<1>1. n \in Nat
  BY FS_CardinalityType
<1>2. o \in [1..n -> S] /\ \A i, j \in 1..n : i # j => o[i] # o[j]
  BY DEF SetToSeqs
<1>3. o \in Seq(S) /\ Len(o) = n
  BY <1>1, <1>2
<1>4. o \in Injection(1..n, S)
  BY <1>2 DEF Injection, IsInjective
<1>5. Cardinality(1..n) = n
  BY <1>1, FS_Interval
<1>6. o \in Surjection(1..n, S)
  BY <1>4, <1>5, FS_Injection
<1>7. \A w \in S : \E i \in 1..n : o[i] = w
  BY <1>6 DEF Surjection
<1> QED  BY <1>1, <1>2, <1>3, <1>7

LEMMA OrderMade ==
  ASSUME NEW S, IsFiniteSet(S), NEW o \in Seq(S),
         \A i, j \in 1..Len(o) : o[i] = o[j] => i = j,
         \A w \in S : \E i \in 1..Len(o) : o[i] = w
  PROVE  o \in SetToSeqs(S)
<1> DEFINE n == Len(o)
<1>1. n \in Nat /\ o \in [1..n -> S]
  OBVIOUS
<1>2. o \in Injection(1..n, S)
  BY <1>1 DEF Injection, IsInjective
<1>3. o \in Surjection(1..n, S)
  BY <1>1 DEF Surjection
<1>4. Cardinality(1..n) = n
  BY <1>1, FS_Interval
<1>5. Cardinality(S) = n
  BY <1>2, <1>3, <1>4, FS_Injection
<1> QED  BY <1>1, <1>5 DEF SetToSeqs

LEMMA Removed ==
  ASSUME NEW S, NEW o \in Seq(S), NEW p \in 1..Len(o)
  PROVE  /\ RemoveAt(o, p) \in Seq(S) /\ Len(RemoveAt(o, p)) = Len(o) - 1
         /\ \A i \in 1..(Len(o) - 1) :
                RemoveAt(o, p)[i] = IF i < p THEN o[i] ELSE o[i + 1]
<1> DEFINE a == SubSeq(o, 1, p - 1)
           b == SubSeq(o, p + 1, Len(o))
<1>1. Len(o) \in Nat /\ \A i \in 1..Len(o) : o[i] \in S
  OBVIOUS
<1>2. /\ a \in Seq(S) /\ Len(a) = p - 1
      /\ \A i \in 1..(p - 1) : a[i] = o[i]
  BY <1>1, SubSeqProperties
<1>3. /\ b \in Seq(S) /\ Len(b) = Len(o) - p
      /\ \A i \in 1..(Len(o) - p) : b[i] = o[p + i]
  BY <1>1, SubSeqProperties
<1> HIDE DEF a, b
<1>4. /\ a \o b \in Seq(S) /\ Len(a \o b) = Len(a) + Len(b)
      /\ \A i \in 1..(Len(a) + Len(b)) :
            (a \o b)[i] = IF i <= Len(a) THEN a[i] ELSE b[i - Len(a)]
  BY <1>2, <1>3, ConcatProperties
<1>5. RemoveAt(o, p) = a \o b
  BY DEF RemoveAt, a, b
<1>6. Len(a) + Len(b) = Len(o) - 1
  BY <1>1, <1>2, <1>3
<1>7. ASSUME NEW i \in 1..(Len(o) - 1)
      PROVE  (a \o b)[i] = IF i < p THEN o[i] ELSE o[i + 1]
  <2>1. CASE i < p
    BY <1>1, <1>2, <1>4, <1>6, <2>1
  <2>2. CASE i >= p
    <3>1. i - (p - 1) \in 1..(Len(o) - p) /\ p + (i - (p - 1)) = i + 1
      BY <1>1, <2>2
    <3>2. b[i - (p - 1)] = o[i + 1]
      BY <1>3, <3>1
    <3>3. (a \o b)[i] = b[i - (p - 1)]
      BY <1>2, <1>4, <1>6, <2>2
    <3> QED  BY <2>2, <3>2, <3>3
  <2>3. i < p \/ i >= p
    BY <1>1
  <2> QED  BY <2>1, <2>2, <2>3
<1> QED  BY <1>4, <1>5, <1>6, <1>7

LEMMA Inserted ==
  ASSUME NEW S, NEW o \in Seq(S), NEW p \in 1..(Len(o) + 1), NEW e \in S
  PROVE  /\ InsertAt(o, p, e) \in Seq(S) /\ Len(InsertAt(o, p, e)) = Len(o) + 1
         /\ \A i \in 1..(Len(o) + 1) :
                /\ i < p => InsertAt(o, p, e)[i] = o[i]
                /\ i = p => InsertAt(o, p, e)[i] = e
                /\ i > p => InsertAt(o, p, e)[i] = o[i - 1]
<1> DEFINE a == SubSeq(o, 1, p - 1)
           b == SubSeq(o, p, Len(o))
           c == a \o <<e>>
<1>1. Len(o) \in Nat /\ \A i \in 1..Len(o) : o[i] \in S
  OBVIOUS
<1>2. /\ a \in Seq(S) /\ Len(a) = p - 1
      /\ \A i \in 1..(p - 1) : a[i] = o[i]
  BY <1>1, SubSeqProperties
<1>3. /\ b \in Seq(S) /\ Len(b) = Len(o) - p + 1
      /\ \A i \in 1..(Len(o) - p + 1) : b[i] = o[p + i - 1]
  BY <1>1, SubSeqProperties
<1>4. <<e>> \in Seq(S) /\ Len(<<e>>) = 1 /\ <<e>>[1] = e
  OBVIOUS
<1> HIDE DEF a, b
<1>5. /\ c \in Seq(S) /\ Len(c) = Len(a) + 1
      /\ \A i \in 1..(Len(a) + 1) :
            c[i] = IF i <= Len(a) THEN a[i] ELSE <<e>>[i - Len(a)]
  BY <1>2, <1>4, ConcatProperties
<1>6. Len(c) = p /\ c[p] = e /\ \A i \in 1..(p - 1) : c[i] = o[i]
  BY <1>2, <1>4, <1>5
<1> HIDE DEF c
<1>7. /\ c \o b \in Seq(S) /\ Len(c \o b) = Len(c) + Len(b)
      /\ \A i \in 1..(Len(c) + Len(b)) :
            (c \o b)[i] = IF i <= Len(c) THEN c[i] ELSE b[i - Len(c)]
  BY <1>3, <1>5, ConcatProperties
<1>8. InsertAt(o, p, e) = c \o b
  BY DEF InsertAt, a, b, c
<1>9. Len(c) + Len(b) = Len(o) + 1
  BY <1>1, <1>3, <1>6
<1>10. ASSUME NEW i \in 1..(Len(o) + 1)
       PROVE  /\ i < p => (c \o b)[i] = o[i]
              /\ i = p => (c \o b)[i] = e
              /\ i > p => (c \o b)[i] = o[i - 1]
  <2>1. CASE i <= p
    BY <1>1, <1>6, <1>7, <1>9, <2>1
  <2>2. CASE i > p
    <3>1. i - p \in 1..(Len(o) - p + 1) /\ p + (i - p) - 1 = i - 1
      BY <1>1, <2>2
    <3>2. b[i - p] = o[i - 1]
      BY <1>3, <3>1
    <3>3. (c \o b)[i] = b[i - p]
      BY <1>6, <1>7, <1>9, <2>2
    <3> QED  BY <2>2, <3>2, <3>3
  <2>3. i <= p \/ i > p
    BY <1>1
  <2> QED  BY <2>1, <2>2, <2>3
<1> QED  BY <1>7, <1>8, <1>9, <1>10

(* w taken out of an order and put back anywhere gives an order again. *)
LEMMA Dropped ==
  ASSUME NEW S, IsFiniteSet(S), NEW o \in SetToSeqs(S), NEW w \in S
  PROVE  /\ PosIn(o, w) \in 1..Len(o) /\ o[PosIn(o, w)] = w
         /\ Drop(o, w) \in Seq(S) /\ Len(Drop(o, w)) = Len(o) - 1
         /\ Len(Drop(o, w)) \in Nat
         /\ \A i \in 1..Len(Drop(o, w)) : 
              Drop(o, w)[i] = IF i < PosIn(o, w) THEN o[i] ELSE o[i + 1]
         /\ \A i \in 1..Len(Drop(o, w)) : Drop(o, w)[i] # w
         /\ \A i, j \in 1..Len(Drop(o, w)) : Drop(o, w)[i] = Drop(o, w)[j] => i = j
         /\ \A v \in S \ {w} : \E i \in 1..Len(Drop(o, w)) : Drop(o, w)[i] = v
<1> DEFINE p == PosIn(o, w)
           d == Drop(o, w)
<1>1. /\ o \in Seq(S) /\ Len(o) \in Nat
      /\ \A i, j \in 1..Len(o) : o[i] = o[j] => i = j
      /\ \A v \in S : \E i \in 1..Len(o) : o[i] = v
  BY OrderFacts
<1>2. p \in 1..Len(o) /\ o[p] = w
  <2>1. \E i \in 1..Len(o) : o[i] = w
    BY <1>1
  <2> QED  BY <2>1 DEF PosIn
<1>3. d = RemoveAt(o, p)
  BY DEF Drop
<1> HIDE DEF p, d
<1>4. /\ d \in Seq(S) /\ Len(d) = Len(o) - 1
      /\ \A i \in 1..(Len(o) - 1) : d[i] = IF i < p THEN o[i] ELSE o[i + 1]
  BY <1>1, <1>2, <1>3, Removed, ZenonT(60)
<1>5. ASSUME NEW i \in 1..Len(d)
      PROVE  /\ i \in 1..Len(o) /\ i + 1 \in 1..Len(o) /\ i \in Nat /\ p \in Nat
             /\ i < p => d[i] = o[i]
             /\ ~(i < p) => d[i] = o[i + 1]
  <2>1. i \in 1..(Len(o) - 1)
    BY <1>4
  <2>2. i \in 1..Len(o) /\ i + 1 \in 1..Len(o) /\ i \in Nat /\ p \in Nat
    BY <1>1, <1>2, <2>1
  <2> QED  BY <1>4, <2>1, <2>2
<1>6. ASSUME NEW i \in 1..Len(d) PROVE d[i] # w
  <2>1. i < p => i # p
    BY <1>5
  <2>2. ~(i < p) => i + 1 # p
    BY <1>5
  <2>3. i < p => d[i] # w
    BY <1>1, <1>2, <1>5, <2>1
  <2>4. ~(i < p) => d[i] # w
    <3>1. i + 1 \in 1..Len(o) /\ (~(i < p) => d[i] = o[i + 1])
      BY <1>5
    <3>2. i + 1 # p => o[i + 1] # o[p]
      BY <1>1, <1>2, <3>1
    <3> QED  BY <1>2, <2>2, <3>1, <3>2
  <2> QED  BY <2>3, <2>4
<1>7. ASSUME NEW i \in 1..Len(d), NEW j \in 1..Len(d), d[i] = d[j] PROVE i = j
  <2>1. CASE i < p /\ j < p
    BY <1>1, <1>5, <1>7, <2>1
  <2>2. CASE i < p /\ ~(j < p)
    <3>1. i = j + 1
      BY <1>1, <1>5, <1>7, <2>2
    <3> QED  BY <1>5, <2>2, <3>1
  <2>3. CASE ~(i < p) /\ j < p
    <3>1. i + 1 = j
      BY <1>1, <1>5, <1>7, <2>3
    <3> QED  BY <1>5, <2>3, <3>1
  <2>4. CASE ~(i < p) /\ ~(j < p)
    <3>1. i + 1 = j + 1
      BY <1>1, <1>5, <1>7, <2>4
    <3> QED  BY <1>5, <3>1
  <2> QED  BY <2>1, <2>2, <2>3, <2>4
<1>8. ASSUME NEW v \in S \ {w} PROVE \E i \in 1..Len(d) : d[i] = v
  <2>1. PICK i \in 1..Len(o) : o[i] = v
    BY <1>1
  <2>2. i # p
    BY <1>2, <2>1
  <2>3. CASE i < p
    <3>1. i \in 1..(Len(o) - 1)
      BY <1>1, <1>2, <2>3
    <3>2. i \in 1..Len(d) /\ d[i] = v
      BY <1>4, <2>1, <2>3, <3>1
    <3> QED  BY <3>2
  <2>4. CASE i > p
    <3>1. i - 1 \in 1..Len(d) /\ ~(i - 1 < p) /\ (i - 1) + 1 = i
      BY <1>1, <1>2, <1>4, <2>4
    <3>2. d[i - 1] = v
      BY <1>5, <2>1, <3>1
    <3> QED  BY <3>1, <3>2
  <2> QED  BY <1>1, <1>2, <2>2, <2>3, <2>4
<1>9. Len(d) \in Nat
  BY <1>1, <1>2, <1>4
<1> QED  BY <1>2, <1>4, <1>6, <1>7, <1>8, <1>9 DEF p, d

LEMMA MovedOrder ==
  ASSUME NEW S, IsFiniteSet(S), NEW o \in SetToSeqs(S), NEW w \in S,
         NEW p \in 1..(Len(Drop(o, w)) + 1)
  PROVE  InsertAt(Drop(o, w), p, w) \in SetToSeqs(S)
<1> DEFINE d == Drop(o, w)
           r == InsertAt(d, p, w)
<1>1. /\ d \in Seq(S) /\ Len(d) \in Nat
      /\ \A i \in 1..Len(d) : d[i] # w
      /\ \A i, j \in 1..Len(d) : d[i] = d[j] => i = j
      /\ \A v \in S \ {w} : \E i \in 1..Len(d) : d[i] = v
  BY Dropped
<1>p. p \in 1..(Len(d) + 1)
  OBVIOUS
<1> HIDE DEF d
<1>2. /\ r \in Seq(S) /\ Len(r) = Len(d) + 1
      /\ \A i \in 1..(Len(d) + 1) :
            (i < p => r[i] = d[i]) /\ (i = p => r[i] = w) /\ (i > p => r[i] = d[i - 1])
  BY <1>1, <1>p, Inserted
<1> HIDE DEF r
<1>3. ASSUME NEW i \in 1..Len(r)
      PROVE  /\ i < p => i \in 1..Len(d) /\ r[i] = d[i]
             /\ i = p => r[i] = w
             /\ i > p => i - 1 \in 1..Len(d) /\ r[i] = d[i - 1]
  BY <1>1, <1>2, <1>p
<1>4. ASSUME NEW i \in 1..Len(r), NEW j \in 1..Len(r), r[i] = r[j] PROVE i = j
  <2>1. CASE i = p \/ j = p
    <3>1. ASSUME NEW k \in 1..Len(r), r[k] = w PROVE k = p
      <4>1. k \in Int /\ p \in Int /\ ~(k < p) /\ ~(k > p)
        BY <1>1, <1>2, <1>p, <1>3, <3>1
      <4> QED  BY <4>1
    <3> QED  BY <1>3, <1>4, <2>1, <3>1
  <2>2. CASE i # p /\ j # p
    <3> DEFINE k == IF i < p THEN i ELSE i - 1
               l == IF j < p THEN j ELSE j - 1
    <3>1. k \in 1..Len(d) /\ r[i] = d[k]
      BY <1>1, <1>2, <1>p, <1>3, <2>2
    <3>2. l \in 1..Len(d) /\ r[j] = d[l]
      BY <1>1, <1>2, <1>p, <1>3, <2>2
    <3>3. k = l
      BY <1>1, <1>4, <3>1, <3>2
    <3> QED  BY <1>1, <1>2, <1>p, <2>2, <3>3
  <2> QED  BY <2>1, <2>2
<1>5. ASSUME NEW v \in S PROVE \E i \in 1..Len(r) : r[i] = v
  <2>1. CASE v = w
    <3>1. p \in 1..Len(r) /\ r[p] = v
      BY <1>2, <1>p, <1>3, <2>1
    <3> QED  BY <3>1
  <2>2. CASE v # w
    <3>1. PICK i \in 1..Len(d) : d[i] = v
      BY <1>1, <2>2
    <3>2. CASE i < p
      <4>1. i \in 1..Len(r) /\ r[i] = v
        BY <1>1, <1>2, <1>p, <1>3, <3>1, <3>2
      <4> QED  BY <4>1
    <3>3. CASE i >= p
      <4>1. i + 1 \in 1..Len(r) /\ (i + 1) - 1 = i /\ i + 1 > p
        BY <1>1, <1>2, <1>p, <3>3
      <4>2. r[i + 1] = v
        BY <1>3, <3>1, <4>1
      <4> QED  BY <4>1, <4>2
    <3> QED  BY <1>1, <1>p, <3>2, <3>3
  <2> QED  BY <2>1, <2>2
<1>6. r \in SetToSeqs(S)
  BY <1>2, <1>4, <1>5, OrderMade
<1> QED  BY <1>6 DEF r, d

(* The operations of the stacking order keep it an order of the siblings. *)
LEMMA StFinite == IsFiniteSet(StWins)
  BY StAssumption

LEMMA RestackOrder ==
  ASSUME NEW o \in SetToSeqs(StWins), NEW w \in StWins
  PROVE  RestackByWindowType(o, w) \in SetToSeqs(StWins)
<1> DEFINE d == Drop(o, w)
           le == {i \in 1..Len(d) : EffectiveLayer(d[i]) <= EffectiveLayer(w)}
           pos == IF le = {} THEN 1 ELSE 1 + CHOOSE i \in le : \A j \in le : j <= i
<1>1. Len(d) \in Nat
  BY StFinite, Dropped
<1>2. le \subseteq 1..Len(d)
  OBVIOUS
<1>3. RestackByWindowType(o, w) = InsertAt(d, pos, w)
  BY Zenon DEF RestackByWindowType
<1> HIDE DEF d, le
<1>4. pos \in 1..(Len(d) + 1)
  <2>1. CASE le = {}
    BY <1>1, <2>1
  <2>2. CASE le # {}
    <3>1. \E i \in le : \A j \in le : j <= i
      BY <1>1, <1>2, <2>2, GreatestOf
    <3> DEFINE top == CHOOSE i \in le : \A j \in le : j <= i
    <3>2. top \in le
      BY <3>1
    <3>3. pos = 1 + top
      BY <2>2
    <3> HIDE DEF top, pos
    <3>4. top \in 1..Len(d)
      BY <1>2, <3>2
    <3> QED  BY <1>1, <3>3, <3>4
  <2> QED  BY <2>1, <2>2
<1> HIDE DEF pos
<1> QED  BY <1>3, <1>4, StFinite, MovedOrder DEF d

LEMMA LowerOrder ==
  ASSUME NEW o \in SetToSeqs(StWins), NEW w \in StWins
  PROVE  LowerInLayer(o, w) \in SetToSeqs(StWins)
<1> DEFINE d == Drop(o, w)
           ge == {i \in 1..Len(d) : EffectiveLayer(d[i]) >= EffectiveLayer(w)}
           pos == IF ge = {} THEN Len(d) + 1 ELSE CHOOSE i \in ge : \A j \in ge : i <= j
<1>1. Len(d) \in Nat
  BY StFinite, Dropped
<1>2. ge \subseteq 1..Len(d) /\ ge \subseteq Nat
  OBVIOUS
<1>3. LowerInLayer(o, w) = InsertAt(d, pos, w)
  BY Zenon DEF LowerInLayer
<1> HIDE DEF d, ge
<1>4. pos \in 1..(Len(d) + 1)
  <2>1. CASE ge = {}
    BY <1>1, <2>1
  <2>2. CASE ge # {}
    <3>1. \E i \in ge : \A j \in ge : i <= j
      BY <1>2, <2>2, LeastOf
    <3>2. pos \in ge
      BY <2>2, <3>1
    <3> HIDE DEF pos
    <3>3. pos \in 1..Len(d)
      BY <1>2, <3>2
    <3> QED  BY <1>1, <3>3
  <2> QED  BY <2>1, <2>2
<1> HIDE DEF pos
<1> QED  BY <1>3, <1>4, StFinite, MovedOrder DEF d

(* Where a sibling stands once w is taken out. *)
LEMMA SiblingPlace ==
  ASSUME NEW o \in SetToSeqs(StWins), NEW w \in StWins, NEW s \in StWins \ {w}
  PROVE  /\ PosIn(Drop(o, w), s) \in 1..Len(Drop(o, w))
         /\ Drop(o, w)[PosIn(Drop(o, w), s)] = s
         /\ Len(Drop(o, w)) \in Nat
<1> DEFINE d == Drop(o, w)
<1>1. Len(d) \in Nat /\ \A v \in StWins \ {w} : \E i \in 1..Len(d) : d[i] = v
  BY StFinite, Dropped
<1> HIDE DEF d
<1>2. PosIn(d, s) \in 1..Len(d) /\ d[PosIn(d, s)] = s
  BY <1>1 DEF PosIn
<1> QED  BY <1>1, <1>2 DEF d

LEMMA SiblingOrder ==
  ASSUME NEW o \in SetToSeqs(StWins), NEW w \in StWins, NEW s \in StWins \ {w}
  PROVE  /\ AboveSibling(o, w, s) \in SetToSeqs(StWins)
         /\ BelowSibling(o, w, s) \in SetToSeqs(StWins)
<1> DEFINE d == Drop(o, w)
           q == PosIn(d, s)
<1>1. q \in 1..Len(d) /\ Len(d) \in Nat
  BY SiblingPlace
<1>2. AboveSibling(o, w, s) = InsertAt(d, q + 1, w) /\ BelowSibling(o, w, s) = InsertAt(d, q, w)
  BY Zenon DEF AboveSibling, BelowSibling
<1> HIDE DEF q, d
<1>3. q + 1 \in 1..(Len(d) + 1) /\ q \in 1..(Len(d) + 1)
  BY <1>1
<1>4. InsertAt(d, q + 1, w) \in SetToSeqs(StWins)
  BY <1>3, StFinite, MovedOrder DEF d
<1>5. InsertAt(d, q, w) \in SetToSeqs(StWins)
  BY <1>3, StFinite, MovedOrder DEF d
<1> QED  BY <1>2, <1>4, <1>5

LEMMA EndOrder ==
  ASSUME NEW o \in SetToSeqs(StWins), NEW w \in StWins
  PROVE  /\ ToTop(o, w) \in SetToSeqs(StWins)
         /\ ToBottom(o, w) \in SetToSeqs(StWins)
<1> DEFINE d == Drop(o, w)
           n == Len(d)
<1>1. d \in Seq(StWins) /\ n \in Nat
  BY StFinite, Dropped
<1>2. ToTop(o, w) = Append(d, w) /\ ToBottom(o, w) = <<w>> \o d
  BY DEF ToTop, ToBottom
<1> HIDE DEF d
<1>3. SubSeq(d, 1, n) = d /\ SubSeq(d, n + 1, n) = <<>> /\ SubSeq(d, 1, 0) = <<>>
  BY <1>1, SubSeqFull, SubSeqEmpty
<1>4. InsertAt(d, n + 1, w) = d \o <<w>> \o <<>>
  <2>1. (n + 1) - 1 = n
    BY <1>1
  <2> QED  BY <1>3, <2>1, Zenon DEF InsertAt
<1>5. InsertAt(d, 1, w) = <<>> \o <<w>> \o d
  <2>1. 1 - 1 = 0
    OBVIOUS
  <2> QED  BY <1>3, <2>1, Zenon DEF InsertAt
<1>6. <<w>> \in Seq(StWins) /\ d \o <<w>> \in Seq(StWins) /\ d \o <<w>> = Append(d, w)
  BY <1>1
<1>7. d \o <<w>> \o <<>> = Append(d, w)
  BY <1>6, ConcatEmptySeq
<1>8. <<>> \o <<w>> = <<w>>
  BY <1>6, ConcatEmptySeq
<1>9. n + 1 \in 1..(n + 1) /\ 1 \in 1..(n + 1)
  BY <1>1
<1>10. InsertAt(d, n + 1, w) \in SetToSeqs(StWins)
  BY <1>9, StFinite, MovedOrder DEF d
<1>11. InsertAt(d, 1, w) \in SetToSeqs(StWins)
  BY <1>9, StFinite, MovedOrder DEF d
<1>12. ToTop(o, w) \in SetToSeqs(StWins)
  BY <1>2, <1>4, <1>7, <1>10
<1>13. ToBottom(o, w) \in SetToSeqs(StWins)
  BY <1>2, <1>5, <1>8, <1>11
<1> QED  BY <1>12, <1>13

LEMMA TransientOrder ==
  ASSUME NEW o \in SetToSeqs(StWins), NEW w \in StWins
  PROVE  TransientRestack(o, w) \in SetToSeqs(StWins)
<1>1. CASE w \in DOMAIN StTransient
  <2>1. StTransient[w] \in StWins \ {w}
    BY <1>1, StAssumption
  <2> QED  BY <1>1, <2>1, SiblingOrder DEF TransientRestack
<1>2. CASE w \notin DOMAIN StTransient
  BY <1>2 DEF TransientRestack
<1> QED  BY <1>1, <1>2

LEMMA RestackedOrder ==
  ASSUME NEW o \in SetToSeqs(StWins), NEW x, NEW wd, NEW w \in StWins,
         NEW sib \in SUBSET (StWins \ {w}), NEW m
  PROVE  Restacked(o, x, wd, w, sib, m) \in SetToSeqs(StWins)
<1> DEFINE s == CHOOSE v \in sib : TRUE
           A == OccludedByAbove(o, x, wd, w, sib)
           B == OccludesBelow(o, x, wd, w, sib)
<1>1. sib # {} => s \in StWins \ {w}
  OBVIOUS
<1>2. /\ RestackByWindowType(o, w) \in SetToSeqs(StWins)
      /\ LowerInLayer(o, w) \in SetToSeqs(StWins)
      /\ ToTop(o, w) \in SetToSeqs(StWins) /\ ToBottom(o, w) \in SetToSeqs(StWins)
  BY RestackOrder, LowerOrder, EndOrder
<1> HIDE DEF s
<1>3. sib # {} => /\ AboveSibling(o, w, s) \in SetToSeqs(StWins)
                  /\ BelowSibling(o, w, s) \in SetToSeqs(StWins)
  BY <1>1, SiblingOrder
<1> HIDE DEF A, B
<1>4. Restacked(o, x, wd, w, sib, m) =
          CASE m = 0 /\ sib = {} -> RestackByWindowType(o, w)
            [] m = 0 /\ sib # {} -> AboveSibling(o, w, s)
            [] m = 1 /\ sib = {} -> LowerInLayer(o, w)
            [] m = 1 /\ sib # {} -> BelowSibling(o, w, s)
            [] m \in {2, 4} /\ A -> ToTop(o, w)
            [] m = 3 /\ B -> ToBottom(o, w)
            [] m = 4 /\ ~A /\ B -> ToBottom(o, w)
            [] OTHER -> o
  BY Zenon DEF Restacked, s, A, B
<1> QED  BY <1>2, <1>3, <1>4

(***************************************************************************)
(* Orders sorted by layer, where layer is any function of the siblings.    *)
(***************************************************************************)
SortedBy(L, o) == \A i \in 1..(Len(o) - 1) : L[o[i]] <= L[o[i + 1]]

LEMMA DropSorted ==
  ASSUME NEW L \in [StWins -> Int], NEW o \in SetToSeqs(StWins), NEW w \in StWins, SortedBy(L, o)
  PROVE  SortedBy(L, Drop(o, w))
<1> DEFINE d == Drop(o, w)
           p == PosIn(o, w)
<1>1. /\ o \in Seq(StWins) /\ Len(o) \in Nat
      /\ \A i \in 1..(Len(o) - 1) : L[o[i]] <= L[o[i + 1]]
  BY StFinite, OrderFacts DEF SortedBy
<1>2. p \in 1..Len(o) /\ Len(d) = Len(o) - 1
      /\ \A i \in 1..Len(d) : d[i] = IF i < p THEN o[i] ELSE o[i + 1]
  BY StFinite, Dropped
<1> HIDE DEF d, p
<1>3. ASSUME NEW i \in 1..Len(o) PROVE L[o[i]] \in Int
  BY <1>1
<1>4. ASSUME NEW i \in 1..(Len(d) - 1) PROVE L[d[i]] <= L[d[i + 1]]
  <2>1. /\ i \in 1..Len(d) /\ i + 1 \in 1..Len(d) /\ i + 2 \in 1..Len(o)
        /\ i \in 1..Len(o) /\ i + 1 \in 1..Len(o) /\ (i + 1) + 1 = i + 2
        /\ i \in 1..(Len(o) - 1) /\ i + 1 \in 1..(Len(o) - 1)
    BY <1>1, <1>2
  <2>2. L[o[i]] <= L[o[i + 1]] /\ L[o[i + 1]] <= L[o[i + 2]]
    BY <1>1, <2>1
  <2>3. L[o[i]] \in Int /\ L[o[i + 1]] \in Int /\ L[o[i + 2]] \in Int
    BY <1>3, <2>1
  <2>4. L[o[i]] <= L[o[i + 2]]
    BY <2>2, <2>3
  <2>5. /\ d[i] = IF i < p THEN o[i] ELSE o[i + 1]
        /\ d[i + 1] = IF i + 1 < p THEN o[i + 1] ELSE o[i + 2]
    BY <1>2, <2>1
  <2>6. i < p \/ ~(i + 1 < p)
    BY <1>1, <1>2
  <2> QED  BY <2>2, <2>4, <2>5, <2>6
<1> QED  BY <1>4 DEF SortedBy, d

LEMMA InsertSorted ==
  ASSUME NEW L \in [StWins -> Int], NEW d \in Seq(StWins), NEW w \in StWins,
         NEW p \in 1..(Len(d) + 1), SortedBy(L, d),
         p > 1 => L[d[p - 1]] <= L[w],
         p <= Len(d) => L[w] <= L[d[p]]
  PROVE  SortedBy(L, InsertAt(d, p, w))
<1> DEFINE r == InsertAt(d, p, w)
<1>1. Len(d) \in Nat /\ \A i \in 1..(Len(d) - 1) : L[d[i]] <= L[d[i + 1]]
  BY DEF SortedBy
<1>2. /\ Len(r) = Len(d) + 1
      /\ \A i \in 1..(Len(d) + 1) :
            (i < p => r[i] = d[i]) /\ (i = p => r[i] = w) /\ (i > p => r[i] = d[i - 1])
  <2>1. /\ InsertAt(d, p, w) \in Seq(StWins) /\ Len(InsertAt(d, p, w)) = Len(d) + 1
        /\ \A i \in 1..(Len(d) + 1) :
              /\ i < p => InsertAt(d, p, w)[i] = d[i]
              /\ i = p => InsertAt(d, p, w)[i] = w
              /\ i > p => InsertAt(d, p, w)[i] = d[i - 1]
    BY ONLY d \in Seq(StWins), p \in 1..(Len(d) + 1), w \in StWins, Inserted
  <2> QED  BY <2>1 DEF r
<1> HIDE DEF r
<1>3. ASSUME NEW i \in 1..(Len(r) - 1) PROVE L[r[i]] <= L[r[i + 1]]
  <2>1. /\ i \in 1..(Len(d) + 1) /\ i + 1 \in 1..(Len(d) + 1) /\ (i + 1) - 1 = i
        /\ i \in 1..Len(d) /\ i \in Int /\ p \in Int
    BY <1>1, <1>2
  <2>2. CASE i + 1 < p
    <3>1. i < p /\ i \in 1..(Len(d) - 1)
      BY <1>1, <2>1, <2>2
    <3> QED  BY <1>1, <1>2, <2>1, <2>2, <3>1
  <2>3. CASE i + 1 = p
    <3>1. i < p /\ p > 1 /\ p - 1 = i
      BY <2>1, <2>3
    <3>2. r[i] = d[i] /\ r[i + 1] = w
      BY <1>2, <2>1, <2>3, <3>1
    <3> QED  BY <3>1, <3>2
  <2>4. CASE i = p
    <3>1. i + 1 > p /\ p <= Len(d)
      BY <1>1, <2>1, <2>4
    <3>2. r[i] = w /\ r[i + 1] = d[i]
      BY <1>2, <2>1, <2>4, <3>1
    <3> QED  BY <2>4, <3>1, <3>2
  <2>5. CASE i > p
    <3>1. i + 1 > p /\ i - 1 \in 1..(Len(d) - 1) /\ (i - 1) + 1 = i
      BY <1>1, <2>1, <2>5
    <3>2. r[i] = d[i - 1] /\ r[i + 1] = d[i]
      BY <1>2, <2>1, <2>5, <3>1
    <3>3. L[d[i - 1]] <= L[d[(i - 1) + 1]]
      BY <1>1, <3>1
    <3> QED  BY <3>1, <3>2, <3>3
  <2>6. i + 1 < p \/ i + 1 = p \/ i = p \/ i > p
    BY <2>1
  <2> QED  BY <2>2, <2>3, <2>4, <2>5, <2>6
<1> QED  BY <1>3 DEF SortedBy, r

(* EffectiveLayer of the whole tree, as a function. *)
Layers == [w \in StWins |-> EffectiveLayer(w)]

LEMMA LayersType ==
  ASSUME stState \in [StWins -> {"none", "above", "below"}]
  PROVE  Layers \in [StWins -> Int]
<1>1. ASSUME NEW w \in StWins PROVE EffectiveLayer(w) \in Int
  <2>1. StLayerOf[w] \in Int
    BY StAssumption
  <2> QED  BY <2>1 DEF EffectiveLayer, StMax
<1> QED  BY <1>1 DEF Layers

LEMMA SortedLayers ==
  ASSUME NEW o \in Seq(StWins)
  PROVE  StSorted(o) <=> SortedBy(Layers, o)
<1>1. ASSUME NEW i \in 1..(Len(o) - 1)
      PROVE  Layers[o[i]] = EffectiveLayer(o[i]) /\ Layers[o[i + 1]] = EffectiveLayer(o[i + 1])
  <2>1. o[i] \in StWins /\ o[i + 1] \in StWins
    OBVIOUS
  <2> QED  BY <2>1 DEF Layers
<1> QED  BY <1>1 DEF StSorted, SortedBy

LEMMA RestackSorted ==
  ASSUME stState \in [StWins -> {"none", "above", "below"}],
         NEW o \in SetToSeqs(StWins), NEW w \in StWins, SortedBy(Layers, o)
  PROVE  SortedBy(Layers, RestackByWindowType(o, w))
<1> DEFINE d == Drop(o, w)
           le == {i \in 1..Len(d) : EffectiveLayer(d[i]) <= EffectiveLayer(w)}
           pos == IF le = {} THEN 1 ELSE 1 + CHOOSE i \in le : \A j \in le : j <= i
<1>1. d \in Seq(StWins) /\ Len(d) \in Nat
  BY StFinite, Dropped
<1>2. Layers \in [StWins -> Int] /\ SortedBy(Layers, d)
  BY LayersType, DropSorted
<1>3. RestackByWindowType(o, w) = InsertAt(d, pos, w)
  BY Zenon DEF RestackByWindowType
<1>4. ASSUME NEW i \in 1..Len(d)
      PROVE  /\ Layers[d[i]] \in Int /\ Layers[w] \in Int
             /\ i \in le <=> Layers[d[i]] <= Layers[w]
  <2>1. d[i] \in StWins
    BY <1>1
  <2>2. Layers[d[i]] = EffectiveLayer(d[i]) /\ Layers[w] = EffectiveLayer(w)
    BY <2>1 DEF Layers
  <2> QED  BY <1>2, <2>1, <2>2
<1>5. le \subseteq 1..Len(d)
  OBVIOUS
<1> HIDE DEF d, le
<1>6. /\ pos \in 1..(Len(d) + 1)
      /\ pos > 1 => Layers[d[pos - 1]] <= Layers[w]
      /\ pos <= Len(d) => Layers[w] <= Layers[d[pos]]
  <2>1. CASE le = {}
    BY <1>1, <1>4, <2>1
  <2>2. CASE le # {}
    <3> DEFINE top == CHOOSE i \in le : \A j \in le : j <= i
    <3>1. \E i \in le : \A j \in le : j <= i
      BY <1>1, <1>5, <2>2, GreatestOf
    <3>2. top \in le /\ \A j \in le : j <= top
      BY <3>1
    <3>3. pos = 1 + top
      BY <2>2
    <3> HIDE DEF top, pos
    <3>4. top \in 1..Len(d) /\ pos - 1 = top /\ ~(pos <= top)
      BY <1>1, <1>5, <3>2, <3>3
    <3>5. pos \notin le
      BY <3>2, <3>4
    <3>6. Layers[d[pos - 1]] <= Layers[w]
      BY <1>4, <3>2, <3>4
    <3>7. pos \in 1..(Len(d) + 1)
      BY <1>1, <3>3, <3>4
    <3>8. ASSUME pos <= Len(d) PROVE Layers[w] <= Layers[d[pos]]
      <4>1. pos \in 1..Len(d)
        BY <1>1, <3>7, <3>8
      <4> QED  BY <1>4, <3>5, <4>1
    <3> QED  BY <3>6, <3>7, <3>8
  <2> QED  BY <2>1, <2>2
<1> HIDE DEF pos
<1>7. SortedBy(Layers, InsertAt(d, pos, w))
  BY <1>1, <1>2, <1>6, InsertSorted
<1> QED  BY <1>3, <1>7

LEMMA LowerSorted ==
  ASSUME stState \in [StWins -> {"none", "above", "below"}],
         NEW o \in SetToSeqs(StWins), NEW w \in StWins, SortedBy(Layers, o)
  PROVE  SortedBy(Layers, LowerInLayer(o, w))
<1> DEFINE d == Drop(o, w)
           ge == {i \in 1..Len(d) : EffectiveLayer(d[i]) >= EffectiveLayer(w)}
           pos == IF ge = {} THEN Len(d) + 1 ELSE CHOOSE i \in ge : \A j \in ge : i <= j
<1>1. d \in Seq(StWins) /\ Len(d) \in Nat
  BY StFinite, Dropped
<1>2. Layers \in [StWins -> Int] /\ SortedBy(Layers, d)
  BY LayersType, DropSorted
<1>3. LowerInLayer(o, w) = InsertAt(d, pos, w)
  BY Zenon DEF LowerInLayer
<1>4. ASSUME NEW i \in 1..Len(d)
      PROVE  /\ Layers[d[i]] \in Int /\ Layers[w] \in Int
             /\ i \in ge <=> Layers[d[i]] >= Layers[w]
  <2>1. d[i] \in StWins
    BY <1>1
  <2>2. Layers[d[i]] = EffectiveLayer(d[i]) /\ Layers[w] = EffectiveLayer(w)
    BY <2>1 DEF Layers
  <2> QED  BY <1>2, <2>1, <2>2
<1>5. ge \subseteq 1..Len(d) /\ ge \subseteq Nat
  OBVIOUS
<1> HIDE DEF d, ge
<1>6. /\ pos \in 1..(Len(d) + 1)
      /\ pos > 1 => Layers[d[pos - 1]] <= Layers[w]
      /\ pos <= Len(d) => Layers[w] <= Layers[d[pos]]
  <2>1. pos \in 1..(Len(d) + 1) /\ (pos <= Len(d) => pos \in ge)
                                /\ (pos > 1 => pos - 1 \in 1..Len(d) /\ pos - 1 \notin ge)
    <3>1. CASE ge = {}
      BY <1>1, <3>1
    <3>2. CASE ge # {}
      <4>1. \E i \in ge : \A j \in ge : i <= j
        BY <1>5, <3>2, LeastOf
      <4>2. pos \in ge /\ \A j \in ge : pos <= j
        BY <3>2, <4>1
      <4> HIDE DEF pos
      <4>3. pos \in 1..Len(d) /\ ~(pos <= pos - 1)
        BY <1>1, <1>5, <4>2
      <4>4. pos - 1 \notin ge
        BY <4>2, <4>3
      <4> QED  BY <1>1, <4>2, <4>3, <4>4
    <3> QED  BY <3>1, <3>2
  <2> HIDE DEF pos
  <2>2. ASSUME pos > 1 PROVE Layers[d[pos - 1]] <= Layers[w]
    BY <1>4, <2>1, <2>2
  <2>3. ASSUME pos <= Len(d) PROVE Layers[w] <= Layers[d[pos]]
    BY <1>4, <1>5, <2>1, <2>3
  <2> QED  BY <2>1, <2>2, <2>3
<1> HIDE DEF pos
<1>7. SortedBy(Layers, InsertAt(d, pos, w))
  BY <1>1, <1>2, <1>6, InsertSorted
<1> QED  BY <1>3, <1>7

LEMMA TransientSorted ==
  ASSUME stState \in [StWins -> {"none", "above", "below"}],
         NEW o \in SetToSeqs(StWins), NEW w \in StWins, SortedBy(Layers, o),
         w \in DOMAIN StTransient => EffectiveLayer(w) = EffectiveLayer(StTransient[w])
  PROVE  SortedBy(Layers, TransientRestack(o, w))
<1>1. CASE w \notin DOMAIN StTransient
  BY <1>1 DEF TransientRestack
<1>2. CASE w \in DOMAIN StTransient
  <2> DEFINE s == StTransient[w]
             d == Drop(o, w)
             q == PosIn(d, s)
  <2>1. s \in StWins \ {w}
    BY <1>2, StAssumption
  <2>2. Layers[s] = Layers[w]
    BY <1>2, <2>1 DEF Layers
  <2> HIDE DEF s
  <2>3. d \in Seq(StWins) /\ Len(d) \in Nat
    BY StFinite, Dropped
  <2>4. q \in 1..Len(d) /\ d[q] = s
    BY <2>1, SiblingPlace
  <2>5. Layers \in [StWins -> Int] /\ SortedBy(Layers, d)
    BY LayersType, DropSorted
  <2>6. TransientRestack(o, w) = InsertAt(d, q + 1, w)
    BY <1>2, Zenon DEF TransientRestack, AboveSibling, s
  <2> HIDE DEF d, q
  <2>7. q + 1 \in 1..(Len(d) + 1) /\ (q + 1) - 1 = q
    BY <2>3, <2>4
  <2>8. q + 1 > 1 => Layers[d[(q + 1) - 1]] <= Layers[w]
    <3>1. Layers[w] \in Int
      BY <2>5
    <3> QED  BY <2>2, <2>4, <2>7, <3>1
  <2>9. ASSUME q + 1 <= Len(d) PROVE Layers[w] <= Layers[d[q + 1]]
    <3>1. q \in 1..(Len(d) - 1)
      BY <2>3, <2>4, <2>9
    <3> QED  BY <2>2, <2>4, <2>5, <3>1 DEF SortedBy
  <2>10. SortedBy(Layers, InsertAt(d, q + 1, w))
    BY <2>3, <2>5, <2>7, <2>8, <2>9, InsertSorted
  <2> QED  BY <2>6, <2>10
<1> QED  BY <1>1, <1>2

(***************************************************************************)
(* Mapping several windows, one after the other.                           *)
(***************************************************************************)
MapStep(f, a, seq, i) == IF i = 0 THEN a ELSE MapOne(f[i - 1], seq[i])

LEMMA MapChain ==
  ASSUME NEW a, NEW seq, NEW n \in Nat
  PROVE  \E f : f = [i \in 0..n |-> MapStep(f, a, seq, i)]
<1> DEFINE T == {m \in Nat : \E f : f = [i \in 0..m |-> MapStep(f, a, seq, i)]}
<1>1. 0 \in T
  <2> DEFINE f == [i \in 0..0 |-> a]
  <2>1. f = [i \in 0..0 |-> MapStep(f, a, seq, i)]
    BY DEF MapStep
  <2> QED  BY <2>1
<1>2. ASSUME NEW m \in Nat, m \in T PROVE m + 1 \in T
  <2>1. PICK f : f = [i \in 0..m |-> MapStep(f, a, seq, i)]
    BY <1>2
  <2> DEFINE h == [i \in 0..(m + 1) |-> IF i <= m THEN f[i] ELSE MapStep(f, a, seq, m + 1)]
  <2>2. ASSUME NEW i \in 0..(m + 1) PROVE h[i] = MapStep(h, a, seq, i)
    <3>1. i # 0 => i - 1 \in 0..(m + 1) /\ h[i - 1] = f[i - 1]
      OBVIOUS
    <3> HIDE DEF h
    <3>2. MapStep(h, a, seq, i) = MapStep(f, a, seq, i)
      BY <3>1 DEF MapStep
    <3>3. CASE i <= m
      <4>1. i \in 0..m /\ h[i] = f[i]
        BY <3>3 DEF h
      <4>2. f[i] = MapStep(f, a, seq, i)
        BY <2>1, <4>1
      <4> QED  BY <3>2, <4>1, <4>2
    <3>4. CASE i = m + 1
      BY <3>2, <3>4 DEF h
    <3> QED  BY <3>3, <3>4
  <2>3. h = [i \in 0..(m + 1) |-> MapStep(h, a, seq, i)]
    <3>1. h = [i \in 0..(m + 1) |-> h[i]]
      OBVIOUS
    <3> HIDE DEF h
    <3> QED  BY <2>2, <3>1
  <2> HIDE DEF h
  <2> QED  BY <2>3
<1> HIDE DEF T
<1>3. Nat \subseteq T
  BY <1>1, <1>2, NumInduction
<1> QED  BY <1>3 DEF T

LEMMA VisibilityType ==
  ASSUME NEW o, NEW mapped, NEW x, NEW wd, NEW w
  PROVE  ComputeVisibility(o, mapped, x, wd, w) \in 0..2
<1> DEFINE over == {s \in StAbove(o, w, {}) \cap mapped : StOverlap(x, wd, w, s)}
           area == FoldLeft(LAMBDA acc, s : acc + OverlapLen(x, wd, w, s), 0, SetToSeq(over))
           C == CASE w \notin mapped -> FullyObscured
                  [] w \in mapped /\ over = {} -> Unobscured
                  [] w \in mapped /\ over # {} /\ area >= wd[w] -> FullyObscured
                  [] OTHER -> PartiallyObscured
<1>1. ComputeVisibility(o, mapped, x, wd, w) = C
  BY Zenon DEF ComputeVisibility
<1> HIDE DEF over, area
<1>2. C \in {Unobscured, PartiallyObscured, FullyObscured}
  BY Zenon
<1> HIDE DEF C
<1> QED  BY <1>1, <1>2 DEF Unobscured, PartiallyObscured, FullyObscured

(* What one window's mapping keeps of the part of the tree it changes. *)
MapState == [order : SetToSeqs(StWins), mapped : SUBSET StWins, x : [StWins -> Int],
             vis : [StWins -> 0..2]]

LEMMA PlacedType ==
  ASSUME NEW x \in [StWins -> Int], NEW w \in StWins
  PROVE  Placed(x, w) \in [StWins -> Int]
  BY StAssumption DEF Placed

LEMMA MapOneType ==
  ASSUME NEW acc \in MapState, NEW w \in StWins
  PROVE  MapOne(acc, w) \in MapState
<1> DEFINE v == ComputeVisibility(acc.order, acc.mapped \cup {w}, Placed(acc.x, w), stW, w)
           x == Placed(acc.x, w)
           o == TransientRestack(RestackByWindowType(acc.order, w), w)
<1>1. v \in 0..2
  BY VisibilityType
<1>2. acc.order \in SetToSeqs(StWins) /\ acc.mapped \subseteq StWins /\ acc.vis \in [StWins -> 0..2]
      /\ acc.x \in [StWins -> Int]
  BY DEF MapState
<1>5. x \in [StWins -> Int]
  BY <1>2, PlacedType
<1>3. o \in SetToSeqs(StWins)
  BY <1>2, RestackOrder, TransientOrder
<1>4. MapOne(acc, w) = [order |-> o, mapped |-> acc.mapped \cup {w}, x |-> x,
                        vis |-> [acc.vis EXCEPT ![w] = v]]
  BY DEF MapOne
<1> HIDE DEF v, o, x
<1> QED  BY <1>1, <1>2, <1>3, <1>4, <1>5 DEF MapState

LEMMA MapOneSorted ==
  ASSUME stState \in [StWins -> {"none", "above", "below"}],
         NEW acc \in MapState, NEW w \in StWins, SortedBy(Layers, acc.order),
         w \in DOMAIN StTransient => EffectiveLayer(w) = EffectiveLayer(StTransient[w])
  PROVE  SortedBy(Layers, MapOne(acc, w).order)
<1> DEFINE q == RestackByWindowType(acc.order, w)
<1>1. acc.order \in SetToSeqs(StWins)
  BY DEF MapState
<1>2. q \in SetToSeqs(StWins) /\ SortedBy(Layers, q)
  BY <1>1, RestackOrder, RestackSorted
<1>3. MapOne(acc, w).order = TransientRestack(q, w)
  BY DEF MapOne
<1> HIDE DEF q
<1> QED  BY <1>2, <1>3, TransientSorted

LEMMA MappedAllKept ==
  ASSUME StTypeOK, NEW seq \in SetToSeqs(StWins \ stMapped)
  PROVE  /\ MappedAll(seq) \in MapState
         /\ MappedAll(seq).mapped = StWins
         /\ /\ SortedBy(Layers, stOrder)
            /\ \A w \in DOMAIN StTransient \cap (StWins \ stMapped) :
                    EffectiveLayer(w) = EffectiveLayer(StTransient[w])
            => SortedBy(Layers, MappedAll(seq).order)
<1> DEFINE n == Len(seq)
           a == [order |-> stOrder, mapped |-> stMapped, x |-> stX, vis |-> stVis]
           g == CHOOSE f : f = [i \in 0..n |-> MapStep(f, a, seq, i)]
           Own == /\ SortedBy(Layers, stOrder)
                  /\ \A w \in DOMAIN StTransient \cap (StWins \ stMapped) :
                        EffectiveLayer(w) = EffectiveLayer(StTransient[w])
           Good(i) == /\ g[i] \in MapState
                      /\ g[i].mapped = stMapped \cup {seq[j] : j \in 1..i}
                      /\ Own => SortedBy(Layers, g[i].order)
           T == {i \in Nat : i <= n => Good(i)}
<1>0. IsFiniteSet(StWins \ stMapped)
  BY StFinite, FS_Difference
<1>1. /\ n \in Nat /\ \A i \in 1..n : seq[i] \in StWins \ stMapped
      /\ \A w \in StWins \ stMapped : \E i \in 1..n : seq[i] = w
  <2>1. seq \in Seq(StWins \ stMapped)
    BY <1>0, OrderFacts
  <2> QED  BY <1>0, <2>1, OrderFacts
<1>2. MappedAll(seq) = g[n]
  BY Zenon DEF MappedAll, MapStep
<1>3. g = [i \in 0..n |-> MapStep(g, a, seq, i)]
  BY <1>1, MapChain, SMTT(40)
<1> HIDE DEF g, Own
<1>4. g[0] = a /\ \A i \in 1..n : g[i] = MapOne(g[i - 1], seq[i])
  <2>1. ASSUME NEW i \in 0..n PROVE g[i] = MapStep(g, a, seq, i)
    BY <1>3
  <2> QED  BY <1>1, <2>1 DEF MapStep
<1>5. 0 \in T
  <2>1. a \in MapState
    BY DEF StTypeOK, MapState
  <2>2. {seq[j] : j \in 1..0} = {}
    OBVIOUS
  <2> QED  BY <1>4, <2>1, <2>2 DEF Own
<1>6. ASSUME NEW i \in Nat, i \in T PROVE i + 1 \in T
  <2> SUFFICES ASSUME i + 1 <= n PROVE Good(i + 1)
    OBVIOUS
  <2>1. i <= n /\ i + 1 \in 1..n /\ (i + 1) - 1 = i
    BY <1>1
  <2>2. Good(i)
    BY <1>6, <2>1
  <2>3. g[i + 1] = MapOne(g[i], seq[i + 1]) /\ seq[i + 1] \in StWins \ stMapped
    BY <1>1, <1>4, <2>1
  <2>4. g[i + 1] \in MapState
    BY <2>2, <2>3, MapOneType
  <2>5. g[i + 1].mapped = g[i].mapped \cup {seq[i + 1]}
    BY <2>3 DEF MapOne
  <2>6. {seq[j] : j \in 1..(i + 1)} = {seq[j] : j \in 1..i} \cup {seq[i + 1]}
    <3>1. \A j : j \in 1..(i + 1) <=> j \in 1..i \/ j = i + 1
      OBVIOUS
    <3> QED  BY <3>1, Zenon
  <2>7. ASSUME Own PROVE SortedBy(Layers, g[i + 1].order)
    <3>1. stState \in [StWins -> {"none", "above", "below"}]
      BY DEF StTypeOK
    <3>2. seq[i + 1] \in DOMAIN StTransient =>
              EffectiveLayer(seq[i + 1]) = EffectiveLayer(StTransient[seq[i + 1]])
      BY <2>3, <2>7 DEF Own
    <3>3. SortedBy(Layers, g[i].order)
      BY <2>2, <2>7
    <3> QED  BY <2>2, <2>3, <3>1, <3>2, <3>3, MapOneSorted
  <2> QED  BY <2>2, <2>4, <2>5, <2>6, <2>7
<1> HIDE DEF T
<1>7. Nat \subseteq T
  BY <1>5, <1>6, NumInduction
<1>8. Good(n)
  BY <1>1, <1>7 DEF T
<1>9. stMapped \cup {seq[j] : j \in 1..n} = StWins
  BY <1>1 DEF StTypeOK
<1> QED  BY <1>2, <1>8, <1>9 DEF Own

(***************************************************************************)
(* The type invariant of XStacking.                                        *)
(***************************************************************************)
LEMMA StInitType == StInit => StTypeOK
<1> SUFFICES ASSUME StInit PROVE StTypeOK
  OBVIOUS
<1>1. StHints.min \in Nat
  BY StAssumption
<1>2. StMax(1, StHints.min) \in Nat
  BY <1>1 DEF StMax
<1> QED  BY <1>2 DEF StInit, StTypeOK, Unobscured

LEMMA ClampType ==
  ASSUME NEW v \in Nat
  PROVE  ClampWidth(v) \in Nat
<1> DEFINE h == StHints
           base == IF h.base > 0 THEN h.base ELSE h.min
           whole == IF h.inc > 1 /\ v > base THEN v - ((v - base) % h.inc) ELSE v
           atLeast == IF h.min > 0 /\ whole < h.min THEN h.min ELSE whole
<1>1. h.min \in Nat /\ h.max \in Nat /\ h.inc \in Nat /\ h.base \in Nat
  BY StAssumption
<1>2. ClampWidth(v) = IF h.max > 0 /\ atLeast > h.max THEN h.max ELSE atLeast
  BY DEF ClampWidth
<1> HIDE DEF h
<1>3. base \in Nat
  BY <1>1
<1> HIDE DEF base
<1>4. whole \in Nat
  <2>1. CASE h.inc > 1 /\ v > base
    <3> DEFINE m == (v - base) % h.inc
    <3>1. m \in 0..(h.inc - 1) /\ m <= v - base
      BY <1>1, <1>3, <2>1
    <3> HIDE DEF m
    <3> QED  BY <1>1, <1>3, <2>1, <3>1 DEF m
  <2> QED  BY <2>1
<1> HIDE DEF whole
<1> QED  BY <1>1, <1>2, <1>4

LEMMA SiblingVisibilityType ==
  ASSUME NEW o, NEW mapped, NEW x, NEW wd
  PROVE  SiblingVisibility(o, mapped, x, wd) \in [StWins -> 0..2]
  BY VisibilityType DEF SiblingVisibility

LEMMA GravityType ==
  ASSUME NEW g, NEW d \in Int
  PROVE  WinGravityDelta(g, d) \in Int
<1>1. StHalf(d) \in Int
  BY DEF StHalf
<1> QED  BY <1>1 DEF WinGravityDelta

(* What a ConfigureWindow request may ask for. *)
LEMMA RequestParts ==
  ASSUME NEW w \in StWins, NEW q \in StRequests(w)
  PROVE  /\ q[1] \in StOpt(StXs) /\ q[2] \in StOpt(StWidths)
         /\ q[3] \in {"none", "sibling", "height", "mode"}
         /\ q[4] \in SUBSET (StWins \ {w})
         /\ q[3] \in {"height", "mode"} => q[4] = {} /\ q[5] = 5
<1> DEFINE W == StWins \ {w}
           H == {"none", "height", "mode"}
<1>1. \/ q \in StOpt(StXs) \X StOpt(StWidths) \X H \X {{}} \X {5}
      \/ q \in {{}} \X StOpt(StWidths) \X {"sibling"} \X {{}} \X {0}
      \/ q \in {{}} \X {{}} \X {"none"} \X StOpt(W) \X (0..4)
  BY DEF StRequests
<1>2. {} \in StOpt(StXs) /\ {} \in StOpt(StWidths) /\ {} \in StOpt(W)
  BY DEF StOpt
<1>3. StOpt(W) \subseteq SUBSET W
  BY DEF StOpt
<1> HIDE DEF W, H
<1>4. CASE q \in StOpt(StXs) \X StOpt(StWidths) \X H \X {{}} \X {5}
  <2>1. q[1] \in StOpt(StXs) /\ q[2] \in StOpt(StWidths) /\ q[3] \in H /\ q[4] = {} /\ q[5] = 5
    BY <1>4
  <2> QED  BY <2>1 DEF H
<1>5. CASE q \in {{}} \X StOpt(StWidths) \X {"sibling"} \X {{}} \X {0}
  <2>1. q[1] = {} /\ q[2] \in StOpt(StWidths) /\ q[3] = "sibling" /\ q[4] = {}
    BY <1>5
  <2> QED  BY <1>2, <2>1
<1>6. CASE q \in {{}} \X {{}} \X {"none"} \X StOpt(W) \X (0..4)
  <2>1. q[1] = {} /\ q[2] = {} /\ q[3] = "none" /\ q[4] \in StOpt(W)
    BY <1>6
  <2> QED  BY <1>2, <1>3, <2>1 DEF W
<1> QED  BY <1>1, <1>4, <1>5, <1>6

LEMMA ConfigureParts ==
  ASSUME StTypeOK, NEW w \in StWins, NEW nx, NEW nw, NEW bad, NEW sib, NEW m,
         nx \in StOpt(StXs), nw \in StOpt(StWidths),
         bad \in {"height", "mode"} => sib = {} /\ m = 5,
         sib \in SUBSET (StWins \ {w}),
         StConfigure(w, nx, nw, bad, sib, m)
  PROVE  /\ StTypeOK'
         /\ EastGravityKept
<1> DEFINE x2 == [stX EXCEPT ![w] = IF nx = {} THEN stX[w] ELSE CHOOSE v \in nx : TRUE]
           asked == CHOOSE v \in nw : TRUE
           w2 == [stW EXCEPT ![w] = IF nw = {} THEN stW[w] ELSE ClampWidth(asked)]
           order2 == Restacked(stOrder, x2, w2, w, sib, m)
           vis2 == SiblingVisibility(order2, stMapped, x2, w2)
<1>0. /\ nx = {} \/ \E v \in StXs : nx = {v}
      /\ nw = {} \/ \E v \in StWidths : nw = {v}
  BY DEF StOpt
<1>1. x2 \in [StWins -> Int]
  <2>1. (IF nx = {} THEN stX[w] ELSE CHOOSE v \in nx : TRUE) \in Int
    BY <1>0, StAssumption DEF StTypeOK
  <2> QED  BY <2>1 DEF StTypeOK
<1>2. w2 \in [StWins -> Nat] /\ \A u \in StWins \ {w} : w2[u] = stW[u]
  <2>1. nw # {} => asked \in Nat
    BY <1>0, StAssumption
  <2>2. (IF nw = {} THEN stW[w] ELSE ClampWidth(asked)) \in Nat
    BY <2>1, ClampType DEF StTypeOK
  <2> QED  BY <2>2 DEF StTypeOK
<1>3. order2 \in SetToSeqs(StWins)
  BY RestackedOrder DEF StTypeOK
<1>4. vis2 \in [StWins -> 0..2]
  BY SiblingVisibilityType
<1>5. \/ nw = {0} /\ ConfigureRefused(w, x2[w], stW[w])
      \/ nw # {0} /\ bad \in {"height", "mode"} /\ ConfigureRefused(w, x2[w], w2[w])
      \/   /\ nw # {0} /\ bad \in {"none", "sibling"}
           /\ stX' = x2 /\ stW' = w2
           /\ stKidX' = KidMoved(w, stW[w], w2[w])
           /\ IF m # 5 /\ bad = "sibling"
              THEN UNCHANGED <<stOrder, stVis>>
              ELSE /\ stOrder' = order2
                   /\ stVis' = IF (nx # {} \/ nw # {}) \/ m # 5 THEN vis2 ELSE stVis
           /\ UNCHANGED <<stMapped, stState>>
  BY DEF StConfigure
<1>6. stX[w] \in Int /\ stW[w] \in Nat /\ stKidX \in Int /\ StKidOf \in StWins
  BY StAssumption DEF StTypeOK
<1> HIDE DEF x2, w2, order2, vis2
<1>7. CASE nw = {0}
  <2>1. x2[w] \in Int
    BY <1>1
  <2>2. ConfigureRefused(w, x2[w], stW[w])
    BY <1>5, <1>7
  <2>3. [stW EXCEPT ![w] = stW[w]] = stW
    BY DEF StTypeOK
  <2> QED  BY <2>1, <2>2, <2>3 DEF ConfigureRefused, StTypeOK, EastGravityKept
<1>9. CASE nw # {0} /\ bad \in {"height", "mode"}
  <2>1. x2[w] \in Int /\ w2[w] \in Nat
    BY <1>1, <1>2
  <2>2. ConfigureRefused(w, x2[w], w2[w])
    BY <1>5, <1>9
  <2>3. StTypeOK'
    BY <2>1, <2>2 DEF ConfigureRefused, StTypeOK
  <2>4. w = StKidOf => StHalfDone
    BY <1>9 DEF StHalfDone
  <2>5. w # StKidOf => stKidX' = stKidX /\ stW'[StKidOf] = stW[StKidOf]
    BY <1>6, <2>2 DEF ConfigureRefused, StTypeOK
  <2> QED  BY <2>3, <2>4, <2>5 DEF EastGravityKept
<1>8. CASE nw # {0} /\ bad \notin {"height", "mode"}
  <2>1. /\ stX' = x2 /\ stW' = w2 /\ stMapped' = stMapped /\ stState' = stState
        /\ stKidX' = KidMoved(w, stW[w], w2[w])
        /\ stOrder' = stOrder \/ stOrder' = order2
        /\ stVis' = stVis \/ stVis' = vis2
    BY <1>5, <1>8
  <2>2. w2[w] \in Nat /\ w2[w] - stW[w] \in Int
    BY <1>2, <1>6
  <2>3. WinGravityDelta(StKidGravity, w2[w] - stW[w]) \in Int
    BY <2>2, GravityType
  <2>4. stKidX' \in Int
    BY <1>6, <2>1, <2>3 DEF KidMoved
  <2>5. StTypeOK'
    BY <1>1, <1>2, <1>3, <1>4, <2>1, <2>4 DEF StTypeOK
  <2>6. EastGravityKept
    <3> SUFFICES ASSUME StKidGravity \in {3, 6, 9}
                 PROVE  stKidX' - stW'[StKidOf] = stKidX - stW[StKidOf]
      BY DEF EastGravityKept
    <3>1. WinGravityDelta(StKidGravity, w2[w] - stW[w]) = w2[w] - stW[w]
      BY DEF WinGravityDelta
    <3>2. CASE w = StKidOf
      <4>1. stKidX' = stKidX + (w2[w] - stW[w]) /\ stW'[StKidOf] = w2[w]
        BY <2>1, <3>1, <3>2 DEF KidMoved
      <4> QED  BY <1>6, <2>2, <3>2, <4>1
    <3>3. CASE w # StKidOf
      BY <1>2, <1>6, <2>1, <3>3 DEF KidMoved
    <3> QED  BY <3>2, <3>3
  <2> QED  BY <2>5, <2>6
<1> QED  BY <1>7, <1>8, <1>9

LEMMA KidKept ==
  ASSUME stKidX' = stKidX, stW' = stW
  PROVE  EastGravityKept
  BY DEF EastGravityKept

(* A step that keeps the order keeps the layers. *)
LEMMA OrderKept ==
  ASSUME stOrder' = stOrder
  PROVE  LayersKept
<1>1. StSorted(stOrder') <=> StSorted(stOrder)
  BY DEF StSorted
<1> QED  BY <1>1 DEF LayersKept

(* Raising and lowering without a sibling, whatever step they belong to. *)
LEMMA PlainConfigureSorted ==
  ASSUME StTypeOK, StSorted(stOrder), NEW w \in StWins, NEW m \in {0, 1},
         StConfigure(w, {}, {}, "none", {}, m)
  PROVE  StSorted(stOrder')
<1> DEFINE x2 == [stX EXCEPT ![w] = IF {} = {} THEN stX[w] ELSE CHOOSE v \in {} : TRUE]
           w2 == [stW EXCEPT ![w] = IF {} = {} THEN stW[w] ELSE ClampWidth(CHOOSE v \in {} : TRUE)]
<1>1. stOrder' = Restacked(stOrder, x2, w2, w, {}, m)
  <2>1. {} # {0}
    OBVIOUS
  <2> QED  BY <2>1, Zenon DEF StConfigure
<1> HIDE DEF x2, w2
<1>2. stOrder' = IF m = 0 THEN RestackByWindowType(stOrder, w) ELSE LowerInLayer(stOrder, w)
  <2>1. CASE m = 0
    BY <1>1, <2>1 DEF Restacked
  <2>2. CASE m = 1
    BY <1>1, <2>2 DEF Restacked
  <2> QED  BY <2>1, <2>2
<1>3. /\ stOrder \in SetToSeqs(StWins) /\ stOrder \in Seq(StWins)
      /\ stState \in [StWins -> {"none", "above", "below"}]
  BY StFinite, OrderFacts DEF StTypeOK
<1>4. SortedBy(Layers, stOrder)
  BY <1>3, SortedLayers
<1>5. stOrder' \in SetToSeqs(StWins) /\ SortedBy(Layers, stOrder')
  BY <1>2, <1>3, <1>4, RestackOrder, LowerOrder, RestackSorted, LowerSorted
<1>6. stOrder' \in Seq(StWins)
  BY <1>5, StFinite, OrderFacts
<1> QED  BY <1>5, <1>6, SortedLayers

(* A step that maps nothing and unmaps nothing has only that obligation. *)
LEMMA SameMapped ==
  ASSUME StTypeOK, stMapped' = stMapped
  PROVE  LayersKept
  BY PlainConfigureSorted DEF LayersKept, StLayered

LEMMA StStepKept ==
  ASSUME StTypeOK, StNext
  PROVE  StTypeOK' /\ LayersKept /\ EastGravityKept
<1>0. /\ stOrder \in SetToSeqs(StWins) /\ stOrder \in Seq(StWins) /\ Len(stOrder) \in Nat
      /\ stState \in [StWins -> {"none", "above", "below"}]
  BY StFinite, OrderFacts DEF StTypeOK
<1>1. ASSUME NEW w \in StWins, StMap(w)
      PROVE  StTypeOK' /\ LayersKept /\ EastGravityKept
  <2> DEFINE acc == [order |-> stOrder, mapped |-> stMapped, x |-> stX, vis |-> stVis]
             r == MapOne(acc, w)
  <2>1. acc \in MapState /\ acc.order = stOrder
    BY DEF StTypeOK, MapState
  <2>2. r \in MapState
    BY <2>1, MapOneType
  <2>3. stOrder' = r.order /\ stMapped' = r.mapped /\ stVis' = r.vis /\ stX' = r.x
    BY <1>1 DEF StMap, MapOne
  <2>4. stW' = stW /\ stState' = stState /\ stKidX' = stKidX
    BY <1>1 DEF StMap
  <2>5. StTypeOK'
    BY <2>2, <2>3, <2>4 DEF StTypeOK, MapState
  <2>6. stMapped' = stMapped \cup {w} /\ w \notin stMapped
    BY <1>1 DEF StMap
  <2>7. ASSUME StSorted(stOrder), StLayered PROVE StSorted(stOrder')
    <3>1. CASE \E v \in StWins, m \in {0, 1} : StConfigure(v, {}, {}, "none", {}, m)
      BY <2>7, <3>1, PlainConfigureSorted
    <3>2. CASE \A v \in DOMAIN StTransient \cap (stMapped' \ stMapped) :
                  EffectiveLayer(v) = EffectiveLayer(StTransient[v])
      <4>1. w \in DOMAIN StTransient => EffectiveLayer(w) = EffectiveLayer(StTransient[w])
        BY <2>6, <3>2
      <4>2. SortedBy(Layers, acc.order)
        BY <1>0, <2>1, <2>7, SortedLayers
      <4> HIDE DEF acc
      <4>3. SortedBy(Layers, r.order)
        BY <1>0, <2>1, <4>1, <4>2, MapOneSorted
      <4>4. stOrder' \in Seq(StWins)
        BY <2>5, StFinite, OrderFacts DEF StTypeOK
      <4> QED  BY <2>3, <4>3, <4>4, SortedLayers
    <3> QED  BY <2>7, <3>1, <3>2 DEF StLayered
  <2>8. LayersKept
    BY <2>7 DEF LayersKept
  <2> QED  BY <2>4, <2>5, <2>8, KidKept
<1>2. ASSUME NEW w \in StWins, StUnmap(w)
      PROVE  StTypeOK' /\ LayersKept /\ EastGravityKept
  <2> DEFINE M == stMapped \ UnmapSet(w)
  <2>1. /\ stMapped' = M /\ stVis' = SiblingVisibility(stOrder, M, stX, stW)
        /\ UNCHANGED <<stOrder, stX, stW, stState, stKidX>>
    BY <1>2 DEF StUnmap
  <2>2. M \subseteq stMapped
    OBVIOUS
  <2> HIDE DEF M
  <2>3. stVis' \in [StWins -> 0..2]
    BY <2>1, SiblingVisibilityType
  <2>4. StTypeOK'
    BY <2>1, <2>2, <2>3 DEF StTypeOK
  <2> QED  BY <2>1, <2>4, OrderKept, KidKept
<1>3. ASSUME NEW w \in StWins, NEW s \in {"none", "above", "below"}, StSetState(w, s)
      PROVE  StTypeOK' /\ LayersKept /\ EastGravityKept
  <2>1. StTypeOK'
    BY <1>3 DEF StSetState, StTypeOK
  <2>2. stOrder' = stOrder /\ stKidX' = stKidX /\ stW' = stW
    BY <1>3 DEF StSetState
  <2> QED  BY <2>1, <2>2, OrderKept, KidKept
<1>4. ASSUME NEW w \in StWins, NEW q \in StRequests(w),
             StConfigure(w, q[1], q[2], q[3], q[4], q[5])
      PROVE  StTypeOK' /\ LayersKept /\ EastGravityKept
  <2> DEFINE nx == q[1]
             nw == q[2]
             bad == q[3]
             sib == q[4]
             m == q[5]
  <2>1. /\ nx \in StOpt(StXs) /\ nw \in StOpt(StWidths)
        /\ bad \in {"height", "mode"} => sib = {} /\ m = 5
        /\ sib \in SUBSET (StWins \ {w})
    BY RequestParts
  <2>2. StConfigure(w, nx, nw, bad, sib, m)
    BY <1>4
  <2> HIDE DEF nx, nw, bad, sib, m
  <2>3. StTypeOK' /\ EastGravityKept
    BY <2>1, <2>2, ConfigureParts
  <2>4. stMapped' = stMapped
    BY <2>2 DEF StConfigure, ConfigureRefused
  <2> QED  BY <2>3, <2>4, SameMapped
<1>5. ASSUME StMapSubwindows
      PROVE  StTypeOK' /\ LayersKept /\ EastGravityKept
  <2>1. PICK seq \in SetToSeqs(StWins \ stMapped) :
            /\ stOrder' = MappedAll(seq).order /\ stMapped' = MappedAll(seq).mapped
            /\ stVis' = MappedAll(seq).vis /\ stX' = MappedAll(seq).x
    BY <1>5, Zenon DEF StMapSubwindows
  <2> DEFINE r == MappedAll(seq)
  <2>2. stW' = stW /\ stState' = stState /\ stKidX' = stKidX
    BY <1>5 DEF StMapSubwindows
  <2>3. /\ r \in MapState /\ r.mapped = StWins
        /\ /\ SortedBy(Layers, stOrder)
           /\ \A w \in DOMAIN StTransient \cap (StWins \ stMapped) :
                  EffectiveLayer(w) = EffectiveLayer(StTransient[w])
           => SortedBy(Layers, r.order)
    BY <2>1, MappedAllKept
  <2>4. stOrder' = r.order /\ stMapped' = r.mapped /\ stVis' = r.vis /\ stX' = r.x
    BY <2>1
  <2> HIDE DEF r
  <2>5. StTypeOK'
    BY <2>2, <2>3, <2>4 DEF StTypeOK, MapState
  <2>6. ASSUME StSorted(stOrder), StLayered PROVE StSorted(stOrder')
    <3>1. CASE \E v \in StWins, m \in {0, 1} : StConfigure(v, {}, {}, "none", {}, m)
      BY <2>6, <3>1, PlainConfigureSorted
    <3>2. CASE \A v \in DOMAIN StTransient \cap (stMapped' \ stMapped) :
                  EffectiveLayer(v) = EffectiveLayer(StTransient[v])
      <4>1. SortedBy(Layers, stOrder)
        BY <1>0, <2>6, SortedLayers
      <4>2. SortedBy(Layers, r.order)
        BY <2>3, <2>4, <3>2, <4>1
      <4>3. stOrder' \in Seq(StWins)
        BY <2>5, StFinite, OrderFacts DEF StTypeOK
      <4> QED  BY <2>4, <4>2, <4>3, SortedLayers
    <3> QED  BY <2>6, <3>1, <3>2 DEF StLayered
  <2>7. LayersKept
    BY <2>6 DEF LayersKept
  <2> QED  BY <2>2, <2>5, <2>7, KidKept
<1>6. ASSUME StUnmapSubwindows
      PROVE  StTypeOK' /\ LayersKept /\ EastGravityKept
  <2>1. /\ stMapped' = {} /\ stVis' = SiblingVisibility(stOrder, {}, stX, stW)
        /\ UNCHANGED <<stOrder, stX, stW, stState, stKidX>>
    BY <1>6 DEF StUnmapSubwindows
  <2>2. stVis' \in [StWins -> 0..2]
    BY <2>1, SiblingVisibilityType
  <2>3. StTypeOK'
    BY <2>1, <2>2 DEF StTypeOK
  <2> QED  BY <2>1, <2>3, OrderKept, KidKept
<1>7. ASSUME NEW raise \in BOOLEAN, StCirculate(raise)
      PROVE  StTypeOK' /\ LayersKept /\ EastGravityKept
  <2> DEFINE kids == {i \in 1..Len(stOrder) : stOrder[i] \in stMapped}
             at == CHOOSE i \in kids : \A j \in kids : IF raise THEN i <= j ELSE j <= i
             target == stOrder[at]
  <2>1. /\ Cardinality(kids) >= 2
        /\ stOrder' = IF raise THEN ToTop(stOrder, target) ELSE ToBottom(stOrder, target)
        /\ UNCHANGED <<stMapped, stX, stW, stState, stVis, stKidX>>
    BY <1>7, Zenon DEF StCirculate
  <2>2. kids \subseteq 1..Len(stOrder) /\ kids \subseteq Nat
    OBVIOUS
  <2> HIDE DEF kids
  <2>3. kids # {}
    <3>1. Cardinality({}) = 0
      BY FS_EmptySet
    <3> QED  BY <2>1, <3>1
  <2>4. \E i \in kids : \A j \in kids : i <= j
    BY <2>2, <2>3, LeastOf
  <2>5. \E i \in kids : \A j \in kids : j <= i
    BY <1>0, <2>2, <2>3, GreatestOf
  <2>6. at \in kids
    <3>1. \E i \in kids : \A j \in kids : IF raise THEN i <= j ELSE j <= i
      BY <2>4, <2>5
    <3> QED  BY <3>1
  <2> HIDE DEF at
  <2>7. target \in StWins
    BY <1>0, <2>2, <2>6
  <2> HIDE DEF target
  <2>8. stOrder' \in SetToSeqs(StWins)
    BY <1>0, <2>1, <2>7, EndOrder
  <2>9. StTypeOK'
    BY <2>1, <2>8 DEF StTypeOK
  <2> QED  BY <2>1, <2>9, SameMapped, KidKept
<1> QED  BY <1>1, <1>2, <1>3, <1>4, <1>5, <1>6, <1>7 DEF StNext

-----------------------------------------------------------------------------
(***************************************************************************)
(* The types of the registries: what sync_windows, the destroy handlers    *)
(* and the rescue of the save set leave in a window map are windows.       *)
(***************************************************************************)
RegMap == UNION {[S -> RegWindow] : S \in SUBSET RegNodes}

RegShaped ==
    /\ regStatus \in [RegClients -> {"new", "up", "closed", "died", "hung"}]
    /\ regLocal \in [RegClients -> RegMap]
    /\ regShared \in RegMap
    /\ regDirty \in [RegClients -> SUBSET RegNodes]
    /\ regUuids \in [RegClients -> SUBSET RegWins]
    /\ {regIndex, regRoutes, regListed} \subseteq SUBSET RegWins
    /\ regSubs \subseteq RegClients
    /\ regWm \subseteq RegClients
    /\ regSaveSet \in [RegClients -> SUBSET RegWins]
    /\ regMode \in [RegClients -> CloseModes]
    /\ regKilled \subseteq RegWins
    /\ regReqs \in 0..RegMaxReqs

LEMMA MapOf ==
  ASSUME NEW S, S \subseteq RegNodes, NEW m, m \in [S -> RegWindow]
  PROVE  m \in RegMap
<1>1. [S -> RegWindow] \in {[T -> RegWindow] : T \in SUBSET RegNodes}
  OBVIOUS
<1> QED  BY <1>1 DEF RegMap

LEMMA MapParts ==
  ASSUME NEW m \in RegMap
  PROVE  /\ DOMAIN m \subseteq RegNodes /\ m \in [DOMAIN m -> RegWindow]
         /\ m = [w \in DOMAIN m |-> m[w]]
         /\ \A w \in DOMAIN m : m[w] \in RegWindow
<1>1. PICK S \in SUBSET RegNodes : m \in [S -> RegWindow]
  BY DEF RegMap
<1> QED  BY <1>1

LEMMA ShapedTyped == RegShaped => RegTypeOK
  BY MapParts DEF RegShaped, RegTypeOK, IsRegMap

LEMMA WindowParts ==
  ASSUME NEW x \in RegWindow
  PROVE  /\ x.parent \in RegNodes \cup {RegNoParent} /\ x.kids \in SUBSET RegWins
         /\ x.mapped \in BOOLEAN /\ x.redir \in BOOLEAN
         /\ \A b \in BOOLEAN : [x EXCEPT !.mapped = b] \in RegWindow
                               /\ [x EXCEPT !.redir = b] \in RegWindow
                               /\ [x EXCEPT !.ovr = b] \in RegWindow
                               /\ [x EXCEPT !.kept = b] \in RegWindow
         /\ \A p \in RegNodes : [x EXCEPT !.parent = p] \in RegWindow
         /\ \A K \in SUBSET RegWins : [x EXCEPT !.kids = K] \in RegWindow
  BY DEF RegWindow

LEMMA WithoutType ==
  ASSUME NEW m \in RegMap, NEW S
  PROVE  Without(m, S) \in RegMap
<1> DEFINE D == DOMAIN m \ S
<1>1. D \subseteq RegNodes /\ \A w \in D : m[w] \in RegWindow
  BY MapParts
<1>2. Without(m, S) \in [D -> RegWindow]
  BY <1>1 DEF Without
<1> QED  BY <1>1, <1>2, MapOf

LEMMA PutType ==
  ASSUME NEW m \in RegMap, NEW w \in RegNodes, NEW x \in RegWindow
  PROVE  Put(m, w, x) \in RegMap
<1> DEFINE D == DOMAIN m \cup {w}
<1>1. D \subseteq RegNodes /\ \A v \in DOMAIN m : m[v] \in RegWindow
  BY MapParts
<1>2. Put(m, w, x) \in [D -> RegWindow]
  BY <1>1 DEF Put
<1> QED  BY <1>1, <1>2, MapOf

(* A map with one entry replaced by a window. *)
LEMMA EntryType ==
  ASSUME NEW m \in RegMap, NEW p \in DOMAIN m, NEW x \in RegWindow
  PROVE  [m EXCEPT ![p] = x] \in RegMap
<1>1. DOMAIN m \subseteq RegNodes /\ m \in [DOMAIN m -> RegWindow]
  BY MapParts
<1>2. [m EXCEPT ![p] = x] \in [DOMAIN m -> RegWindow]
  BY <1>1
<1> QED  BY <1>1, <1>2, MapOf

LEMMA LinkType ==
  ASSUME NEW m \in RegMap, NEW p, NEW w \in RegWins, NEW S
  PROVE  /\ Unlink(m, p, S) \in RegMap /\ DOMAIN Unlink(m, p, S) = DOMAIN m
         /\ Link(m, p, w) \in RegMap /\ DOMAIN Link(m, p, w) = DOMAIN m
<1>1. CASE p \in DOMAIN m
  <2> DEFINE x == [m[p] EXCEPT !.kids = m[p].kids \ S]
             y == [m[p] EXCEPT !.kids = m[p].kids \cup {w}]
  <2>1. m[p] \in RegWindow
    BY <1>1, MapParts
  <2>2. m[p].kids \in SUBSET RegWins
    BY <2>1, WindowParts
  <2>3. x \in RegWindow /\ y \in RegWindow
    BY <2>1, <2>2, WindowParts
  <2>4. Unlink(m, p, S) = [m EXCEPT ![p] = x] /\ Link(m, p, w) = [m EXCEPT ![p] = y]
    BY <1>1 DEF Unlink, Link
  <2> HIDE DEF x, y
  <2> QED  BY <1>1, <2>3, <2>4, EntryType
<1>2. CASE p \notin DOMAIN m
  BY <1>2 DEF Unlink, Link
<1> QED  BY <1>1, <1>2

LEMMA MappedType ==
  ASSUME NEW m \in RegMap, NEW w \in DOMAIN m, NEW b \in BOOLEAN
  PROVE  /\ [m EXCEPT ![w].mapped = b] \in RegMap /\ [m EXCEPT ![w].redir = b] \in RegMap
         /\ [m EXCEPT ![w].ovr = b] \in RegMap
<1> DEFINE x == [m[w] EXCEPT !.mapped = b]
           y == [m[w] EXCEPT !.redir = b]
           z == [m[w] EXCEPT !.ovr = b]
<1>1. m[w] \in RegWindow
  BY MapParts
<1>2. x \in RegWindow /\ y \in RegWindow /\ z \in RegWindow
  BY <1>1, WindowParts
<1>3. [m EXCEPT ![w].mapped = b] = [m EXCEPT ![w] = x]
      /\ [m EXCEPT ![w].redir = b] = [m EXCEPT ![w] = y]
      /\ [m EXCEPT ![w].ovr = b] = [m EXCEPT ![w] = z]
  OBVIOUS
<1> HIDE DEF x, y, z
<1> QED  BY <1>2, <1>3, EntryType

LEMMA PulledType ==
  ASSUME NEW c, NEW m \in RegMap, NEW sh \in RegMap
  PROVE  Pulled(c, m, sh) \in RegMap
<1> DEFINE keep == {w \in DOMAIN m : RegMine(c, w) \/ w \in DOMAIN sh}
           D == keep \cup DOMAIN sh
           val(w) == IF w \notin DOMAIN m THEN sh[w]
                     ELSE IF RegMine(c, w) \/ w \notin DOMAIN sh THEN m[w]
                     ELSE [m[w] EXCEPT !.mapped = m[w].mapped \/ sh[w].mapped]
<1>1. /\ DOMAIN m \subseteq RegNodes /\ \A w \in DOMAIN m : m[w] \in RegWindow
      /\ DOMAIN sh \subseteq RegNodes /\ \A w \in DOMAIN sh : sh[w] \in RegWindow
  BY MapParts
<1>2. ASSUME NEW w \in D PROVE val(w) \in RegWindow
  <2>1. CASE w \notin DOMAIN m
    BY <1>1, <2>1
  <2>2. CASE w \in DOMAIN m
    <3>1. m[w] \in RegWindow
      BY <1>1, <2>2
    <3>2. (m[w].mapped \/ sh[w].mapped) \in BOOLEAN
      OBVIOUS
    <3>3. [m[w] EXCEPT !.mapped = m[w].mapped \/ sh[w].mapped] \in RegWindow
      BY <3>1, <3>2, WindowParts
    <3> QED  BY <2>2, <3>1, <3>3
  <2> QED  BY <2>1, <2>2
<1>3. Pulled(c, m, sh) = [w \in D |-> val(w)]
  BY Zenon DEF Pulled
<1>4. D \subseteq RegNodes
  BY <1>1
<1> HIDE DEF val, D
<1>5. [w \in D |-> val(w)] \in [D -> RegWindow]
  BY <1>2
<1> QED  BY <1>3, <1>4, <1>5, MapOf

LEMMA PushedType ==
  ASSUME NEW c, NEW m \in RegMap, NEW sh \in RegMap, NEW dirty
  PROVE  Pushed(c, m, sh, dirty) \in RegMap
<1> DEFINE new == {w \in dirty \cap DOMAIN m : w \notin DOMAIN sh /\ RegMine(c, w)}
           D == DOMAIN sh \cup new
           val(w) == IF w \in new THEN m[w]
                     ELSE IF w \notin dirty \cap DOMAIN m THEN sh[w]
                     ELSE [sh[w] EXCEPT !.mapped = m[w].mapped \/ (sh[w].mapped /\ ~RegMine(c, w))]
<1>1. /\ DOMAIN m \subseteq RegNodes /\ \A w \in DOMAIN m : m[w] \in RegWindow
      /\ DOMAIN sh \subseteq RegNodes /\ \A w \in DOMAIN sh : sh[w] \in RegWindow
  BY MapParts
<1>2. ASSUME NEW w \in D PROVE val(w) \in RegWindow
  <2>1. CASE w \in new
    BY <1>1, <2>1
  <2>2. CASE w \notin new
    <3>1. sh[w] \in RegWindow
      BY <1>1, <2>2
    <3>2. (m[w].mapped \/ (sh[w].mapped /\ ~RegMine(c, w))) \in BOOLEAN
      OBVIOUS
    <3>3. [sh[w] EXCEPT !.mapped = m[w].mapped \/ (sh[w].mapped /\ ~RegMine(c, w))] \in RegWindow
      BY <3>1, <3>2, WindowParts
    <3> QED  BY <2>2, <3>1, <3>3
  <2> QED  BY <2>1, <2>2
<1>3. Pushed(c, m, sh, dirty) = [w \in D |-> val(w)]
  BY Zenon DEF Pushed
<1>4. D \subseteq RegNodes
  BY <1>1
<1> HIDE DEF val, D
<1>5. [w \in D |-> val(w)] \in [D -> RegWindow]
  BY <1>2
<1> QED  BY <1>3, <1>4, <1>5, MapOf

LEMMA SyncType ==
  ASSUME RegShaped, NEW c \in RegClients, NEW m \in RegMap, NEW sh \in RegMap, NEW d,
         SyncWindows(c, m, sh, d)
  PROVE  /\ regLocal' \in [RegClients -> RegMap] /\ regShared' \in RegMap
         /\ regDirty' \in [RegClients -> SUBSET RegNodes]
<1>1. PICK pull \in PullChoices(m, sh) :
        LET m2 == IF pull THEN Pulled(c, m, sh) ELSE m
        IN  /\ regLocal' = [regLocal EXCEPT ![c] = m2]
            /\ regShared' = Pushed(c, m2, sh, d)
            /\ regDirty' = [regDirty EXCEPT ![c] = {}]
  BY DEF SyncWindows
<1> DEFINE m2 == IF pull THEN Pulled(c, m, sh) ELSE m
<1>2. m2 \in RegMap
  BY PulledType
<1>3. /\ regLocal' = [regLocal EXCEPT ![c] = m2] /\ regShared' = Pushed(c, m2, sh, d)
      /\ regDirty' = [regDirty EXCEPT ![c] = {}]
  BY <1>1
<1> HIDE DEF m2
<1>4. regShared' \in RegMap
  BY <1>2, <1>3, PushedType
<1> QED  BY <1>2, <1>3, <1>4 DEF RegShaped

(* The save set of a client that leaves. *)
LEMMA RescuedType ==
  ASSUME RegShaped, NEW c \in RegClients
  PROVE  RescuedShared(c) \in RegMap
<1>1. /\ regLocal[c] \in RegMap /\ regShared \in RegMap
  BY DEF RegShaped
<1>2. DOMAIN regLocal[c] \subseteq RegNodes
  BY <1>1, MapParts
<1>3. DOMAIN regShared \subseteq RegNodes /\ \A w \in DOMAIN regShared : regShared[w] \in RegWindow
  BY <1>1, MapParts
<1>4. ASSUME NEW w PROVE NewParent(c, w) \subseteq RegNodes /\ NewParent(c, w) # {}
  <2> DEFINE m == regLocal[c]
             foreign == {v \in Ancestors(m, w) \cap DOMAIN m : v = RegRoot \/ RegOwner[v] # c}
             nearest == {v \in foreign : foreign \cap Ancestors(m, v) \subseteq foreign \ {v}
                                         /\ \A u \in foreign \ {v} : v \notin Ancestors(m, u)}
  <2>1. nearest \subseteq DOMAIN m
    OBVIOUS
  <2>2. NewParent(c, w) = IF nearest = {} THEN {RegRoot} ELSE nearest
    BY Zenon DEF NewParent
  <2> HIDE DEF nearest
  <2> QED  BY <1>2, <2>1, <2>2 DEF RegNodes
<1>5. ASSUME NEW w \in DOMAIN regShared PROVE RescuedShared(c)[w] \in RegWindow
  <2> DEFINE p == CHOOSE q \in NewParent(c, w) : TRUE
  <2>1. p \in RegNodes
    BY <1>4
  <2>2. [regShared[w] EXCEPT !.parent = p] \in RegWindow
    BY <1>3, <2>1, WindowParts
  <2>3. RescuedShared(c)[w] = regShared[w] \/ RescuedShared(c)[w] = [regShared[w] EXCEPT !.parent = p]
    BY DEF RescuedShared
  <2> HIDE DEF p
  <2> QED  BY <1>3, <2>2, <2>3
<1>6. RescuedShared(c) \in [DOMAIN regShared -> RegWindow]
  <2>1. RescuedShared(c) = [w \in DOMAIN regShared |-> RescuedShared(c)[w]]
    BY DEF RescuedShared
  <2> QED  BY <1>5, <2>1
<1> QED  BY <1>3, <1>6, MapOf

LEMMA RemovedType ==
  ASSUME NEW sh \in RegMap, NEW gone
  PROVE  RemovedFromShared(sh, gone) \in RegMap
<1> DEFINE D == DOMAIN sh \ gone
           val(w) == [sh[w] EXCEPT !.kids = sh[w].kids \ {v \in gone \cap DOMAIN sh : sh[v].parent = w}]
<1>1. DOMAIN sh \subseteq RegNodes /\ \A w \in DOMAIN sh : sh[w] \in RegWindow
  BY MapParts
<1>2. ASSUME NEW w \in D PROVE val(w) \in RegWindow
  <2> DEFINE K == sh[w].kids \ {v \in gone \cap DOMAIN sh : sh[v].parent = w}
  <2>1. sh[w] \in RegWindow
    BY <1>1
  <2>2. sh[w].kids \in SUBSET RegWins
    BY <2>1, WindowParts
  <2>3. K \in SUBSET RegWins
    BY <2>2
  <2> HIDE DEF K
  <2>4. [sh[w] EXCEPT !.kids = K] \in RegWindow
    BY <2>1, <2>3, WindowParts
  <2> QED  BY <2>4 DEF K
<1>3. RemovedFromShared(sh, gone) = [w \in D |-> val(w)]
  BY Zenon DEF RemovedFromShared
<1>4. D \subseteq RegNodes
  BY <1>1
<1> HIDE DEF val, D
<1>5. [w \in D |-> val(w)] \in [D -> RegWindow]
  BY <1>2
<1> QED  BY <1>3, <1>4, <1>5, MapOf

LEMMA MarkedType ==
  ASSUME NEW sh \in RegMap, NEW S
  PROVE  MarkedTemporary(sh, S) \in RegMap
<1>1. DOMAIN sh \subseteq RegNodes /\ \A w \in DOMAIN sh : sh[w] \in RegWindow
  BY MapParts
<1>2. ASSUME NEW w \in DOMAIN sh PROVE [sh[w] EXCEPT !.kept = TRUE] \in RegWindow
  BY <1>1, WindowParts
<1>3. MarkedTemporary(sh, S) \in [DOMAIN sh -> RegWindow]
  BY <1>1, <1>2 DEF MarkedTemporary
<1> QED  BY <1>1, <1>3, MapOf

LEMMA RegInitType == RegInit => RegShaped
<1> SUFFICES ASSUME RegInit PROVE RegShaped
  OBVIOUS
<1> DEFINE root == [parent |-> RegNoParent, kids |-> {}, mapped |-> TRUE, redir |-> FALSE,
                   ovr |-> FALSE, kept |-> FALSE]
<1>1. root \in RegWindow
  BY DEF RegWindow
<1>2. regShared = [w \in {RegRoot} |-> root] /\ regLocal = [c \in RegClients |-> [w \in {} |-> root]]
  BY Zenon DEF RegInit
<1> HIDE DEF root
<1>3. [w \in {RegRoot} |-> root] \in [{RegRoot} -> RegWindow] /\ [w \in {} |-> root] \in [{} -> RegWindow]
  BY <1>1
<1>4. regShared \in RegMap
  BY <1>2, <1>3, MapOf DEF RegNodes
<1>5. regLocal \in [RegClients -> RegMap]
  BY <1>2, <1>3, MapOf
<1>6. regReqs \in 0..RegMaxReqs
  BY RegAssumption DEF RegInit
<1> QED  BY <1>4, <1>5, <1>6 DEF RegInit, RegShaped, CloseModes

(* A request that only syncs, of a copy m that is a window map. *)
LEMMA RequestType ==
  ASSUME RegShaped, NEW c \in RegClients, RegRequest(c), NEW m \in RegMap, NEW sh \in RegMap,
         NEW d, SyncWindows(c, m, sh, d)
  PROVE  /\ regLocal' \in [RegClients -> RegMap] /\ regShared' \in RegMap
         /\ regDirty' \in [RegClients -> SUBSET RegNodes]
         /\ regReqs' \in 0..RegMaxReqs
<1>1. regReqs' \in 0..RegMaxReqs
  BY RegAssumption DEF RegRequest, RegShaped
<1> QED  BY <1>1, SyncType

LEMMA RegEndType ==
  ASSUME RegShaped, NEW c \in RegClients, Disconnect(c) \/ ConnectionDies(c)
  PROVE  RegShaped'
<1>1. PICK how \in {"closed", "died"} : TaskEnds(c, how)
  BY DEF Disconnect, ConnectionDies
<1>2. [w \in {} |-> 0] \in RegMap
  <2>1. [w \in {} |-> 0] \in [{} -> RegWindow]
    OBVIOUS
  <2> QED  BY <2>1, MapOf
<1>3. /\ regStatus' \in [RegClients -> {"new", "up", "closed", "died", "hung"}]
      /\ regLocal' \in [RegClients -> RegMap]
      /\ regDirty' \in [RegClients -> SUBSET RegNodes]
      /\ regUuids' \in [RegClients -> SUBSET RegWins]
      /\ regSaveSet' \in [RegClients -> SUBSET RegWins]
      /\ regSubs' \subseteq RegClients /\ regWm' \subseteq RegClients
      /\ regMode' = regMode /\ regReqs' = regReqs /\ regKilled' = regKilled
  BY <1>1, <1>2 DEF TaskEnds, RegShaped
<1>4. regShared \in RegMap /\ RescuedShared(c) \in RegMap
  BY RescuedType DEF RegShaped
<1>5. regShared' \in RegMap
  <2>1. CASE Disconnect(c)
    <3> DEFINE gone == regUuids[c] \ Rescued(c)
    <3>1. \/ regShared' = RemovedFromShared(RescuedShared(c), gone)
          \/ regShared' = RescuedShared(c)
          \/ regShared' = MarkedTemporary(RescuedShared(c), DOMAIN regLocal[c])
      BY <2>1 DEF Disconnect
    <3> HIDE DEF gone
    <3> QED  BY <1>4, <3>1, RemovedType, MarkedType
  <2>2. CASE ConnectionDies(c)
    <3> DEFINE owned == {w \in RegWins : RegOwner[w] = c}
    <3>1. regShared' = RemovedFromShared(regShared, owned \cap DOMAIN regShared) \/ regShared' = regShared
      BY <2>2 DEF ConnectionDies
    <3> HIDE DEF owned
    <3> QED  BY <1>4, <3>1, RemovedType
  <2> QED  BY <2>1, <2>2
<1>6. regIndex' \subseteq regIndex /\ regRoutes' \subseteq regRoutes /\ regListed' \subseteq regListed
  <2>1. CASE Disconnect(c)
    BY <2>1 DEF Disconnect
  <2>2. CASE ConnectionDies(c)
    BY <2>2 DEF ConnectionDies
  <2> QED  BY <2>1, <2>2
<1> QED  BY <1>3, <1>5, <1>6 DEF RegShaped

LEMMA RegDestroyType ==
  ASSUME RegShaped, NEW c \in RegClients, NEW w \in RegWins,
         DestroyWindow(c, w) \/ DestroySubwindows(c, w)
  PROVE  RegShaped'
<1> DEFINE m == regLocal[c]
<1>1. m \in RegMap /\ regShared \in RegMap
  BY DEF RegShaped
<1>2. Unlink(m, m[w].parent, {w}) \in RegMap
  BY <1>1, LinkType
<1>a. PICK u \in RegMap : \E g : RemoveWindows(c, g, u)
  <2>1. CASE DestroyWindow(c, w)
    <3>1. RemoveWindows(c, DescendantsByKids(m, w) \cup {w}, Unlink(m, m[w].parent, {w}))
      BY <2>1 DEF DestroyWindow
    <3> QED  BY <1>2, <3>1
  <2>2. CASE DestroySubwindows(c, w)
    <3>1. RemoveWindows(c, DescendantsByParent(m, w), m)
      BY <2>2 DEF DestroySubwindows
    <3> QED  BY <1>1, <3>1
  <2> QED  BY <2>1, <2>2
<1>3. PICK gone : RemoveWindows(c, gone, u)
  BY <1>a
<1>4. /\ RegRequest(c)
      /\ UNCHANGED <<regStatus, regSubs, regWm, regSaveSet, regMode, regKilled>>
  BY DEF DestroyWindow, DestroySubwindows
<1>5. Without(u, gone) \in RegMap /\ Without(regShared, gone) \in RegMap
  BY <1>1, <1>3, WithoutType
<1>6. SyncWindows(c, Without(u, gone), Without(regShared, gone), regDirty[c])
  BY <1>3 DEF RemoveWindows
<1>7. /\ regLocal' \in [RegClients -> RegMap] /\ regShared' \in RegMap
      /\ regDirty' \in [RegClients -> SUBSET RegNodes] /\ regReqs' \in 0..RegMaxReqs
  BY <1>4, <1>5, <1>6, RequestType
<1>8. /\ regIndex' \subseteq regIndex /\ regRoutes' \subseteq regRoutes /\ regListed' \subseteq regListed
      /\ regUuids' = [regUuids EXCEPT ![c] = @ \ gone]
  BY <1>3 DEF RemoveWindows
<1> QED  BY <1>4, <1>7, <1>8 DEF RegShaped

LEMMA RegKillType ==
  ASSUME RegShaped, NEW c \in RegClients,
         KillAllTemporary(c) \/ \E w \in RegNodes : KillClient(c, w)
  PROVE  RegShaped'
<1>1. regLocal[c] \in RegMap /\ regShared \in RegMap
  BY DEF RegShaped
<1>a. PICK gone : \E sh \in RegMap :
        /\ RegRequest(c)
        /\ regUuids' = [regUuids EXCEPT ![c] = @ \ gone]
        /\ regRoutes' \subseteq regRoutes /\ regListed' \subseteq regListed
        /\ regKilled' \subseteq regKilled \cup regUuids[c]
        /\ SyncWindows(c, Without(regLocal[c], gone), sh, regDirty[c])
        /\ UNCHANGED <<regStatus, regIndex, regSubs, regWm, regSaveSet, regMode>>
  <2>1. CASE KillAllTemporary(c)
    <3> DEFINE gone == {v \in DOMAIN regLocal[c] : regLocal[c][v].kept}
                       \cup {v \in DOMAIN regShared : regShared[v].kept}
    <3>1. /\ RegRequest(c)
          /\ regUuids' = [regUuids EXCEPT ![c] = @ \ gone]
          /\ regRoutes' = regRoutes \ (gone \cap regUuids[c])
          /\ regListed' = regListed \ (gone \cap regUuids[c])
          /\ SyncWindows(c, Without(regLocal[c], gone), Without(regShared, gone), regDirty[c])
          /\ UNCHANGED <<regStatus, regIndex, regSubs, regWm, regSaveSet, regMode, regKilled>>
      BY <2>1, Zenon DEF KillAllTemporary
    <3> HIDE DEF gone
    <3>2. Without(regShared, gone) \in RegMap
      BY <1>1, WithoutType
    <3>3. regRoutes' \subseteq regRoutes /\ regListed' \subseteq regListed
          /\ regKilled' \subseteq regKilled \cup regUuids[c]
      BY <3>1
    <3> QED  BY <3>1, <3>2, <3>3
  <2>2. ASSUME NEW w \in RegNodes, KillClient(c, w)
        PROVE  \E gone : \E sh \in RegMap :
        /\ RegRequest(c)
        /\ regUuids' = [regUuids EXCEPT ![c] = @ \ gone]
        /\ regRoutes' \subseteq regRoutes /\ regListed' \subseteq regListed
        /\ regKilled' \subseteq regKilled \cup regUuids[c]
        /\ SyncWindows(c, Without(regLocal[c], gone), sh, regDirty[c])
        /\ UNCHANGED <<regStatus, regIndex, regSubs, regWm, regSaveSet, regMode>>
    <3> DEFINE kin == IF w = RegRoot THEN {RegRoot}
                      ELSE {v \in DOMAIN regLocal[c] \ {RegRoot} : RegOwner[v] = RegOwner[w]}
    <3>1. /\ RegRequest(c)
          /\ regUuids' = [regUuids EXCEPT ![c] = @ \ kin]
          /\ regRoutes' = regRoutes \ (kin \cap regUuids[c])
          /\ regListed' = regListed \ (kin \cap regUuids[c])
          /\ regKilled' = regKilled \cup (kin \cap regUuids[c])
          /\ SyncWindows(c, Without(regLocal[c], kin), regShared, regDirty[c])
          /\ UNCHANGED <<regStatus, regIndex, regSubs, regWm, regSaveSet, regMode>>
      BY <2>2, Zenon DEF KillClient
    <3> HIDE DEF kin
    <3>2. regRoutes' \subseteq regRoutes /\ regListed' \subseteq regListed
          /\ regKilled' \subseteq regKilled \cup regUuids[c]
      BY <3>1
    <3> QED  BY <1>1, <3>1, <3>2
  <2> QED  BY <2>1, <2>2
<1>2. PICK sh \in RegMap :
        /\ RegRequest(c)
        /\ regUuids' = [regUuids EXCEPT ![c] = @ \ gone]
        /\ regRoutes' \subseteq regRoutes /\ regListed' \subseteq regListed
        /\ regKilled' \subseteq regKilled \cup regUuids[c]
        /\ SyncWindows(c, Without(regLocal[c], gone), sh, regDirty[c])
        /\ UNCHANGED <<regStatus, regIndex, regSubs, regWm, regSaveSet, regMode>>
  BY <1>a
<1>3. Without(regLocal[c], gone) \in RegMap
  BY <1>1, WithoutType
<1>4. /\ regLocal' \in [RegClients -> RegMap] /\ regShared' \in RegMap
      /\ regDirty' \in [RegClients -> SUBSET RegNodes] /\ regReqs' \in 0..RegMaxReqs
  BY <1>2, <1>3, RequestType
<1>5. regUuids' \in [RegClients -> SUBSET RegWins] /\ regUuids[c] \subseteq RegWins
  BY <1>2 DEF RegShaped
<1> QED  BY <1>2, <1>4, <1>5 DEF RegShaped

LEMMA RegStepType ==
  ASSUME RegShaped, [RegNext]_regVars
  PROVE  RegShaped'
<1>0. CASE UNCHANGED regVars
  BY <1>0 DEF regVars, RegShaped
<1>1. ASSUME NEW c \in RegClients, Connect(c) PROVE RegShaped'
  BY <1>1 DEF Connect, RegShaped
<1> SUFFICES ASSUME NEW c \in RegClients,
                    \/ Sync(c) \/ SelectRedirect(c)
                    \/ \E mode \in CloseModes : SetCloseDownMode(c, mode)
                    \/ \E w \in RegWins :
                        \/ DestroyHangs(c, w)
                        \/ MapWindow(c, w) \/ UnmapWindow(c, w) \/ ChangeSaveSet(c, w)
                        \/ ChangeOverride(c, w)
                        \/ \E p \in RegNodes :
                            \/ ReparentWindow(c, w, p)
                            \/ \E o \in BOOLEAN : CreateWindow(c, w, p, o)
                    \/ \E w \in RegNodes : LookUpWindow(c, w)
             PROVE  RegShaped'
  BY <1>0, <1>1, RegEndType, RegDestroyType, RegKillType DEF RegNext
<1> DEFINE m == regLocal[c]
<1>2. m \in RegMap /\ regShared \in RegMap /\ DOMAIN m \subseteq RegNodes
  BY MapParts DEF RegShaped
<1>3. CASE Sync(c)
  <2>1. SyncWindows(c, m, regShared, regDirty[c])
    BY <1>3 DEF Sync
  <2>2. /\ regLocal' \in [RegClients -> RegMap] /\ regShared' \in RegMap
        /\ regDirty' \in [RegClients -> SUBSET RegNodes]
    BY <1>2, <2>1, SyncType
  <2> QED  BY <1>3, <2>2 DEF Sync, RegShaped
<1>4. CASE SelectRedirect(c)
  <2> DEFINE m2 == [m EXCEPT ![RegRoot].redir = TRUE]
  <2>1. /\ RegRequest(c) /\ SyncWindows(c, m2, regShared, regDirty[c] \cup {RegRoot})
        /\ RegRoot \in DOMAIN m
    BY <1>4 DEF SelectRedirect
  <2>2. m2 \in RegMap
    BY <1>2, <2>1, MappedType
  <2> HIDE DEF m2
  <2>3. /\ regLocal' \in [RegClients -> RegMap] /\ regShared' \in RegMap
        /\ regDirty' \in [RegClients -> SUBSET RegNodes] /\ regReqs' \in 0..RegMaxReqs
    BY <1>2, <2>1, <2>2, RequestType
  <2> QED  BY <1>4, <2>3 DEF SelectRedirect, RegShaped
<1>5. ASSUME NEW mode \in CloseModes, SetCloseDownMode(c, mode) PROVE RegShaped'
  <2>1. RegRequest(c) /\ SyncWindows(c, m, regShared, regDirty[c])
    BY <1>5 DEF SetCloseDownMode
  <2>2. /\ regLocal' \in [RegClients -> RegMap] /\ regShared' \in RegMap
        /\ regDirty' \in [RegClients -> SUBSET RegNodes] /\ regReqs' \in 0..RegMaxReqs
    BY <1>2, <2>1, RequestType
  <2> QED  BY <1>5, <2>2 DEF SetCloseDownMode, RegShaped
<1>6. ASSUME NEW w \in RegWins, DestroyHangs(c, w) PROVE RegShaped'
  <2>1. regReqs' \in 0..RegMaxReqs
    BY <1>6, RegAssumption DEF DestroyHangs, RegRequest, RegShaped
  <2> QED  BY <1>6, <2>1 DEF DestroyHangs, RegShaped
<1>7. ASSUME NEW w \in RegWins, MapWindow(c, w) \/ UnmapWindow(c, w) PROVE RegShaped'
  <2>1. PICK b \in BOOLEAN :
          /\ RegRequest(c) /\ w \in DOMAIN m
          /\ SyncWindows(c, [m EXCEPT ![w].mapped = b], regShared, regDirty[c] \cup {w})
    BY <1>7 DEF MapWindow, UnmapWindow
  <2>2. [m EXCEPT ![w].mapped = b] \in RegMap
    BY <1>2, <2>1, MappedType
  <2>3. /\ regLocal' \in [RegClients -> RegMap] /\ regShared' \in RegMap
        /\ regDirty' \in [RegClients -> SUBSET RegNodes] /\ regReqs' \in 0..RegMaxReqs
    BY <1>2, <2>1, <2>2, RequestType
  <2>4. UNCHANGED <<regStatus, regUuids, regIndex, regRoutes, regListed,
                    regSubs, regWm, regSaveSet, regMode, regKilled>>
    BY <1>7 DEF MapWindow, UnmapWindow
  <2> QED  BY <2>3, <2>4 DEF RegShaped
<1>8. ASSUME NEW w \in RegWins, ChangeSaveSet(c, w) PROVE RegShaped'
  <2>1. RegRequest(c) /\ SyncWindows(c, m, regShared, regDirty[c])
    BY <1>8 DEF ChangeSaveSet
  <2>2. /\ regLocal' \in [RegClients -> RegMap] /\ regShared' \in RegMap
        /\ regDirty' \in [RegClients -> SUBSET RegNodes] /\ regReqs' \in 0..RegMaxReqs
    BY <1>2, <2>1, RequestType
  <2>3. regSaveSet' \in [RegClients -> SUBSET RegWins]
    BY <1>8 DEF ChangeSaveSet, RegShaped
  <2> QED  BY <1>8, <2>2, <2>3 DEF ChangeSaveSet, RegShaped
<1>9. ASSUME NEW w \in RegWins, NEW p \in RegNodes, NEW o \in BOOLEAN, CreateWindow(c, w, p, o)
      PROVE  RegShaped'
  <2> DEFINE m2 == Link(Put(m, w, NewWindow(p, o)), p, w)
  <2>1. RegRequest(c) /\ SyncWindows(c, m2, regShared, regDirty[c] \cup {w})
    BY <1>9 DEF CreateWindow
  <2>2. NewWindow(p, o) \in RegWindow
    BY DEF NewWindow, RegWindow
  <2>3. w \in RegNodes
    BY DEF RegNodes
  <2>4. m2 \in RegMap
    BY <1>2, <2>2, <2>3, PutType, LinkType
  <2> HIDE DEF m2
  <2>5. /\ regLocal' \in [RegClients -> RegMap] /\ regShared' \in RegMap
        /\ regDirty' \in [RegClients -> SUBSET RegNodes] /\ regReqs' \in 0..RegMaxReqs
    BY <1>2, <2>1, <2>4, RequestType
  <2> QED  BY <1>9, <2>3, <2>5 DEF CreateWindow, RegShaped
<1>10. ASSUME NEW w \in RegWins, NEW p \in RegNodes, ReparentWindow(c, w, p) PROVE RegShaped'
  <2> DEFINE un == Unlink(m, m[w].parent, {w})
             x == [un[w] EXCEPT !.parent = p, !.mapped = FALSE]
             re == [un EXCEPT ![w].parent = p, ![w].mapped = FALSE]
             moved == Link(re, p, w)
             again == m[w].mapped /\ MapsNow(c, moved, w)
             m2 == [moved EXCEPT ![w].mapped = again]
  <2>1. RegRequest(c) /\ SyncWindows(c, m2, regShared, regDirty[c] \cup {w})
        /\ w \in DOMAIN m
        /\ UNCHANGED <<regStatus, regUuids, regIndex, regRoutes, regListed,
                       regSubs, regWm, regSaveSet, regMode, regKilled>>
    BY <1>10, Zenon DEF ReparentWindow
  <2>2. un \in RegMap /\ DOMAIN un = DOMAIN m
    BY <1>2, LinkType
  <2> HIDE DEF un
  <2>3. un[w] \in RegWindow
    BY <2>1, <2>2, MapParts
  <2>4. x \in RegWindow
    BY <2>3 DEF RegWindow
  <2>5. re = [un EXCEPT ![w] = x]
    BY <2>1, <2>2
  <2> HIDE DEF x, re
  <2>6. re \in RegMap /\ DOMAIN re = DOMAIN m
    BY <2>1, <2>2, <2>4, <2>5, EntryType
  <2>7. moved \in RegMap /\ DOMAIN moved = DOMAIN m
    BY <2>6, LinkType
  <2>8. again \in BOOLEAN
    OBVIOUS
  <2> HIDE DEF moved, again
  <2>9. m2 \in RegMap
    BY <2>1, <2>7, <2>8, MappedType
  <2> HIDE DEF m2
  <2>10. /\ regLocal' \in [RegClients -> RegMap] /\ regShared' \in RegMap
         /\ regDirty' \in [RegClients -> SUBSET RegNodes] /\ regReqs' \in 0..RegMaxReqs
    BY <1>2, <2>1, <2>9, RequestType
  <2> QED  BY <2>1, <2>10 DEF RegShaped
<1>11. ASSUME NEW w \in RegWins, ChangeOverride(c, w) PROVE RegShaped'
  <2> DEFINE b == ~m[w].ovr
  <2>1. /\ RegRequest(c) /\ w \in DOMAIN m
        /\ SyncWindows(c, [m EXCEPT ![w].ovr = b], regShared, regDirty[c] \cup {w})
    BY <1>11 DEF ChangeOverride
  <2>2. b \in BOOLEAN
    OBVIOUS
  <2> HIDE DEF b
  <2>3. [m EXCEPT ![w].ovr = b] \in RegMap
    BY <1>2, <2>1, <2>2, MappedType
  <2>4. /\ regLocal' \in [RegClients -> RegMap] /\ regShared' \in RegMap
        /\ regDirty' \in [RegClients -> SUBSET RegNodes] /\ regReqs' \in 0..RegMaxReqs
    BY <1>2, <2>1, <2>3, RequestType
  <2> QED  BY <1>11, <2>4 DEF ChangeOverride, RegShaped
<1>12. ASSUME NEW w \in RegNodes, LookUpWindow(c, w) PROVE RegShaped'
  <2> DEFINE m2 == Put(m, w, regShared[w])
  <2>1. /\ RegRequest(c) /\ w \in DOMAIN regShared
        /\ SyncWindows(c, m2, regShared, regDirty[c])
    BY <1>12 DEF LookUpWindow
  <2>2. regShared[w] \in RegWindow
    BY <1>2, <2>1, MapParts
  <2>3. m2 \in RegMap
    BY <1>2, <2>2, PutType
  <2> HIDE DEF m2
  <2>4. /\ regLocal' \in [RegClients -> RegMap] /\ regShared' \in RegMap
        /\ regDirty' \in [RegClients -> SUBSET RegNodes] /\ regReqs' \in 0..RegMaxReqs
    BY <1>2, <2>1, <2>3, RequestType
  <2> QED  BY <1>12, <2>4 DEF LookUpWindow, RegShaped
<1> QED  BY <1>3, <1>4, <1>5, <1>6, <1>7, <1>8, <1>9, <1>10, <1>11, <1>12

(***************************************************************************)
(* The types of the selection, beside its invariant.                       *)
(***************************************************************************)
SlOwned ==
    /\ slShared \in SlClients \cup {"server", "none"}
    /\ slLocal \subseteq SlClients /\ slThinks \subseteq SlClients
    /\ slDoing \in [SlClients -> {"idle", "taking", "leaving", "handing over"}]
    /\ slSaved = {} \/ \E v : slSaved = {v}
    /\ slPhase \in [SlClients -> {"idle", "asked", "told", "incr", "done"}]

LEMMA SlOwnedInit == SlInit => SlOwned
  BY DEF SlInit, SlOwned

LEMMA SlOwnedStep ==
  ASSUME SlOwned, [SlNext]_slVars
  PROVE  SlOwned'
<1>0. CASE UNCHANGED slVars
  BY <1>0 DEF slVars, slOwners, slPaste, SlOwned
<1>1. ASSUME NEW c \in SlClients,
             TakeBegin(c) \/ TakeEnd(c) \/ Release(c) \/ DeleteSelection(c) \/ LeaveBegin(c)
             \/ LeaveEnd(c) \/ SlBreak(c)
      PROVE  SlOwned'
  <2>1. slPhase' = slPhase /\ (slSaved' = slSaved \/ slSaved' = {})
    BY <1>1 DEF TakeBegin, TakeEnd, Release, DeleteSelection, LeaveBegin, LeaveEnd, SlBreak,
                slPaste, slOwners
  <2>2. slDoing' \in [SlClients -> {"idle", "taking", "leaving", "handing over"}]
    BY <1>1 DEF TakeBegin, TakeEnd, Release, DeleteSelection, LeaveBegin, LeaveEnd, SlBreak, SlOwned
  <2>3. slLocal' \subseteq SlClients /\ slThinks' \subseteq SlClients
    BY <1>1 DEF TakeBegin, TakeEnd, Release, DeleteSelection, LeaveBegin, LeaveEnd, SlBreak,
                SlOwned, slOwners
  <2>4. slShared' \in SlClients \cup {"server", "none"}
    <3>1. CASE LeaveEnd(c)
      <4>1. slShared' \in {"server", "none", slShared}
        BY <3>1 DEF LeaveEnd
      <4> QED  BY <4>1 DEF SlOwned
    <3>2. CASE ~LeaveEnd(c)
      BY <1>1, <3>2 DEF TakeBegin, TakeEnd, Release, DeleteSelection, LeaveBegin, SlBreak,
                        SlOwned, slOwners
    <3> QED  BY <3>1, <3>2
  <2> QED  BY <2>1, <2>2, <2>3, <2>4 DEF SlOwned
<1>2. ASSUME NEW c \in SlClients, ConvertSelection(c) PROVE SlOwned'
  <2>1. UNCHANGED <<slShared, slLocal, slThinks, slSaved, slDoing>>
    BY <1>2 DEF ConvertSelection, slOwners
  <2>2. (\E data \in slSaved : ServePersistent(c, data)) \/ Forward(c)
    BY <1>2 DEF ConvertSelection
  <2>3. \E v \in {"told", "asked", "idle"} : slPhase' = [slPhase EXCEPT ![c] = v]
    BY <2>2 DEF ServePersistent, Forward
  <2> QED  BY <2>1, <2>3 DEF SlOwned
<1>3. ASSUME NEW c \in SlClients, GetProperty(c) PROVE SlOwned'
  <2>1. UNCHANGED <<slShared, slLocal, slThinks, slSaved, slDoing>>
    BY <1>3 DEF GetProperty, slOwners
  <2>2. PICK v \in Value(c) :
          slPhase' = [slPhase EXCEPT ![c] = IF v = Incr \/ (@ = "incr" /\ v # <<>>)
                                            THEN "incr" ELSE "done"]
    BY <1>3, Zenon DEF GetProperty
  <2>3. \E u \in {"incr", "done"} : slPhase' = [slPhase EXCEPT ![c] = u]
    BY <2>2
  <2> QED  BY <2>1, <2>3 DEF SlOwned
<1>4. ASSUME NEW c \in SlClients, NEW r \in SlClients, Answer(c, r) PROVE SlOwned'
  BY <1>4 DEF Answer, SlOwned
<1>5. ASSUME NEW c \in SlClients, NEW r \in SlClients, Refuse(c, r) PROVE SlOwned'
  BY <1>5 DEF Refuse, SlOwned, slOwners
<1>6. ASSUME NEW c \in SlClients, CleanupStale(c) PROVE SlOwned'
  BY <1>6 DEF CleanupStale, SlOwned, slOwners
<1> QED  BY <1>0, <1>1, <1>2, <1>3, <1>4, <1>5, <1>6 DEF SlNext

LEMMA AtMostOne ==
  ASSUME NEW S, NEW x, S \subseteq {x}
  PROVE  Cardinality(S) <= 1
<1>1. S = {} \/ S = {x}
  OBVIOUS
<1>2. Cardinality({}) = 0
  BY FS_EmptySet
<1>3. Cardinality({x}) = 1
  BY FS_Singleton
<1> QED  BY <1>1, <1>2, <1>3

LEMMA SlTypes == SlInv /\ SlOwned => SlTypeOK
<1> SUFFICES ASSUME SlInv, SlOwned PROVE SlTypeOK
  OBVIOUS
<1>1. Cardinality(slSaved) <= 1
  BY AtMostOne DEF SlOwned
<1>2. ASSUME NEW c \in SlClients
      PROVE  /\ Cardinality(slMine[c]) <= 1 /\ Cardinality(slTheirs[c]) <= 1
             /\ \A t \in slIncr[c] : t.off \in 0..Len(t.data)
  <2> DEFINE f == slFrom[c]
             mi == slMine[c]
             th == slTheirs[c]
             tr == slIncr[c]
             ph == slPhase[c]
  <2>1. Conversion(ph, mi, th, tr, f, slGot[c]) /\ ph \in {"idle", "asked", "told", "incr", "done"}
    BY OwnConversion DEF SlOwned
  <2> HIDE DEF f, mi, th, tr, ph
  <2>2. (\E x : mi \subseteq {x}) /\ th \subseteq {f}
    BY <2>1 DEF Conversion
  <2>3. tr = {} \/ (f \in Contents /\ \E k \in 0..Len(f) : tr \subseteq {[data |-> f, off |-> k]})
    <3>1. CASE ph = "told"
      <4>1. f \in Contents
        BY <2>1, <3>1 DEF Conversion
      <4>2. 0 \in 0..Len(f)
        BY <4>1, ContentChunks
      <4> QED  BY <2>1, <3>1, <4>1, <4>2 DEF Conversion
    <3>2. CASE ph = "incr"
      <4>1. f \in Contents
        BY <2>1, <3>2 DEF Conversion
      <4>2. Len(f) \in {1, 3}
        BY <4>1, ContentChunks
      <4>3. \A k \in 1..Len(f) : k \in 0..Len(f)
        BY <4>2
      <4> QED  BY <2>1, <3>2, <4>1, <4>3 DEF Conversion
    <3>3. CASE ph \in {"idle", "asked", "done"}
      BY <2>1, <3>3 DEF Conversion
    <3> QED  BY <2>1, <3>1, <3>2, <3>3
  <2>4. ASSUME NEW t \in tr PROVE t.off \in 0..Len(t.data)
    BY <2>3
  <2>5. Cardinality(mi) <= 1 /\ Cardinality(th) <= 1
    BY <2>2, AtMostOne
  <2> QED  BY <2>4, <2>5 DEF mi, th, tr
<1> QED  BY <1>1, <1>2 DEF SlTypeOK, SlInv, SlOwned, Contents

-----------------------------------------------------------------------------
(* The parts of the run: each component keeps its invariant when it moves, and *)
(* the others stand still.                                                     *)
WinInv ==
    /\ StTypeOK
    /\ winPart = "registry"  => RegShaped
    /\ winPart = "selection" => SlInv /\ SlOwned
    /\ winPart = "property"  => PrInv
    /\ winPart = "ewmh"      => EwInv

LEMMA WinInitInv == WinInit => WinInv
  BY StInitType, RegInitType, SlInitInv, SlOwnedInit, PrInitInv, EwInitInv DEF WinInit, WinInv

LEMMA WinStepInv == WinInv /\ [WinNext]_winVars => WinInv'
<1> SUFFICES ASSUME WinInv, [WinNext]_winVars PROVE WinInv'
  OBVIOUS
<1>1. winPart' = winPart
  BY DEF WinNext, winVars
<1>2. ASSUME winPart = "property" PROVE PrInv'
  <2>1. [PrNext]_prVars
    BY <1>2 DEF WinNext, winVars
  <2> QED  BY <1>2, <2>1, PrStepInv DEF WinInv
<1>3. ASSUME winPart = "ewmh" PROVE EwInv'
  <2>1. [EwNext]_ewVars
    BY <1>3 DEF WinNext, winVars
  <2> QED  BY <1>3, <2>1, EwStepInv DEF WinInv
<1>4. ASSUME winPart = "selection" PROVE SlInv' /\ SlOwned'
  <2>1. [SlNext]_slVars
    BY <1>4 DEF WinNext, winVars
  <2> QED  BY <1>4, <2>1, SlStep, SlOwnedStep DEF WinInv
<1>5. ASSUME winPart = "registry" PROVE RegShaped'
  <2>1. [RegNext]_regVars
    BY <1>5 DEF WinNext, winVars
  <2> QED  BY <1>5, <2>1, RegStepType DEF WinInv
<1>6. StTypeOK'
  <2>1. [StNext]_stVars
    BY DEF WinNext, winVars
  <2>2. CASE UNCHANGED stVars
    BY <2>2 DEF stVars, WinInv, StTypeOK
  <2> QED  BY <2>1, <2>2, StStepKept DEF WinInv
<1> QED  BY <1>1, <1>2, <1>3, <1>4, <1>5, <1>6 DEF WinInv

(* The window components keep the types of their state, for any clients,      *)
(* windows, layers, size hints and transients: above all, no restacking,      *)
(* mapping or circulating loses a sibling from the order or lists it twice,   *)
(* and no sync, destroy or rescue leaves something that is not a window in a   *)
(* registry.                                                                  *)
THEOREM WindowTypesKept == WinSpec => []WindowsTypeOK
<1>1. WinInv => WindowsTypeOK
  BY SlTypes, PrInvType, ShapedTyped DEF WinInv, WindowsTypeOK, EwInv
<1> QED  BY <1>1, WinInitInv, WinStepInv, PTL DEF WinSpec

(* The EWMH layers, for any siblings, layers and transients: an order sorted  *)
(* by layer is left unsorted by no map, raise or lower that goes through the  *)
(* layers; and a child with an east gravity keeps its distance from the right *)
(* edge of its parent, unless a resize is refused after the width was set.    *)
THEOREM LayersStacked == WinSpec => StackingKept
<1>1. WinInv /\ [WinNext]_winVars => [LayersKept /\ EastGravityKept]_stVars
  <2> SUFFICES ASSUME WinInv, [WinNext]_winVars, ~UNCHANGED stVars
               PROVE  LayersKept /\ EastGravityKept
    OBVIOUS
  <2>1. StNext
    BY DEF WinNext, winVars
  <2> QED  BY <2>1, StStepKept DEF WinInv
<1> QED  BY <1>1, WinInitInv, WinStepInv, PTL DEF WinSpec, StackingKept

(* What is kept about a window stays whole, for any atoms, changes, geometries  *)
(* and screens: the owner's properties agree with their shared copies where no *)
(* other client wrote, a window made as large as the screen comes back to the  *)
(* geometry it had, and its framebuffer has its size.                           *)
THEOREM WindowDataKept == WinSpec => []WindowDataCoherent
<1>1. WinInv => WindowDataCoherent
  BY PropertyPieces, NearestDelivered DEF WinInv, WindowDataCoherent, PrInv, EwInv
<1> QED
  BY <1>1, WinInitInv, WinStepInv, PTL DEF WinSpec

=============================================================================
