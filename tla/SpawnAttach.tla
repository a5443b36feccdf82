---------------------------- MODULE SpawnAttach ----------------------------
(***************************************************************************)
(* How a window finds the workspace that asked for its program: a spawn    *)
(* request goes from a workspace through the backend to an X11 sidecar,    *)
(* the program (perhaps through wrappers that fork and exit) connects to   *)
(* the X server and creates windows, and the backend traces each window    *)
(* back: client -> spawned pid (sidecar, find_ancestor_pid over /proc) ->  *)
(* workspace (backend, spawn_origin).                                      *)
(*                                                                         *)
(* Client connections and display updates leave the sidecar through two    *)
(* channels that are drained in either order, so the backend may hear of a *)
(* window before its client.  Both channels outlive a session; the process *)
(* manager, its pid history and the messages not yet written do not.       *)
(***************************************************************************)
EXTENDS Integers, Sequences, FiniteSets, FiniteSetsExt

CONSTANTS
  Pids,         \* process ids
  Clients,      \* X11 client ids: fresh for every connection
  Windows,      \* X11 windows
  Workspaces,
  MaxRequests,  \* bound: spawn requests
  MaxSessions,  \* bound: sessions; each gets a sidecar id of its own
  MaxDepth,     \* MAX_PROCESS_PARENT_DEPTH
  PidReuse,     \* whether the kernel hands a reaped pid out again
  Init_,        \* pid 1, and any ancestor of the sidecar
  None

ASSUME DepthAssumption == MaxDepth \in Nat \ {0}
ASSUME ReuseAssumption == PidReuse \in BOOLEAN
ASSUME BoundsAssumption == MaxRequests \in Nat /\ MaxSessions \in Nat
(* Pid 1 is no program's pid, and None is none of the values it stands      *)
(* beside: an Option in the code is told from its content.                  *)
ASSUME NoneAssumption ==
  /\ Init_ \notin Pids
  /\ None \notin Workspaces \cup Pids \cup Clients
  /\ None \notin [open : BOOLEAN, peer : Pids, ws : Workspaces \cup {None}]

VARIABLES
  proc,       \* the process table
  client,     \* X11 connections: peer pid, and the workspace it stems from
  made,       \* the client that created each window
  popups,     \* windows created override-redirect
  destroyed,  \* windows destroyed
  connQ,      \* client_connected_rx
  dispQ,      \* display_rx
  sid,        \* the running session, 0 between sessions
  sessions,   \* sessions so far
  cmds,       \* in_rx: spawn requests the sidecar has to serve
  history,    \* ProcessManager.spawned_pid_history
  tx,         \* session messages the backend has not handled
  asked,      \* spawn requests so far, each with its workspace
  pending,    \* pending_spawns
  origin,     \* spawn_origin
  procs,      \* processes: the pid of every client, per sidecar
  track,      \* window_track, without geometry
  docs,       \* window nodes of each workspace document
  uncleaned,  \* sessions that ended and await cleanup_sidecar
  freed,      \* history: nodes the user removed
  gone        \* history: windows whose destruction the backend handled

osVars == <<proc, client, made, popups, destroyed, freed>>
sideVars == <<connQ, dispQ, cmds, history>>
hubVars == <<pending, origin, procs, track, docs, gone>>
sessVars == <<sid, sessions, uncleaned>>
vars == <<osVars, sideVars, tx, asked, hubVars, sessVars>>

Sids == 1..MaxSessions
Free == [alive |-> FALSE, used |-> FALSE, parent |-> Init_, ws |-> None]

Init ==
  /\ proc = [p \in Pids |-> Free]
  /\ client = [c \in Clients |-> None]
  /\ made = [w \in Windows |-> None]
  /\ popups = {} /\ destroyed = {} /\ freed = {} /\ gone = {}
  /\ connQ = <<>> /\ dispQ = <<>> /\ tx = <<>> /\ cmds = <<>>
  /\ sid = 0 /\ sessions = 0 /\ uncleaned = {}
  /\ history = {} /\ asked = <<>> /\ pending = {}
  /\ origin = [k \in Sids \X Pids |-> None]
  /\ procs = [s \in Sids |-> [c \in Clients |-> None]]
  /\ track = {}
  /\ docs = [ws \in Workspaces |-> {}]

-----------------------------------------------------------------------------
(* Regression forms of definitions below, used by mutation checks only. *)

CatchUpNothing(s, c) == {}

OriginOfSidecar(s, p) ==
  IF \E q \in Pids : origin[<<s, q>>] # None
    THEN LET q == CHOOSE q \in Pids : origin[<<s, q>>] # None
         IN origin[<<s, q>>]
    ELSE None

ForgetKeepsTrack(s, w) == track

-----------------------------------------------------------------------------
(* Programs and the X server. *)

CanStart(p) == ~proc[p].alive /\ (PidReuse \/ ~proc[p].used)

Fork(p, q) ==
  /\ proc[p].alive /\ CanStart(q)
  /\ proc' = [proc EXCEPT ![q] = [alive |-> TRUE, used |-> TRUE, parent |-> p,
                                  ws |-> proc[p].ws]]
  /\ UNCHANGED <<client, made, popups, destroyed, freed, sideVars, tx, asked, hubVars,
                 sessVars>>

(* Exit, crash or KillProcess; the kernel gives the children to pid 1.  The *)
(* ProcessExited that follows changes nothing in the backend.               *)
Exit(p) ==
  /\ proc[p].alive
  /\ proc' = [q \in Pids |->
       IF q = p THEN [proc[p] EXCEPT !.alive = FALSE]
       ELSE IF proc[q].parent = p THEN [proc[q] EXCEPT !.parent = Init_]
       ELSE proc[q]]
  /\ client' = [c \in Clients |->
       IF client[c] # None /\ client[c].peer = p
         THEN [client[c] EXCEPT !.open = FALSE] ELSE client[c]]
  /\ UNCHANGED <<made, popups, destroyed, freed, sideVars, tx, asked, hubVars,
                 sessVars>>

Connect(p, c) ==
  /\ proc[p].alive /\ client[c] = None
  /\ client' = [client EXCEPT ![c] =
       [open |-> TRUE, peer |-> p, ws |-> proc[p].ws]]
  /\ connQ' = Append(connQ, c)
  /\ UNCHANGED <<proc, made, popups, destroyed, freed, dispQ, cmds, history, tx, asked,
                 hubVars, sessVars>>

CreateWindow(w, c, popup) ==
  /\ client[c] # None /\ client[c].open /\ made[w] = None
  /\ popups' = IF popup THEN popups \cup {w} ELSE popups
  /\ made' = [made EXCEPT ![w] = c]
  /\ dispQ' = Append(dispQ, [kind |-> "created", win |-> w, client |-> c])
  /\ UNCHANGED <<proc, client, destroyed, freed, connQ, cmds, history, tx,
                 asked, hubVars, sessVars>>

(* By the client, or by the X server when the connection closes. *)
DestroyWindow(w) ==
  /\ made[w] # None /\ w \notin destroyed
  /\ destroyed' = destroyed \cup {w}
  /\ dispQ' = Append(dispQ, [kind |-> "destroyed", win |-> w, client |-> made[w]])
  /\ UNCHANGED <<proc, client, made, popups, freed, connQ, cmds, history, tx, asked,
                 hubVars, sessVars>>

-----------------------------------------------------------------------------
(* The sidecar's session. *)

SessionUp ==
  /\ sid = 0 /\ sessions < MaxSessions
  /\ sid' = sessions + 1 /\ sessions' = sessions + 1
  /\ history' = {} /\ cmds' = <<>> /\ tx' = <<>>
  /\ UNCHANGED <<osVars, connQ, dispQ, asked, hubVars, uncleaned>>

(* What was not handled by the backend is lost, the process manager too. *)
SessionDown ==
  /\ sid # 0
  /\ uncleaned' = uncleaned \cup {sid} /\ sid' = 0
  /\ history' = {} /\ cmds' = <<>> /\ tx' = <<>>
  /\ UNCHANGED <<osVars, connQ, dispQ, asked, hubVars, sessions>>

Spawn(p) ==
  /\ sid # 0 /\ cmds # <<>> /\ CanStart(p)
  /\ cmds' = Tail(cmds)
  /\ proc' = [proc EXCEPT ![p] = [alive |-> TRUE, used |-> TRUE,
       parent |-> Init_, ws |-> asked[Head(cmds)]]]
  /\ history' = history \cup {p}
  /\ tx' = Append(tx, [kind |-> "spawned", req |-> Head(cmds), pid |-> p])
  /\ UNCHANGED <<client, made, popups, destroyed, freed, connQ, dispQ, asked, hubVars,
                 sessVars>>

(* The Error answer only reaches the frontends: pending_spawns keeps it. *)
SpawnFails ==
  /\ sid # 0 /\ cmds # <<>>
  /\ cmds' = Tail(cmds)
  /\ UNCHANGED <<osVars, connQ, dispQ, history, tx, asked, hubVars, sessVars>>

(* get_ppid: a process that is gone has no /proc entry. *)
ParentOf(p) == IF p # Init_ /\ proc[p].alive THEN proc[p].parent ELSE Init_

FindAncestorPastInit(p) == IF p \in history THEN p ELSE ParentOf(p)

(* find_ancestor_pid: the nearest spawned pid at or above p. *)
FindAncestor(p) ==
  LET walk[n \in 0..MaxDepth] == IF n = 0 THEN p ELSE ParentOf(walk[n - 1])
      hits == {n \in 0..MaxDepth : walk[n] \in history}
  IN IF hits = {} THEN None ELSE walk[Min(hits)]

Match ==
  LET c == Head(connQ)
      pid == FindAncestor(client[c].peer)
  IN /\ sid # 0 /\ connQ # <<>>
     /\ connQ' = Tail(connQ)
     /\ tx' = IF pid = None THEN tx
              ELSE Append(tx, [kind |-> "connected", client |-> c, pid |-> pid])
     /\ UNCHANGED <<osVars, dispQ, cmds, history, asked, hubVars, sessVars>>

(* display_loop: a lifecycle update needs no encoding. *)
Forward ==
  /\ sid # 0 /\ dispQ # <<>>
  /\ dispQ' = Tail(dispQ)
  /\ tx' = Append(tx, Head(dispQ))
  /\ UNCHANGED <<osVars, connQ, cmds, history, asked, hubVars, sessVars>>

-----------------------------------------------------------------------------
(* The backend. *)

(* A frontend's SpawnProcess; with no sidecar, forward_to_sidecar drops it. *)
Request(ws) ==
  /\ Len(asked) < MaxRequests
  /\ asked' = Append(asked, ws)
  /\ pending' = pending \cup {Len(asked) + 1}
  /\ cmds' = IF sid = 0 THEN cmds ELSE Append(cmds, Len(asked) + 1)
  /\ UNCHANGED <<osVars, connQ, dispQ, history, tx, origin, procs, track, docs,
                 gone, sessVars>>

Taken(kind) ==
  /\ sid # 0 /\ tx # <<>> /\ Head(tx).kind = kind
  /\ tx' = Tail(tx)

OriginOf(s, p) == IF p = None THEN None ELSE origin[<<s, p>>]

Attached == UNION {docs[ws] : ws \in Workspaces}

(* backend_attach_window, for windows in the tracker. *)
Attach(ws, W) ==
  docs' = IF ws = None THEN docs ELSE [docs EXCEPT ![ws] = @ \cup W]

HandleSpawned ==
  /\ Taken("spawned")
  /\ LET m == Head(tx) IN
       /\ pending' = pending \ {m.req}
       /\ origin' = IF m.req \in pending
                      THEN [origin EXCEPT ![<<sid, m.pid>>] = asked[m.req]]
                      ELSE origin
  /\ UNCHANGED <<osVars, sideVars, asked, procs, track, docs, gone, sessVars>>

(* attach_windows_for_new_client: its windows that came first. *)
CatchUp(s, c) ==
  {w \in Windows \ popups : <<s, c, w>> \in track} \ Attached

HandleConnected ==
  /\ Taken("connected")
  /\ LET m == Head(tx) IN
       /\ procs' = [procs EXCEPT ![sid][m.client] = m.pid]
       /\ Attach(OriginOf(sid, m.pid), CatchUp(sid, m.client))
  /\ UNCHANGED <<osVars, sideVars, asked, pending, origin, track, gone,
                 sessVars>>

HandleCreated ==
  /\ Taken("created")
  /\ LET m == Head(tx) IN
       /\ track' = track \cup {<<sid, m.client, m.win>>}
       /\ Attach(OriginOf(sid, procs[sid][m.client]), {m.win} \ popups)
  /\ UNCHANGED <<osVars, sideVars, asked, pending, origin, procs, gone,
                 sessVars>>

(* apply_window_lifecycle forgets the window of this session only. *)
Forget(s, w) == {k \in track : k[1] # s \/ k[3] # w}

HandleDestroyed ==
  /\ Taken("destroyed")
  /\ LET w == Head(tx).win IN
       /\ track' = Forget(sid, w)
       /\ docs' = [ws \in Workspaces |-> docs[ws] \ {w}]
       /\ gone' = gone \cup {w}
  /\ UNCHANGED <<osVars, sideVars, asked, pending, origin, procs, sessVars>>

(* cleanup_sidecar, possibly after the sidecar is back under a new id. *)
Cleanup(s) ==
  /\ s \in uncleaned
  /\ uncleaned' = uncleaned \ {s}
  /\ procs' = [procs EXCEPT ![s] = [c \in Clients |-> None]]
  /\ track' = {k \in track : k[1] # s}
  /\ UNCHANGED <<osVars, sideVars, tx, asked, pending, origin, docs, gone, sid,
                 sessions>>

(* A user deletes a window's node: the change arrives as a sync message. *)
Detach(ws, w) ==
  /\ w \in docs[ws]
  /\ docs' = [docs EXCEPT ![ws] = @ \ {w}]
  /\ freed' = freed \cup {w}
  /\ UNCHANGED <<proc, client, made, popups, destroyed, sideVars, tx, asked, pending,
                 origin, procs, track, gone, sessVars>>

-----------------------------------------------------------------------------
Next ==
  \/ \E p, q \in Pids : Fork(p, q)
  \/ \E p \in Pids : Exit(p) \/ Spawn(p)
  \/ \E p \in Pids, c \in Clients : Connect(p, c)
  \/ \E w \in Windows, c \in Clients, popup \in BOOLEAN : CreateWindow(w, c, popup)
  \/ \E w \in Windows : DestroyWindow(w)
  \/ SessionUp \/ SessionDown \/ SpawnFails \/ Match \/ Forward
  \/ HandleSpawned \/ HandleConnected \/ HandleCreated \/ HandleDestroyed
  \/ \E s \in Sids : Cleanup(s)
  \/ \E ws \in Workspaces : Request(ws)
  \/ \E ws \in Workspaces, w \in Windows : Detach(ws, w)

Spec == Init /\ [][Next]_vars

(* The session's loops are polled while it lasts, and the backend reads on. *)
Fairness ==
  /\ WF_vars(Match) /\ WF_vars(Forward)
  /\ WF_vars(HandleSpawned \/ HandleConnected \/ HandleCreated
             \/ HandleDestroyed)

FairSpec == Spec /\ Fairness

-----------------------------------------------------------------------------
Msg ==
  [kind : {"spawned"}, req : 1..MaxRequests, pid : Pids]
  \cup [kind : {"connected"}, client : Clients, pid : Pids]
  \cup [kind : {"created", "destroyed"}, win : Windows, client : Clients]

TypeOK ==
  /\ proc \in [Pids -> [alive : BOOLEAN, used : BOOLEAN,
                        parent : Pids \cup {Init_},
                        ws : Workspaces \cup {None}]]
  /\ made \in [Windows -> Clients \cup {None}] /\ destroyed \subseteq Windows
  /\ popups \subseteq Windows
  /\ connQ \in Seq(Clients) /\ dispQ \in Seq(Msg) /\ tx \in Seq(Msg)
  /\ sid \in 0..MaxSessions /\ sessions \in 0..MaxSessions
  /\ uncleaned \subseteq 1..sessions
  /\ history \subseteq Pids /\ pending \subseteq 1..Len(asked)
  /\ origin \in [Sids \X Pids -> Workspaces \cup {None}]
  /\ procs \in [Sids -> [Clients -> Pids \cup {None}]]
  /\ track \subseteq Sids \X Clients \X Windows
  /\ docs \in [Workspaces -> SUBSET Windows]

(* "auto-attach the window only to that workspace - different workspaces    *)
(* can run different apps without cross-pollination" (AppState.spawn_origin)*)
(* whatever the order of spawn, fork, exit, connection and session loss.    *)
NoCrossPollination ==
  \A ws \in Workspaces : \A w \in docs[ws] : client[made[w]].ws = ws

(* A window that overtook its client's ProcessConnected is caught up with:  *)
(* once the backend knows both, and the program's origin, the window is on  *)
(* a canvas, unless a user took it off.                                     *)
RaceCaughtUp ==
  \A k \in track :
    k[3] \notin popups \cup freed \cup gone
      /\ OriginOf(k[1], procs[k[1]][k[2]]) # None => k[3] \in Attached

(* Once the backend has handled a window's destruction, no later message,   *)
(* of this session or of the next, puts it back on a canvas.                *)
GoneStaysGone == gone \cap Attached = {}

(* In a session that lasts, every window of a program the sidecar spawned   *)
(* itself reaches the canvas, whatever the order in which the two channels  *)
(* are drained, unless it is destroyed or taken off.                        *)
Placed(w) == w \in Attached \/ w \in freed \/ w \in destroyed

SpawnedHere(w) ==
  /\ sid = 1 /\ made[w] # None /\ w \notin popups
  /\ client[made[w]].peer \in history

ReachesCanvas ==
  <>[](sid = 1) => \A w \in Windows : SpawnedHere(w) ~> Placed(w)

=============================================================================
