------------------------- MODULE SpawnAttachProofs -------------------------
(***************************************************************************)
(* Spawn and attach, for any number of processes, clients, windows,        *)
(* workspaces and sessions: no later message puts a destroyed window back  *)
(* on a canvas, a window that overtook its client is caught up with, and,  *)
(* as long as the kernel does not hand a pid out twice, no window reaches  *)
(* the canvas of a workspace that did not ask for its program.             *)
(***************************************************************************)
EXTENDS SpawnAttach, WellFoundedInduction, TLAPS

(***************************************************************************)
(* The inductive invariants.                                               *)
(***************************************************************************)
Connection == [open : BOOLEAN, peer : Pids, ws : Workspaces \cup {None}]

(* The display channel carries nothing but the life of windows. *)
Display == [kind : {"created", "destroyed"}, win : Windows, client : Clients]

Typed ==
  /\ TypeOK
  /\ dispQ \in Seq(Display)
  /\ client \in [Clients -> Connection \cup {None}]
  /\ asked \in Seq(Workspaces) /\ Len(asked) <= MaxRequests
  /\ cmds \in Seq(1..Len(asked))
  /\ freed \subseteq Windows /\ gone \subseteq Windows
  /\ sid \in {0, sessions}
  /\ \A k \in track : k[1] <= sessions

About(m, w) == m.kind \in {"created", "destroyed"} /\ m.win = w

(* Of two messages about a window in a channel, the first says created and  *)
(* the second destroyed.                                                    *)
InOrder(m, n) ==
  \A w \in Windows : About(m, w) /\ About(n, w)
    => m.kind = "created" /\ n.kind = "destroyed"

(* The messages the backend has not handled, then those not forwarded. *)
Pipeline(t, d) ==
  /\ \A i, j \in 1..Len(d) : i < j => InOrder(d[i], d[j])
  /\ \A i, j \in 1..Len(t) : i < j => InOrder(t[i], t[j])
  /\ \A i \in 1..Len(t), j \in 1..Len(d) : InOrder(t[i], d[j])

Lifecycle == Pipeline(tx, dispQ)

(* What a message in either channel says has happened, and a window whose   *)
(* destruction was handled is in no message any more.                       *)
Happened(m, md, ds, gn) ==
  \A w \in Windows : About(m, w) =>
    /\ md[w] # None /\ w \notin gn
    /\ m.kind = "destroyed" => w \in ds

AllHappened(q, md, ds, gn) == \A i \in 1..Len(q) : Happened(q[i], md, ds, gn)

Truthful ==
  /\ AllHappened(dispQ, made, destroyed, gone)
  /\ AllHappened(tx, made, destroyed, gone)
  /\ \A w \in destroyed : made[w] # None
  /\ gone \subseteq destroyed

(* The tracker of the running session has forgotten it. *)
Forgotten ==
  /\ GoneStaysGone
  /\ \A k \in track : k[3] \in gone => k[1] # sid

GoneInv == Lifecycle /\ Truthful /\ Forgotten

(* A request has one answer: it waits in the commands q or in the messages  *)
(* t, and is pending until the answer is handled.                           *)
OneAnswer(q, t, pn) ==
  /\ \A i \in 1..Len(q) : q[i] \in pn
  /\ \A i, j \in 1..Len(q) : i # j => q[i] # q[j]
  /\ \A i \in 1..Len(t) : t[i].kind = "spawned" =>
       t[i].req \in pn /\ \A j \in 1..Len(q) : q[j] # t[i].req
  /\ \A i, j \in 1..Len(t) :
       i # j /\ t[i].kind = "spawned" /\ t[j].kind = "spawned" => t[i].req # t[j].req

(* The backend knows the origin of p, or will before it handles t[n]. *)
Known(p, t, n, s, og) ==
  \/ og[<<s, p>>] # None
  \/ \E i \in 1..Len(t) : i < n /\ t[i].kind = "spawned" /\ t[i].pid = p

AllKnown(t, s, og) ==
  \A j \in 1..Len(t) : t[j].kind = "connected" => Known(t[j].pid, t, j, s, og)

OriginFirst ==
  /\ \A p \in history : Known(p, tx, Len(tx) + 1, sid, origin)
  /\ AllKnown(tx, sid, origin)
  /\ sid = 0 => history = {} /\ tx = <<>>
  /\ \A s \in Sids, c \in Clients :
       procs[s][c] # None => origin[<<s, procs[s][c]>>] # None

(* A tracked window of a client the backend knows is in D, or off the       *)
(* canvas for a reason.                                                     *)
CaughtUp(tr, pr, off, D) ==
  \A k \in tr : pr[k[1]][k[2]] # None => k[3] \in off \cup D

OffCanvas == popups \cup freed \cup gone

CaughtUpInv ==
  /\ OneAnswer(cmds, tx, pending)
  /\ OriginFirst
  /\ CaughtUp(track, procs, OffCanvas, Attached)

(* The program p stems from the request that the client c stems from. *)
From(c, p, cl, pr) == cl[c] # None /\ pr[p].used /\ pr[p].ws = cl[c].ws

Lineage ==
  /\ \A p \in Pids : proc[p].alive => proc[p].used
  /\ \A p \in Pids : proc[p].used /\ proc[p].parent # Init_ =>
       proc[proc[p].parent].used /\ proc[proc[p].parent].ws = proc[p].ws
  /\ \A c \in Clients : client[c] # None => From(c, client[c].peer, client, proc)
  /\ \A p \in history : proc[p].used

(* What a message says of a pid, a client or a window is where it is from. *)
Sound(m, cl, pr, as, md) ==
  /\ m.kind = "connected" => From(m.client, m.pid, cl, pr)
  /\ m.kind = "spawned" =>
       /\ m.req \in 1..Len(as) /\ pr[m.pid].used
       /\ pr[m.pid].ws = as[m.req]
  /\ m.kind \in {"created", "destroyed"} =>
       m.client = md[m.win]

AllSound(q, cl, pr, as, md) == \A i \in 1..Len(q) : Sound(q[i], cl, pr, as, md)

Provenance ==
  /\ \A s \in Sids, p \in Pids : origin[<<s, p>>] # None =>
       proc[p].used /\ origin[<<s, p>>] = proc[p].ws
  /\ \A s \in Sids, c \in Clients :
       procs[s][c] # None => From(c, procs[s][c], client, proc)
  /\ \A i \in 1..Len(connQ) : client[connQ[i]] # None
  /\ AllSound(tx, client, proc, asked, made)
  /\ AllSound(dispQ, client, proc, asked, made)

WindowsMade ==
  /\ \A w \in Windows : made[w] # None => client[made[w]] # None
  /\ \A k \in track : made[k[3]] = k[2]
  /\ \A ws \in Workspaces : \A w \in docs[ws] :
       made[w] # None /\ client[made[w]].ws = ws

OriginInv == Lineage /\ Provenance /\ WindowsMade

(***************************************************************************)
(* Facts about numbers, queues and messages.                               *)
(***************************************************************************)

(* A set of numbers that is not empty has a least element. *)
LEMMA LeastNumber ==
    ASSUME NEW T, T \subseteq Nat, T # {}
    PROVE  \E m \in T : \A k \in T : m <= k
<1> DEFINE R == OpToRel(<, Nat)
<1>1. IsWellFoundedOn(R, Nat)
  BY NatLessThanWellFounded
<1>2. \A x, y \in Nat : <<x, y>> \in R <=> x < y
  BY DEF OpToRel
<1> HIDE DEF R
<1>3. PICK x \in T : \A y \in T : ~ (<<y, x>> \in R)
  BY <1>1, WFMin
<1>4. \A k \in T : ~(k < x)
  BY <1>2, <1>3
<1>5. \A k \in T : x <= k
  BY <1>4
<1> QED
  BY <1>5

(* It is the one Min finds. *)
LEMMA MinIsMember ==
    ASSUME NEW T, T \subseteq Nat, T # {}
    PROVE  Min(T) \in T
<1>1. \E m \in T : \A k \in T : m <= k
  BY LeastNumber
<1> QED
  BY <1>1 DEF Min

(* What is left of a queue, and what a queue becomes. *)
LEMMA Dequeue ==
    ASSUME NEW S, NEW q \in Seq(S), q # <<>>
    PROVE  /\ Head(q) \in S /\ Head(q) = q[1] /\ Tail(q) \in Seq(S)
           /\ Len(q) \in Nat /\ Len(q) >= 1 /\ Len(Tail(q)) = Len(q) - 1
           /\ \A i \in 1..Len(Tail(q)) : Tail(q)[i] = q[i + 1]
  OBVIOUS

LEMMA Enqueue ==
    ASSUME NEW S, NEW q \in Seq(S), NEW e \in S
    PROVE  /\ Append(q, e) \in Seq(S)
           /\ Len(q) \in Nat /\ Len(Append(q, e)) = Len(q) + 1
           /\ \A i \in 1..Len(q) : Append(q, e)[i] = q[i]
           /\ Append(q, e)[Len(q) + 1] = e
  OBVIOUS

LEMMA SeqMonotone ==
    ASSUME NEW S, NEW T, S \subseteq T, NEW q \in Seq(S)
    PROVE  q \in Seq(T)
  OBVIOUS

(* Each kind of message carries what its handler reads. *)
LEMMA MsgShape ==
    ASSUME NEW m \in Msg
    PROVE  /\ m.kind \in {"spawned", "connected", "created", "destroyed"}
           /\ m.kind = "spawned" => m.req \in 1..MaxRequests /\ m.pid \in Pids
           /\ m.kind = "connected" => m.client \in Clients /\ m.pid \in Pids
           /\ m.kind \in {"created", "destroyed"} =>
                m.win \in Windows /\ m.client \in Clients
  BY DEF Msg

LEMMA DisplayMade ==
    /\ \A m \in Display : m \in Msg /\ m.kind \in {"created", "destroyed"}
    /\ \A w \in Windows, c \in Clients :
         /\ [kind |-> "created", win |-> w, client |-> c] \in Display
         /\ [kind |-> "destroyed", win |-> w, client |-> c] \in Display
  BY DEF Display, Msg

LEMMA MsgMade ==
    /\ \A r \in 1..MaxRequests, p \in Pids :
         [kind |-> "spawned", req |-> r, pid |-> p] \in Msg
    /\ \A c \in Clients, p \in Pids :
         [kind |-> "connected", client |-> c, pid |-> p] \in Msg
    /\ \A w \in Windows, c \in Clients :
         /\ [kind |-> "created", win |-> w, client |-> c] \in Msg
         /\ [kind |-> "destroyed", win |-> w, client |-> c] \in Msg
  BY DEF Msg

(* find_ancestor_pid answers with a spawned pid or with none. *)
LEMMA AncestorTyped ==
    ASSUME NEW p, history \subseteq Pids
    PROVE  FindAncestor(p) \in history \cup {None}
<1> DEFINE walk[n \in 0..MaxDepth] == IF n = 0 THEN p ELSE ParentOf(walk[n - 1])
           hits == {n \in 0..MaxDepth : walk[n] \in history}
<1>1. FindAncestor(p) = IF hits = {} THEN None ELSE walk[Min(hits)]
  BY DEF FindAncestor
<1> HIDE DEF walk
<1>2. hits \subseteq Nat
  BY DepthAssumption
<1>3. ASSUME hits # {} PROVE Min(hits) \in hits
  <2> HIDE DEF hits
  <2> QED
    BY <1>2, <1>3, MinIsMember
<1> QED
  BY <1>1, <1>3

(***************************************************************************)
(* Types.                                                                  *)
(***************************************************************************)
LEMMA TypedInit == Init => Typed
  BY BoundsAssumption, NoneAssumption
     DEF Init, Typed, TypeOK, Free, Sids

LEMMA TypedPrograms ==
    ASSUME Typed,
           \/ \E p, q \in Pids : Fork(p, q)
           \/ \E p \in Pids : Exit(p)
           \/ \E p \in Pids, c \in Clients : Connect(p, c)
           \/ \E w \in Windows, c \in Clients, popup \in BOOLEAN :
                CreateWindow(w, c, popup)
           \/ \E w \in Windows : DestroyWindow(w)
    PROVE  Typed'
<1>1. ASSUME NEW p \in Pids, NEW q \in Pids, Fork(p, q) PROVE Typed'
  BY <1>1 DEF Fork, Typed, TypeOK, sideVars, hubVars, sessVars
<1>2. ASSUME NEW p \in Pids, Exit(p) PROVE Typed'
  <2>1. proc' \in [Pids -> [alive : BOOLEAN, used : BOOLEAN,
                            parent : Pids \cup {Init_},
                            ws : Workspaces \cup {None}]]
    <3> DEFINE Process == [alive : BOOLEAN, used : BOOLEAN,
                           parent : Pids \cup {Init_}, ws : Workspaces \cup {None}]
    <3>1. \A r \in Process : /\ [r EXCEPT !.alive = FALSE] \in Process
                             /\ [r EXCEPT !.parent = Init_] \in Process
      OBVIOUS
    <3>2. \A q \in Pids : proc[q] \in Process
      BY DEF Typed, TypeOK
    <3> HIDE DEF Process
    <3>3. proc' \in [Pids -> Process]
      BY <1>2, <3>1, <3>2 DEF Exit
    <3> QED
      BY <3>3 DEF Process
  <2>2. client' \in [Clients -> Connection \cup {None}]
    BY <1>2 DEF Exit, Typed, Connection
  <2> QED
    BY <1>2, <2>1, <2>2 DEF Exit, Typed, TypeOK, sideVars, hubVars, sessVars
<1>3. ASSUME NEW p \in Pids, NEW c \in Clients, Connect(p, c) PROVE Typed'
  <2>1. client' \in [Clients -> Connection \cup {None}]
    BY <1>3 DEF Connect, Typed, TypeOK, Connection
  <2>2. connQ' \in Seq(Clients)
    BY <1>3 DEF Connect, Typed, TypeOK
  <2> QED
    BY <1>3, <2>1, <2>2 DEF Connect, Typed, TypeOK, hubVars, sessVars
<1>4. ASSUME NEW w \in Windows, NEW c \in Clients, NEW popup \in BOOLEAN,
             CreateWindow(w, c, popup)
      PROVE  Typed'
  <2>1. dispQ' \in Seq(Msg) /\ dispQ' \in Seq(Display)
    BY <1>4, MsgMade, DisplayMade, Enqueue DEF CreateWindow, Typed, TypeOK
  <2>2. made' \in [Windows -> Clients \cup {None}] /\ popups' \subseteq Windows
    BY <1>4 DEF CreateWindow, Typed, TypeOK
  <2> QED
    BY <1>4, <2>1, <2>2 DEF CreateWindow, Typed, TypeOK, hubVars, sessVars
<1>5. ASSUME NEW w \in Windows, DestroyWindow(w) PROVE Typed'
  <2>1. made[w] \in Clients
    BY <1>5 DEF DestroyWindow, Typed, TypeOK
  <2>2. dispQ' \in Seq(Msg) /\ dispQ' \in Seq(Display)
    BY <1>5, <2>1, MsgMade, DisplayMade, Enqueue DEF DestroyWindow, Typed, TypeOK
  <2> QED
    BY <1>5, <2>2 DEF DestroyWindow, Typed, TypeOK, hubVars, sessVars
<1> QED
  BY <1>1, <1>2, <1>3, <1>4, <1>5

LEMMA TypedSession ==
    ASSUME Typed,
           \/ SessionUp \/ SessionDown \/ SpawnFails \/ Match \/ Forward
           \/ \E p \in Pids : Spawn(p)
    PROVE  Typed'
<1>1. CASE SessionUp
  <2>1. \A k \in track : k[1] \in Nat /\ k[1] <= sessions
    BY DEF Typed, TypeOK, Sids
  <2>2. /\ sid' \in 0..MaxSessions /\ sessions' \in 0..MaxSessions
        /\ uncleaned' \subseteq 1..sessions' /\ sid' \in {0, sessions'}
        /\ \A k \in track : k[1] <= sessions'
    BY <1>1, <2>1, BoundsAssumption DEF SessionUp, Typed, TypeOK
  <2>3. /\ cmds' = <<>> /\ tx' = <<>> /\ history' = {}
        /\ UNCHANGED <<proc, client, made, popups, destroyed, freed, connQ, dispQ,
                      asked, pending, origin, procs, track, docs, gone>>
    BY <1>1 DEF SessionUp, osVars, hubVars
  <2>4. TypeOK'
    BY <2>2, <2>3 DEF Typed, TypeOK
  <2> QED
    BY <2>2, <2>3, <2>4 DEF Typed
<1>2. CASE SessionDown
  BY <1>2, BoundsAssumption DEF SessionDown, Typed, TypeOK, osVars, hubVars
<1>3. CASE SpawnFails
  BY <1>3 DEF SpawnFails, Typed, TypeOK, osVars, hubVars, sessVars
<1>4. CASE Match
  <2>1. FindAncestor(client[Head(connQ)].peer) \in Pids \cup {None}
    BY AncestorTyped DEF Typed, TypeOK
  <2>2. Head(connQ) \in Clients /\ connQ' \in Seq(Clients)
    BY <1>4 DEF Match, Typed, TypeOK
  <2>3. tx \in Seq(Msg)
    BY DEF Typed, TypeOK
  <2>4. tx' \in Seq(Msg)
    BY <1>4, <2>1, <2>2, <2>3, MsgMade, Enqueue DEF Match
  <2> QED
    BY <1>4, <2>2, <2>4 DEF Match, Typed, TypeOK, osVars, hubVars, sessVars
<1>5. CASE Forward
  <2>1. dispQ \in Seq(Msg) /\ tx \in Seq(Msg) /\ dispQ # <<>>
    BY <1>5 DEF Forward, Typed, TypeOK
  <2>2. dispQ' \in Seq(Msg) /\ tx' \in Seq(Msg)
    BY <1>5, <2>1, Dequeue, Enqueue DEF Forward
  <2>3. dispQ' \in Seq(Display)
    BY <1>5, <2>1, Dequeue DEF Forward, Typed
  <2> QED
    BY <1>5, <2>2, <2>3 DEF Forward, Typed, TypeOK, osVars, hubVars, sessVars
<1>6. ASSUME NEW p \in Pids, Spawn(p) PROVE Typed'
  <2>1. /\ Head(cmds) \in 1..Len(asked) /\ cmds' \in Seq(1..Len(asked))
        /\ Len(asked) \in Nat /\ Len(asked) <= MaxRequests
    BY <1>6 DEF Spawn, Typed
  <2>2. Head(cmds) \in 1..MaxRequests /\ asked[Head(cmds)] \in Workspaces
    BY <2>1, BoundsAssumption DEF Typed
  <2>3. tx' \in Seq(Msg)
    BY <1>6, <2>2, MsgMade, Enqueue DEF Spawn, Typed, TypeOK
  <2>4. proc' \in [Pids -> [alive : BOOLEAN, used : BOOLEAN,
                            parent : Pids \cup {Init_},
                            ws : Workspaces \cup {None}]]
    BY <1>6, <2>2 DEF Spawn, Typed, TypeOK
  <2> QED
    BY <1>6, <2>1, <2>3, <2>4 DEF Spawn, Typed, TypeOK, hubVars, sessVars
<1> QED
  BY <1>1, <1>2, <1>3, <1>4, <1>5, <1>6

LEMMA TypedBackend ==
    ASSUME Typed,
           \/ HandleSpawned \/ HandleConnected \/ HandleCreated \/ HandleDestroyed
           \/ \E s \in Sids : Cleanup(s)
           \/ \E ws \in Workspaces : Request(ws)
           \/ \E ws \in Workspaces, w \in Windows : Detach(ws, w)
    PROVE  Typed'
<1> USE DEF Typed, TypeOK
<1>0. ASSUME NEW kind, Taken(kind)
      PROVE  /\ sid \in Sids /\ tx \in Seq(Msg) /\ tx # <<>>
             /\ Head(tx) \in Msg /\ Head(tx).kind = kind
             /\ tx' = Tail(tx) /\ tx' \in Seq(Msg)
  <2>1. sid # 0 /\ tx # <<>> /\ Head(tx).kind = kind /\ tx' = Tail(tx)
    BY <1>0 DEF Taken
  <2>2. tx \in Seq(Msg)
    OBVIOUS
  <2>3. sid \in Sids
    BY <2>1, BoundsAssumption DEF Sids
  <2> QED
    BY <2>1, <2>2, <2>3, Dequeue
<1>1. CASE HandleSpawned
  <2>1. /\ sid \in Sids /\ Head(tx) \in Msg /\ Head(tx).kind = "spawned"
        /\ tx' \in Seq(Msg)
    BY <1>0, <1>1 DEF HandleSpawned
  <2>2. Head(tx).pid \in Pids
    BY <2>1, MsgShape
  <2>3. Head(tx).req \in pending => asked[Head(tx).req] \in Workspaces
    <3>1. \A r \in 1..Len(asked) : asked[r] \in Workspaces
      OBVIOUS
    <3> QED
      BY <3>1
  <2>4. origin' \in [Sids \X Pids -> Workspaces \cup {None}]
    BY <1>1, <2>1, <2>2, <2>3 DEF HandleSpawned
  <2> QED
    BY <1>1, <2>1, <2>4 DEF HandleSpawned, osVars, sideVars, sessVars
<1>2. CASE HandleConnected
  <2>1. /\ sid \in Sids /\ Head(tx) \in Msg /\ Head(tx).kind = "connected"
        /\ tx' \in Seq(Msg)
    BY <1>0, <1>2 DEF HandleConnected
  <2>2. Head(tx).pid \in Pids /\ Head(tx).client \in Clients
    BY <2>1, MsgShape
  <2>3. procs' \in [Sids -> [Clients -> Pids \cup {None}]]
    BY <1>2, <2>1, <2>2 DEF HandleConnected
  <2>4. docs' \in [Workspaces -> SUBSET Windows]
    BY <1>2, <2>1, <2>2 DEF HandleConnected, Attach, CatchUp
  <2> QED
    BY <1>2, <2>1, <2>3, <2>4 DEF HandleConnected, osVars, sideVars, sessVars
<1>3. CASE HandleCreated
  <2>1. /\ sid \in Sids /\ Head(tx) \in Msg /\ Head(tx).kind = "created"
        /\ tx' \in Seq(Msg)
    BY <1>0, <1>3 DEF HandleCreated
  <2>2. Head(tx).win \in Windows /\ Head(tx).client \in Clients
    BY <2>1, MsgShape
  <2>3. docs' \in [Workspaces -> SUBSET Windows]
    BY <1>3, <2>1, <2>2 DEF HandleCreated, Attach
  <2>4. sid <= sessions
    BY BoundsAssumption
  <2>5. /\ track' \subseteq Sids \X Clients \X Windows
        /\ \A k \in track' : k[1] <= sessions
    BY <1>3, <2>1, <2>2, <2>4 DEF HandleCreated
  <2> QED
    BY <1>3, <2>1, <2>3, <2>5 DEF HandleCreated, osVars, sideVars, sessVars
<1>4. CASE HandleDestroyed
  <2>1. /\ sid \in Sids /\ Head(tx) \in Msg /\ Head(tx).kind = "destroyed"
        /\ tx' \in Seq(Msg)
    BY <1>0, <1>4 DEF HandleDestroyed
  <2>2. Head(tx).win \in Windows
    BY <2>1, MsgShape
  <2>3. docs' \in [Workspaces -> SUBSET Windows] /\ gone' \subseteq Windows
    BY <1>4, <2>2 DEF HandleDestroyed
  <2>4. track' \subseteq track
    BY <1>4 DEF HandleDestroyed, Forget
  <2> QED
    BY <1>4, <2>1, <2>3, <2>4 DEF HandleDestroyed, osVars, sideVars, sessVars
<1>5. ASSUME NEW s \in Sids, Cleanup(s) PROVE Typed'
  <2>1. procs' \in [Sids -> [Clients -> Pids \cup {None}]]
    BY <1>5 DEF Cleanup
  <2> QED
    BY <1>5, <2>1 DEF Cleanup, osVars, sideVars
<1>6. ASSUME NEW ws \in Workspaces, Request(ws) PROVE Typed'
  <2>1. /\ asked' \in Seq(Workspaces) /\ Len(asked') = Len(asked) + 1
        /\ Len(asked) \in Nat /\ Len(asked') <= MaxRequests
    BY <1>6, Enqueue, BoundsAssumption DEF Request
  <2>2. 1..Len(asked) \subseteq 1..Len(asked') /\ Len(asked) + 1 \in 1..Len(asked')
    BY <2>1
  <2>3. cmds \in Seq(1..Len(asked'))
    BY <2>2, SeqMonotone
  <2>4. cmds' \in Seq(1..Len(asked')) /\ pending' \subseteq 1..Len(asked')
    BY <1>6, <2>2, <2>3, Enqueue DEF Request
  <2> QED
    BY <1>6, <2>1, <2>4 DEF Request, osVars, sessVars
<1>7. ASSUME NEW ws \in Workspaces, NEW w \in Windows, Detach(ws, w) PROVE Typed'
  BY <1>7 DEF Detach, sideVars, sessVars
<1> QED
  BY <1>1, <1>2, <1>3, <1>4, <1>5, <1>6, <1>7

(* The variables keep their types, and the running session is the newest:   *)
(* a sidecar id is never used again (the uuid a sidecar gets on connect).   *)
THEOREM TypedAlways == Spec => []Typed
<1>1. Typed /\ [Next]_vars => Typed'
  <2> SUFFICES ASSUME Typed, [Next]_vars PROVE Typed'
    OBVIOUS
  <2>1. CASE Next
    BY <2>1, TypedPrograms, TypedSession, TypedBackend DEF Next
  <2>2. CASE UNCHANGED vars
    BY <2>2 DEF Typed, TypeOK, vars, osVars, sideVars, hubVars, sessVars
  <2> QED
    BY <2>1, <2>2
<1> QED
  BY TypedInit, <1>1, PTL DEF Spec

(* Among them those the runs check. *)
THEOREM SpawnTypeCorrect == Spec => []TypeOK
<1>1. Typed => TypeOK
  BY DEF Typed
<1> QED
  BY <1>1, TypedAlways, PTL

(***************************************************************************)
(* A destroyed window stays off the canvas.                                *)
(***************************************************************************)

(* Reading the oldest message, forwarding one, adding one. *)
LEMMA PipelineRead ==
    ASSUME NEW t \in Seq(Msg), NEW d \in Seq(Msg), Pipeline(t, d), t # <<>>
    PROVE  /\ Pipeline(Tail(t), d)
           /\ \A i \in 1..Len(Tail(t)) : InOrder(Head(t), Tail(t)[i])
           /\ \A i \in 1..Len(d) : InOrder(Head(t), d[i])
<1>1. /\ Len(t) \in Nat /\ Len(Tail(t)) = Len(t) - 1 /\ Head(t) = t[1]
      /\ \A i \in 1..Len(Tail(t)) : Tail(t)[i] = t[i + 1]
      /\ Len(t) >= 1
  BY Dequeue
<1>2. \A i, j \in 1..Len(Tail(t)) : i < j => InOrder(Tail(t)[i], Tail(t)[j])
  BY <1>1 DEF Pipeline
<1>3. \A i \in 1..Len(Tail(t)), j \in 1..Len(d) : InOrder(Tail(t)[i], d[j])
  BY <1>1 DEF Pipeline
<1>4. \A i \in 1..Len(Tail(t)) : InOrder(Head(t), Tail(t)[i])
  BY <1>1 DEF Pipeline
<1>5. \A i \in 1..Len(d) : InOrder(Head(t), d[i])
  BY <1>1 DEF Pipeline
<1> QED
  BY <1>2, <1>3, <1>4, <1>5 DEF Pipeline

LEMMA PipelineForward ==
    ASSUME NEW t \in Seq(Msg), NEW d \in Seq(Msg), Pipeline(t, d), d # <<>>
    PROVE  Pipeline(Append(t, Head(d)), Tail(d))
<1>1. /\ Len(d) \in Nat /\ Len(Tail(d)) = Len(d) - 1 /\ Head(d) = d[1]
      /\ \A i \in 1..Len(Tail(d)) : Tail(d)[i] = d[i + 1]
      /\ Len(d) >= 1 /\ Head(d) \in Msg
  BY Dequeue
<1> DEFINE u == Append(t, Head(d))
<1>2. /\ Len(t) \in Nat /\ Len(u) = Len(t) + 1
      /\ \A i \in 1..Len(t) : u[i] = t[i]
      /\ u[Len(t) + 1] = Head(d)
  BY <1>1, Enqueue
<1> HIDE DEF u
<1>3. \A i, j \in 1..Len(Tail(d)) : i < j => InOrder(Tail(d)[i], Tail(d)[j])
  BY <1>1 DEF Pipeline
<1>4. \A i, j \in 1..Len(u) : i < j => InOrder(u[i], u[j])
  BY <1>1, <1>2 DEF Pipeline
<1>5. \A i \in 1..Len(u), j \in 1..Len(Tail(d)) : InOrder(u[i], Tail(d)[j])
  BY <1>1, <1>2 DEF Pipeline
<1> QED
  BY <1>3, <1>4, <1>5 DEF Pipeline, u

LEMMA PipelineOther ==
    ASSUME NEW t \in Seq(Msg), NEW d \in Seq(Msg), Pipeline(t, d),
           NEW m \in Msg, m.kind \notin {"created", "destroyed"}
    PROVE  Pipeline(Append(t, m), d)
<1> DEFINE u == Append(t, m)
<1>1. /\ Len(t) \in Nat /\ Len(u) = Len(t) + 1
      /\ \A i \in 1..Len(t) : u[i] = t[i]
      /\ u[Len(t) + 1] = m
  BY Enqueue
<1>2. \A n : InOrder(n, m) /\ InOrder(m, n)
  BY DEF InOrder, About
<1> HIDE DEF u
<1>3. \A i, j \in 1..Len(u) : i < j => InOrder(u[i], u[j])
  BY <1>1, <1>2 DEF Pipeline
<1>4. \A i \in 1..Len(u), j \in 1..Len(d) : InOrder(u[i], d[j])
  BY <1>1, <1>2 DEF Pipeline
<1> QED
  BY <1>3, <1>4 DEF Pipeline, u

LEMMA PipelineNew ==
    ASSUME NEW t \in Seq(Msg), NEW d \in Seq(Msg), Pipeline(t, d), NEW m \in Msg,
           \A i \in 1..Len(t) : InOrder(t[i], m),
           \A i \in 1..Len(d) : InOrder(d[i], m)
    PROVE  Pipeline(t, Append(d, m))
<1> DEFINE u == Append(d, m)
<1>1. /\ Len(d) \in Nat /\ Len(u) = Len(d) + 1
      /\ \A i \in 1..Len(d) : u[i] = d[i]
      /\ u[Len(d) + 1] = m
  BY Enqueue
<1> HIDE DEF u
<1>2. \A i, j \in 1..Len(u) : i < j => InOrder(u[i], u[j])
  BY <1>1 DEF Pipeline
<1>3. \A i \in 1..Len(t), j \in 1..Len(u) : InOrder(t[i], u[j])
  BY <1>1 DEF Pipeline
<1> QED
  BY <1>2, <1>3 DEF Pipeline, u

(* What a channel says stays true when it grows by a true message, when it  *)
(* is read, and when windows are made and destroyed.                        *)
LEMMA HappenedQueue ==
    ASSUME NEW q \in Seq(Msg), NEW md, NEW ds, NEW gn, AllHappened(q, md, ds, gn)
    PROVE  /\ q # <<>> => /\ AllHappened(Tail(q), md, ds, gn)
                          /\ Happened(Head(q), md, ds, gn)
           /\ \A m \in Msg : Happened(m, md, ds, gn) =>
                AllHappened(Append(q, m), md, ds, gn)
<1>1. ASSUME q # <<>>
      PROVE  AllHappened(Tail(q), md, ds, gn) /\ Happened(Head(q), md, ds, gn)
  <2>1. /\ Len(q) \in Nat /\ Len(Tail(q)) = Len(q) - 1 /\ Head(q) = q[1]
        /\ \A i \in 1..Len(Tail(q)) : Tail(q)[i] = q[i + 1]
        /\ Len(q) >= 1
    BY <1>1, Dequeue
  <2> QED
    BY <2>1 DEF AllHappened
<1>2. ASSUME NEW m \in Msg, Happened(m, md, ds, gn)
      PROVE  AllHappened(Append(q, m), md, ds, gn)
  <2> DEFINE u == Append(q, m)
  <2>1. /\ Len(q) \in Nat /\ Len(u) = Len(q) + 1
        /\ \A i \in 1..Len(q) : u[i] = q[i]
        /\ u[Len(q) + 1] = m
    BY Enqueue
  <2> HIDE DEF u
  <2>2. \A i \in 1..Len(u) : i \in 1..Len(q) \/ i = Len(q) + 1
    BY <2>1
  <2> QED
    BY <1>2, <2>1, <2>2 DEF AllHappened, u
<1> QED
  BY <1>1, <1>2

LEMMA HappenedGrows ==
    ASSUME NEW q, NEW md, NEW ds, NEW gn, AllHappened(q, md, ds, gn),
           NEW md2, NEW ds2, ds \subseteq ds2,
           \A w \in Windows : md[w] # None => md2[w] # None
    PROVE  AllHappened(q, md2, ds2, gn)
  BY DEF AllHappened, Happened

LEMMA HappenedOther ==
    ASSUME NEW m, m.kind \notin {"created", "destroyed"}, NEW md, NEW ds, NEW gn
    PROVE  Happened(m, md, ds, gn)
  BY DEF Happened, About

LEMMA GoneInit == Init => GoneInv
  BY DEF Init, GoneInv, Lifecycle, Pipeline, Truthful, AllHappened, Forgotten,
         GoneStaysGone, Attached

(* Windows come and go in the X server. *)
LEMMA GonePrograms ==
    ASSUME Typed, GoneInv,
           \/ \E w \in Windows, c \in Clients, popup \in BOOLEAN :
                CreateWindow(w, c, popup)
           \/ \E w \in Windows : DestroyWindow(w)
    PROVE  GoneInv'
<1>0. tx \in Seq(Msg) /\ dispQ \in Seq(Msg)
  BY DEF Typed, TypeOK
<1>1. ASSUME NEW w \in Windows, NEW c \in Clients, NEW popup \in BOOLEAN,
             CreateWindow(w, c, popup)
      PROVE  GoneInv'
  <2> DEFINE m == [kind |-> "created", win |-> w, client |-> c]
  <2>1. /\ made[w] = None /\ made' = [made EXCEPT ![w] = c]
        /\ dispQ' = Append(dispQ, m)
        /\ UNCHANGED <<tx, destroyed, gone, track, docs, sid>>
    BY <1>1 DEF CreateWindow, hubVars, sessVars
  <2>2. m \in Msg /\ m.kind = "created" /\ m.win = w
    BY MsgMade
  <2> HIDE DEF m
  <2>3. w \notin destroyed /\ w \notin gone
    BY <2>1 DEF GoneInv, Truthful
  <2>4. /\ \A i \in 1..Len(tx) : ~About(tx[i], w)
        /\ \A i \in 1..Len(dispQ) : ~About(dispQ[i], w)
    BY <2>1 DEF GoneInv, Truthful, AllHappened, Happened
  <2>5. \A n : ~About(n, w) => InOrder(n, m)
    BY <2>2 DEF InOrder, About
  <2>6. Lifecycle'
    BY <1>0, <2>1, <2>2, <2>4, <2>5, PipelineNew DEF GoneInv, Lifecycle
  <2>7. made'[w] # None /\ \A v \in Windows : made[v] # None => made'[v] # None
    BY <2>1, NoneAssumption DEF Typed, TypeOK
  <2>8. Happened(m, made', destroyed, gone)
    BY <2>2, <2>3, <2>7 DEF Happened, About
  <2>9. /\ AllHappened(dispQ, made', destroyed, gone)
        /\ AllHappened(tx, made', destroyed, gone)
    BY <2>7, HappenedGrows DEF GoneInv, Truthful
  <2>10. AllHappened(dispQ', made', destroyed, gone)
    BY <1>0, <2>1, <2>2, <2>8, <2>9, HappenedQueue
  <2>11. Truthful'
    BY <2>1, <2>7, <2>9, <2>10 DEF GoneInv, Truthful, Typed, TypeOK
  <2>12. Forgotten'
    BY <2>1 DEF GoneInv, Forgotten, GoneStaysGone, Attached
  <2> QED
    BY <2>6, <2>11, <2>12 DEF GoneInv
<1>2. ASSUME NEW w \in Windows, DestroyWindow(w) PROVE GoneInv'
  <2> DEFINE m == [kind |-> "destroyed", win |-> w, client |-> made[w]]
  <2>1. /\ made[w] # None /\ w \notin destroyed
        /\ dispQ' = Append(dispQ, m) /\ destroyed' = destroyed \cup {w}
        /\ UNCHANGED <<tx, made, gone, track, docs, sid>>
    BY <1>2 DEF DestroyWindow, hubVars, sessVars
  <2>2. m \in Msg /\ m.kind = "destroyed" /\ m.win = w
    BY <2>1, MsgMade DEF Typed, TypeOK
  <2> HIDE DEF m
  <2>3. /\ \A i \in 1..Len(tx) : About(tx[i], w) => tx[i].kind # "destroyed"
        /\ \A i \in 1..Len(dispQ) : About(dispQ[i], w) => dispQ[i].kind # "destroyed"
    BY <2>1 DEF GoneInv, Truthful, AllHappened, Happened
  <2>4. \A n : (About(n, w) => n.kind # "destroyed") => InOrder(n, m)
    BY <2>2 DEF InOrder, About
  <2>5. Lifecycle'
    BY <1>0, <2>1, <2>2, <2>3, <2>4, PipelineNew DEF GoneInv, Lifecycle
  <2>6. w \notin gone
    BY <2>1 DEF GoneInv, Truthful
  <2>7. Happened(m, made, destroyed', gone)
    BY <2>1, <2>2, <2>6 DEF Happened, About
  <2>8. /\ AllHappened(dispQ, made, destroyed', gone)
        /\ AllHappened(tx, made, destroyed', gone)
    BY <2>1, HappenedGrows DEF GoneInv, Truthful
  <2>9. AllHappened(dispQ', made, destroyed', gone)
    BY <1>0, <2>1, <2>2, <2>7, <2>8, HappenedQueue
  <2>10. Truthful'
    BY <2>1, <2>8, <2>9 DEF GoneInv, Truthful
  <2>11. Forgotten'
    BY <2>1 DEF GoneInv, Forgotten, GoneStaysGone, Attached
  <2> QED
    BY <2>5, <2>10, <2>11 DEF GoneInv
<1> QED
  BY <1>1, <1>2

(* Steps that add to neither the tracker nor a document. *)
LEMMA GoneQuiet ==
    ASSUME Typed, GoneInv, UNCHANGED <<dispQ, tx, made, destroyed, gone, sid>>,
           track' \subseteq track, \A ws \in Workspaces : docs'[ws] \subseteq docs[ws]
    PROVE  GoneInv'
<1>1. Lifecycle' /\ Truthful'
  BY DEF GoneInv, Lifecycle, Truthful
<1>2. Forgotten'
  BY DEF GoneInv, Forgotten, GoneStaysGone, Attached
<1> QED
  BY <1>1, <1>2 DEF GoneInv

LEMMA GoneSession ==
    ASSUME Typed, GoneInv,
           \/ SessionUp \/ SessionDown \/ Match \/ Forward
           \/ \E p \in Pids : Spawn(p)
    PROVE  GoneInv'
<1>0. tx \in Seq(Msg) /\ dispQ \in Seq(Msg)
  BY DEF Typed, TypeOK
<1>1. CASE SessionUp \/ SessionDown
  <2>1. /\ tx' = <<>> /\ sid' \in {0, sessions + 1}
        /\ UNCHANGED <<dispQ, made, destroyed, gone, track, docs>>
    BY <1>1 DEF SessionUp, SessionDown, osVars, hubVars
  <2>2. Lifecycle'
    BY <2>1 DEF GoneInv, Lifecycle, Pipeline
  <2>3. Truthful'
    BY <2>1 DEF GoneInv, Truthful, AllHappened
  <2>4. \A k \in track : k[1] # sid'
    <3>1. \A k \in track : k[1] \in 1..MaxSessions /\ k[1] <= sessions
      BY DEF Typed, TypeOK, Sids
    <3>2. sessions \in Nat
      BY BoundsAssumption DEF Typed, TypeOK
    <3> QED
      BY <2>1, <3>1, <3>2, BoundsAssumption
  <2>5. Forgotten'
    BY <2>1, <2>4 DEF GoneInv, Forgotten, GoneStaysGone, Attached
  <2> QED
    BY <2>2, <2>3, <2>5 DEF GoneInv
<1>2. ASSUME NEW m \in Msg, m.kind \notin {"created", "destroyed"},
             tx' = Append(tx, m),
             UNCHANGED <<dispQ, made, destroyed, gone, track, docs, sid>>
      PROVE  GoneInv'
  <2>1. Lifecycle'
    BY <1>0, <1>2, PipelineOther DEF GoneInv, Lifecycle
  <2>2. Truthful'
    BY <1>0, <1>2, HappenedOther, HappenedQueue DEF GoneInv, Truthful
  <2>3. Forgotten'
    BY <1>2 DEF GoneInv, Forgotten, GoneStaysGone, Attached
  <2> QED
    BY <2>1, <2>2, <2>3 DEF GoneInv
<1>3. ASSUME NEW p \in Pids, Spawn(p) PROVE GoneInv'
  <2> DEFINE m == [kind |-> "spawned", req |-> Head(cmds), pid |-> p]
  <2>1. tx' = Append(tx, m) /\ UNCHANGED <<dispQ, made, destroyed, gone, track, docs, sid>>
    BY <1>3 DEF Spawn, hubVars, sessVars
  <2>2. Head(cmds) \in 1..MaxRequests
    <3>1. Head(cmds) \in 1..Len(asked) /\ Len(asked) \in Nat /\ Len(asked) <= MaxRequests
      BY <1>3 DEF Spawn, Typed
    <3> QED
      BY <3>1, BoundsAssumption
  <2>3. m \in Msg /\ m.kind = "spawned"
    BY <2>2, MsgMade
  <2> HIDE DEF m
  <2> QED
    BY <1>2, <2>1, <2>3
<1>4. CASE Match
  <2> DEFINE pid == FindAncestor(client[Head(connQ)].peer)
             m == [kind |-> "connected", client |-> Head(connQ), pid |-> pid]
  <2>1. /\ tx' = IF pid = None THEN tx ELSE Append(tx, m)
        /\ UNCHANGED <<dispQ, made, destroyed, gone, track, docs, sid>>
    BY <1>4 DEF Match, osVars, hubVars, sessVars
  <2>2. pid \in Pids \cup {None} /\ Head(connQ) \in Clients
    BY <1>4, AncestorTyped DEF Match, Typed, TypeOK
  <2> HIDE DEF pid
  <2>3. pid # None => m \in Msg /\ m.kind = "connected"
    BY <2>2, MsgMade
  <2> HIDE DEF m
  <2>4. CASE pid = None
    BY <2>1, <2>4, GoneQuiet
  <2>5. CASE pid # None
    BY <1>2, <2>1, <2>3, <2>5
  <2> QED
    BY <2>4, <2>5
<1>5. CASE Forward
  <2>1. /\ dispQ # <<>> /\ dispQ' = Tail(dispQ) /\ tx' = Append(tx, Head(dispQ))
        /\ UNCHANGED <<made, destroyed, gone, track, docs, sid>>
    BY <1>5 DEF Forward, osVars, hubVars, sessVars
  <2>2. Lifecycle'
    BY <1>0, <2>1, PipelineForward DEF GoneInv, Lifecycle
  <2>3. Head(dispQ) \in Msg
    BY <1>0, <2>1, Dequeue
  <2>4. Truthful'
    BY <1>0, <2>1, <2>3, HappenedQueue DEF GoneInv, Truthful
  <2>5. Forgotten'
    BY <2>1 DEF GoneInv, Forgotten, GoneStaysGone, Attached
  <2> QED
    BY <2>2, <2>4, <2>5 DEF GoneInv
<1> QED
  BY <1>1, <1>3, <1>4, <1>5

(* What the backend does with the oldest message. *)
LEMMA GoneBackend ==
    ASSUME Typed, GoneInv,
           HandleSpawned \/ HandleConnected \/ HandleCreated \/ HandleDestroyed
    PROVE  GoneInv'
<1>0. /\ tx \in Seq(Msg) /\ dispQ \in Seq(Msg) /\ tx # <<>> /\ tx' = Tail(tx)
      /\ Head(tx) \in Msg
      /\ UNCHANGED <<dispQ, made, destroyed, sid>>
  BY Dequeue DEF Typed, TypeOK, HandleSpawned, HandleConnected, HandleCreated,
     HandleDestroyed, Taken, osVars, sideVars, sessVars
<1>1. Lifecycle'
  BY <1>0, PipelineRead DEF GoneInv, Lifecycle
<1>2. /\ AllHappened(dispQ', made', destroyed', gone)
      /\ AllHappened(tx', made', destroyed', gone)
      /\ Happened(Head(tx), made, destroyed, gone)
  BY <1>0, HappenedQueue DEF GoneInv, Truthful
<1>3. gone' = gone => Truthful'
  BY <1>0, <1>2 DEF GoneInv, Truthful
<1>4. CASE HandleSpawned
  <2>1. UNCHANGED <<track, docs, gone>>
    BY <1>4 DEF HandleSpawned
  <2>2. Forgotten'
    BY <1>0, <2>1 DEF GoneInv, Forgotten, GoneStaysGone, Attached
  <2> QED
    BY <1>1, <1>3, <2>1, <2>2 DEF GoneInv
<1>5. CASE HandleConnected
  <2> DEFINE W == CatchUp(sid, Head(tx).client)
  <2>1. /\ Attach(OriginOf(sid, Head(tx).pid), W)
        /\ UNCHANGED <<track, gone>>
    BY <1>5 DEF HandleConnected
  <2>2. W \cap gone = {}
    BY DEF CatchUp, GoneInv, Forgotten
  <2> HIDE DEF W
  <2>3. \A ws \in Workspaces : docs'[ws] \subseteq docs[ws] \cup W
    BY <2>1 DEF Attach, Typed, TypeOK
  <2>4. Forgotten'
    BY <1>0, <2>1, <2>2, <2>3 DEF GoneInv, Forgotten, GoneStaysGone, Attached
  <2> QED
    BY <1>1, <1>3, <2>1, <2>4 DEF GoneInv
<1>6. CASE HandleCreated
  <2> DEFINE w == Head(tx).win
  <2>1. /\ track' = track \cup {<<sid, Head(tx).client, w>>}
        /\ Attach(OriginOf(sid, procs[sid][Head(tx).client]), {w} \ popups)
        /\ Head(tx).kind = "created" /\ UNCHANGED gone
    BY <1>6 DEF HandleCreated, Taken
  <2>2. w \in Windows /\ w \notin gone
    <3>1. w \in Windows
      BY <1>0, <2>1, MsgShape
    <3> QED
      BY <1>2, <2>1, <3>1 DEF Happened, About
  <2> HIDE DEF w
  <2>3. \A ws \in Workspaces : docs'[ws] \subseteq docs[ws] \cup {w}
    BY <2>1 DEF Attach, Typed, TypeOK
  <2>4. Forgotten'
    BY <1>0, <2>1, <2>2, <2>3 DEF GoneInv, Forgotten, GoneStaysGone, Attached
  <2> QED
    BY <1>1, <1>3, <2>1, <2>4 DEF GoneInv
<1>7. CASE HandleDestroyed
  <2> DEFINE w == Head(tx).win
  <2>1. /\ track' = Forget(sid, w) /\ gone' = gone \cup {w}
        /\ docs' = [ws \in Workspaces |-> docs[ws] \ {w}]
        /\ Head(tx).kind = "destroyed"
    BY <1>7 DEF HandleDestroyed, Taken
  <2>2. w \in Windows
    BY <1>0, <2>1, MsgShape
  <2>3. About(Head(tx), w)
    BY <2>1 DEF About
  <2> HIDE DEF w
  <2>4. \A n : InOrder(Head(tx), n) => ~About(n, w)
    BY <2>1, <2>2, <2>3 DEF InOrder
  <2>5. /\ \A i \in 1..Len(tx') : ~About(tx'[i], w)
        /\ \A i \in 1..Len(dispQ') : ~About(dispQ'[i], w)
    BY <1>0, <2>4, PipelineRead DEF GoneInv, Lifecycle
  <2>6. /\ AllHappened(dispQ', made', destroyed', gone')
        /\ AllHappened(tx', made', destroyed', gone')
    BY <1>2, <2>1, <2>5 DEF AllHappened, Happened, About
  <2>7. w \in destroyed
    BY <1>2, <2>1, <2>2, <2>3 DEF Happened
  <2>8. Truthful'
    BY <1>0, <2>1, <2>6, <2>7 DEF GoneInv, Truthful
  <2>9. Forgotten'
    BY <1>0, <2>1 DEF GoneInv, Forgotten, GoneStaysGone, Attached, Forget
  <2> QED
    BY <1>1, <2>8, <2>9 DEF GoneInv
<1> QED
  BY <1>4, <1>5, <1>6, <1>7

(* Once the backend has handled a window's destruction, no later message,   *)
(* of this session or of a later one, puts it back on a canvas: sidecar     *)
(* channels keep a window's messages in order, and a tracker entry of a     *)
(* lost session is never looked up again.                                   *)
THEOREM SpawnGoneStaysGone == Spec => []GoneStaysGone
<1>1. Typed /\ GoneInv /\ [Next]_vars => GoneInv'
  <2> SUFFICES ASSUME Typed, GoneInv, [Next]_vars PROVE GoneInv'
    OBVIOUS
  <2>1. ASSUME \/ \E p, q \in Pids : Fork(p, q)
               \/ \E p \in Pids : Exit(p)
               \/ \E p \in Pids, c \in Clients : Connect(p, c)
               \/ SpawnFails
               \/ \E ws \in Workspaces : Request(ws)
               \/ UNCHANGED vars
        PROVE  GoneInv'
    <3>1. UNCHANGED <<dispQ, tx, made, destroyed, gone, sid, track, docs>>
      BY <2>1 DEF Fork, Exit, Connect, SpawnFails, Request, vars, osVars, sideVars,
         hubVars, sessVars
    <3> QED
      BY <3>1, GoneQuiet
  <2>2. ASSUME NEW s \in Sids, Cleanup(s) PROVE GoneInv'
    <3>1. /\ UNCHANGED <<dispQ, tx, made, destroyed, gone, sid, docs>>
          /\ track' \subseteq track
      BY <2>2 DEF Cleanup, osVars, sideVars
    <3> QED
      BY <3>1, GoneQuiet
  <2>3. ASSUME NEW ws \in Workspaces, NEW w \in Windows, Detach(ws, w) PROVE GoneInv'
    <3>1. /\ UNCHANGED <<dispQ, tx, made, destroyed, gone, sid, track>>
          /\ \A v \in Workspaces : docs'[v] \subseteq docs[v]
      BY <2>3 DEF Detach, sideVars, sessVars, Typed, TypeOK
    <3> QED
      BY <3>1, GoneQuiet
  <2> QED
    BY <2>1, <2>2, <2>3, GonePrograms, GoneSession, GoneBackend DEF Next
<1>2. GoneInv => GoneStaysGone
  BY DEF GoneInv, Forgotten
<1> QED
  BY GoneInit, TypedAlways, <1>1, <1>2, PTL DEF Spec

(***************************************************************************)
(* A window that overtook its client is caught up with.                    *)
(***************************************************************************)

(* Requests and answers, as they are handled, queued, served and dropped. *)
LEMMA AnswerRead ==
    ASSUME NEW q, NEW t \in Seq(Msg), NEW pn, OneAnswer(q, t, pn), t # <<>>
    PROVE  /\ OneAnswer(q, Tail(t), pn)
           /\ Head(t).kind = "spawned" =>
                /\ Head(t).req \in pn
                /\ OneAnswer(q, Tail(t), pn \ {Head(t).req})
<1>1. /\ Len(t) \in Nat /\ Len(Tail(t)) = Len(t) - 1 /\ Head(t) = t[1]
      /\ \A i \in 1..Len(Tail(t)) : Tail(t)[i] = t[i + 1]
      /\ Len(t) >= 1
  BY Dequeue
<1>2. \A i \in 1..Len(Tail(t)) : Tail(t)[i].kind = "spawned" =>
        Tail(t)[i].req \in pn /\ \A j \in 1..Len(q) : q[j] # Tail(t)[i].req
  BY <1>1 DEF OneAnswer
<1>3. \A i, j \in 1..Len(Tail(t)) :
        i # j /\ Tail(t)[i].kind = "spawned" /\ Tail(t)[j].kind = "spawned"
          => Tail(t)[i].req # Tail(t)[j].req
  BY <1>1 DEF OneAnswer
<1>4. ASSUME Head(t).kind = "spawned"
      PROVE  /\ Head(t).req \in pn
             /\ \A j \in 1..Len(q) : q[j] # Head(t).req
             /\ \A i \in 1..Len(Tail(t)) :
                  Tail(t)[i].kind = "spawned" => Tail(t)[i].req # Head(t).req
  BY <1>1, <1>4 DEF OneAnswer
<1> QED
  BY <1>2, <1>3, <1>4 DEF OneAnswer

LEMMA AnswerOther ==
    ASSUME NEW q, NEW t \in Seq(Msg), NEW pn, OneAnswer(q, t, pn), NEW m \in Msg,
           m.kind # "spawned"
    PROVE  OneAnswer(q, Append(t, m), pn)
<1> DEFINE u == Append(t, m)
<1>1. /\ Len(t) \in Nat /\ Len(u) = Len(t) + 1
      /\ \A i \in 1..Len(t) : u[i] = t[i]
      /\ u[Len(t) + 1] = m
  BY Enqueue
<1> HIDE DEF u
<1>2. \A i \in 1..Len(u) : u[i].kind = "spawned" => i \in 1..Len(t) /\ u[i] = t[i]
  BY <1>1
<1>3. OneAnswer(q, u, pn)
  BY <1>1, <1>2 DEF OneAnswer
<1> QED
  BY <1>3 DEF u

LEMMA AnswerSpawn ==
    ASSUME NEW S, NEW q \in Seq(S), NEW t \in Seq(Msg), NEW pn,
           OneAnswer(q, t, pn), q # <<>>
    PROVE  /\ OneAnswer(Tail(q), t, pn)
           /\ \A m \in Msg : m.kind = "spawned" /\ m.req = Head(q) =>
                OneAnswer(Tail(q), Append(t, m), pn)
<1>1. /\ Len(q) \in Nat /\ Len(Tail(q)) = Len(q) - 1 /\ Head(q) = q[1]
      /\ \A i \in 1..Len(Tail(q)) : Tail(q)[i] = q[i + 1]
      /\ Len(q) >= 1
  BY Dequeue
<1>2. /\ \A i \in 1..Len(Tail(q)) : Tail(q)[i] \in pn /\ Tail(q)[i] # Head(q)
      /\ \A i, j \in 1..Len(Tail(q)) : i # j => Tail(q)[i] # Tail(q)[j]
      /\ Head(q) \in pn
  BY <1>1 DEF OneAnswer
<1>3. \A i \in 1..Len(t) : t[i].kind = "spawned" =>
        /\ t[i].req \in pn /\ t[i].req # Head(q)
        /\ \A j \in 1..Len(Tail(q)) : Tail(q)[j] # t[i].req
  BY <1>1 DEF OneAnswer
<1>4. OneAnswer(Tail(q), t, pn)
  BY <1>2, <1>3 DEF OneAnswer
<1>5. ASSUME NEW m \in Msg, m.kind = "spawned", m.req = Head(q)
      PROVE  OneAnswer(Tail(q), Append(t, m), pn)
  <2> DEFINE u == Append(t, m)
  <2>1. /\ Len(t) \in Nat /\ Len(u) = Len(t) + 1
        /\ \A i \in 1..Len(t) : u[i] = t[i]
        /\ u[Len(t) + 1] = m
    BY Enqueue
  <2> HIDE DEF u
  <2>2. \A i \in 1..Len(u) : (i \in 1..Len(t) /\ u[i] = t[i]) \/ (i = Len(t) + 1 /\ u[i] = m)
    BY <2>1
  <2>3. \A i \in 1..Len(u) : u[i].kind = "spawned" =>
          u[i].req \in pn /\ \A j \in 1..Len(Tail(q)) : Tail(q)[j] # u[i].req
    BY <1>2, <1>3, <1>5, <2>2
  <2>4. \A i, j \in 1..Len(u) :
          i # j /\ u[i].kind = "spawned" /\ u[j].kind = "spawned" => u[i].req # u[j].req
    BY <1>3, <1>5, <2>2 DEF OneAnswer
  <2> QED
    BY <1>2, <2>3, <2>4 DEF OneAnswer, u
<1> QED
  BY <1>4, <1>5

LEMMA AnswerRequest ==
    ASSUME NEW S, NEW q \in Seq(S), NEW t, NEW pn, OneAnswer(q, t, pn),
           NEW r \in S, r \notin pn
    PROVE  /\ OneAnswer(q, t, pn \cup {r})
           /\ OneAnswer(Append(q, r), t, pn \cup {r})
<1> DEFINE u == Append(q, r)
<1>1. /\ Len(q) \in Nat /\ Len(u) = Len(q) + 1
      /\ \A i \in 1..Len(q) : u[i] = q[i]
      /\ u[Len(q) + 1] = r
  BY Enqueue
<1> HIDE DEF u
<1>2. \A i \in 1..Len(u) : (i \in 1..Len(q) /\ u[i] = q[i]) \/ (i = Len(q) + 1 /\ u[i] = r)
  BY <1>1
<1>3. OneAnswer(u, t, pn \cup {r})
  BY <1>2 DEF OneAnswer
<1> QED
  BY <1>3 DEF OneAnswer, u

(* What the backend will know, when it reads on and when messages come in. *)
LEMMA KnownRead ==
    ASSUME NEW t \in Seq(Msg), t # <<>>, NEW s, NEW og, NEW og2,
           \A p \in Pids : og[<<s, p>>] # None => og2[<<s, p>>] # None,
           Head(t).kind = "spawned" => og2[<<s, Head(t).pid>>] # None
    PROVE  /\ \A p \in Pids, n \in Nat :
                Known(p, t, n + 1, s, og) => Known(p, Tail(t), n, s, og2)
           /\ AllKnown(t, s, og) => AllKnown(Tail(t), s, og2)
<1>1. /\ Len(t) \in Nat /\ Len(Tail(t)) = Len(t) - 1 /\ Head(t) = t[1]
      /\ \A i \in 1..Len(Tail(t)) : Tail(t)[i] = t[i + 1]
      /\ Len(t) >= 1
  BY Dequeue
<1>2. ASSUME NEW p \in Pids, NEW n \in Nat, Known(p, t, n + 1, s, og)
      PROVE  Known(p, Tail(t), n, s, og2)
  <2>1. CASE og[<<s, p>>] # None
    BY <2>1 DEF Known
  <2>2. ASSUME NEW i \in 1..Len(t), i < n + 1, t[i].kind = "spawned", t[i].pid = p
        PROVE  Known(p, Tail(t), n, s, og2)
    <3>1. CASE i = 1
      BY <1>1, <2>2, <3>1 DEF Known
    <3>2. CASE i # 1
      <4>1. i - 1 \in 1..Len(Tail(t)) /\ Tail(t)[i - 1] = t[i] /\ i - 1 < n
        BY <1>1, <2>2, <3>2
      <4> QED
        BY <2>2, <4>1 DEF Known
    <3> QED
      BY <3>1, <3>2
  <2> QED
    BY <1>2, <2>1, <2>2 DEF Known
<1>3. ASSUME AllKnown(t, s, og) PROVE AllKnown(Tail(t), s, og2)
  <2>1. \A j \in 1..Len(t) : t[j].kind = "connected" => t[j].pid \in Pids
    BY MsgShape
  <2> QED
    BY <1>1, <1>2, <1>3, <2>1 DEF AllKnown
<1> QED
  BY <1>2, <1>3

LEMMA KnownAppend ==
    ASSUME NEW t \in Seq(Msg), NEW m \in Msg, NEW s, NEW og
    PROVE  /\ \A p : Known(p, t, Len(t) + 1, s, og) => Known(p, Append(t, m), Len(t) + 2, s, og)
           /\ m.kind = "spawned" => Known(m.pid, Append(t, m), Len(t) + 2, s, og)
           /\ AllKnown(t, s, og)
                /\ (m.kind = "connected" => Known(m.pid, t, Len(t) + 1, s, og))
                => AllKnown(Append(t, m), s, og)
<1> DEFINE u == Append(t, m)
<1>1. /\ Len(t) \in Nat /\ Len(u) = Len(t) + 1
      /\ \A i \in 1..Len(t) : u[i] = t[i]
      /\ u[Len(t) + 1] = m
  BY Enqueue
<1> HIDE DEF u
<1>2. \A p : \A n, k \in Nat : n <= k /\ Known(p, t, n, s, og) => Known(p, u, k, s, og)
  BY <1>1 DEF Known
<1>3. m.kind = "spawned" => Known(m.pid, u, Len(t) + 2, s, og)
  BY <1>1 DEF Known
<1>4. ASSUME AllKnown(t, s, og),
             m.kind = "connected" => Known(m.pid, t, Len(t) + 1, s, og)
      PROVE  AllKnown(u, s, og)
  BY <1>1, <1>2, <1>4 DEF AllKnown
<1> QED
  BY <1>1, <1>2, <1>3, <1>4 DEF u

LEMMA CaughtUpInit == Init => CaughtUpInv
<1> SUFFICES ASSUME Init PROVE CaughtUpInv
  OBVIOUS
<1>1. OneAnswer(cmds, tx, pending)
  BY DEF Init, OneAnswer
<1>2. OriginFirst
  BY DEF Init, OriginFirst, AllKnown
<1>3. CaughtUp(track, procs, OffCanvas, Attached)
  BY DEF Init, CaughtUp
<1> QED
  BY <1>1, <1>2, <1>3 DEF CaughtUpInv

(* Steps of the programs, of the X server and of a user of the canvas. *)
LEMMA CaughtUpQuiet ==
    ASSUME Typed, CaughtUpInv,
           UNCHANGED <<cmds, tx, pending, history, sid, origin, procs, track>>,
           OffCanvas \subseteq OffCanvas', Attached \subseteq OffCanvas' \cup Attached'
    PROVE  CaughtUpInv'
<1>1. OneAnswer(cmds, tx, pending)' /\ OriginFirst'
  BY DEF CaughtUpInv, OriginFirst
<1>2. CaughtUp(track, procs, OffCanvas, Attached)'
  BY DEF CaughtUpInv, CaughtUp
<1> QED
  BY <1>1, <1>2 DEF CaughtUpInv

LEMMA CaughtUpPrograms ==
    ASSUME Typed, CaughtUpInv,
           \/ \E p, q \in Pids : Fork(p, q)
           \/ \E p \in Pids : Exit(p)
           \/ \E p \in Pids, c \in Clients : Connect(p, c)
           \/ \E w \in Windows, c \in Clients, popup \in BOOLEAN :
                CreateWindow(w, c, popup)
           \/ \E w \in Windows : DestroyWindow(w)
           \/ \E ws \in Workspaces, w \in Windows : Detach(ws, w)
           \/ UNCHANGED vars
    PROVE  CaughtUpInv'
<1>1. UNCHANGED <<cmds, tx, pending, history, sid, origin, procs, track>>
  BY DEF Fork, Exit, Connect, CreateWindow, DestroyWindow, Detach, vars, osVars,
     sideVars, hubVars, sessVars
<1>2. OffCanvas \subseteq OffCanvas'
  BY DEF Fork, Exit, Connect, CreateWindow, DestroyWindow, Detach, vars, osVars,
     hubVars, OffCanvas
<1>3. Attached \subseteq OffCanvas' \cup Attached'
  <2>1. ASSUME NEW ws \in Workspaces, NEW w \in Windows, Detach(ws, w)
        PROVE  Attached \subseteq OffCanvas' \cup Attached'
    <3>1. /\ freed' = freed \cup {w}
          /\ \A v \in Workspaces : docs[v] \subseteq docs'[v] \cup {w}
      BY <2>1 DEF Detach, Typed, TypeOK
    <3> QED
      BY <3>1 DEF Attached, OffCanvas
  <2>2. ASSUME UNCHANGED docs PROVE Attached \subseteq OffCanvas' \cup Attached'
    BY <2>2 DEF Attached
  <2> QED
    BY <2>1, <2>2 DEF Fork, Exit, Connect, CreateWindow, DestroyWindow, vars, hubVars
<1> QED
  BY <1>1, <1>2, <1>3, CaughtUpQuiet

(* Sessions, and requests waiting for one. *)
LEMMA CaughtUpRequests ==
    ASSUME Typed, CaughtUpInv,
           \/ SessionUp \/ SessionDown \/ SpawnFails
           \/ \E ws \in Workspaces : Request(ws)
    PROVE  CaughtUpInv'
<1>0. tx \in Seq(Msg) /\ cmds \in Seq(1..Len(asked)) /\ Len(asked) \in Nat
  BY DEF Typed, TypeOK
<1>1. UNCHANGED <<track, procs, origin, OffCanvas, Attached>>
  BY DEF SessionUp, SessionDown, SpawnFails, Request, osVars, hubVars, OffCanvas, Attached
<1>2. CaughtUp(track, procs, OffCanvas, Attached)'
  BY <1>1 DEF CaughtUpInv
<1>3. CASE SessionUp \/ SessionDown
  <2>1. cmds' = <<>> /\ tx' = <<>> /\ history' = {}
    BY <1>3 DEF SessionUp, SessionDown
  <2>2. OneAnswer(cmds, tx, pending)'
    BY <2>1 DEF OneAnswer
  <2>3. OriginFirst'
    BY <1>1, <2>1 DEF CaughtUpInv, OriginFirst, AllKnown
  <2> QED
    BY <1>2, <2>2, <2>3 DEF CaughtUpInv
<1>4. CASE SpawnFails
  <2>1. cmds # <<>> /\ cmds' = Tail(cmds) /\ UNCHANGED <<tx, pending, history, sid>>
    BY <1>4 DEF SpawnFails, hubVars, sessVars
  <2>2. OneAnswer(cmds, tx, pending)'
    BY <1>0, <2>1, AnswerSpawn DEF CaughtUpInv
  <2>3. OriginFirst'
    BY <1>1, <2>1 DEF CaughtUpInv, OriginFirst
  <2> QED
    BY <1>2, <2>2, <2>3 DEF CaughtUpInv
<1>5. ASSUME NEW ws \in Workspaces, Request(ws) PROVE CaughtUpInv'
  <2> DEFINE r == Len(asked) + 1
  <2>1. /\ pending' = pending \cup {r}
        /\ cmds' = IF sid = 0 THEN cmds ELSE Append(cmds, r)
        /\ UNCHANGED <<tx, history, sid>>
    BY <1>5 DEF Request, osVars, sessVars
  <2>2. r \notin pending
    BY <1>0 DEF Typed, TypeOK
  <2>3. cmds \in Seq(1..r) /\ r \in 1..r
    <3>1. 1..Len(asked) \subseteq 1..r
      BY <1>0
    <3> QED
      BY <1>0, <3>1, SeqMonotone
  <2> HIDE DEF r
  <2>4. OneAnswer(cmds, tx, pending)'
    BY <2>1, <2>2, <2>3, AnswerRequest DEF CaughtUpInv
  <2>5. OriginFirst'
    BY <1>1, <2>1 DEF CaughtUpInv, OriginFirst
  <2> QED
    BY <1>2, <2>4, <2>5 DEF CaughtUpInv
<1> QED
  BY <1>3, <1>4, <1>5

(* The sidecar writes a message: a connection is reported only for a pid    *)
(* whose Spawned went out before.                                           *)
LEMMA CaughtUpMessages ==
    ASSUME Typed, CaughtUpInv, Match \/ Forward \/ \E p \in Pids : Spawn(p)
    PROVE  CaughtUpInv'
<1>0. /\ tx \in Seq(Msg) /\ cmds \in Seq(1..Len(asked))
      /\ Len(tx) \in Nat /\ sid # 0
  <2>1. sid # 0
    BY DEF Match, Forward, Spawn
  <2> QED
    BY <2>1 DEF Typed, TypeOK
<1>1. UNCHANGED <<track, procs, origin, sid, pending, OffCanvas, Attached>>
  <2>1. UNCHANGED <<track, procs, origin, sid, pending, popups, freed, gone, docs>>
    BY DEF Match, Forward, Spawn, osVars, hubVars, sessVars
  <2> QED
    BY <2>1 DEF OffCanvas, Attached
<1>2. CaughtUp(track, procs, OffCanvas, Attached)'
  BY <1>1 DEF CaughtUpInv
<1>3. ASSUME NEW m \in Msg, m.kind # "spawned",
             m.kind = "connected" => m.pid \in history,
             tx' = Append(tx, m), UNCHANGED <<cmds, history>>
      PROVE  CaughtUpInv'
  <2>1. OneAnswer(cmds, tx, pending)'
    BY <1>0, <1>1, <1>3, AnswerOther DEF CaughtUpInv
  <2>2. Len(tx') + 1 = Len(tx) + 2
    BY <1>0, <1>3, Enqueue
  <2>3. AllKnown(tx', sid, origin)
    BY <1>0, <1>3, KnownAppend DEF CaughtUpInv, OriginFirst
  <2>4. \A p \in history : Known(p, tx', Len(tx') + 1, sid, origin)
    BY <1>0, <1>3, <2>2, KnownAppend DEF CaughtUpInv, OriginFirst
  <2>5. OriginFirst'
    BY <1>0, <1>1, <1>3, <2>3, <2>4 DEF CaughtUpInv, OriginFirst
  <2> QED
    BY <1>2, <2>1, <2>5 DEF CaughtUpInv
<1>4. CASE Forward
  <2>1. dispQ # <<>> /\ tx' = Append(tx, Head(dispQ)) /\ UNCHANGED <<cmds, history>>
    BY <1>4 DEF Forward
  <2>2. Head(dispQ) \in Display
    BY <2>1, Dequeue DEF Typed
  <2> QED
    BY <1>3, <2>1, <2>2, DisplayMade
<1>5. CASE Match
  <2> DEFINE pid == FindAncestor(client[Head(connQ)].peer)
             m == [kind |-> "connected", client |-> Head(connQ), pid |-> pid]
  <2>1. /\ tx' = IF pid = None THEN tx ELSE Append(tx, m)
        /\ UNCHANGED <<cmds, history>>
    BY <1>5 DEF Match
  <2>2. pid \in history \cup {None} /\ history \subseteq Pids /\ Head(connQ) \in Clients
    BY <1>5, AncestorTyped DEF Match, Typed, TypeOK
  <2> HIDE DEF pid
  <2>3. pid # None => m \in Msg /\ m.kind = "connected" /\ m.pid \in history
    BY <2>2, MsgMade
  <2> HIDE DEF m
  <2>4. CASE pid = None
    BY <1>1, <1>2, <2>1, <2>4 DEF CaughtUpInv, OriginFirst
  <2>5. CASE pid # None
    BY <1>3, <2>1, <2>3, <2>5
  <2> QED
    BY <2>4, <2>5
<1>6. ASSUME NEW p \in Pids, Spawn(p) PROVE CaughtUpInv'
  <2> DEFINE m == [kind |-> "spawned", req |-> Head(cmds), pid |-> p]
  <2>1. /\ tx' = Append(tx, m) /\ cmds # <<>> /\ cmds' = Tail(cmds)
        /\ history' = history \cup {p}
    BY <1>6 DEF Spawn
  <2>2. Head(cmds) \in 1..MaxRequests
    <3>1. Head(cmds) \in 1..Len(asked) /\ Len(asked) \in Nat /\ Len(asked) <= MaxRequests
      BY <2>1, Dequeue DEF Typed
    <3> QED
      BY <3>1, BoundsAssumption
  <2>3. m \in Msg /\ m.kind = "spawned" /\ m.req = Head(cmds) /\ m.pid = p
    BY <2>2, MsgMade
  <2> HIDE DEF m
  <2>4. OneAnswer(cmds, tx, pending)'
    BY <1>0, <1>1, <2>1, <2>3, AnswerSpawn DEF CaughtUpInv
  <2>5. Len(tx') + 1 = Len(tx) + 2
    BY <1>0, <2>1, <2>3, Enqueue
  <2>6. AllKnown(tx', sid, origin)
    BY <1>0, <2>1, <2>3, KnownAppend DEF CaughtUpInv, OriginFirst
  <2>7. \A q \in history' : Known(q, tx', Len(tx') + 1, sid, origin)
    BY <1>0, <2>1, <2>3, <2>5, KnownAppend DEF CaughtUpInv, OriginFirst
  <2>8. OriginFirst'
    BY <1>0, <1>1, <2>1, <2>6, <2>7 DEF CaughtUpInv, OriginFirst
  <2> QED
    BY <1>2, <2>4, <2>8 DEF CaughtUpInv
<1> QED
  BY <1>4, <1>5, <1>6

LEMMA CaughtUpBackend ==
    ASSUME Typed, CaughtUpInv,
           HandleSpawned \/ HandleConnected \/ HandleCreated \/ HandleDestroyed
    PROVE  CaughtUpInv'
<1>0. /\ tx \in Seq(Msg) /\ tx # <<>> /\ tx' = Tail(tx) /\ sid \in Sids
      /\ Head(tx) \in Msg /\ Len(tx) \in Nat /\ Len(tx') = Len(tx) - 1
      /\ UNCHANGED <<cmds, history, sid>>
  BY Dequeue, BoundsAssumption
     DEF Typed, TypeOK, HandleSpawned, HandleConnected, HandleCreated,
         HandleDestroyed, Taken, sideVars, sessVars, Sids
<1>1. ASSUME \A p \in Pids : origin[<<sid, p>>] # None => origin'[<<sid, p>>] # None,
             Head(tx).kind = "spawned" => origin'[<<sid, Head(tx).pid>>] # None
      PROVE  /\ AllKnown(tx', sid, origin')
             /\ \A p \in history : Known(p, tx', Len(tx') + 1, sid, origin')
  <2>1. \A p \in Pids, n \in Nat :
          Known(p, tx, n + 1, sid, origin) => Known(p, tx', n, sid, origin')
    BY <1>0, <1>1, KnownRead
  <2>2. Len(tx') + 1 \in Nat /\ (Len(tx') + 1) + 1 = Len(tx) + 1
    BY <1>0
  <2>3. \A p \in history : p \in Pids /\ Known(p, tx, Len(tx) + 1, sid, origin)
    BY DEF CaughtUpInv, OriginFirst, Typed, TypeOK
  <2>4. AllKnown(tx', sid, origin')
    BY <1>0, <1>1, KnownRead DEF CaughtUpInv, OriginFirst
  <2> QED
    BY <2>1, <2>2, <2>3, <2>4
<1>2. CASE HandleSpawned
  <2>1. /\ Head(tx).kind = "spawned" /\ UNCHANGED <<procs, track, docs>>
        /\ pending' = pending \ {Head(tx).req} /\ UNCHANGED OffCanvas
        /\ origin' = IF Head(tx).req \in pending
                       THEN [origin EXCEPT ![<<sid, Head(tx).pid>>] = asked[Head(tx).req]]
                       ELSE origin
    BY <1>2 DEF HandleSpawned, Taken, osVars, OffCanvas
  <2>2. Head(tx).req \in pending /\ OneAnswer(cmds, tx, pending)'
    BY <1>0, <2>1, AnswerRead DEF CaughtUpInv
  <2>3. asked[Head(tx).req] \in Workspaces
    <3>1. \A r \in 1..Len(asked) : asked[r] \in Workspaces
      BY DEF Typed
    <3> QED
      BY <2>2, <3>1 DEF Typed, TypeOK
  <2>4. /\ \A s \in Sids, p \in Pids : origin[<<s, p>>] # None => origin'[<<s, p>>] # None
        /\ origin'[<<sid, Head(tx).pid>>] # None
    <3>1. Head(tx).pid \in Pids
      BY <1>0, <2>1, MsgShape
    <3> QED
      BY <1>0, <2>1, <2>2, <2>3, <3>1, NoneAssumption DEF Typed, TypeOK
  <2>5. OriginFirst'
    <3>1. \A s \in Sids, c \in Clients : procs[s][c] \in Pids \cup {None}
      BY DEF Typed, TypeOK
    <3>2. \A s \in Sids, c \in Clients :
            procs[s][c] # None => origin'[<<s, procs[s][c]>>] # None
      BY <2>4, <3>1 DEF CaughtUpInv, OriginFirst
    <3>3. sid # 0
      BY <1>0, BoundsAssumption DEF Sids
    <3> QED
      BY <1>0, <1>1, <2>1, <2>4, <3>2, <3>3 DEF OriginFirst
  <2>6. CaughtUp(track, procs, OffCanvas, Attached)'
    BY <2>1 DEF CaughtUpInv, Attached
  <2> QED
    BY <2>2, <2>5, <2>6 DEF CaughtUpInv
<1>3. ASSUME HandleConnected \/ HandleCreated \/ HandleDestroyed
      PROVE  /\ OneAnswer(cmds, tx, pending)' /\ UNCHANGED origin
             /\ (\A s \in Sids, c \in Clients :
                   procs'[s][c] # None => origin[<<s, procs'[s][c]>>] # None) => OriginFirst'
  <2>1. Head(tx).kind # "spawned" /\ UNCHANGED <<pending, origin>>
    BY <1>3 DEF HandleConnected, HandleCreated, HandleDestroyed, Taken
  <2>2. OneAnswer(cmds, tx, pending)'
    BY <1>0, <2>1, AnswerRead DEF CaughtUpInv
  <2>3. sid # 0
    BY <1>0, BoundsAssumption DEF Sids
  <2> QED
    BY <1>0, <1>1, <2>1, <2>2, <2>3 DEF OriginFirst
<1>4. CASE HandleConnected
  <2> DEFINE c == Head(tx).client  pid == Head(tx).pid
  <2>1. /\ Head(tx).kind = "connected" /\ UNCHANGED <<track, OffCanvas>>
        /\ procs' = [procs EXCEPT ![sid][c] = pid]
        /\ Attach(origin[<<sid, pid>>], CatchUp(sid, c))
    <3>1. Head(tx).kind = "connected" /\ pid # None
      BY <1>0, <1>4, MsgShape, NoneAssumption DEF HandleConnected, Taken
    <3> QED
      BY <1>4, <3>1 DEF HandleConnected, osVars, OffCanvas, OriginOf
  <2>2. c \in Clients /\ pid \in Pids
    BY <1>0, <2>1, MsgShape
  <2>3. origin[<<sid, pid>>] # None
    <3>1. tx[1].kind = "connected" /\ tx[1].pid = pid /\ 1 \in 1..Len(tx)
      BY <1>0, <2>1, Dequeue
    <3> QED
      BY <3>1 DEF CaughtUpInv, OriginFirst, AllKnown, Known
  <2> HIDE DEF c, pid
  <2>4. \A s \in Sids, d \in Clients :
          procs'[s][d] = IF s = sid /\ d = c THEN pid ELSE procs[s][d]
    BY <1>0, <2>1, <2>2 DEF Typed, TypeOK
  <2>5. OriginFirst'
    BY <1>3, <1>4, <2>3, <2>4 DEF CaughtUpInv, OriginFirst
  <2>6. Attached' = Attached \cup CatchUp(sid, c)
    <3>1. origin[<<sid, pid>>] \in Workspaces
      BY <1>0, <2>2, <2>3 DEF Typed, TypeOK
    <3>2. docs' = [docs EXCEPT ![origin[<<sid, pid>>]] = @ \cup CatchUp(sid, c)]
      BY <2>1, <2>3 DEF Attach
    <3>3. \A ws \in Workspaces : docs'[ws] =
            IF ws = origin[<<sid, pid>>] THEN docs[ws] \cup CatchUp(sid, c) ELSE docs[ws]
      BY <3>1, <3>2 DEF Typed, TypeOK
    <3>4. \A w : w \in Attached' <=> \E ws \in Workspaces : w \in docs'[ws]
      BY DEF Attached
    <3>5. \A w : w \in Attached <=> \E ws \in Workspaces : w \in docs[ws]
      BY DEF Attached
    <3> QED
      BY <3>1, <3>3, <3>4, <3>5
  <2>7. \A k \in track : k[1] \in Sids /\ k[2] \in Clients /\ k[3] \in Windows
                        /\ k = <<k[1], k[2], k[3]>>
    BY DEF Typed, TypeOK
  <2>8. ASSUME NEW k \in track, procs'[k[1]][k[2]] # None
        PROVE  k[3] \in OffCanvas \cup Attached'
    <3>1. CASE k[1] = sid /\ k[2] = c
      <4>1. <<sid, c, k[3]>> \in track /\ k[3] \in Windows
        BY <2>7, <3>1
      <4> QED
        BY <2>6, <4>1 DEF CatchUp, OffCanvas
    <3>2. CASE ~(k[1] = sid /\ k[2] = c)
      BY <2>4, <2>6, <2>7, <2>8, <3>2 DEF CaughtUpInv, CaughtUp
    <3> QED
      BY <3>1, <3>2
  <2>9. CaughtUp(track, procs, OffCanvas, Attached)'
    BY <2>1, <2>8 DEF CaughtUp
  <2> QED
    BY <1>3, <1>4, <2>5, <2>9 DEF CaughtUpInv
<1>5. CASE HandleCreated
  <2> DEFINE c == Head(tx).client  w == Head(tx).win
  <2>1. /\ Head(tx).kind = "created" /\ UNCHANGED <<procs, OffCanvas>>
        /\ track' = track \cup {<<sid, c, w>>}
        /\ Attach(OriginOf(sid, procs[sid][c]), {w} \ popups)
    BY <1>5 DEF HandleCreated, Taken, osVars, OffCanvas
  <2>2. c \in Clients /\ w \in Windows
    BY <1>0, <2>1, MsgShape
  <2> HIDE DEF c, w
  <2>3. OriginFirst'
    BY <1>3, <1>5, <2>1 DEF CaughtUpInv, OriginFirst
  <2>4. Attached \subseteq Attached'
    BY <2>1 DEF Attach, Attached, Typed, TypeOK
  <2>5. ASSUME procs[sid][c] # None PROVE w \in OffCanvas \cup Attached'
    <3>1. OriginOf(sid, procs[sid][c]) \in Workspaces
      BY <1>0, <2>2, <2>5 DEF OriginOf, CaughtUpInv, OriginFirst, Typed, TypeOK
    <3>2. OriginOf(sid, procs[sid][c]) # None
      BY <3>1, NoneAssumption
    <3> DEFINE ws == OriginOf(sid, procs[sid][c])
    <3> HIDE DEF ws
    <3>3. docs' = [docs EXCEPT ![ws] = @ \cup ({w} \ popups)] /\ ws \in Workspaces
      BY <2>1, <3>1, <3>2 DEF Attach, ws
    <3>4. docs'[ws] = docs[ws] \cup ({w} \ popups)
      BY <3>3 DEF Typed, TypeOK
    <3> QED
      BY <3>3, <3>4 DEF Attached, OffCanvas
  <2>6. CaughtUp(track, procs, OffCanvas, Attached)'
    <3>1. \A k \in track' : k \in track \/ (k[1] = sid /\ k[2] = c /\ k[3] = w)
      BY <2>1
    <3> QED
      BY <2>1, <2>4, <2>5, <3>1 DEF CaughtUpInv, CaughtUp
  <2> QED
    BY <1>3, <1>5, <2>3, <2>6 DEF CaughtUpInv
<1>6. CASE HandleDestroyed
  <2> DEFINE w == Head(tx).win
  <2>1. /\ UNCHANGED <<procs, popups, freed>> /\ track' = Forget(sid, w)
        /\ docs' = [ws \in Workspaces |-> docs[ws] \ {w}] /\ gone' = gone \cup {w}
    BY <1>6 DEF HandleDestroyed, osVars
  <2>2. OriginFirst'
    BY <1>3, <1>6, <2>1 DEF CaughtUpInv, OriginFirst
  <2> HIDE DEF w
  <2>3. OffCanvas \cup Attached \subseteq OffCanvas' \cup Attached'
    BY <2>1 DEF OffCanvas, Attached
  <2>4. track' \subseteq track
    BY <2>1 DEF Forget
  <2>5. CaughtUp(track, procs, OffCanvas, Attached)'
    BY <2>1, <2>3, <2>4 DEF CaughtUpInv, CaughtUp
  <2> QED
    BY <1>3, <1>6, <2>2, <2>5 DEF CaughtUpInv
<1> QED
  BY <1>2, <1>4, <1>5, <1>6

(* cleanup_sidecar forgets the clients and the windows of one session at    *)
(* once, whichever session runs by then.                                    *)
LEMMA CaughtUpCleanup ==
    ASSUME Typed, CaughtUpInv, NEW s \in Sids, Cleanup(s)
    PROVE  CaughtUpInv'
<1>1. /\ UNCHANGED <<cmds, tx, pending, history, sid, origin, OffCanvas, Attached>>
      /\ procs' = [procs EXCEPT ![s] = [c \in Clients |-> None]]
      /\ track' = {k \in track : k[1] # s}
  BY DEF Cleanup, osVars, sideVars, OffCanvas, Attached
<1>2. \A r \in Sids, c \in Clients : procs'[r][c] = IF r = s THEN None ELSE procs[r][c]
  BY <1>1 DEF Typed, TypeOK
<1>3. OriginFirst'
  BY <1>1, <1>2 DEF CaughtUpInv, OriginFirst
<1>4. CaughtUp(track, procs, OffCanvas, Attached)'
  <2>1. \A k \in track : k[1] \in Sids /\ k[2] \in Clients
    BY DEF Typed, TypeOK
  <2> QED
    BY <1>1, <1>2, <2>1 DEF CaughtUpInv, CaughtUp
<1> QED
  BY <1>1, <1>3, <1>4 DEF CaughtUpInv

(* A window that the backend hears of before its client connects (the two   *)
(* come through different channels) is on a canvas once both are known: a   *)
(* pid is reported only after its Spawned message, so that its origin is    *)
(* known by then, and attach_windows_for_new_client takes what came first.  *)
(* Holds whether or not the kernel reuses pids.                             *)
THEOREM SpawnRaceCaughtUp == Spec => []RaceCaughtUp
<1>1. Typed /\ CaughtUpInv /\ [Next]_vars => CaughtUpInv'
  BY CaughtUpPrograms, CaughtUpRequests, CaughtUpMessages, CaughtUpBackend,
     CaughtUpCleanup DEF Next
<1>2. CaughtUpInv => RaceCaughtUp
  <2> SUFFICES ASSUME CaughtUpInv, NEW k \in track, k[3] \notin OffCanvas,
                      OriginOf(k[1], procs[k[1]][k[2]]) # None
               PROVE  k[3] \in Attached
    BY DEF RaceCaughtUp, OffCanvas
  <2> QED
    BY DEF CaughtUpInv, CaughtUp, OriginOf
<1> QED
  BY CaughtUpInit, TypedAlways, <1>1, <1>2, PTL DEF Spec

(***************************************************************************)
(* No window on the canvas of a workspace that did not ask for it.         *)
(***************************************************************************)

(* The walk of find_ancestor_pid up the process table exists: a function    *)
(* that starts at p and takes each number to the parent of the one before.  *)
LEMMA WalkExists ==
    ASSUME Typed, NEW p \in Pids
    PROVE  \A n \in Nat :
             \E f \in [0..n -> Pids \cup {Init_}] :
               f[0] = p /\ \A i \in 1..n : f[i] = ParentOf(f[i - 1])
<1> DEFINE Walk(f, n) == f[0] = p /\ \A i \in 1..n : f[i] = ParentOf(f[i - 1])
           F(n) == [0..n -> Pids \cup {Init_}]
           T == {n \in Nat : ~ \E f \in F(n) : Walk(f, n)}
<1>1. SUFFICES ASSUME T # {} PROVE FALSE
  OBVIOUS
<1>2. PICK m \in T : \A k \in T : m <= k
  <2> HIDE DEF T
  <2>1. T \subseteq Nat
    BY DEF T
  <2> QED
    BY <1>1, <2>1, LeastNumber
<1>3. \A q \in Pids \cup {Init_} : ParentOf(q) \in Pids \cup {Init_}
  BY DEF ParentOf, Typed, TypeOK
<1>4. CASE m = 0
  <2> DEFINE f == [i \in 0..0 |-> p]
  <2>1. f \in F(0) /\ Walk(f, 0)
    OBVIOUS
  <2> QED
    BY <1>2, <1>4, <2>1
<1>5. CASE m # 0
  <2>1. m - 1 \in Nat /\ m - 1 \notin T /\ m \in Nat
    <3>1. m \in Nat
      BY <1>2
    <3> HIDE DEF T
    <3> QED
      BY <1>2, <1>5, <3>1
  <2>2. PICK g \in F(m - 1) : Walk(g, m - 1)
    BY <2>1
  <2> DEFINE f == [i \in 0..m |-> IF i = m THEN ParentOf(g[m - 1]) ELSE g[i]]
  <2>3. f \in F(m)
    BY <1>3, <2>1, <2>2
  <2>4. f[0] = p /\ \A i \in 1..m : f[i] = ParentOf(f[i - 1])
    <3>1. /\ \A i \in 0..m - 1 : i \in 0..m /\ i # m /\ f[i] = g[i]
          /\ f[m] = ParentOf(g[m - 1]) /\ 0 \in 0..m - 1
      BY <1>5, <2>1
    <3>2. \A i \in 1..m - 1 : i - 1 \in 0..m - 1 /\ i \in 0..m - 1
      BY <2>1
    <3>3. \A i \in 1..m - 1 : f[i] = ParentOf(f[i - 1])
      BY <2>2, <3>1, <3>2
    <3>4. m - 1 \in 0..m - 1 /\ \A i \in 1..m : i = m \/ i \in 1..m - 1
      BY <1>5, <2>1
    <3>5. f[m] = ParentOf(f[m - 1])
      BY <3>1, <3>4
    <3> HIDE DEF f
    <3> QED
      BY <2>2, <3>1, <3>3, <3>4, <3>5
  <2> QED
    BY <1>2, <2>3, <2>4
<1> QED
  BY <1>4, <1>5

(* Every pid of the walk stems from the request that p stems from: so does  *)
(* the pid that find_ancestor_pid answers with.                             *)
LEMMA AncestorRelated ==
    ASSUME Typed, Lineage, NEW p \in Pids, proc[p].used, FindAncestor(p) # None
    PROVE  /\ FindAncestor(p) \in history
           /\ proc[FindAncestor(p)].used /\ proc[FindAncestor(p)].ws = proc[p].ws
<1> DEFINE walk[n \in 0..MaxDepth] == IF n = 0 THEN p ELSE ParentOf(walk[n - 1])
           hits == {n \in 0..MaxDepth : walk[n] \in history}
<1>1. FindAncestor(p) = IF hits = {} THEN None ELSE walk[Min(hits)]
  BY DEF FindAncestor
<1>2. walk = [n \in 0..MaxDepth |-> IF n = 0 THEN p ELSE ParentOf(walk[n - 1])]
  <2>1. PICK f \in [0..MaxDepth -> Pids \cup {Init_}] :
          f[0] = p /\ \A i \in 1..MaxDepth : f[i] = ParentOf(f[i - 1])
    BY WalkExists, DepthAssumption
  <2>2. f = [n \in 0..MaxDepth |-> IF n = 0 THEN p ELSE ParentOf(f[n - 1])]
    BY <2>1, DepthAssumption
  <2> QED
    BY <2>2
<1> HIDE DEF walk
<1>3. walk[0] = p /\ \A n \in 1..MaxDepth : walk[n] = ParentOf(walk[n - 1])
  BY <1>2, DepthAssumption
<1> DEFINE Kin(q) == q = Init_ \/ (q \in Pids /\ proc[q].used /\ proc[q].ws = proc[p].ws)
<1>4. \A q : Kin(q) => Kin(ParentOf(q))
  BY DEF ParentOf, Lineage, Typed, TypeOK
<1>5. \A n \in 0..MaxDepth : Kin(walk[n])
  <2> DEFINE T == {n \in 0..MaxDepth : ~Kin(walk[n])}
  <2> HIDE DEF Kin
  <2>1. SUFFICES ASSUME T # {} PROVE FALSE
    OBVIOUS
  <2>2. PICK m \in T : \A k \in T : m <= k
    <3> HIDE DEF T
    <3>1. T \subseteq Nat
      BY DepthAssumption DEF T
    <3> QED
      BY <2>1, <3>1, LeastNumber
  <2>3. Kin(p)
    BY DEF Kin
  <2>4. m # 0
    BY <1>3, <2>2, <2>3
  <2>5. m - 1 \in 0..MaxDepth /\ m - 1 \notin T /\ m \in 1..MaxDepth
    BY <2>2, <2>4, DepthAssumption
  <2> QED
    BY <1>3, <1>4, <2>2, <2>5
<1>6. hits # {} /\ hits \subseteq Nat
  BY <1>1, DepthAssumption
<1>7. Min(hits) \in hits
  <2> HIDE DEF hits
  <2> QED
    BY <1>6, MinIsMember
<1>8. walk[Min(hits)] \in history /\ Kin(walk[Min(hits)])
  BY <1>5, <1>7
<1>9. walk[Min(hits)] # Init_
  BY <1>8, NoneAssumption DEF Typed, TypeOK
<1> QED
  BY <1>1, <1>6, <1>8, <1>9

(* What no step changes while no pid is handed out twice: the request a pid *)
(* and a client stem from, who made a window, who asked.                    *)
Steady ==
  /\ \A p \in Pids : proc[p].used => proc'[p].used /\ proc'[p].ws = proc[p].ws
  /\ \A c \in Clients : client[c] # None =>
       client'[c] # None /\ client'[c].ws = client[c].ws
  /\ \A w \in Windows : made[w] # None => made'[w] = made[w]
  /\ \A r \in 1..Len(asked) : r \in 1..Len(asked') /\ asked'[r] = asked[r]

LEMMA SteadyStep ==
    ASSUME Typed, ~PidReuse, [Next]_vars
    PROVE  Steady
<1>1. ASSUME NEW p \in Pids, proc[p].used
      PROVE  proc'[p].used /\ proc'[p].ws = proc[p].ws
  <2>1. ASSUME NEW q \in Pids, NEW r \in Pids, Fork(q, r)
        PROVE  proc'[p].used /\ proc'[p].ws = proc[p].ws
    BY <1>1, <2>1 DEF Fork, CanStart, Typed, TypeOK
  <2>2. ASSUME NEW q \in Pids, Spawn(q)
        PROVE  proc'[p].used /\ proc'[p].ws = proc[p].ws
    BY <1>1, <2>2 DEF Spawn, CanStart, Typed, TypeOK
  <2>3. ASSUME NEW q \in Pids, Exit(q)
        PROVE  proc'[p].used /\ proc'[p].ws = proc[p].ws
    BY <1>1, <2>3 DEF Exit, Typed, TypeOK
  <2>4. CASE UNCHANGED proc
    BY <1>1, <2>4
  <2> QED
    BY <2>1, <2>2, <2>3, <2>4
       DEF Next, vars, osVars, Connect, CreateWindow, DestroyWindow, SessionUp,
           SessionDown, SpawnFails, Match, Forward, HandleSpawned, HandleConnected,
           HandleCreated, HandleDestroyed, Cleanup, Request, Detach
<1>2. ASSUME NEW c \in Clients, client[c] # None
      PROVE  client'[c] # None /\ client'[c].ws = client[c].ws
  <2>0. client[c] \in Connection
    BY <1>2 DEF Typed
  <2>1. ASSUME NEW p \in Pids, Exit(p)
        PROVE  client'[c] # None /\ client'[c].ws = client[c].ws
    <3>1. client'[c] \in Connection /\ client'[c].ws = client[c].ws
      BY <1>2, <2>0, <2>1 DEF Exit, Connection
    <3> QED
      BY <3>1, NoneAssumption DEF Connection
  <2>2. ASSUME NEW p \in Pids, NEW d \in Clients, Connect(p, d)
        PROVE  client'[c] # None /\ client'[c].ws = client[c].ws
    BY <1>2, <2>2 DEF Connect, Typed
  <2>3. CASE UNCHANGED client
    BY <1>2, <2>3
  <2> QED
    BY <2>1, <2>2, <2>3
       DEF Next, vars, osVars, Fork, Spawn, CreateWindow, DestroyWindow, SessionUp,
           SessionDown, SpawnFails, Match, Forward, HandleSpawned, HandleConnected,
           HandleCreated, HandleDestroyed, Cleanup, Request, Detach
<1>3. ASSUME NEW w \in Windows, made[w] # None PROVE made'[w] = made[w]
  <2>1. ASSUME NEW v \in Windows, NEW c \in Clients, NEW popup \in BOOLEAN,
               CreateWindow(v, c, popup)
        PROVE  made'[w] = made[w]
    BY <1>3, <2>1 DEF CreateWindow, Typed, TypeOK
  <2>2. CASE UNCHANGED made
    BY <2>2
  <2> QED
    BY <2>1, <2>2
       DEF Next, vars, osVars, Fork, Exit, Spawn, Connect, DestroyWindow, SessionUp,
           SessionDown, SpawnFails, Match, Forward, HandleSpawned, HandleConnected,
           HandleCreated, HandleDestroyed, Cleanup, Request, Detach
<1>4. ASSUME NEW r \in 1..Len(asked)
      PROVE  r \in 1..Len(asked') /\ asked'[r] = asked[r]
  <2>1. ASSUME NEW ws \in Workspaces, Request(ws)
        PROVE  r \in 1..Len(asked') /\ asked'[r] = asked[r]
    BY <1>4, <2>1, Enqueue DEF Request, Typed
  <2>2. CASE UNCHANGED asked
    BY <1>4, <2>2
  <2> QED
    BY <2>1, <2>2
       DEF Next, vars, osVars, Fork, Exit, Spawn, Connect, CreateWindow, DestroyWindow,
           SessionUp, SessionDown, SpawnFails, Match, Forward, HandleSpawned,
           HandleConnected, HandleCreated, HandleDestroyed, Cleanup, Detach
<1> QED
  BY <1>1, <1>2, <1>3, <1>4 DEF Steady

LEMMA SoundQueue ==
    ASSUME NEW q \in Seq(Msg), NEW cl, NEW pr, NEW as, NEW md, AllSound(q, cl, pr, as, md)
    PROVE  /\ q # <<>> => /\ AllSound(Tail(q), cl, pr, as, md)
                          /\ Sound(Head(q), cl, pr, as, md)
           /\ \A m \in Msg : Sound(m, cl, pr, as, md) =>
                AllSound(Append(q, m), cl, pr, as, md)
<1>1. ASSUME q # <<>>
      PROVE  AllSound(Tail(q), cl, pr, as, md) /\ Sound(Head(q), cl, pr, as, md)
  <2>1. /\ Len(q) \in Nat /\ Len(Tail(q)) = Len(q) - 1 /\ Head(q) = q[1]
        /\ \A i \in 1..Len(Tail(q)) : Tail(q)[i] = q[i + 1]
        /\ Len(q) >= 1
    BY <1>1, Dequeue
  <2>2. 1 \in 1..Len(q) /\ \A i \in 1..Len(Tail(q)) : i + 1 \in 1..Len(q)
    BY <2>1
  <2> QED
    BY <2>1, <2>2 DEF AllSound
<1>2. ASSUME NEW m \in Msg, Sound(m, cl, pr, as, md)
      PROVE  AllSound(Append(q, m), cl, pr, as, md)
  <2> DEFINE u == Append(q, m)
  <2>1. /\ Len(q) \in Nat /\ Len(u) = Len(q) + 1
        /\ \A i \in 1..Len(q) : u[i] = q[i]
        /\ u[Len(q) + 1] = m
    BY Enqueue
  <2> HIDE DEF u
  <2>2. \A i \in 1..Len(u) : i \in 1..Len(q) \/ i = Len(q) + 1
    BY <2>1
  <2>3. \A i \in 1..Len(u) : Sound(u[i], cl, pr, as, md)
    BY <1>2, <2>1, <2>2 DEF AllSound
  <2> QED
    BY <2>3 DEF AllSound, u
<1> QED
  BY <1>1, <1>2

(* What was sound stays so. *)
LEMMA SoundSteady ==
    ASSUME Typed, OriginInv, Steady
    PROVE  /\ AllSound(tx, client', proc', asked', made')
           /\ AllSound(dispQ, client', proc', asked', made')
           /\ \A c \in Clients, p \in Pids :
                From(c, p, client, proc) => From(c, p, client', proc')
<1>1. \A c \in Clients, p \in Pids : From(c, p, client, proc) => From(c, p, client', proc')
  BY DEF Steady, From
<1>2. ASSUME NEW m \in Msg, Sound(m, client, proc, asked, made)
      PROVE  Sound(m, client', proc', asked', made')
  <2>1. m.kind = "connected" => From(m.client, m.pid, client', proc')
    BY <1>1, <1>2, MsgShape DEF Sound
  <2>2. m.kind = "spawned" =>
          /\ m.req \in 1..Len(asked') /\ proc'[m.pid].used
          /\ proc'[m.pid].ws = asked'[m.req]
    BY <1>2, MsgShape DEF Sound, Steady
  <2>3. m.kind \in {"created", "destroyed"} => m.client = made'[m.win]
    BY <1>2, MsgShape, NoneAssumption DEF Sound, Steady
  <2> QED
    BY <2>1, <2>2, <2>3 DEF Sound
<1>3. \A q \in Seq(Msg) : AllSound(q, client, proc, asked, made)
        => AllSound(q, client', proc', asked', made')
  <2> SUFFICES ASSUME NEW q \in Seq(Msg), AllSound(q, client, proc, asked, made),
                      NEW i \in 1..Len(q)
               PROVE  Sound(q[i], client', proc', asked', made')
    BY DEF AllSound
  <2>1. q[i] \in Msg
    OBVIOUS
  <2> QED
    BY <1>2, <2>1 DEF AllSound
<1> QED
  BY <1>1, <1>3 DEF OriginInv, Provenance, Typed, TypeOK

LEMMA OriginInit == Init => OriginInv
  BY DEF Init, OriginInv, Lineage, Provenance, AllSound, WindowsMade, Free

(* The process table: a child stems from the request its parent stems from. *)
LEMMA LineageStep ==
    ASSUME Typed, ~PidReuse, OriginInv, Steady, [Next]_vars
    PROVE  Lineage'
<1> USE DEF Typed, TypeOK
<1>1. ASSUME NEW c \in Clients, client'[c] # None
      PROVE  From(c, client'[c].peer, client', proc')
  <2>1. ASSUME NEW p \in Pids, Connect(p, c)
        PROVE  From(c, client'[c].peer, client', proc')
    <3>1. client'[c] = [open |-> TRUE, peer |-> p, ws |-> proc[p].ws] /\ proc' = proc
      BY <2>1 DEF Connect
    <3>2. proc[p].used
      BY <2>1 DEF Connect, OriginInv, Lineage
    <3> QED
      BY <1>1, <3>1, <3>2 DEF From
  <2>2. ASSUME client[c] # None, client'[c].peer = client[c].peer
        PROVE  From(c, client'[c].peer, client', proc')
    <3>1. client[c].peer \in Pids /\ From(c, client[c].peer, client, proc)
      BY <2>2 DEF OriginInv, Lineage, Connection
    <3> QED
      BY <2>2, <3>1, SoundSteady
  <2>3. ASSUME NEW p \in Pids, Exit(p)
        PROVE  client[c] # None /\ client'[c].peer = client[c].peer
    BY <1>1, <2>3 DEF Exit, Connection
  <2>4. ASSUME NEW p \in Pids, NEW d \in Clients, d # c, Connect(p, d)
        PROVE  client[c] # None /\ client'[c].peer = client[c].peer
    BY <1>1, <2>4 DEF Connect
  <2>5. CASE UNCHANGED client
    BY <1>1, <2>2, <2>5
  <2> QED
    BY <2>1, <2>2, <2>3, <2>4, <2>5
       DEF Next, vars, osVars, Fork, Spawn, CreateWindow, DestroyWindow, SessionUp,
           SessionDown, SpawnFails, Match, Forward, HandleSpawned, HandleConnected,
           HandleCreated, HandleDestroyed, Cleanup, Request, Detach
<1>2. \A p \in history' : proc'[p].used
  <2>1. ASSUME NEW p \in Pids, Spawn(p) PROVE \A q \in history' : proc'[q].used
    BY <2>1 DEF Spawn, OriginInv, Lineage, Steady
  <2>2. CASE history' \subseteq history
    BY <2>2 DEF OriginInv, Lineage, Steady
  <2> QED
    BY <2>1, <2>2
       DEF Next, vars, osVars, sideVars, Fork, Exit, Connect, CreateWindow,
           DestroyWindow, SessionUp, SessionDown, SpawnFails, Match, Forward,
           HandleSpawned, HandleConnected, HandleCreated, HandleDestroyed, Cleanup,
           Request, Detach
<1> DEFINE Rooted(pr, p) ==
             /\ pr[p].alive => pr[p].used
             /\ pr[p].used /\ pr[p].parent # Init_ =>
                  pr[pr[p].parent].used /\ pr[pr[p].parent].ws = pr[p].ws
<1>3. \A p \in Pids : Rooted(proc, p)
  BY DEF OriginInv, Lineage
<1>4. \A p \in Pids : proc[p].parent \in Pids \cup {Init_}
  OBVIOUS
<1>5. \A p \in Pids : Rooted(proc', p)
  <2>1. ASSUME NEW q \in Pids, NEW r \in Pids, Fork(q, r)
        PROVE  \A p \in Pids : Rooted(proc', p)
    <3>1. /\ proc[q].alive /\ ~proc[r].used
          /\ proc' = [proc EXCEPT ![r] = [alive |-> TRUE, used |-> TRUE, parent |-> q,
                                          ws |-> proc[q].ws]]
      BY <2>1 DEF Fork, CanStart
    <3>2. proc[q].used /\ q # r
      BY <3>1 DEF OriginInv, Lineage
    <3>3. proc'[r] = [alive |-> TRUE, used |-> TRUE, parent |-> q, ws |-> proc[q].ws]
          /\ \A p \in Pids : p # r => proc'[p] = proc[p]
      BY <3>1
    <3>4. Rooted(proc', r)
      BY <3>2, <3>3
    <3>5. ASSUME NEW p \in Pids, p # r PROVE Rooted(proc', p)
      BY <1>3, <1>4, <3>1, <3>3, <3>5
    <3> QED
      BY <3>4, <3>5
  <2>2. ASSUME NEW r \in Pids, Spawn(r)
        PROVE  \A p \in Pids : Rooted(proc', p)
    <3>1. /\ ~proc[r].used /\ proc'[r].parent = Init_ /\ proc'[r].used
          /\ \A p \in Pids : p # r => proc'[p] = proc[p]
      BY <2>2 DEF Spawn, CanStart
    <3>2. ASSUME NEW p \in Pids, p # r PROVE Rooted(proc', p)
      <4>1. proc'[p] = proc[p]
        BY <3>1, <3>2
      <4>2. ASSUME proc[p].used, proc[p].parent # Init_
            PROVE  proc'[proc[p].parent] = proc[proc[p].parent]
        BY <1>3, <1>4, <3>1, <4>2
      <4> QED
        BY <1>3, <4>1, <4>2
    <3>3. Rooted(proc', r)
      BY <3>1
    <3> QED
      BY <3>2, <3>3
  <2>3. ASSUME NEW r \in Pids, Exit(r)
        PROVE  \A p \in Pids : Rooted(proc', p)
    <3>1. ASSUME NEW p \in Pids
          PROVE  /\ proc'[p].used = proc[p].used /\ proc'[p].ws = proc[p].ws
                 /\ proc'[p].alive => proc[p].alive
                 /\ proc'[p].parent \in {proc[p].parent, Init_}
      <4>1. proc[p] \in [alive : BOOLEAN, used : BOOLEAN, parent : Pids \cup {Init_},
                         ws : Workspaces \cup {None}]
        OBVIOUS
      <4>2. proc'[p] \in {[proc[p] EXCEPT !.alive = FALSE],
                          [proc[p] EXCEPT !.parent = Init_], proc[p]}
        BY <2>3 DEF Exit
      <4> QED
        BY <4>1, <4>2
    <3> QED
      BY <1>3, <1>4, <3>1
  <2>4. CASE UNCHANGED proc
    BY <1>3, <2>4
  <2> QED
    BY <2>1, <2>2, <2>3, <2>4
       DEF Next, vars, osVars, Connect, CreateWindow, DestroyWindow, SessionUp,
           SessionDown, SpawnFails, Match, Forward, HandleSpawned, HandleConnected,
           HandleCreated, HandleDestroyed, Cleanup, Request, Detach
<1> QED
  BY <1>1, <1>2, <1>5 DEF Lineage

(* What the backend is told, and what it keeps of it. *)
LEMMA BackendProvenance ==
    ASSUME Typed, ~PidReuse, OriginInv, Steady, [Next]_vars
    PROVE  /\ \A s \in Sids, p \in Pids : origin'[<<s, p>>] # None =>
                proc'[p].used /\ origin'[<<s, p>>] = proc'[p].ws
           /\ \A s \in Sids, c \in Clients :
                procs'[s][c] # None => From(c, procs'[s][c], client', proc')
<1> USE DEF Typed, TypeOK
<1>0. ASSUME NEW kind, Taken(kind)
      PROVE  /\ tx \in Seq(Msg) /\ tx # <<>> /\ Head(tx) \in Msg /\ Head(tx).kind = kind
             /\ Sound(Head(tx), client', proc', asked', made') /\ sid \in Sids
  <2>1. tx \in Seq(Msg) /\ tx # <<>> /\ Head(tx).kind = kind /\ sid # 0
    BY <1>0 DEF Taken
  <2>2. Head(tx) \in Msg
    BY <2>1, Dequeue
  <2>3. Sound(Head(tx), client', proc', asked', made')
    BY <2>1, SoundSteady, SoundQueue
  <2>4. sid \in Sids
    BY <2>1, BoundsAssumption DEF Sids
  <2> QED
    BY <2>1, <2>2, <2>3, <2>4
<1>1. ASSUME NEW s \in Sids, NEW p \in Pids, origin'[<<s, p>>] # None
      PROVE  proc'[p].used /\ origin'[<<s, p>>] = proc'[p].ws
  <2>1. CASE origin'[<<s, p>>] = origin[<<s, p>>]
    BY <1>1, <2>1 DEF OriginInv, Provenance, Steady
  <2>2. CASE HandleSpawned /\ origin'[<<s, p>>] # origin[<<s, p>>]
    <3>1. /\ Head(tx).kind = "spawned" /\ Sound(Head(tx), client', proc', asked', made')
          /\ Head(tx) \in Msg /\ sid \in Sids
      BY <1>0, <2>2 DEF HandleSpawned
    <3>2. Head(tx).pid \in Pids
      BY <3>1, MsgShape
    <3>3. s = sid /\ p = Head(tx).pid /\ origin'[<<s, p>>] = asked[Head(tx).req]
      BY <2>2, <3>1, <3>2 DEF HandleSpawned
    <3>4. asked' = asked
      BY <2>2 DEF HandleSpawned
    <3> QED
      BY <3>1, <3>3, <3>4 DEF Sound
  <2>3. HandleSpawned \/ UNCHANGED origin
    BY DEF Next, vars, osVars, hubVars, Fork, Exit, Spawn, Connect, CreateWindow,
           DestroyWindow, SessionUp, SessionDown, SpawnFails, Match, Forward,
           HandleConnected, HandleCreated, HandleDestroyed, Cleanup, Request, Detach
  <2> QED
    BY <2>1, <2>2, <2>3
<1>2. ASSUME NEW s \in Sids, NEW c \in Clients, procs'[s][c] # None
      PROVE  From(c, procs'[s][c], client', proc')
  <2>1. CASE procs'[s][c] = procs[s][c]
    <3>1. procs[s][c] \in Pids
      BY <1>2, <2>1
    <3> QED
      BY <1>2, <2>1, <3>1, SoundSteady DEF OriginInv, Provenance
  <2>2. CASE HandleConnected /\ procs'[s][c] # procs[s][c]
    <3>1. /\ Head(tx).kind = "connected" /\ Sound(Head(tx), client', proc', asked', made')
          /\ Head(tx) \in Msg /\ sid \in Sids
      BY <1>0, <2>2 DEF HandleConnected
    <3>2. Head(tx).client \in Clients
      BY <3>1, MsgShape
    <3>3. s = sid /\ c = Head(tx).client /\ procs'[s][c] = Head(tx).pid
      BY <2>2, <3>1, <3>2 DEF HandleConnected
    <3> QED
      BY <3>1, <3>3 DEF Sound
  <2>3. ASSUME NEW r \in Sids, Cleanup(r) PROVE procs'[s][c] = procs[s][c]
    BY <1>2, <2>3 DEF Cleanup
  <2>4. HandleConnected \/ (\E r \in Sids : Cleanup(r)) \/ UNCHANGED procs
    BY DEF Next, vars, osVars, hubVars, Fork, Exit, Spawn, Connect, CreateWindow,
           DestroyWindow, SessionUp, SessionDown, SpawnFails, Match, Forward,
           HandleSpawned, HandleCreated, HandleDestroyed, Request, Detach
  <2> QED
    BY <2>1, <2>2, <2>3, <2>4
<1> QED
  BY <1>1, <1>2

(* What is on its way to the backend. *)
LEMMA ChannelProvenance ==
    ASSUME Typed, ~PidReuse, OriginInv, Steady, [Next]_vars
    PROVE  /\ \A i \in 1..Len(connQ') : client'[connQ'[i]] # None
           /\ AllSound(tx', client', proc', asked', made')
           /\ AllSound(dispQ', client', proc', asked', made')
<1> USE DEF Typed, TypeOK
<1>0. /\ tx \in Seq(Msg) /\ dispQ \in Seq(Msg) /\ connQ \in Seq(Clients)
      /\ AllSound(tx, client', proc', asked', made')
      /\ AllSound(dispQ, client', proc', asked', made')
  BY SoundSteady
<1>1. \A i \in 1..Len(connQ) : connQ[i] \in Clients /\ client'[connQ[i]] # None
  BY <1>0 DEF OriginInv, Provenance, Steady
<1>2. CASE UNCHANGED <<connQ, dispQ>> /\ (tx' = tx \/ tx' = <<>>)
  BY <1>0, <1>1, <1>2 DEF AllSound
<1>3. CASE UNCHANGED <<connQ, dispQ>> /\ tx # <<>> /\ tx' = Tail(tx)
  BY <1>0, <1>1, <1>3, SoundQueue
<1>4. ASSUME NEW p \in Pids, NEW c \in Clients, Connect(p, c)
      PROVE  /\ \A i \in 1..Len(connQ') : client'[connQ'[i]] # None
             /\ UNCHANGED <<tx, dispQ>>
  <2>1. /\ connQ' = Append(connQ, c) /\ UNCHANGED <<tx, dispQ>>
        /\ client'[c] = [open |-> TRUE, peer |-> p, ws |-> proc[p].ws]
    BY <1>4 DEF Connect
  <2>2. client'[c] # None
    <3>1. client'[c] \in Connection
      BY <2>1 DEF Connection
    <3> QED
      BY <3>1, NoneAssumption DEF Connection
  <2>3. /\ Len(connQ) \in Nat /\ Len(connQ') = Len(connQ) + 1
        /\ \A i \in 1..Len(connQ) : connQ'[i] = connQ[i]
        /\ connQ'[Len(connQ) + 1] = c
    BY <1>0, <2>1, Enqueue
  <2>4. \A i \in 1..Len(connQ') : i \in 1..Len(connQ) \/ i = Len(connQ) + 1
    BY <2>3
  <2> QED
    BY <1>1, <2>1, <2>2, <2>3, <2>4
<1>5. CASE Match
  <2> DEFINE c == Head(connQ)
             pid == FindAncestor(client[c].peer)
             m == [kind |-> "connected", client |-> c, pid |-> pid]
  <2>1. /\ connQ # <<>> /\ connQ' = Tail(connQ)
        /\ tx' = IF pid = None THEN tx ELSE Append(tx, m)
        /\ UNCHANGED <<client, proc, asked, made, dispQ>>
    BY <1>5 DEF Match, osVars
  <2>2. /\ Len(connQ) \in Nat /\ Len(connQ') = Len(connQ) - 1 /\ c = connQ[1]
        /\ \A i \in 1..Len(connQ') : connQ'[i] = connQ[i + 1]
        /\ Len(connQ) >= 1 /\ c \in Clients
    BY <1>0, <2>1, Dequeue
  <2>3. \A i \in 1..Len(connQ') : client'[connQ'[i]] # None
    <3>1. \A i \in 1..Len(connQ') : i + 1 \in 1..Len(connQ)
      BY <2>2
    <3> QED
      BY <1>1, <2>2, <3>1
  <2>4. client[c] # None /\ From(c, client[c].peer, client, proc) /\ client[c].peer \in Pids
    BY <1>1, <2>1, <2>2 DEF OriginInv, Lineage, Connection
  <2>5. ASSUME pid # None PROVE pid \in Pids /\ From(c, pid, client, proc)
    <3>1. pid \in history /\ proc[pid].used /\ proc[pid].ws = proc[client[c].peer].ws
      BY <2>4, <2>5, AncestorRelated DEF OriginInv, From
    <3> QED
      BY <2>4, <3>1 DEF From
  <2> HIDE DEF pid
  <2>6. ASSUME pid # None PROVE m \in Msg /\ Sound(m, client', proc', asked', made')
    <3>1. m.kind = "connected" /\ m.client = c /\ m.pid = pid /\ m \in Msg
      BY <2>2, <2>5, <2>6, MsgMade
    <3> HIDE DEF m, c
    <3> QED
      BY <2>1, <2>5, <2>6, <3>1 DEF Sound
  <2> HIDE DEF m
  <2>7. AllSound(tx', client', proc', asked', made')
    BY <1>0, <2>1, <2>6, SoundQueue
  <2> QED
    BY <1>0, <2>1, <2>3, <2>7
<1>6. CASE Forward
  <2>1. /\ dispQ # <<>> /\ dispQ' = Tail(dispQ) /\ tx' = Append(tx, Head(dispQ))
        /\ UNCHANGED connQ
    BY <1>6 DEF Forward
  <2>2. Head(dispQ) \in Msg
    BY <1>0, <2>1, Dequeue
  <2> QED
    BY <1>0, <1>1, <2>1, <2>2, SoundQueue
<1>7. ASSUME NEW p \in Pids, Spawn(p)
      PROVE  AllSound(tx', client', proc', asked', made') /\ UNCHANGED <<connQ, dispQ>>
  <2> DEFINE m == [kind |-> "spawned", req |-> Head(cmds), pid |-> p]
  <2>1. /\ tx' = Append(tx, m) /\ cmds # <<>> /\ UNCHANGED <<connQ, dispQ, asked>>
        /\ proc'[p].used /\ proc'[p].ws = asked[Head(cmds)]
    BY <1>7 DEF Spawn
  <2>2. Head(cmds) \in 1..Len(asked) /\ Len(asked) \in Nat /\ Len(asked) <= MaxRequests
    BY <2>1, Dequeue
  <2>3. Head(cmds) \in 1..MaxRequests
    BY <2>2, BoundsAssumption
  <2>4. m \in Msg /\ m.kind = "spawned" /\ m.req = Head(cmds) /\ m.pid = p
    BY <2>3, MsgMade
  <2> HIDE DEF m
  <2>5. Sound(m, client', proc', asked', made')
    BY <2>1, <2>2, <2>4 DEF Sound
  <2> QED
    BY <1>0, <2>1, <2>4, <2>5, SoundQueue
<1>8. ASSUME NEW m \in Msg, m.kind \in {"created", "destroyed"}, m.client = made'[m.win],
             dispQ' = Append(dispQ, m)
      PROVE  AllSound(dispQ', client', proc', asked', made')
  <2>1. Sound(m, client', proc', asked', made')
    BY <1>8 DEF Sound
  <2> QED
    BY <1>0, <1>8, <2>1, SoundQueue
<1>9. ASSUME NEW w \in Windows, NEW c \in Clients, NEW popup \in BOOLEAN,
             CreateWindow(w, c, popup)
      PROVE  AllSound(dispQ', client', proc', asked', made') /\ UNCHANGED <<connQ, tx>>
  <2> DEFINE m == [kind |-> "created", win |-> w, client |-> c]
  <2>1. dispQ' = Append(dispQ, m) /\ made'[w] = c /\ UNCHANGED <<connQ, tx>>
    BY <1>9 DEF CreateWindow
  <2>2. m \in Msg /\ m.kind = "created" /\ m.client = c /\ m.win = w
    BY MsgMade
  <2> HIDE DEF m
  <2> QED
    BY <1>8, <2>1, <2>2
<1>10. ASSUME NEW w \in Windows, DestroyWindow(w)
       PROVE  AllSound(dispQ', client', proc', asked', made') /\ UNCHANGED <<connQ, tx>>
  <2> DEFINE m == [kind |-> "destroyed", win |-> w, client |-> made[w]]
  <2>1. dispQ' = Append(dispQ, m) /\ made[w] # None /\ UNCHANGED <<made, connQ, tx>>
    BY <1>10 DEF DestroyWindow
  <2>2. m \in Msg /\ m.kind = "destroyed" /\ m.client = made[w] /\ m.win = w
    BY <2>1, MsgMade
  <2> HIDE DEF m
  <2> QED
    BY <1>8, <2>1, <2>2
<1> QED
  BY <1>0, <1>1, <1>2, <1>3, <1>4, <1>5, <1>6, <1>7, <1>9, <1>10
     DEF Next, vars, osVars, sideVars, Fork, Exit, SessionUp, SessionDown, SpawnFails,
         HandleSpawned, HandleConnected, HandleCreated, HandleDestroyed, Taken, Cleanup,
         Request, Detach

LEMMA WindowsMadeStep ==
    ASSUME Typed, ~PidReuse, OriginInv, Steady, [Next]_vars
    PROVE  WindowsMade'
<1> USE DEF Typed, TypeOK
<1>1. \A w \in Windows : made'[w] # None => client'[made'[w]] # None
  <2>1. ASSUME NEW v \in Windows, NEW c \in Clients, NEW popup \in BOOLEAN,
               CreateWindow(v, c, popup), NEW w \in Windows, made'[w] # None
        PROVE  client'[made'[w]] # None
    BY <2>1 DEF CreateWindow, OriginInv, WindowsMade
  <2>2. ASSUME UNCHANGED made, NEW w \in Windows, made'[w] # None
        PROVE  client'[made'[w]] # None
    BY <2>2 DEF Steady, OriginInv, WindowsMade
  <2> QED
    BY <2>1, <2>2
       DEF Next, vars, osVars, Fork, Exit, Spawn, Connect, DestroyWindow, SessionUp,
           SessionDown, SpawnFails, Match, Forward, HandleSpawned, HandleConnected,
           HandleCreated, HandleDestroyed, Cleanup, Request, Detach
<1>2. \A k \in track : k[3] \in Windows /\ k[2] \in Clients /\ made[k[3]] = k[2]
                       /\ k = <<k[1], k[2], k[3]>>
  BY DEF OriginInv, WindowsMade
<1>3. \A k \in track : made'[k[3]] = k[2]
  BY <1>2, NoneAssumption DEF Steady
<1>4. ASSUME NEW ws \in Workspaces, NEW w \in docs[ws]
      PROVE  made'[w] # None /\ client'[made'[w]].ws = ws
  <2>1. w \in Windows /\ made[w] \in Clients /\ client[made[w]].ws = ws
        /\ client[made[w]] # None
    BY NoneAssumption DEF OriginInv, WindowsMade
  <2>2. made[w] # None /\ made'[w] = made[w]
    BY <2>1, NoneAssumption DEF Steady
  <2>3. client'[made[w]].ws = client[made[w]].ws
    BY <2>1 DEF Steady
  <2> QED
    BY <2>1, <2>2, <2>3
<1>0. ASSUME NEW kind, Taken(kind)
      PROVE  /\ tx # <<>> /\ Head(tx) \in Msg /\ Head(tx).kind = kind
             /\ Sound(Head(tx), client, proc, asked, made) /\ sid \in Sids
  <2>1. tx \in Seq(Msg) /\ tx # <<>> /\ Head(tx).kind = kind /\ sid # 0
    BY <1>0 DEF Taken
  <2>2. Head(tx) \in Msg
    BY <2>1, Dequeue
  <2>3. Sound(Head(tx), client, proc, asked, made)
    BY <2>1, SoundQueue DEF OriginInv, Provenance
  <2>4. sid \in Sids
    BY <2>1, BoundsAssumption DEF Sids
  <2> QED
    BY <2>1, <2>2, <2>3, <2>4
<1> DEFINE Off(ws, w) == made'[w] # None /\ client'[made'[w]].ws = ws
<1>5. CASE HandleConnected
  <2> DEFINE c == Head(tx).client  pid == Head(tx).pid
  <2>1. /\ UNCHANGED <<track, made, client>> /\ pid \in Pids /\ c \in Clients
        /\ From(c, pid, client, proc) /\ sid \in Sids
        /\ Attach(OriginOf(sid, pid), CatchUp(sid, c))
    <3>1. /\ Head(tx) \in Msg /\ Head(tx).kind = "connected" /\ sid \in Sids
          /\ Sound(Head(tx), client, proc, asked, made)
      BY <1>0, <1>5 DEF HandleConnected
    <3>2. UNCHANGED <<track, made, client>> /\ Attach(OriginOf(sid, pid), CatchUp(sid, c))
      BY <1>5 DEF HandleConnected, osVars
    <3> QED
      BY <3>1, <3>2, MsgShape DEF Sound
  <2> HIDE DEF c, pid
  <2>2. \A w \in CatchUp(sid, c) : w \in Windows /\ made[w] = c
    BY <1>2 DEF CatchUp
  <2>3. OriginOf(sid, pid) # None => OriginOf(sid, pid) = client[c].ws
    BY <2>1 DEF OriginOf, From, OriginInv, Provenance
  <2>4. ASSUME NEW ws \in Workspaces, NEW w \in docs'[ws], w \notin docs[ws]
        PROVE  w \in CatchUp(sid, c) /\ ws = OriginOf(sid, pid) /\ ws # None
    BY <2>1, <2>4, NoneAssumption DEF Attach
  <2>5. \A ws \in Workspaces : \A w \in docs'[ws] : Off(ws, w)
    BY <1>4, <2>1, <2>2, <2>3, <2>4, NoneAssumption
  <2> QED
    BY <1>1, <1>3, <2>1, <2>5 DEF WindowsMade
<1>6. CASE HandleCreated
  <2> DEFINE c == Head(tx).client  v == Head(tx).win
  <2>1. /\ UNCHANGED <<made, client>> /\ v \in Windows /\ c \in Clients
        /\ made[v] = c /\ sid \in Sids /\ track' = track \cup {<<sid, c, v>>}
        /\ Attach(OriginOf(sid, procs[sid][c]), {v} \ popups)
    BY <1>0, <1>6, MsgShape DEF HandleCreated, osVars, Sound
  <2> HIDE DEF c, v
  <2>2. OriginOf(sid, procs[sid][c]) # None =>
          OriginOf(sid, procs[sid][c]) = client[c].ws
    BY <2>1 DEF OriginOf, From, OriginInv, Provenance
  <2>3. ASSUME NEW ws \in Workspaces, NEW w \in docs'[ws], w \notin docs[ws]
        PROVE  w = v /\ ws = OriginOf(sid, procs[sid][c]) /\ ws # None
    BY <2>1, <2>3, NoneAssumption DEF Attach
  <2>4. \A ws \in Workspaces : \A w \in docs'[ws] : Off(ws, w)
    BY <1>4, <2>1, <2>2, <2>3, NoneAssumption
  <2>5. \A k \in track' : k \in track \/ (k[2] = c /\ k[3] = v)
    BY <2>1
  <2> QED
    BY <1>1, <1>3, <2>1, <2>4, <2>5 DEF WindowsMade
<1>7. ASSUME track' \subseteq track, \A ws \in Workspaces : docs'[ws] \subseteq docs[ws]
      PROVE  WindowsMade'
  BY <1>1, <1>3, <1>4, <1>7 DEF WindowsMade
<1>8. CASE HandleDestroyed
  BY <1>7, <1>8 DEF HandleDestroyed, Forget
<1>9. ASSUME NEW s \in Sids, Cleanup(s) PROVE WindowsMade'
  BY <1>7, <1>9 DEF Cleanup
<1>10. ASSUME NEW ws \in Workspaces, NEW w \in Windows, Detach(ws, w) PROVE WindowsMade'
  BY <1>7, <1>10 DEF Detach
<1>11. CASE UNCHANGED <<track, docs>>
  BY <1>7, <1>11
<1> QED
  BY <1>5, <1>6, <1>8, <1>9, <1>10, <1>11
     DEF Next, vars, hubVars, Fork, Exit, Spawn, Connect, CreateWindow, DestroyWindow,
         SessionUp, SessionDown, SpawnFails, Match, Forward, HandleSpawned, Request

(* "different workspaces can run different apps without cross-pollination"  *)
(* (AppState.spawn_origin): through spawn, fork, exit, connection, lost     *)
(* sessions and late messages a window only ever reaches the canvas of the  *)
(* workspace its program was spawned for.  The hypothesis is needed: a pid  *)
(* handed out twice keeps the origin of its first program.                  *)
THEOREM SpawnNoCrossPollination ==
    ASSUME ~PidReuse
    PROVE  Spec => []NoCrossPollination
<1>1. Typed /\ OriginInv /\ [Next]_vars => OriginInv'
  <2> SUFFICES ASSUME Typed, OriginInv, [Next]_vars PROVE OriginInv'
    OBVIOUS
  <2>1. Steady
    BY SteadyStep
  <2>2. Lineage'
    BY <2>1, LineageStep
  <2>3. Provenance'
    BY <2>1, BackendProvenance, ChannelProvenance DEF Provenance
  <2>4. WindowsMade'
    BY <2>1, WindowsMadeStep
  <2> QED
    BY <2>2, <2>3, <2>4 DEF OriginInv
<1>2. OriginInv => NoCrossPollination
  BY DEF OriginInv, WindowsMade, NoCrossPollination
<1> QED
  BY OriginInit, TypedAlways, <1>1, <1>2, PTL DEF Spec

=============================================================================
