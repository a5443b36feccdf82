----------------------------- MODULE HubProofs -----------------------------
(***************************************************************************)
(* Proofs about the backend hub.                                           *)
(*                                                                         *)
(* StreamControl, for any number of control tasks, workspaces and windows: *)
(* the variables keep their types, no capture outlives the enumerator's    *)
(* record of its window, and the captures match the documents while        *)
(* recounts do not overlap.                                                *)
(*                                                                         *)
(* WindowList, for any finite sets of sidecars and windows, any frontends  *)
(* and any bounds: window_track and window_order agree, and the frontends  *)
(* follow them.                                                            *)
(***************************************************************************)
EXTENDS StreamControl, WindowList, WellFoundedInduction, FiniteSetTheorems, TLAPS

(***************************************************************************)
(* The inductive invariant of the capture control.                         *)
(***************************************************************************)
Command == [kind : {"start", "stop"}, win : Windows]
Report == [kind : {"created", "destroyed"}, win : Windows]

(* The last command about w in the channel q is of kind k. *)
LastOn(q, w, k) ==
  \E i \in 1..Len(q) :
    /\ q[i].win = w /\ q[i].kind = k
    /\ \A j \in 1..Len(q) : j > i => q[j].win # w

(* Whether w is captured once the enumerator has read q, if S is captured   *)
(* now.                                                                     *)
Coming(q, S, w) ==
  \/ LastOn(q, w, "start")
  \/ w \in S /\ \A i \in 1..Len(q) : q[i].win # w

(* The same once the commands in A have been sent behind q. *)
Planned(A, q, S, w) ==
  \/ Start(w) \in A
  \/ Stop(w) \notin A /\ Coming(q, S, w)

(* What has still to be sent.  While recounts do not overlap it is one      *)
(* task's.                                                                  *)
Outstanding(td) == UNION {td[t] : t \in Tasks}

(* The windows S that somebody believes shown: they were announced, and the *)
(* ones still tracked have an owner, so that no command about them is       *)
(* skipped.                                                                 *)
Rostered(S, b, tr, ow) == S \subseteq b /\ S \cap tr \subseteq ow

Roster ==
  /\ Rostered(refcount, born, tracked, owner)
  /\ \A ws \in Workspaces : Rostered(docs[ws], born, tracked, owner)
  /\ \A t \in Tasks : Rostered(counted[t], born, tracked, owner)
  /\ owner \subseteq born /\ victim \subseteq born \ tracked
  /\ \A i \in 1..Len(reports) :
       /\ reports[i].win \in born
       /\ reports[i].kind = "destroyed" => reports[i].win \notin tracked
  /\ \A i \in 1..Len(wire) : wire[i].win \in born
  /\ \A t \in Tasks : \A m \in todo[t] :
       m.win \in born /\ (m.win \in tracked => m.win \in owner)
  /\ ~up => tracked = {}

(* Commands are prepared by Compare and all sent by Done, at most one for   *)
(* a window.                                                                *)
Prepared ==
  \A t \in Tasks :
    /\ pc[t] \notin {"owners", "send"} => todo[t] = {}
    /\ \A w \in Windows : ~(Start(w) \in todo[t] /\ Stop(w) \in todo[t])

(* One task at a time is between its recount and its last send. *)
OneSection == \A t, u \in Tasks : Reconciling(t) /\ Reconciling(u) => t = u

(* The counts are what the enumerator will have done. *)
Foreseen ==
  \A w \in tracked :
    w \in refcount <=> Planned(Outstanding(todo), wire, capturing, w)

(* Unless a recount is due, the counts or the one being compared are those  *)
(* of the documents.                                                        *)
Settled ==
  (\A t \in Tasks : pc[t] # "count") =>
    /\ \A t \in Tasks : pc[t] = "compare" => counted[t] = Attached
    /\ (\A t \in Tasks : pc[t] # "compare") => refcount = Attached

SerialInv == ~crossed => OneSection /\ Foreseen /\ Settled

CaptureInv == TypeOK /\ Roster /\ Prepared /\ SerialInv

-----------------------------------------------------------------------------
(* Taking from and adding to a channel of messages of any kind. *)
LEMMA ChannelStep ==
    ASSUME NEW M, NEW ch \in Seq(M)
    PROVE  /\ ch # <<>> => Head(ch) \in M /\ Tail(ch) \in Seq(M)
           /\ \A m \in M : Append(ch, m) \in Seq(M)
  OBVIOUS

(* The captures and the enumerator's records start consistent. *)
LEMMA InitTyped == Init => TypeOK
<1> SUFFICES ASSUME Init PROVE TypeOK
  OBVIOUS
<1>1. /\ docs \in [Workspaces -> SUBSET Windows]
      /\ pc \in [Tasks -> {"idle", "count", "compare", "owners", "send"}]
      /\ counted \in [Tasks -> SUBSET Windows]
      /\ todo \in [Tasks -> SUBSET [kind : {"start", "stop"}, win : Windows]]
  BY DEF Init
<1>2. /\ wire \in Seq([kind : {"start", "stop"}, win : Windows])
      /\ reports \in Seq([kind : {"created", "destroyed"}, win : Windows])
      /\ edits \in 0..MaxEdits
  BY EditsAssumption DEF Init
<1> QED
  BY <1>1, <1>2 DEF Init, TypeOK

(* What the enumerator does: windows come and go, commands start and stop.  *)
LEMMA SideStep ==
    ASSUME TypeOK,
           \/ \E w \in Windows : Appear(w) \/ Vanish(w)
           \/ Control \/ SessionDown
    PROVE  TypeOK'
<1>1. ASSUME NEW w \in Windows, Appear(w) PROVE TypeOK'
  BY <1>1 DEF TypeOK, Appear, hubVars, taskVars
<1>2. ASSUME NEW w \in Windows, Vanish(w) PROVE TypeOK'
  BY <1>2 DEF TypeOK, Vanish, hubVars, taskVars
<1>3. CASE Control
  <2>1. wire \in Seq([kind : {"start", "stop"}, win : Windows]) /\ wire # <<>>
    BY <1>3 DEF TypeOK, Control
  <2>2. wire' \in Seq([kind : {"start", "stop"}, win : Windows])
    BY <1>3, <2>1 DEF Control
  <2>3. capturing' \subseteq tracked'
    BY <1>3 DEF Control, MayStart, TypeOK
  <2> QED
    BY <1>3, <2>2, <2>3 DEF TypeOK, Control, hubVars, taskVars
<1>4. CASE SessionDown
  <2>1. /\ wire' \in Seq([kind : {"start", "stop"}, win : Windows])
        /\ reports' \in Seq([kind : {"created", "destroyed"}, win : Windows])
    BY <1>4 DEF SessionDown
  <2>2. tracked' = {} /\ capturing' = {} /\ up' = FALSE
    BY <1>4 DEF SessionDown
  <2> QED
    BY <1>4, <2>1, <2>2 DEF TypeOK, SessionDown, hubVars, taskVars
<1> QED
  BY <1>1, <1>2, <1>3, <1>4

(* What changes a document: browsers attach and detach window nodes, the    *)
(* receive loop applies the sidecar's reports.                              *)
LEMMA DocumentStep ==
    ASSUME TypeOK,
           \/ HandleCreated \/ HandleDestroyed
           \/ \E t \in Frontends, ws \in Workspaces, w \in Windows :
                Attach(t, ws, w) \/ Detach(t, ws, w)
    PROVE  TypeOK'
<1>1. CASE HandleCreated \/ HandleDestroyed
  <2>1. /\ reports \in Seq([kind : {"created", "destroyed"}, win : Windows])
        /\ reports # <<>>
    BY <1>1 DEF TypeOK, HandleCreated, HandleDestroyed
  <2>2. /\ Head(reports).win \in Windows
        /\ Tail(reports) \in Seq([kind : {"created", "destroyed"}, win : Windows])
    <3> DEFINE Reports == [kind : {"created", "destroyed"}, win : Windows]
    <3>1. \A m \in Reports : m.win \in Windows
      OBVIOUS
    <3> HIDE DEF Reports
    <3>2. Head(reports) \in Reports /\ Tail(reports) \in Seq(Reports)
      <4>1. reports \in Seq(Reports) /\ reports # <<>>
        BY <2>1 DEF Reports
      <4> QED
        BY <4>1, ChannelStep
    <3>3. Head(reports).win \in Windows
      BY <3>1, <3>2
    <3> QED
      BY <3>2, <3>3 DEF Reports
  <2>3. CASE HandleCreated
    <3>1. owner' \subseteq Windows
      BY <2>2, <2>3 DEF TypeOK, HandleCreated
    <3>2. reports' \in Seq([kind : {"created", "destroyed"}, win : Windows])
      BY <2>2, <2>3 DEF HandleCreated
    <3>3. UNCHANGED <<docs, refcount, pc, counted, todo, victim, wire, up, born,
                      tracked, capturing, edits, crossed>>
      BY <2>3 DEF HandleCreated, taskVars, sideVars
    <3> QED
      BY <3>1, <3>2, <3>3 DEF TypeOK
  <2>4. CASE HandleDestroyed
    <3>1. victim' \subseteq Windows
      BY <2>2, <2>4 DEF HandleDestroyed
    <3>2. docs' \in [Workspaces -> SUBSET Windows]
      BY <2>4 DEF TypeOK, HandleDestroyed
    <3> QED
      BY <2>2, <2>4, <3>1, <3>2 DEF TypeOK, HandleDestroyed, sideVars
  <2> QED
    BY <1>1, <2>3, <2>4
<1>2. ASSUME NEW t \in Frontends, NEW ws \in Workspaces, NEW w \in Windows,
             Attach(t, ws, w) \/ Detach(t, ws, w)
      PROVE  TypeOK'
  <2>1. edits' \in 0..MaxEdits
    BY <1>2, EditsAssumption DEF TypeOK, Attach, Detach
  <2>2. docs' \in [Workspaces -> SUBSET Windows]
    BY <1>2 DEF TypeOK, Attach, Detach
  <2>3. pc' \in [Tasks -> {"idle", "count", "compare", "owners", "send"}]
    BY <1>2 DEF TypeOK, Attach, Detach
  <2> QED
    BY <1>2, <2>1, <2>2, <2>3 DEF TypeOK, Attach, Detach, sideVars
<1> QED
  BY <1>1, <1>2

(* Each critical section of reconcile_streaming_after_change. *)
LEMMA ReconcileStep ==
    ASSUME TypeOK, NEW t \in Tasks, Reconcile(t)
    PROVE  TypeOK'
<1> DEFINE Commands == [kind : {"start", "stop"}, win : Windows]
<1>1. CASE Count(t)
  <2>1. Attached \subseteq Windows
    BY DEF TypeOK, Attached
  <2> QED
    BY <1>1, <2>1 DEF TypeOK, Count, hubVars, sideVars
<1>2. CASE Compare(t)
  <2>1. counted[t] \subseteq Windows /\ refcount \subseteq Windows
    BY DEF TypeOK
  <2>2. Transitions(t) \subseteq Commands
    BY <2>1 DEF Transitions, Start, Stop
  <2>3. todo' \in [Tasks -> SUBSET Commands]
    BY <1>2, <2>2 DEF TypeOK, Compare
  <2> QED
    BY <1>2, <2>1, <2>3 DEF TypeOK, Compare, sideVars
<1>3. CASE Owners(t)
  <2>1. {m \in todo[t] : m.win \in owner} \subseteq Commands
    BY DEF TypeOK
  <2>2. todo' \in [Tasks -> SUBSET Commands]
    BY <1>3, <2>1 DEF TypeOK, Owners
  <2> QED
    BY <1>3, <2>2 DEF TypeOK, Owners, hubVars, sideVars
<1>4. CASE Send(t)
  <2>1. PICK m \in todo[t] :
          /\ todo' = [todo EXCEPT ![t] = @ \ {m}]
          /\ wire' = IF up THEN Append(wire, m) ELSE wire
    BY <1>4 DEF Send
  <2>2. m \in Commands
    BY DEF TypeOK
  <2>3. wire' \in Seq(Commands)
    <3>1. wire \in Seq(Commands)
      BY DEF TypeOK
    <3> HIDE DEF Commands
    <3>2. Append(wire, m) \in Seq(Commands)
      BY <2>2, <3>1, ChannelStep
    <3> QED
      BY <2>1, <3>1, <3>2
  <2>4. todo' \in [Tasks -> SUBSET Commands]
    BY <2>1 DEF TypeOK
  <2> QED
    BY <1>4, <2>3, <2>4 DEF TypeOK, Send, hubVars, sideVars
<1>5. CASE Done(t)
  BY <1>5 DEF TypeOK, Done, sideVars
<1> QED
  BY <1>1, <1>2, <1>3, <1>4, <1>5 DEF Reconcile

(* Whatever the interleaving of the control tasks with the receive loop, a  *)
(* thread captures a window only while the enumerator still tracks it: a    *)
(* Start that arrives after its window vanished captures nothing.           *)
THEOREM StreamTypeCorrect == Spec => []TypeOK
<1>1. TypeOK /\ [Next]_vars => TypeOK'
  <2> SUFFICES ASSUME TypeOK, [Next]_vars PROVE TypeOK'
    OBVIOUS
  <2>1. CASE Next
    BY <2>1, SideStep, DocumentStep, ReconcileStep DEF Next
  <2>2. CASE UNCHANGED vars
    BY <2>2 DEF TypeOK, vars, hubVars, taskVars, sideVars
  <2> QED
    BY <2>1, <2>2
<1> QED
  BY InitTyped, <1>1, PTL DEF Spec

-----------------------------------------------------------------------------
(* The channel to the enumerator. *)

(* A command sent last decides about its window, and about no other. *)
LEMMA ComingSent ==
    ASSUME NEW q \in Seq(Command), NEW m \in Command, NEW S, NEW w
    PROVE  Coming(Append(q, m), S, w)
             <=> IF m.win = w THEN m.kind = "start" ELSE Coming(q, S, w)
<1> DEFINE p == Append(q, m)
           n == Len(q) + 1
<1>1. /\ Len(p) = n /\ n \in Nat /\ p[n] = m
      /\ \A i \in 1..Len(q) : p[i] = q[i]
      /\ 1..n = 1..Len(q) \cup {n} /\ n \notin 1..Len(q)
      /\ \A i \in 1..Len(q) : n > i /\ ~(i > n)
  OBVIOUS
<1> HIDE DEF p, n
<1>2. (\A i \in 1..Len(p) : p[i].win # w)
        <=> m.win # w /\ \A i \in 1..Len(q) : q[i].win # w
  BY <1>1
<1>3. CASE m.win = w
  <2>1. m.kind = "start" => LastOn(p, w, "start")
    BY <1>1, <1>3 DEF LastOn
  <2>2. LastOn(p, w, "start") => m.kind = "start"
    BY <1>1, <1>3 DEF LastOn
  <2> QED
    BY <1>2, <1>3, <2>1, <2>2 DEF Coming, p
<1>4. CASE m.win # w
  <2>1. LastOn(p, w, "start") <=> LastOn(q, w, "start")
    BY <1>1, <1>4 DEF LastOn
  <2> QED
    BY <1>2, <1>4, <2>1 DEF Coming, p
<1> QED
  BY <1>3, <1>4

(* Reading the first command changes nothing about what is coming. *)
LEMMA ComingRead ==
    ASSUME NEW q \in Seq(Command), q # <<>>, NEW S, NEW T, NEW w,
           Head(q).win # w => (w \in T <=> w \in S),
           Head(q).win = w => (w \in T <=> Head(q).kind = "start")
    PROVE  Coming(q, S, w) <=> Coming(Tail(q), T, w)
<1> DEFINE p == Tail(q)
           n == Len(p)
<1>1. /\ n \in Nat /\ Len(q) = n + 1 /\ q[1] = Head(q)
      /\ \A i \in 1..n : p[i] = q[i + 1]
  OBVIOUS
<1> HIDE DEF p, n
<1>2. \A i \in 1..Len(q) : i = 1 \/ (i - 1 \in 1..n /\ q[i] = p[i - 1])
  BY <1>1
<1>3. (\A i \in 1..Len(q) : q[i].win # w)
        <=> Head(q).win # w /\ \A i \in 1..n : p[i].win # w
  <2>1. 1 \in 1..Len(q) /\ \A i \in 1..n : i + 1 \in 1..Len(q)
    BY <1>1
  <2> QED
    BY <1>1, <1>2, <2>1
<1>4. LastOn(p, w, "start") => LastOn(q, w, "start")
  <2> SUFFICES ASSUME LastOn(p, w, "start") PROVE LastOn(q, w, "start")
    OBVIOUS
  <2>1. PICK i \in 1..n : /\ p[i].win = w /\ p[i].kind = "start"
                          /\ \A j \in 1..n : j > i => p[j].win # w
    BY DEF LastOn, n
  <2>2. i + 1 \in 1..Len(q) /\ q[i + 1] = p[i]
    BY <1>1, <2>1
  <2>3. ASSUME NEW j \in 1..Len(q), j > i + 1 PROVE q[j].win # w
    <3>1. j # 1 /\ j - 1 > i
      BY <1>1, <2>3
    <3>2. j - 1 \in 1..n /\ q[j] = p[j - 1]
      BY <1>2, <3>1
    <3> QED
      BY <2>1, <3>1, <3>2
  <2> QED
    BY <2>1, <2>2, <2>3 DEF LastOn
<1>5. LastOn(q, w, "start") =>
        \/ LastOn(p, w, "start")
        \/ Head(q).win = w /\ Head(q).kind = "start" /\ \A i \in 1..n : p[i].win # w
  <2> SUFFICES ASSUME LastOn(q, w, "start")
               PROVE  \/ LastOn(p, w, "start")
                      \/ /\ Head(q).win = w /\ Head(q).kind = "start"
                         /\ \A i \in 1..n : p[i].win # w
    OBVIOUS
  <2>1. PICK i \in 1..Len(q) : /\ q[i].win = w /\ q[i].kind = "start"
                               /\ \A j \in 1..Len(q) : j > i => q[j].win # w
    BY DEF LastOn
  <2>2. \A j \in 1..n : j + 1 \in 1..Len(q) /\ (j + 1 > i => p[j].win # w)
    BY <1>1, <2>1
  <2>3. CASE i = 1
    BY <1>1, <2>1, <2>2, <2>3
  <2>4. CASE i # 1
    <3>1. i - 1 \in 1..n /\ q[i] = p[i - 1]
      BY <1>2, <2>4
    <3>2. \A j \in 1..n : j > i - 1 => p[j].win # w
      BY <1>1, <2>2
    <3> QED
      BY <2>1, <3>1, <3>2 DEF LastOn, n
  <2> QED
    BY <2>3, <2>4
<1>6. Head(q).win = w /\ Head(q).kind = "start" /\ (\A i \in 1..n : p[i].win # w)
        => LastOn(q, w, "start")
  <2>1. 1 \in 1..Len(q)
    BY <1>1
  <2>2. (\A i \in 1..n : p[i].win # w)
          => \A j \in 1..Len(q) : j > 1 => q[j].win # w
    BY <1>2
  <2> QED
    BY <1>1, <2>1, <2>2 DEF LastOn
<1>7. LastOn(p, w, "start") => ~ \A i \in 1..n : p[i].win # w
  BY DEF LastOn, n
<1> QED
  BY <1>3, <1>4, <1>5, <1>6, <1>7 DEF Coming, p, n

-----------------------------------------------------------------------------
(* The invariant, conjunct by conjunct. *)

(* Where the messages of a channel are after a send and after a read. *)
LEMMA ChannelPlaces ==
    ASSUME NEW M, NEW ch \in Seq(M)
    PROVE  /\ \A m \in M : \A i \in 1..Len(Append(ch, m)) :
                \/ Append(ch, m)[i] = m
                \/ i \in 1..Len(ch) /\ Append(ch, m)[i] = ch[i]
           /\ ch # <<>> =>
                /\ 1 \in 1..Len(ch) /\ Head(ch) = ch[1]
                /\ \A i \in 1..Len(Tail(ch)) :
                     i + 1 \in 1..Len(ch) /\ Tail(ch)[i] = ch[i + 1]
<1>1. ASSUME NEW m \in M, NEW i \in 1..Len(Append(ch, m))
      PROVE  \/ Append(ch, m)[i] = m
             \/ i \in 1..Len(ch) /\ Append(ch, m)[i] = ch[i]
  OBVIOUS
<1>2. ASSUME ch # <<>>
      PROVE  /\ 1 \in 1..Len(ch) /\ Head(ch) = ch[1]
             /\ \A i \in 1..Len(Tail(ch)) :
                  i + 1 \in 1..Len(ch) /\ Tail(ch)[i] = ch[i + 1]
  BY <1>2
<1> QED
  BY <1>1, <1>2

(* The types of the two channels, named. *)
LEMMA Channels == TypeOK => wire \in Seq(Command) /\ reports \in Seq(Report)
  BY DEF TypeOK, Command, Report

(* The roster, while the enumerator acts. *)
LEMMA RosterSide ==
    ASSUME TypeOK, Roster,
           \/ \E w \in Windows : Appear(w) \/ Vanish(w)
           \/ Control \/ SessionDown
    PROVE  Roster'
<1>0. wire \in Seq(Command) /\ reports \in Seq(Report)
  BY Channels
<1>1. ASSUME NEW w \in Windows, Appear(w) PROVE Roster'
  <2> DEFINE r == [kind |-> "created", win |-> w]
  <2>1. r \in Report
    BY DEF Report
  <2>2. \A S : Rostered(S, born, tracked, owner)
                 => Rostered(S, born', tracked', owner)
    BY <1>1 DEF Appear, Rostered
  <2>3. \A i \in 1..Len(reports') :
          \/ reports'[i] = r
          \/ i \in 1..Len(reports) /\ reports'[i] = reports[i]
    BY <1>0, <1>1, <2>1, ChannelPlaces DEF Appear
  <2>4. \A i \in 1..Len(reports') :
          /\ reports'[i].win \in born'
          /\ reports'[i].kind = "destroyed" => reports'[i].win \notin tracked'
    BY <1>1, <2>3 DEF Appear, Roster
  <2>5. /\ UNCHANGED <<docs, refcount, owner, counted, todo, victim, wire, up>>
        /\ w \notin born /\ up
        /\ born' = born \cup {w} /\ tracked' = tracked \cup {w}
    BY <1>1 DEF Appear, hubVars, taskVars
  <2>6. victim \subseteq born' \ tracked' /\ owner \subseteq born'
    BY <2>5 DEF Roster
  <2>7. \A t \in Tasks : \A m \in todo[t] :
          m.win \in born' /\ (m.win \in tracked' => m.win \in owner)
    BY <2>5 DEF Roster
  <2>8. \A i \in 1..Len(wire) : wire[i].win \in born'
    BY <2>5 DEF Roster
  <2> QED
    BY <2>2, <2>4, <2>5, <2>6, <2>7, <2>8 DEF Roster
<1>2. ASSUME NEW w \in Windows, Vanish(w) PROVE Roster'
  <2> DEFINE r == [kind |-> "destroyed", win |-> w]
  <2>1. r \in Report
    BY DEF Report
  <2>2. /\ UNCHANGED <<docs, refcount, owner, counted, todo, victim, wire, up,
                       born>>
        /\ w \in tracked /\ tracked' = tracked \ {w} /\ up
    BY <1>2 DEF Vanish, hubVars, taskVars
  <2>3. \A i \in 1..Len(reports') :
          \/ reports'[i] = r
          \/ i \in 1..Len(reports) /\ reports'[i] = reports[i]
    BY <1>0, <1>2, <2>1, ChannelPlaces DEF Vanish
  <2>4. \A i \in 1..Len(reports') :
          /\ reports'[i].win \in born
          /\ reports'[i].kind = "destroyed" => reports'[i].win \notin tracked'
    <3>1. r.win \in born /\ r.win \notin tracked'
      BY <2>2 DEF TypeOK
    <3> QED
      BY <2>2, <2>3, <3>1 DEF Roster
  <2>5. \A S : Rostered(S, born, tracked, owner)
                 => Rostered(S, born, tracked', owner)
    BY <2>2 DEF Rostered
  <2> QED
    BY <2>2, <2>4, <2>5 DEF Roster
<1>3. CASE Control
  <2>1. wire # <<>> /\ wire' = Tail(wire)
    BY <1>3 DEF Control
  <2>2. \A i \in 1..Len(wire') : i + 1 \in 1..Len(wire) /\ wire'[i] = wire[i + 1]
    BY <1>0, <2>1, ChannelPlaces
  <2>3. \A i \in 1..Len(wire') : wire'[i].win \in born
    BY <2>2 DEF Roster
  <2>4. UNCHANGED <<docs, refcount, owner, counted, todo, victim, reports, up,
                    born, tracked>>
    BY <1>3 DEF Control, hubVars, taskVars
  <2> QED
    BY <2>3, <2>4 DEF Roster
<1>4. CASE SessionDown
  <2>1. /\ UNCHANGED <<docs, refcount, owner, counted, todo, victim, born>>
        /\ tracked' = {} /\ wire' = <<>> /\ reports' = <<>>
    BY <1>4 DEF SessionDown, hubVars, taskVars
  <2>2. \A S : Rostered(S, born, tracked, owner) => Rostered(S, born, {}, owner)
    BY DEF Rostered
  <2>3. 1..Len(wire') = {} /\ 1..Len(reports') = {}
    BY <2>1
  <2> QED
    BY <2>1, <2>2, <2>3 DEF Roster
<1> QED
  BY <1>1, <1>2, <1>3, <1>4

(* The roster, while documents and owners change. *)
LEMMA RosterDocuments ==
    ASSUME TypeOK, Roster,
           \/ HandleCreated \/ HandleDestroyed
           \/ \E t \in Frontends, ws \in Workspaces, w \in Windows :
                Attach(t, ws, w) \/ Detach(t, ws, w)
    PROVE  Roster'
<1>0. reports \in Seq(Report)
  BY Channels
<1>1. CASE HandleCreated \/ HandleDestroyed
  <2>1. reports # <<>> /\ reports' = Tail(reports)
    BY <1>1 DEF HandleCreated, HandleDestroyed
  <2>2. /\ 1 \in 1..Len(reports) /\ Head(reports) = reports[1]
        /\ \A i \in 1..Len(reports') :
             i + 1 \in 1..Len(reports) /\ reports'[i] = reports[i + 1]
    BY <1>0, <2>1, ChannelPlaces
  <2>3. \A i \in 1..Len(reports') :
          /\ reports'[i].win \in born
          /\ reports'[i].kind = "destroyed" => reports'[i].win \notin tracked
    BY <2>2 DEF Roster
  <2>4. CASE HandleCreated
    <3>1. /\ UNCHANGED <<docs, refcount, counted, todo, victim, wire, up, born,
                         tracked>>
          /\ owner' = owner \cup {Head(reports).win}
      BY <2>4 DEF HandleCreated, taskVars, sideVars
    <3>2. owner' \subseteq born
      BY <2>2, <3>1 DEF Roster
    <3>3. \A S : Rostered(S, born, tracked, owner)
                   => Rostered(S, born, tracked, owner')
      BY <3>1 DEF Rostered
    <3>4. \A t \in Tasks : \A m \in todo[t] :
            m.win \in born /\ (m.win \in tracked => m.win \in owner')
      BY <3>1 DEF Roster
    <3> QED
      BY <2>3, <3>1, <3>2, <3>3, <3>4 DEF Roster
  <2>5. CASE HandleDestroyed
    <3>1. /\ UNCHANGED <<refcount, owner, counted, todo, wire, up, born, tracked>>
          /\ victim' = {Head(reports).win} /\ Head(reports).kind = "destroyed"
          /\ docs' = [ws \in Workspaces |-> docs[ws] \ victim']
      BY <2>5 DEF HandleDestroyed, sideVars
    <3>2. victim' \subseteq born \ tracked
      BY <2>2, <3>1 DEF Roster
    <3>3. \A ws \in Workspaces : Rostered(docs'[ws], born, tracked, owner)
      BY <3>1 DEF Roster, Rostered
    <3> QED
      BY <2>3, <3>1, <3>2, <3>3 DEF Roster
  <2> QED
    BY <1>1, <2>4, <2>5
<1>2. ASSUME NEW t \in Frontends, NEW ws \in Workspaces, NEW w \in Windows,
             Attach(t, ws, w) \/ Detach(t, ws, w)
      PROVE  Roster'
  <2>1. UNCHANGED <<refcount, owner, counted, todo, victim, wire, reports, up,
                    born, tracked>>
    BY <1>2 DEF Attach, Detach, sideVars
  <2>2. \A x \in Workspaces : \/ docs'[x] = docs[x]
                              \/ w \in owner /\ docs'[x] = docs[x] \cup {w}
                              \/ docs'[x] = docs[x] \ {w}
    BY <1>2 DEF TypeOK, Attach, Detach
  <2>3. \A x \in Workspaces : Rostered(docs'[x], born, tracked, owner)
    BY <2>2 DEF Roster, Rostered
  <2> QED
    BY <2>1, <2>3 DEF Roster
<1> QED
  BY <1>1, <1>2

(* The roster, while a task reconciles. *)
LEMMA RosterReconcile ==
    ASSUME TypeOK, Roster, NEW t \in Tasks, Reconcile(t)
    PROVE  Roster'
<1>1. CASE Count(t)
  <2>1. UNCHANGED <<docs, refcount, owner, todo, victim, wire, reports, up, born,
                    tracked>>
    BY <1>1 DEF Count, hubVars, sideVars
  <2>2. Rostered(Attached, born, tracked, owner)
    BY DEF Roster, Rostered, Attached
  <2>3. \A u \in Tasks : counted'[u] = counted[u] \/ counted'[u] = Attached
    BY <1>1 DEF TypeOK, Count
  <2>4. \A u \in Tasks : Rostered(counted'[u], born, tracked, owner)
    BY <2>2, <2>3 DEF Roster
  <2> QED
    BY <2>1, <2>4 DEF Roster
<1>2. CASE Compare(t)
  <2>1. UNCHANGED <<docs, owner, victim, wire, reports, up, born, tracked>>
    BY <1>2 DEF Compare, sideVars
  <2>2. Rostered(counted[t], born, tracked, owner)
    BY DEF Roster
  <2>3. Rostered(refcount', born, tracked, owner)
    BY <1>2, <2>2 DEF Compare
  <2>4. \A u \in Tasks : counted'[u] = counted[u] \/ counted'[u] = {}
    BY <1>2 DEF TypeOK, Compare
  <2>5. \A u \in Tasks : Rostered(counted'[u], born, tracked, owner)
    BY <2>4 DEF Roster, Rostered
  <2>6. \A m \in Transitions(t) :
          m.win \in born /\ (m.win \in tracked => m.win \in owner)
    BY <2>2 DEF Transitions, Start, Stop, Roster, Rostered
  <2>7. \A u \in Tasks : todo'[u] = todo[u] \/ todo'[u] = Transitions(t)
    BY <1>2 DEF TypeOK, Compare
  <2>8. \A u \in Tasks : \A m \in todo'[u] :
          m.win \in born /\ (m.win \in tracked => m.win \in owner)
    BY <2>6, <2>7 DEF Roster
  <2> QED
    BY <2>1, <2>3, <2>5, <2>8 DEF Roster
<1>3. CASE Owners(t) \/ Send(t)
  <2>1. UNCHANGED <<docs, refcount, owner, counted, victim, reports, up, born,
                    tracked>>
    BY <1>3 DEF Owners, Send, hubVars, sideVars
  <2>2. \A u \in Tasks : todo'[u] \subseteq todo[u]
    BY <1>3 DEF TypeOK, Owners, Send
  <2>3. \A u \in Tasks : \A m \in todo'[u] :
          m.win \in born /\ (m.win \in tracked => m.win \in owner)
    BY <2>2 DEF Roster
  <2>4. \A i \in 1..Len(wire') : wire'[i].win \in born
    <3>1. CASE wire' = wire
      BY <3>1 DEF Roster
    <3>2. CASE wire' # wire
      <4>1. PICK m \in todo[t] : wire' = Append(wire, m)
        BY <1>3, <3>2 DEF Owners, Send
      <4>2. m \in Command /\ m.win \in born /\ wire \in Seq(Command)
        BY DEF TypeOK, Roster, Command
      <4>3. \A i \in 1..Len(wire') :
              wire'[i] = m \/ (i \in 1..Len(wire) /\ wire'[i] = wire[i])
        BY <4>1, <4>2, ChannelPlaces
      <4> QED
        BY <4>2, <4>3 DEF Roster
    <3> QED
      BY <3>1, <3>2
  <2> QED
    BY <2>1, <2>3, <2>4 DEF Roster
<1>4. CASE Done(t)
  <2>1. UNCHANGED <<docs, refcount, counted, todo, wire, reports, up, born,
                    tracked>>
    BY <1>4 DEF Done, sideVars
  <2>2. /\ owner' \subseteq owner /\ owner \cap tracked \subseteq owner'
        /\ victim' \subseteq victim
    BY <1>4 DEF Done, Roster
  <2>3. \A S : Rostered(S, born, tracked, owner)
                 => Rostered(S, born, tracked, owner')
    BY <2>2 DEF Rostered
  <2>4. owner' \subseteq born /\ victim' \subseteq born \ tracked
    BY <2>2 DEF Roster
  <2>5. \A u \in Tasks : \A m \in todo[u] :
          m.win \in born /\ (m.win \in tracked => m.win \in owner')
    BY <2>2 DEF Roster
  <2> QED
    BY <2>1, <2>3, <2>4, <2>5 DEF Roster
<1> QED
  BY <1>1, <1>2, <1>3, <1>4 DEF Reconcile

(* Commands are prepared and sent within one reconciliation. *)
LEMMA PreparedStep ==
    ASSUME TypeOK, Prepared, [Next]_vars
    PROVE  Prepared'
<1>1. ASSUME NEW t \in Tasks, Compare(t) PROVE Prepared'
  <2>1. \A w \in Windows : ~(Start(w) \in Transitions(t) /\ Stop(w) \in Transitions(t))
    BY DEF Transitions, Start, Stop
  <2>2. \A u \in Tasks :
          \/ u # t /\ todo'[u] = todo[u] /\ pc'[u] = pc[u]
          \/ u = t /\ todo'[u] = Transitions(t) /\ pc'[u] = "owners"
    BY <1>1 DEF TypeOK, Compare
  <2> QED
    BY <2>1, <2>2 DEF Prepared
<1>2. ASSUME NEW t \in Tasks, Owners(t) \/ Send(t) PROVE Prepared'
  <2>1. \A u \in Tasks :
          \/ todo'[u] = todo[u] /\ pc'[u] = pc[u]
          \/ todo'[u] \subseteq todo[u] /\ pc'[u] = "send"
    BY <1>2 DEF TypeOK, Owners, Send
  <2> QED
    BY <2>1 DEF Prepared
<1>3. ASSUME NEW t \in Tasks, Count(t) \/ Done(t) PROVE Prepared'
  <2>1. todo' = todo /\ \A u \in Tasks :
          \/ pc'[u] = pc[u]
          \/ pc[u] \notin {"owners", "send"}
          \/ todo[u] = {}
    BY <1>3 DEF TypeOK, Count, Done
  <2> QED
    BY <2>1 DEF Prepared
<1>4. ASSUME NEW t \in Frontends, NEW ws \in Workspaces, NEW w \in Windows,
             Attach(t, ws, w) \/ Detach(t, ws, w)
      PROVE  Prepared'
  <2>1. todo' = todo /\ \A u \in Tasks :
          pc'[u] = pc[u] \/ pc[u] \notin {"owners", "send"}
    BY <1>4 DEF TypeOK, Attach, Detach
  <2> QED
    BY <2>1 DEF Prepared
<1>5. CASE HandleDestroyed
  <2>1. todo' = todo /\ \A u \in Tasks :
          pc'[u] = pc[u] \/ pc[u] \notin {"owners", "send"}
    BY <1>5 DEF TypeOK, HandleDestroyed
  <2> QED
    BY <2>1 DEF Prepared
<1>6. ASSUME UNCHANGED <<pc, todo>> PROVE Prepared'
  BY <1>6 DEF Prepared
<1>7. ASSUME NEW w \in Windows, Appear(w) \/ Vanish(w) PROVE UNCHANGED <<pc, todo>>
  BY <1>7 DEF Appear, Vanish, taskVars
<1>8. Control \/ SessionDown \/ HandleCreated \/ UNCHANGED vars
        => UNCHANGED <<pc, todo>>
  BY DEF Control, SessionDown, HandleCreated, vars, taskVars
<1> QED
  BY <1>1, <1>2, <1>3, <1>4, <1>5, <1>6, <1>7, <1>8 DEF Next, Reconcile

(* What the enumerator will have done, while it acts itself. *)
LEMMA SerialSide ==
    ASSUME TypeOK, Roster, SerialInv,
           \/ \E w \in Windows : Appear(w) \/ Vanish(w)
           \/ Control \/ SessionDown
    PROVE  SerialInv'
<1> SUFFICES ASSUME ~crossed' PROVE OneSection' /\ Foreseen' /\ Settled'
  BY DEF SerialInv
<1>1. UNCHANGED <<docs, refcount, pc, counted, todo, crossed>>
  BY DEF Appear, Vanish, Control, SessionDown, hubVars, taskVars
<1>2. OneSection /\ Foreseen /\ Settled
  BY <1>1 DEF SerialInv
<1>3. OneSection' /\ Settled'
  BY <1>1, <1>2 DEF OneSection, Reconciling, Settled, Attached
<1> DEFINE A == Outstanding(todo)
<1>4. A' = A
  BY <1>1 DEF Outstanding
<1>5. ASSUME NEW w \in Windows, Appear(w) PROVE Foreseen'
  <2>1. /\ wire' = wire /\ capturing' = capturing /\ w \notin born
        /\ tracked' = tracked \cup {w}
    BY <1>5 DEF Appear
  <2>2. w \notin refcount
    BY <2>1 DEF Roster, Rostered
  <2>3. Start(w) \notin A
    BY <2>1 DEF Outstanding, Roster, Start
  <2>4. ~Coming(wire, capturing, w)
    BY <2>1 DEF Coming, LastOn, Roster, TypeOK
  <2>5. w \in refcount <=> Planned(A, wire, capturing, w)
    BY <2>2, <2>3, <2>4 DEF Planned
  <2> HIDE DEF A
  <2> QED
    BY <1>1, <1>2, <1>4, <2>1, <2>5 DEF Foreseen, A
<1>6. ASSUME NEW w \in Windows, Vanish(w) PROVE Foreseen'
  <2>1. wire' = wire /\ capturing' = capturing \ {w} /\ tracked' = tracked \ {w}
    BY <1>6 DEF Vanish
  <2>2. ASSUME NEW v \in tracked'
        PROVE  Planned(A, wire, capturing, v) <=> Planned(A, wire, capturing', v)
    BY <2>1 DEF Planned, Coming
  <2> HIDE DEF A
  <2> QED
    BY <1>1, <1>2, <1>4, <2>1, <2>2 DEF Foreseen, A
<1>7. ASSUME Control PROVE Foreseen'
  <2> DEFINE m == Head(wire)
  <2>1. /\ wire # <<>> /\ wire' = Tail(wire) /\ tracked' = tracked
        /\ capturing' = IF m.kind = "stop" THEN capturing \ {m.win}
                        ELSE IF m.win \in tracked THEN capturing \cup {m.win}
                        ELSE capturing
    BY <1>7 DEF Control, MayStart
  <2>2. wire \in Seq(Command)
    BY Channels
  <2>3. m \in Command
    BY <2>1, <2>2, ChannelStep
  <2>4. m.kind = "start" \/ m.kind = "stop"
    BY <2>3 DEF Command
  <2> HIDE DEF m
  <2>5. ASSUME NEW v \in tracked
        PROVE  Coming(wire, capturing, v) <=> Coming(wire', capturing', v)
    <3>1. m.win # v => (v \in capturing' <=> v \in capturing)
      BY <2>1
    <3>2. m.win = v => (v \in capturing' <=> m.kind = "start")
      BY <2>1, <2>4
    <3>3. Coming(wire, capturing, v) <=> Coming(Tail(wire), capturing', v)
      <4>1. wire # <<>>
        BY <2>1
      <4>2. Head(wire).win # v => (v \in capturing' <=> v \in capturing)
        BY <3>1 DEF m
      <4>3. Head(wire).win = v => (v \in capturing' <=> Head(wire).kind = "start")
        BY <3>2 DEF m
      <4> HIDE <2>1
      <4> QED
        BY <2>2, <4>1, <4>2, <4>3, ComingRead
    <3> QED
      BY <2>1, <3>3
  <2> HIDE DEF A
  <2>6. \A v \in tracked :
          Planned(A, wire, capturing, v) <=> Planned(A, wire', capturing', v)
    BY <2>5 DEF Planned
  <2> QED
    BY <1>1, <1>2, <1>4, <2>1, <2>6 DEF Foreseen, A
<1>8. ASSUME SessionDown PROVE Foreseen'
  BY <1>8 DEF SessionDown, Foreseen
<1> QED
  BY <1>3, <1>5, <1>6, <1>7, <1>8

(* A change of the documents is followed by a recount. *)
LEMMA SerialDocuments ==
    ASSUME TypeOK, SerialInv,
           \/ HandleCreated \/ HandleDestroyed
           \/ \E t \in Frontends, ws \in Workspaces, w \in Windows :
                Attach(t, ws, w) \/ Detach(t, ws, w)
    PROVE  SerialInv'
<1> SUFFICES ASSUME ~crossed' PROVE OneSection' /\ Foreseen' /\ Settled'
  BY DEF SerialInv
<1>1. UNCHANGED <<refcount, counted, todo, wire, tracked, capturing, crossed>>
  BY DEF HandleCreated, HandleDestroyed, Attach, Detach, taskVars, sideVars
<1>2. OneSection /\ Foreseen /\ Settled
  BY <1>1 DEF SerialInv
<1>3. Foreseen'
  BY <1>1, <1>2 DEF Foreseen, Outstanding
<1>4. CASE HandleCreated
  <2>1. pc' = pc /\ docs' = docs
    BY <1>4 DEF HandleCreated, taskVars
  <2> QED
    BY <1>1, <1>2, <1>3, <2>1 DEF OneSection, Reconciling, Settled, Attached
<1>5. ASSUME NEW t \in Tasks, pc[t] = "idle", pc' = [pc EXCEPT ![t] = "count"]
      PROVE  OneSection' /\ Settled'
  <2>1. pc'[t] = "count" /\ \A u \in Tasks : u # t => pc'[u] = pc[u]
    BY <1>5 DEF TypeOK
  <2>2. OneSection'
    BY <1>2, <2>1 DEF OneSection, Reconciling
  <2>3. Settled'
    BY <2>1 DEF Settled
  <2> QED
    BY <2>2, <2>3
<1>6. CASE HandleDestroyed
  BY <1>3, <1>5, <1>6 DEF HandleDestroyed, Tasks
<1>7. ASSUME NEW t \in Frontends, NEW ws \in Workspaces, NEW w \in Windows,
             Attach(t, ws, w) \/ Detach(t, ws, w)
      PROVE  OneSection' /\ Settled'
  BY <1>5, <1>7 DEF Attach, Detach, Tasks
<1> QED
  BY <1>3, <1>4, <1>6, <1>7

(* A reconciliation that no other overlaps. *)
LEMMA SerialReconcile ==
    ASSUME TypeOK, Roster, Prepared, SerialInv, NEW t \in Tasks, Reconcile(t)
    PROVE  SerialInv'
<1> SUFFICES ASSUME ~crossed' PROVE OneSection' /\ Foreseen' /\ Settled'
  BY DEF SerialInv
<1>1. ~crossed
  BY DEF Reconcile, Count, Compare, Owners, Send, Done
<1>2. OneSection /\ Foreseen /\ Settled
  BY <1>1 DEF SerialInv
<1>3. CASE Count(t)
  <2>1. /\ UNCHANGED <<docs, refcount, todo, wire, tracked, capturing>>
        /\ \A u \in Tasks \ {t} : ~Reconciling(u)
    BY <1>3 DEF Count, hubVars, sideVars
  <2>2. /\ pc'[t] = "compare" /\ counted'[t] = Attached
        /\ \A u \in Tasks : u # t => pc'[u] = pc[u]
    BY <1>3 DEF TypeOK, Count
  <2>3. Attached' = Attached
    BY <2>1 DEF Attached
  <2>4. OneSection'
    BY <2>1, <2>2 DEF OneSection, Reconciling
  <2>5. Settled'
    BY <2>1, <2>2, <2>3 DEF Settled, Reconciling
  <2>6. Foreseen'
    BY <1>2, <2>1 DEF Foreseen, Outstanding
  <2> QED
    BY <2>4, <2>5, <2>6
<1>4. CASE Compare(t)
  <2>1. /\ UNCHANGED <<docs, wire, tracked, capturing>>
        /\ pc[t] = "compare" /\ refcount' = counted[t]
    BY <1>4 DEF Compare, sideVars
  <2>2. /\ pc'[t] = "owners" /\ todo'[t] = Transitions(t)
        /\ \A u \in Tasks : u # t => pc'[u] = pc[u] /\ todo'[u] = todo[u]
    BY <1>4 DEF TypeOK, Compare
  <2>3. Attached' = Attached
    BY <2>1 DEF Attached
  <2>4. \A u \in Tasks : u # t => ~Reconciling(u)
    BY <1>2, <2>1 DEF OneSection, Reconciling
  <2>5. OneSection'
    BY <2>2, <2>4 DEF OneSection, Reconciling
  <2>6. Settled'
    <3>1. ASSUME \A u \in Tasks : pc'[u] # "count"
          PROVE  counted[t] = Attached
      BY <1>2, <2>1, <2>2, <3>1 DEF Settled
    <3> QED
      BY <2>1, <2>2, <2>3, <2>4, <3>1 DEF Settled, Reconciling
  <2>7. \A u \in Tasks : todo[u] = {}
    BY <2>1, <2>4 DEF Prepared, Reconciling
  <2>8. Outstanding(todo) = {}
    BY <2>7 DEF Outstanding
  <2>9. Outstanding(todo)' = Transitions(t)
    BY <2>2, <2>7 DEF Outstanding
  <2>10. ASSUME NEW w \in tracked
         PROVE  w \in counted[t]
                  <=> Planned(Transitions(t), wire, capturing, w)
    <3>1. w \in refcount <=> Coming(wire, capturing, w)
      BY <1>2, <2>8 DEF Foreseen, Planned
    <3>2. /\ Start(w) \in Transitions(t) <=> w \in counted[t] \ refcount
          /\ Stop(w) \in Transitions(t) <=> w \in refcount \ counted[t]
      BY DEF Transitions, Start, Stop
    <3> QED
      BY <3>1, <3>2 DEF Planned
  <2>11. Foreseen'
    BY <2>1, <2>9, <2>10 DEF Foreseen
  <2> QED
    BY <2>5, <2>6, <2>11
<1>5. CASE Owners(t)
  <2>1. /\ UNCHANGED <<docs, refcount, counted, wire, tracked, capturing>>
        /\ pc[t] = "owners"
    BY <1>5 DEF Owners, hubVars, sideVars
  <2>2. /\ pc'[t] = "send" /\ todo'[t] = {m \in todo[t] : m.win \in owner}
        /\ \A u \in Tasks : u # t => pc'[u] = pc[u] /\ todo'[u] = todo[u]
    BY <1>5 DEF TypeOK, Owners
  <2>3. OneSection'
    BY <1>2, <2>1, <2>2 DEF OneSection, Reconciling
  <2>4. Settled'
    BY <1>2, <2>1, <2>2 DEF Settled, Attached
  <2>5. /\ Outstanding(todo) = todo[t]
        /\ Outstanding(todo)' = todo'[t]
    <3>1. Reconciling(t)
      BY <2>1 DEF Reconciling
    <3>2. \A u \in Tasks : u # t => todo[u] = {}
      BY <1>2, <3>1 DEF OneSection, Reconciling, Prepared
    <3> QED
      BY <2>2, <3>2 DEF Outstanding
  <2>6. \A w \in tracked : /\ Start(w) \in todo'[t] <=> Start(w) \in todo[t]
                           /\ Stop(w) \in todo'[t] <=> Stop(w) \in todo[t]
    BY <2>2 DEF Roster, Start, Stop
  <2>7. Foreseen'
    BY <1>2, <2>1, <2>5, <2>6 DEF Foreseen, Planned
  <2> QED
    BY <2>3, <2>4, <2>7
<1>6. CASE Send(t)
  <2>1. PICK m \in todo[t] :
          /\ todo' = [todo EXCEPT ![t] = @ \ {m}]
          /\ wire' = IF up THEN Append(wire, m) ELSE wire
    BY <1>6 DEF Send
  <2>2. /\ UNCHANGED <<docs, refcount, pc, counted, tracked, capturing, up>>
        /\ pc[t] = "send"
    BY <1>6 DEF Send, hubVars, sideVars
  <2>3. OneSection' /\ Settled'
    BY <1>2, <2>2 DEF OneSection, Reconciling, Settled, Attached
  <2>4. /\ todo'[t] = todo[t] \ {m}
        /\ \A u \in Tasks : u # t => todo'[u] = todo[u] /\ todo[u] = {}
    <3>1. \A u \in Tasks : u # t => todo[u] = {}
      BY <1>2, <2>2 DEF OneSection, Reconciling, Prepared
    <3> QED
      BY <2>1, <3>1 DEF TypeOK
  <2>5. Outstanding(todo) = todo[t] /\ Outstanding(todo)' = todo[t] \ {m}
    BY <2>4 DEF Outstanding
  <2>6. m \in Command /\ wire \in Seq(Command)
    BY DEF TypeOK, Command
  <2>7. ASSUME NEW w \in tracked
        PROVE  Planned(todo[t], wire, capturing, w)
                 <=> Planned(todo[t] \ {m}, wire', capturing, w)
    <3>1. up /\ wire' = Append(wire, m)
      BY <2>1, <2>7 DEF Roster
    <3>2. Coming(wire', capturing, w)
            <=> IF m.win = w THEN m.kind = "start" ELSE Coming(wire, capturing, w)
      BY <2>6, <3>1, ComingSent
    <3>3. CASE m.win # w
      <4>1. m # Start(w) /\ m # Stop(w)
        BY <3>3 DEF Start, Stop
      <4> QED
        BY <3>2, <3>3, <4>1 DEF Planned
    <3>4. CASE m.win = w
      <4>1. (m = Start(w) /\ m.kind = "start") \/ (m = Stop(w) /\ m.kind = "stop")
        BY <2>6, <3>4 DEF Command, Start, Stop
      <4>2. ~(Start(w) \in todo[t] /\ Stop(w) \in todo[t])
        BY DEF Prepared, TypeOK
      <4>3. Start(w) # Stop(w)
        BY DEF Start, Stop
      <4> QED
        BY <3>2, <3>4, <4>1, <4>2, <4>3 DEF Planned
    <3> QED
      BY <3>3, <3>4
  <2>8. Foreseen'
    BY <1>2, <2>2, <2>5, <2>7 DEF Foreseen
  <2> QED
    BY <2>3, <2>8
<1>7. CASE Done(t)
  <2>1. /\ UNCHANGED <<docs, refcount, counted, todo, wire, tracked, capturing>>
        /\ pc[t] = "send"
    BY <1>7 DEF Done, sideVars
  <2>2. pc'[t] = "idle" /\ \A u \in Tasks : u # t => pc'[u] = pc[u]
    BY <1>7 DEF TypeOK, Done
  <2>3. OneSection'
    BY <1>2, <2>2 DEF OneSection, Reconciling
  <2>4. Settled'
    BY <1>2, <2>1, <2>2 DEF Settled, Attached
  <2>5. Foreseen'
    BY <1>2, <2>1 DEF Foreseen, Outstanding
  <2> QED
    BY <2>3, <2>4, <2>5
<1> QED
  BY <1>3, <1>4, <1>5, <1>6, <1>7 DEF Reconcile

(* The windows captured are those some document shows whenever the hub and  *)
(* its channels are at rest, provided no recount overlapped another: for    *)
(* any number of browsers, workspaces and windows, whatever appears,        *)
(* vanishes and is edited, and however often.  An overlap of two runs is    *)
(* thus the only way for reconcile_streaming_after_change to go wrong.      *)
THEOREM SerialRecountsMatch == Spec => []SerialCaptureMatches
<1>1. Init => CaptureInv
  <2> SUFFICES ASSUME Init PROVE CaptureInv
    OBVIOUS
  <2>1. Roster
    BY DEF Init, Roster, Rostered
  <2>2. Prepared
    BY DEF Init, Prepared
  <2>3. OneSection /\ Foreseen
    BY DEF Init, OneSection, Reconciling, Foreseen
  <2>4. Settled
    BY DEF Init, Settled, Attached
  <2> QED
    BY InitTyped, <2>1, <2>2, <2>3, <2>4 DEF CaptureInv, SerialInv
<1>2. CaptureInv /\ [Next]_vars => CaptureInv'
  <2> SUFFICES ASSUME CaptureInv, [Next]_vars PROVE CaptureInv'
    OBVIOUS
  <2> USE DEF CaptureInv
  <2>1. CASE Next
    <3>1. TypeOK'
      BY <2>1, SideStep, DocumentStep, ReconcileStep DEF Next
    <3>2. Roster'
      BY <2>1, RosterSide, RosterDocuments, RosterReconcile DEF Next
    <3>3. SerialInv'
      BY <2>1, SerialSide, SerialDocuments, SerialReconcile DEF Next
    <3> QED
      BY <3>1, <3>2, <3>3, PreparedStep
  <2>2. CASE UNCHANGED vars
    <3>1. TypeOK' /\ Roster'
      BY <2>2 DEF TypeOK, Roster, vars, hubVars, taskVars, sideVars
    <3>2. OneSection' = OneSection /\ Foreseen' = Foreseen /\ Settled' = Settled
      BY <2>2 DEF OneSection, Reconciling, Foreseen, Outstanding, Settled,
                  Attached, vars, hubVars, taskVars, sideVars
    <3>3. crossed' = crossed
      BY <2>2 DEF vars
    <3> QED
      BY <3>1, <3>2, <3>3, PreparedStep DEF SerialInv
  <2> QED
    BY <2>1, <2>2
<1>3. CaptureInv => SerialCaptureMatches
  <2> SUFFICES ASSUME CaptureInv, ~crossed, Quiet, up
               PROVE  capturing = Attached \cap tracked
    BY DEF SerialCaptureMatches, CaptureMatches
  <2>1. Foreseen /\ Settled /\ Prepared /\ TypeOK
    BY DEF CaptureInv, SerialInv
  <2>2. refcount = Attached
    BY <2>1 DEF Settled, Quiet
  <2>3. Outstanding(todo) = {}
    BY <2>1 DEF Prepared, Quiet, Outstanding
  <2>4. ASSUME NEW w \in tracked PROVE w \in refcount <=> w \in capturing
    <3>1. 1..Len(wire) = {}
      BY DEF Quiet
    <3>2. Coming(wire, capturing, w) <=> w \in capturing
      BY <3>1 DEF Coming, LastOn
    <3> QED
      BY <2>1, <2>3, <3>2 DEF Foreseen, Planned
  <2> QED
    BY <2>1, <2>2, <2>4 DEF TypeOK
<1> QED
  BY <1>1, <1>2, <1>3, PTL DEF Spec

-----------------------------------------------------------------------------

(***************************************************************************)
(* Vec::retain.  What a recursive function computes is shown by induction  *)
(* in the form: a set of numbers that holds 0 and the successor of each of *)
(* its members is the set of all numbers.                                  *)
(***************************************************************************)
LEMMA SetInduction ==
  ASSUME NEW T, 0 \in T, \A n \in Nat : n \in T => n + 1 \in T
  PROVE  Nat \subseteq T
<1> DEFINE R == OpToRel(<, Nat)
           U == Nat \ T
<1> SUFFICES ASSUME U # {} PROVE FALSE
  OBVIOUS
<1>1. IsWellFoundedOn(R, Nat)
  BY NatLessThanWellFounded
<1>2. \A x, y \in Nat : <<x, y>> \in R <=> x < y
  BY DEF OpToRel
<1>3. U \subseteq Nat
  OBVIOUS
<1> HIDE DEF R, U
<1>4. PICK x \in U : \A y \in U : ~(<<y, x>> \in R)
  BY <1>1, <1>3, WFMin
<1>5. x \in Nat /\ x \notin T /\ x # 0
  BY <1>4 DEF U
<1>6. x - 1 \in Nat /\ x - 1 < x
  BY <1>5
<1>7. x - 1 \notin U
  BY <1>2, <1>3, <1>4, <1>6
<1>8. x - 1 \in T
  BY <1>6, <1>7 DEF U
<1>9. (x - 1) + 1 \in T
  BY <1>6, <1>8
<1> QED  BY <1>5, <1>9

(* What one element adds to what the pass g has kept before it. *)
Pass(g, seq, K, i) ==
  CASE i = 0 -> <<>>
    [] i > 0 /\ seq[i] \in K -> Append(g[i - 1], seq[i])
    [] OTHER -> g[i - 1]

LEMMA PassExists ==
  ASSUME NEW seq, NEW K, NEW n \in Nat
  PROVE  \E g : g = [i \in 0..n |-> Pass(g, seq, K, i)]
<1> DEFINE T == {m \in Nat : \E g : g = [i \in 0..m |-> Pass(g, seq, K, i)]}
<1>1. 0 \in T
  <2> DEFINE g == [i \in 0..0 |-> <<>>]
  <2>1. g = [i \in 0..0 |-> Pass(g, seq, K, i)]
    BY DEF Pass
  <2> QED  BY <2>1
<1>2. ASSUME NEW m \in Nat, m \in T PROVE m + 1 \in T
  <2>1. PICK g : g = [i \in 0..m |-> Pass(g, seq, K, i)]
    BY <1>2
  <2> DEFINE h == [i \in 0..(m + 1) |-> IF i <= m THEN g[i] ELSE Pass(g, seq, K, m + 1)]
  <2>2. ASSUME NEW i \in 0..(m + 1) PROVE h[i] = Pass(h, seq, K, i)
    <3>1. i > 0 => i - 1 \in 0..(m + 1) /\ h[i - 1] = g[i - 1]
      OBVIOUS
    <3> HIDE DEF h
    <3>2. Pass(h, seq, K, i) = Pass(g, seq, K, i)
      BY <3>1 DEF Pass
    <3>3. CASE i <= m
      <4>1. i \in 0..m /\ h[i] = g[i]
        BY <3>3 DEF h
      <4>2. g[i] = Pass(g, seq, K, i)
        BY <2>1, <4>1
      <4> QED  BY <3>2, <4>1, <4>2
    <3>4. CASE i = m + 1
      BY <3>2, <3>4 DEF h
    <3> QED  BY <3>3, <3>4
  <2>3. h = [i \in 0..(m + 1) |-> Pass(h, seq, K, i)]
    <3>1. h = [i \in 0..(m + 1) |-> h[i]]
      OBVIOUS
    <3> HIDE DEF h
    <3> QED  BY <2>2, <3>1
  <2> HIDE DEF h
  <2> QED  BY <2>3
<1> HIDE DEF T
<1>3. Nat \subseteq T
  BY <1>1, <1>2, SetInduction
<1> QED  BY <1>3 DEF T

LEMMA KeptStep ==
  ASSUME NEW seq, Len(seq) \in Nat, NEW K
  PROVE  /\ Kept(seq, K)[0] = <<>>
         /\ \A i \in 1..Len(seq) :
              Kept(seq, K)[i] = IF seq[i] \in K THEN Append(Kept(seq, K)[i - 1], seq[i])
                                ELSE Kept(seq, K)[i - 1]
<1> DEFINE n == Len(seq)
           k == CHOOSE g : g = [i \in 0..n |-> Pass(g, seq, K, i)]
<1>1. Kept(seq, K) = k
  BY DEF Kept, Pass
<1>2. \E g : g = [i \in 0..n |-> Pass(g, seq, K, i)]
  BY PassExists
<1>3. k = [i \in 0..n |-> Pass(k, seq, K, i)]
  BY <1>2
<1> HIDE DEF k
<1>4. ASSUME NEW i \in 0..n PROVE k[i] = Pass(k, seq, K, i)
  BY <1>3
<1>5. k[0] = <<>>
  BY <1>4 DEF Pass
<1>6. ASSUME NEW i \in 1..n
      PROVE  k[i] = IF seq[i] \in K THEN Append(k[i - 1], seq[i]) ELSE k[i - 1]
  BY <1>4 DEF Pass
<1> QED  BY <1>1, <1>5, <1>6

(* Appending a value that is not there yet. *)
LEMMA AppendNew ==
  ASSUME NEW S, NEW q \in Seq(S), NEW x \in S
  PROVE  /\ Append(q, x) \in Seq(S) /\ Range(Append(q, x)) = Range(q) \cup {x}
         /\ IsInjective(q) /\ x \notin Range(q) => IsInjective(Append(q, x))
<1> DEFINE r == Append(q, x)
           n == Len(q)
<1>1. r \in Seq(S) /\ n \in Nat /\ DOMAIN q = 1..n /\ DOMAIN r = 1..(n + 1)
  OBVIOUS
<1>2. r[n + 1] = x /\ \A i \in 1..n : r[i] = q[i]
  OBVIOUS
<1> HIDE DEF r, n
<1>3. \A i \in 1..(n + 1) : i \in 1..n \/ i = n + 1
  BY <1>1
<1>4. 1..n \subseteq 1..(n + 1) /\ n + 1 \in 1..(n + 1)
  BY <1>1
<1>5. Range(r) = Range(q) \cup {x}
  BY <1>1, <1>2, <1>3, <1>4 DEF Range
<1>6. ASSUME IsInjective(q), x \notin Range(q) PROVE IsInjective(r)
  <2>1. \A i \in 1..n : q[i] # x
    BY <1>1, <1>6 DEF Range
  <2> QED  BY <1>1, <1>2, <1>3, <1>6, <2>1 DEF IsInjective
<1> QED  BY <1>1, <1>5, <1>6 DEF r

(* Of the first i elements the pass has kept those in K, each once if they  *)
(* were there once.                                                         *)
KeptSoFar(S, seq, K, i) ==
  /\ Kept(seq, K)[i] \in Seq(S)
  /\ Range(Kept(seq, K)[i]) = {seq[j] : j \in 1..i} \cap K
  /\ IsInjective(seq) => IsInjective(Kept(seq, K)[i])

LEMMA KeptGrows ==
  ASSUME NEW S, NEW seq \in Seq(S), NEW K, NEW m \in Nat, m + 1 <= Len(seq),
         KeptSoFar(S, seq, K, m)
  PROVE  KeptSoFar(S, seq, K, m + 1)
<1> DEFINE q == Kept(seq, K)[m]
           r == Kept(seq, K)[m + 1]
           x == seq[m + 1]
           A == {seq[j] : j \in 1..m}
           B == {seq[j] : j \in 1..(m + 1)}
<1>1. Len(seq) \in Nat /\ m + 1 \in 1..Len(seq) /\ (m + 1) - 1 = m /\ DOMAIN seq = 1..Len(seq)
  OBVIOUS
<1>2. r = IF x \in K THEN Append(q, x) ELSE q
  BY <1>1, KeptStep
<1>3. x \in S
  BY <1>1
<1>4. B = A \cup {x}
  <2>1. \A j \in 1..(m + 1) : j \in 1..m \/ j = m + 1
    OBVIOUS
  <2>2. 1..m \subseteq 1..(m + 1) /\ m + 1 \in 1..(m + 1)
    OBVIOUS
  <2> QED  BY <2>1, <2>2
<1>5. IsInjective(seq) => x \notin A
  <2> SUFFICES ASSUME IsInjective(seq), NEW j \in 1..m, seq[j] = x PROVE FALSE
    OBVIOUS
  <2>1. j \in 1..Len(seq) /\ j # m + 1
    BY <1>1
  <2> QED  BY <1>1, <2>1 DEF IsInjective
<1>6. q \in Seq(S) /\ Range(q) = A \cap K /\ (IsInjective(seq) => IsInjective(q))
  BY DEF KeptSoFar
<1>7. r \in Seq(S) /\ Range(r) = B \cap K /\ (IsInjective(seq) => IsInjective(r))
  <2> HIDE DEF q, r, x, A, B
  <2>1. CASE x \notin K
    BY <1>2, <1>4, <1>6, <2>1
  <2>2. CASE x \in K
    <3>1. /\ Append(q, x) \in Seq(S) /\ Range(Append(q, x)) = Range(q) \cup {x}
          /\ IsInjective(q) /\ x \notin Range(q) => IsInjective(Append(q, x))
      BY <1>3, <1>6, AppendNew
    <3> QED  BY <1>2, <1>4, <1>5, <1>6, <2>2, <3>1
  <2> QED  BY <2>1, <2>2
<1> QED  BY <1>7 DEF KeptSoFar

(* retain keeps exactly the elements in K, each once if it was there once. *)
LEMMA RetainKeeps ==
  ASSUME NEW S, NEW seq \in Seq(S), NEW K
  PROVE  /\ Retain(seq, K) \in Seq(S)
         /\ Range(Retain(seq, K)) = Range(seq) \cap K
         /\ IsInjective(seq) => IsInjective(Retain(seq, K))
<1> DEFINE n == Len(seq)
           T == {m \in Nat : m <= n => KeptSoFar(S, seq, K, m)}
<1>1. n \in Nat /\ DOMAIN seq = 1..n
  OBVIOUS
<1>2. 0 \in T
  <2>1. Kept(seq, K)[0] = <<>>
    BY <1>1, KeptStep
  <2>2. <<>> \in Seq(S) /\ Range(<<>>) = {} /\ IsInjective(<<>>)
    BY DEF Range, IsInjective
  <2>3. {seq[j] : j \in 1..0} = {}
    OBVIOUS
  <2> QED  BY <2>1, <2>2, <2>3 DEF KeptSoFar
<1>3. ASSUME NEW m \in Nat, m \in T PROVE m + 1 \in T
  BY <1>1, <1>3, KeptGrows
<1> HIDE DEF T
<1>4. n \in T
  BY <1>1, <1>2, <1>3, SetInduction
<1>5. KeptSoFar(S, seq, K, n)
  BY <1>1, <1>4 DEF T
<1>6. Range(seq) = {seq[j] : j \in 1..n}
  BY <1>1 DEF Range
<1> QED  BY <1>5, <1>6 DEF KeptSoFar, Retain

(***************************************************************************)
(* The tracker and the stacking order.                                     *)
(***************************************************************************)

(* The two maps and the sidecars: order is a list of windows of connected   *)
(* sidecars, each once, and the tracked windows are in it.                  *)
Hub(tr, ord, sc) ==
  /\ DOMAIN tr \subseteq Keys /\ \A k \in DOMAIN tr : tr[k] \in BOOLEAN
  /\ ord \in Seq(Keys) /\ IsInjective(ord)
  /\ DOMAIN tr \subseteq Range(ord)
  /\ \A k \in Range(ord) : sc[k[1]] = "up"

Loops ==
  /\ sidecar \in [Sidecars -> {"up", "gone"}]
  /\ stage \in [Sidecars -> {"idle", "build", "send"}]
  /\ built \in [Sidecars -> Seq(Keys)]
  /\ frontend \in [WlFrontends -> {"new", "registered", "built", "ready"}]
  /\ first \in [WlFrontends -> Seq(Keys)] /\ shown \in [WlFrontends -> Seq(Keys)]
  /\ events \in 0..MaxEvents /\ losses \in 0..Losses

(* The inductive invariant behind ListTypeOK and OrderConsistent. *)
ListInv == Hub(track, order, sidecar) /\ Loops

LEMMA RangeInside ==
  ASSUME NEW S, NEW q \in Seq(S)
  PROVE  Range(q) \subseteq S
<1>1. DOMAIN q = 1..Len(q) /\ \A i \in 1..Len(q) : q[i] \in S
  OBVIOUS
<1> QED  BY <1>1 DEF Range

LEMMA HubPlaced ==
  ASSUME Hub(track, order, sidecar), NEW k \in Keys, sidecar[k[1]] = "up",
         NEW b \in BOOLEAN, Put(k, b), order' = Placed(k)
  PROVE  Hub(track', order', sidecar)
<1>1. /\ DOMAIN track \subseteq Keys /\ order \in Seq(Keys) /\ IsInjective(order)
      /\ DOMAIN track \subseteq Range(order) /\ \A x \in Range(order) : sidecar[x[1]] = "up"
      /\ \A x \in DOMAIN track : track[x] \in BOOLEAN
  BY DEF Hub
<1>2. /\ order' \in Seq(Keys) /\ IsInjective(order') /\ Range(order') = Range(order) \cup {k}
  <2>1. CASE k \in Range(order)
    BY <1>1, <2>1 DEF Placed
  <2>2. CASE k \notin Range(order)
    <3>1. order' = Append(order, k)
      BY <2>2 DEF Placed
    <3> QED  BY <1>1, <2>2, <3>1, AppendNew
  <2> QED  BY <2>1, <2>2
<1>3. DOMAIN track' = DOMAIN track \cup {k} /\ \A x \in DOMAIN track' : track'[x] \in BOOLEAN
  BY <1>1 DEF Put
<1> QED  BY <1>1, <1>2, <1>3 DEF Hub

(* Some windows leave both maps; the sidecars they leave to go are sc. *)
LEMMA HubRetained ==
  ASSUME Hub(track, order, sidecar), NEW K, NEW sc,
         order' = Retain(order, K),
         DOMAIN track' \subseteq DOMAIN track \cap K,
         \A k \in DOMAIN track' : track'[k] = track[k],
         \A k \in Range(order) \cap K : sc[k[1]] = "up"
  PROVE  Hub(track', order', sc)
<1>1. /\ DOMAIN track \subseteq Keys /\ order \in Seq(Keys) /\ IsInjective(order)
      /\ DOMAIN track \subseteq Range(order)
      /\ \A x \in DOMAIN track : track[x] \in BOOLEAN
  BY DEF Hub
<1>2. order' \in Seq(Keys) /\ IsInjective(order') /\ Range(order') = Range(order) \cap K
  BY <1>1, RetainKeeps
<1> QED  BY <1>1, <1>2 DEF Hub

LEMMA HubRaised ==
  ASSUME Hub(track, order, sidecar), NEW k \in Keys, sidecar[k[1]] = "up", Raised(k)
  PROVE  Hub(track', order', sidecar)
<1> DEFINE q == Without(k)
<1>1. /\ DOMAIN track \subseteq Keys /\ order \in Seq(Keys) /\ IsInjective(order)
      /\ DOMAIN track \subseteq Range(order) /\ \A x \in Range(order) : sidecar[x[1]] = "up"
      /\ \A x \in DOMAIN track : track[x] \in BOOLEAN
  BY DEF Hub
<1>2. q \in Seq(Keys) /\ IsInjective(q) /\ Range(q) = Range(order) \cap (Range(order) \ {k})
  BY <1>1, RetainKeeps DEF Without
<1>3. track' = track /\ order' = Append(q, k)
  BY DEF Raised
<1> HIDE DEF q
<1>4. order' \in Seq(Keys) /\ IsInjective(order') /\ Range(order') = Range(q) \cup {k}
  BY <1>2, <1>3, AppendNew
<1>5. DOMAIN track' \subseteq Range(order') /\ Range(order') \subseteq Range(order) \cup {k}
  BY <1>1, <1>2, <1>3, <1>4
<1> QED  BY <1>1, <1>3, <1>4, <1>5 DEF Hub

LEMMA HubLifecycle ==
  ASSUME Hub(track, order, sidecar), NEW k \in Keys, sidecar[k[1]] = "up",
         \/ Created(k) \/ Mapped(k) \/ Unmapped(k)
         \/ Configured(k) \/ Destroyed(k) \/ Raised(k)
  PROVE  Hub(track', order', sidecar)
<1>1. CASE Created(k) \/ Mapped(k)
  BY <1>1, HubPlaced DEF Created, Mapped
<1>2. CASE Unmapped(k)
  <2>1. order' = order /\ DOMAIN track' = DOMAIN track
        /\ \A x \in DOMAIN track : track'[x] \in {track[x], FALSE}
    BY <1>2 DEF Unmapped, Update
  <2> QED  BY <2>1 DEF Hub
<1>3. CASE Configured(k)
  BY <1>3 DEF Configured, listVars
<1>4. CASE Destroyed(k)
  <2>1. order' = Retain(order, Range(order) \ {k})
    BY <1>4 DEF Destroyed, Without
  <2>2. DOMAIN track' = DOMAIN track \ {k} /\ \A x \in DOMAIN track' : track'[x] = track[x]
    BY <1>4 DEF Destroyed
  <2>3. DOMAIN track \subseteq Range(order) /\ \A x \in Range(order) : sidecar[x[1]] = "up"
    BY DEF Hub
  <2>4. DOMAIN track' \subseteq DOMAIN track \cap (Range(order) \ {k})
    BY <2>2, <2>3
  <2>5. \A x \in Range(order) \cap (Range(order) \ {k}) : sidecar[x[1]] = "up"
    BY <2>3
  <2> QED  BY <2>1, <2>2, <2>4, <2>5, HubRetained
<1>5. CASE Raised(k)
  BY <1>5, HubRaised
<1> QED  BY <1>1, <1>2, <1>3, <1>4, <1>5

(* An order without repetitions is no longer than the set of windows. *)
LEMMA NoLonger ==
  ASSUME NEW q \in Seq(Keys), IsInjective(q)
  PROVE  Len(q) <= Cardinality(Keys)
<1>1. IsFiniteSet(Keys)
  BY FiniteAssumption, FS_Product DEF Keys
<1>2. Len(q) \in Nat /\ q \in [1..Len(q) -> Keys]
  OBVIOUS
<1>3. q \in Injection(1..Len(q), Keys)
  BY <1>2 DEF Injection
<1>4. Cardinality(1..Len(q)) <= Cardinality(Keys)
  BY <1>1, <1>3, FS_Injection
<1>5. Cardinality(1..Len(q)) = Len(q)
  BY <1>2, FS_Interval
<1> QED  BY <1>4, <1>5

LEMMA VisibleTyped ==
  ASSUME Hub(track, order, sidecar)
  PROVE  Visible \in Seq(Keys)
BY RetainKeeps DEF Hub, Visible

LEMMA ListApply ==
  ASSUME ListInv, NEW s \in Sidecars, NEW w \in Toplevels, Apply(s, w)
  PROVE  ListInv'
<1> DEFINE k == <<s, w>>
<1>1. k \in Keys /\ k[1] = s /\ sidecar[k[1]] = "up"
  BY DEF Keys, Apply
<1>2. Hub(track, order, sidecar)
  BY DEF ListInv
<1>3. \/ Created(k) \/ Mapped(k) \/ Unmapped(k)
      \/ Configured(k) \/ Destroyed(k) \/ Raised(k)
  BY DEF Apply
<1> HIDE DEF k
<1>4. Hub(track', order', sidecar)
  BY <1>1, <1>2, <1>3, HubLifecycle
<1>5. /\ UNCHANGED <<sidecar, built, frontVars, losses>>
      /\ stage' = [stage EXCEPT ![s] = "build"] /\ events < MaxEvents /\ events' = events + 1
  BY DEF Apply
<1>6. Loops'
  BY <1>5, BoundsAssumption DEF ListInv, Loops, frontVars
<1>7. Hub(track', order', sidecar')
  BY <1>4, <1>5
<1> QED  BY <1>6, <1>7 DEF ListInv

LEMMA ListGone ==
  ASSUME ListInv, NEW s \in Sidecars, SidecarGone(s)
  PROVE  ListInv'
<1> DEFINE K == {k \in Range(order) : k[1] # s}
<1>1. Hub(track, order, sidecar) /\ Loops
  BY DEF ListInv
<1>2. /\ sidecar' = [sidecar EXCEPT ![s] = "gone"]
      /\ track' = [k \in {k \in DOMAIN track : k[1] # s} |-> track[k]]
      /\ order' = Retain(order, K)
  BY DEF SidecarGone, Drop
<1>3. order \in Seq(Keys) /\ DOMAIN track \subseteq Range(order)
      /\ \A k \in Range(order) : sidecar[k[1]] = "up"
  BY <1>1 DEF Hub
<1>4. Range(order) \subseteq Keys
  BY <1>3, RangeInside
<1>5. \A k \in Range(order) \cap K : sidecar'[k[1]] = "up"
  <2> SUFFICES ASSUME NEW k \in Range(order), k[1] # s PROVE sidecar'[k[1]] = "up"
    OBVIOUS
  <2>1. k[1] \in Sidecars
    BY <1>4 DEF Keys
  <2>2. sidecar[k[1]] = "up"
    BY <1>3
  <2>3. sidecar \in [Sidecars -> {"up", "gone"}]
    BY <1>1 DEF Loops
  <2> QED  BY <1>2, <2>1, <2>2, <2>3
<1>6. DOMAIN track' \subseteq DOMAIN track \cap K /\ \A k \in DOMAIN track' : track'[k] = track[k]
  BY <1>2, <1>3
<1> HIDE DEF K
<1>7. Hub(track', order', sidecar')
  BY <1>1, <1>2, <1>5, <1>6, HubRetained
<1>8. /\ built' = [built EXCEPT ![s] = <<>>] /\ UNCHANGED <<frontVars, events>>
      /\ losses < Losses /\ losses' = losses + 1
  BY DEF SidecarGone
<1>9. \E x \in {"build", "idle"} : stage' = [stage EXCEPT ![s] = x]
  BY DEF SidecarGone
<1>10. /\ sidecar' \in [Sidecars -> {"up", "gone"}]
       /\ stage' \in [Sidecars -> {"idle", "build", "send"}]
  BY <1>1, <1>2, <1>9 DEF Loops
<1>11. <<>> \in Seq(Keys)
  OBVIOUS
<1>12. built' \in [Sidecars -> Seq(Keys)]
  BY <1>1, <1>8, <1>11 DEF Loops
<1>13. events' \in 0..MaxEvents /\ losses' \in 0..Losses
  BY <1>1, <1>8, BoundsAssumption DEF Loops
<1>14. Loops'
  BY <1>1, <1>8, <1>10, <1>12, <1>13 DEF Loops, frontVars
<1> QED  BY <1>7, <1>14 DEF ListInv

(* The tasks that only read the two maps. *)
LEMMA ListReaders ==
  ASSUME ListInv,
         \/ \E s \in Sidecars : Build(s) \/ Broadcast(s)
         \/ \E f \in WlFrontends : Register(f) \/ BuildFirst(f) \/ SendFirst(f)
  PROVE  ListInv'
<1>1. Hub(track, order, sidecar) /\ Loops /\ Visible \in Seq(Keys) /\ <<>> \in Seq(Keys)
  BY VisibleTyped DEF ListInv
<1>2. ASSUME NEW s \in Sidecars, Build(s) PROVE Loops' /\ UNCHANGED <<track, order, sidecar>>
  BY <1>1, <1>2 DEF Build, Loops, listVars, frontVars
<1>3. ASSUME NEW s \in Sidecars, Broadcast(s) PROVE Loops' /\ UNCHANGED <<track, order, sidecar>>
  <2>1. /\ shown' = [f \in WlFrontends |-> IF f \in Registered THEN built[s] ELSE shown[f]]
        /\ built' = [built EXCEPT ![s] = <<>>] /\ stage' = [stage EXCEPT ![s] = "idle"]
        /\ UNCHANGED <<track, order, sidecar, frontend, first, events, losses>>
    BY <1>3 DEF Broadcast, listVars
  <2>2. shown' \in [WlFrontends -> Seq(Keys)]
    BY <1>1, <2>1 DEF Loops
  <2>3. built' \in [Sidecars -> Seq(Keys)] /\ stage' \in [Sidecars -> {"idle", "build", "send"}]
    BY <1>1, <2>1 DEF Loops
  <2> QED  BY <1>1, <2>1, <2>2, <2>3 DEF Loops
<1>4. ASSUME NEW f \in WlFrontends, Register(f) PROVE Loops' /\ UNCHANGED <<track, order, sidecar>>
  BY <1>1, <1>4 DEF Register, Loops, listVars, loopVars
<1>5. ASSUME NEW f \in WlFrontends, BuildFirst(f) PROVE Loops' /\ UNCHANGED <<track, order, sidecar>>
  BY <1>1, <1>5 DEF BuildFirst, Loops, listVars, loopVars
<1>6. ASSUME NEW f \in WlFrontends, SendFirst(f) PROVE Loops' /\ UNCHANGED <<track, order, sidecar>>
  BY <1>1, <1>6 DEF SendFirst, Loops, listVars, loopVars
<1>7. Loops' /\ UNCHANGED <<track, order, sidecar>>
  BY <1>2, <1>3, <1>4, <1>5, <1>6
<1> QED  BY <1>1, <1>7 DEF ListInv

LEMMA ListStep ==
  ASSUME ListInv, [ListNext]_wlVars
  PROVE  ListInv'
<1>1. CASE UNCHANGED wlVars
  <2>1. UNCHANGED <<track, order, sidecar, stage, built, frontend, first, shown, events, losses>>
    BY <1>1 DEF wlVars, listVars, loopVars, frontVars
  <2> QED  BY <2>1 DEF ListInv, Loops
<1>2. ASSUME NEW s \in Sidecars, Build(s) \/ Broadcast(s) PROVE ListInv'
  BY <1>2, ListReaders
<1>3. ASSUME NEW f \in WlFrontends, Register(f) \/ BuildFirst(f) \/ SendFirst(f) PROVE ListInv'
  BY <1>3, ListReaders
<1> QED  BY <1>1, <1>2, <1>3, ListApply, ListGone DEF ListNext

LEMMA ListStart ==
  ASSUME ListInit
  PROVE  ListInv
<1>1. <<>> \in Seq(Keys) /\ DOMAIN <<>> = {} /\ IsInjective(<<>>) /\ Range(<<>>) = {}
  BY DEF IsInjective, Range
<1>2. Hub(track, order, sidecar)
  BY <1>1 DEF ListInit, Hub
<1>3. Loops
  BY <1>1, BoundsAssumption DEF ListInit, Loops
<1> QED  BY <1>2, <1>3 DEF ListInv

LEMMA ListAlways == ListSpec => []ListInv
<1>1. ListInit => ListInv
  BY ListStart
<1>2. ListInv /\ [ListNext]_wlVars => ListInv'
  BY ListStep
<1> QED  BY <1>1, <1>2, PTL DEF ListSpec

(* The state of the hub's window list keeps its type; the stacking order is *)
(* no longer than the set of windows that the sidecars have.                *)
THEOREM WindowListTypeCorrect == ListSpec => []ListTypeOK
<1>1. ListInv => ListTypeOK
  <2> SUFFICES ASSUME ListInv PROVE ListTypeOK
    OBVIOUS
  <2>1. Hub(track, order, sidecar) /\ Loops
    BY DEF ListInv
  <2>2. Len(order) <= Cardinality(Keys)
    BY <2>1, NoLonger DEF Hub
  <2> QED  BY <2>1, <2>2 DEF Hub, Loops, ListTypeOK
<1> QED  BY <1>1, ListAlways, PTL

(* Whatever lifecycle messages the sidecars send, in whatever order, and    *)
(* whenever one goes, a tracked window has exactly one place in the         *)
(* stacking order and a sidecar that is gone has none.                      *)
THEOREM WindowOrderConsistent == ListSpec => []OrderConsistent
<1>1. ListInv => OrderConsistent
  BY DEF ListInv, Hub, OrderConsistent
<1> QED  BY <1>1, ListAlways, PTL

(***************************************************************************)
(* What frontends are shown.                                               *)
(***************************************************************************)

(* The inductive invariant behind ListFollows: while no session was lost,   *)
(* only a sidecar that spoke has work under way, and when a single one      *)
(* spoke, the list it carries is the current one, and at rest every early   *)
(* frontend has it.                                                         *)
FollowInv ==
  /\ DOMAIN stage = Sidecars /\ DOMAIN built = Sidecars /\ DOMAIN frontend = WlFrontends
  /\ DOMAIN shown = WlFrontends
  /\ \A f \in Early : frontend[f] = "ready"
  /\ spoke \subseteq Sidecars /\ losses \in Nat
  /\ losses = 0 => \A s \in Sidecars \ spoke : stage[s] = "idle"
  /\ losses = 0 => \A s \in Sidecars : spoke = {s} =>
       /\ stage[s] = "send" => built[s] = Visible
       /\ stage[s] = "idle" => \A f \in Early : shown[f] = Visible

LEMMA FollowStart ==
  ASSUME ListInit
  PROVE  FollowInv
BY EarlyAssumption DEF ListInit, FollowInv

(* The lists of a single speaker s: what its step has to keep. *)
LEMMA FollowStep ==
  ASSUME FollowInv, [ListNext]_wlVars
  PROVE  FollowInv'
<1>1. /\ DOMAIN stage = Sidecars /\ DOMAIN built = Sidecars /\ DOMAIN frontend = WlFrontends
      /\ DOMAIN shown = WlFrontends
      /\ \A f \in Early : frontend[f] = "ready"
      /\ spoke \subseteq Sidecars /\ losses \in Nat
  BY DEF FollowInv
<1>2. losses = 0 => \A s \in Sidecars \ spoke : stage[s] = "idle"
  BY DEF FollowInv
<1>3. losses = 0 => \A s \in Sidecars : spoke = {s} =>
        /\ stage[s] = "send" => built[s] = Visible
        /\ stage[s] = "idle" => \A f \in Early : shown[f] = Visible
  BY DEF FollowInv
<1>4. CASE UNCHANGED wlVars
  <2>1. UNCHANGED <<track, order, stage, built, frontend, shown, spoke, losses>>
    BY <1>4 DEF wlVars, listVars, loopVars, frontVars
  <2>2. Visible' = Visible
    BY <2>1 DEF Visible
  <2> QED  BY <1>1, <1>2, <1>3, <2>1, <2>2 DEF FollowInv
<1>5. ASSUME NEW s \in Sidecars, NEW w \in Toplevels, Apply(s, w) PROVE FollowInv'
  <2>1. /\ stage' = [stage EXCEPT ![s] = "build"] /\ spoke' = spoke \cup {s}
        /\ UNCHANGED <<built, frontend, shown, losses>>
    BY <1>5 DEF Apply, frontVars
  <2>2. /\ DOMAIN stage' = Sidecars /\ stage'[s] = "build"
        /\ \A r \in Sidecars \ {s} : stage'[r] = stage[r]
    BY <1>1, <2>1
  <2>3. losses' = 0 => \A r \in Sidecars \ spoke' : stage'[r] = "idle"
    BY <1>2, <2>1, <2>2
  <2>4. \A r \in Sidecars : spoke' = {r} => r = s
    BY <2>1
  <2> QED  BY <1>1, <2>1, <2>2, <2>3, <2>4 DEF FollowInv
<1>6. ASSUME NEW s \in Sidecars, Build(s) PROVE FollowInv'
  <2>1. /\ stage[s] = "build" /\ stage' = [stage EXCEPT ![s] = "send"]
        /\ built' = [built EXCEPT ![s] = Visible]
        /\ UNCHANGED <<track, order, frontend, shown, spoke, losses>>
    BY <1>6 DEF Build, listVars, frontVars
  <2>2. Visible' = Visible
    BY <2>1 DEF Visible
  <2>3. /\ DOMAIN stage' = Sidecars /\ stage'[s] = "send" /\ DOMAIN built' = Sidecars
        /\ built'[s] = Visible /\ \A r \in Sidecars \ {s} : stage'[r] = stage[r] /\ built'[r] = built[r]
    BY <1>1, <2>1
  <2>4. losses = 0 => s \in spoke
    BY <1>2, <2>1
  <2>5. losses' = 0 => \A r \in Sidecars \ spoke' : stage'[r] = "idle"
    BY <1>2, <2>1, <2>3, <2>4
  <2>6. losses' = 0 => \A r \in Sidecars : spoke' = {r} => r = s
    BY <2>1, <2>4
  <2> QED  BY <1>1, <2>1, <2>2, <2>3, <2>5, <2>6 DEF FollowInv
<1>7. ASSUME NEW s \in Sidecars, Broadcast(s) PROVE FollowInv'
  <2>1. /\ stage[s] = "send" /\ stage' = [stage EXCEPT ![s] = "idle"]
        /\ built' = [built EXCEPT ![s] = <<>>]
        /\ shown' = [f \in WlFrontends |-> IF f \in Registered THEN built[s] ELSE shown[f]]
        /\ UNCHANGED <<track, order, frontend, spoke, losses>>
    BY <1>7 DEF Broadcast, listVars
  <2>2. Visible' = Visible
    BY <2>1 DEF Visible
  <2>3. /\ DOMAIN stage' = Sidecars /\ stage'[s] = "idle" /\ DOMAIN built' = Sidecars
        /\ DOMAIN shown' = WlFrontends /\ \A r \in Sidecars \ {s} : stage'[r] = stage[r]
    BY <1>1, <2>1
  <2>4. losses = 0 => s \in spoke
    BY <1>2, <2>1
  <2>5. losses' = 0 => \A r \in Sidecars \ spoke' : stage'[r] = "idle"
    BY <1>2, <2>1, <2>3
  <2>6. losses' = 0 => \A r \in Sidecars : spoke' = {r} => r = s
    BY <2>1, <2>4
  <2>7. \A f \in Early : f \in WlFrontends /\ f \in Registered
    BY <1>1, EarlyAssumption DEF Registered
  <2>8. \A f \in Early : shown'[f] = built[s]
    BY <2>1, <2>7
  <2>9. losses = 0 /\ spoke = {s} => built[s] = Visible
    BY <1>3, <2>1
  <2>10. losses' = 0 => \A r \in Sidecars : spoke' = {r} =>
           /\ stage'[r] = "send" => built'[r] = Visible'
           /\ stage'[r] = "idle" => \A f \in Early : shown'[f] = Visible'
    BY <2>1, <2>2, <2>3, <2>6, <2>8, <2>9
  <2>11. \A f \in Early : frontend'[f] = "ready"
    BY <1>1, <2>1
  <2> QED  BY <1>1, <2>1, <2>3, <2>5, <2>10, <2>11 DEF FollowInv
<1>8. ASSUME NEW s \in Sidecars, SidecarGone(s) PROVE FollowInv'
  <2>1. /\ losses' = losses + 1 /\ UNCHANGED <<frontend, shown, spoke>>
        /\ DOMAIN stage' = Sidecars /\ DOMAIN built' = Sidecars
    BY <1>1, <1>8 DEF SidecarGone, frontVars
  <2>2. losses' \in Nat /\ losses' # 0
    BY <1>1, <2>1
  <2> QED  BY <1>1, <2>1, <2>2 DEF FollowInv
<1>9. ASSUME NEW f \in WlFrontends, Register(f) \/ BuildFirst(f) \/ SendFirst(f) PROVE FollowInv'
  <2>1. UNCHANGED <<track, order, stage, built, spoke, losses>>
    BY <1>9 DEF Register, BuildFirst, SendFirst, listVars, loopVars
  <2>2. frontend[f] # "ready"
    BY <1>9 DEF Register, BuildFirst, SendFirst
  <2>3. f \notin Early
    BY <1>1, <2>2
  <2>4. /\ DOMAIN frontend' = WlFrontends /\ DOMAIN shown' = WlFrontends
        /\ \A e \in WlFrontends \ {f} : frontend'[e] = frontend[e] /\ shown'[e] = shown[e]
    BY <1>1, <1>9 DEF Register, BuildFirst, SendFirst
  <2>5. \A e \in Early : e \in WlFrontends \ {f}
    BY <2>3, EarlyAssumption
  <2>6. \A e \in Early : frontend'[e] = "ready" /\ shown'[e] = shown[e]
    BY <1>1, <2>4, <2>5
  <2>7. Visible' = Visible
    BY <2>1 DEF Visible
  <2> QED  BY <1>1, <1>2, <1>3, <2>1, <2>4, <2>6, <2>7 DEF FollowInv
<1> QED  BY <1>4, <1>5, <1>6, <1>7, <1>8, <1>9 DEF ListNext

(* A frontend that was there first and hears of windows from one sidecar    *)
(* whose session lasts has the current list whenever the hub is at rest,    *)
(* whatever the list was rebuilt from meanwhile.                            *)
THEOREM WindowListFollows == ListSpec => []ListFollows
<1>1. ListInit => FollowInv
  BY FollowStart
<1>2. FollowInv /\ [ListNext]_wlVars => FollowInv'
  BY FollowStep
<1>3. FollowInv => ListFollows
  <2> SUFFICES ASSUME FollowInv, AtRest, Cardinality(spoke) = 1, losses = 0, NEW f \in Early
               PROVE  shown[f] = Visible
    BY DEF ListFollows
  <2>1. spoke \subseteq Sidecars
    BY DEF FollowInv
  <2>2. IsFiniteSet(spoke)
    BY <2>1, FiniteAssumption, FS_Subset
  <2>3. PICK s : spoke = {s}
    BY <2>2, FS_Singleton
  <2>4. s \in Sidecars /\ stage[s] = "idle"
    BY <2>1, <2>3 DEF AtRest
  <2> QED  BY <2>3, <2>4 DEF FollowInv
<1> QED  BY <1>1, <1>2, <1>3, PTL DEF ListSpec

=============================================================================
