-------------------------------- MODULE XConn --------------------------------
(***************************************************************************)
(* The life of an X11 connection: the handshake, the request loop that     *)
(* reads a batch of requests and handles them one by one, the server grab  *)
(* that holds the batches of other clients back, the SYNC Await that stops *)
(* the loop in the middle of a batch, the frame tick that resumes it, and  *)
(* the two ways a connection ends.  Every write to the client is an await  *)
(* point, so between two requests of a batch other connections run.        *)
(*                                                                         *)
(* Abstracted: a request is one of the kinds that the loop itself reacts   *)
(* to ("Plain" stands for all others, "Event" for one that queues an       *)
(* event); a request arrives whole.                                        *)
(***************************************************************************)
EXTENDS Naturals, Sequences

CONSTANTS CnClients,    \* connections
          CnMaxReqs,    \* bound: requests a client sends
          CnMaxTime,    \* bound: ticks of SERVERTIME
          CnMaxEvents   \* max_pending_events

CnKinds == {"Plain", "Event", "Grab", "Ungrab", "Await"}
CnNobody == "nobody"

ASSUME CnAssumption == CnNobody \notin CnClients /\ {CnMaxReqs, CnMaxTime, CnMaxEvents} \subseteq Nat

VARIABLES
    cnPhase,    \* where the task of every connection stands
    cnSocket,   \* requests sent and not read
    cnPending,  \* requests read and not handled
    cnSent,     \* number of requests sent
    cnSeq,      \* sequence: number of requests handled
    cnUntil,    \* the SERVERTIME an Await waits for, 0 if not blocked
    cnTime,     \* SERVERTIME
    cnHolder,   \* server_grab
    cnGrabs,    \* server_grab_count of every client
    cnEvents,   \* number of pending_events
    cnHeard     \* sequence number on the last thing written to the client

cnVars == <<cnPhase, cnSocket, cnPending, cnSent, cnSeq, cnUntil, cnTime, cnHolder,
            cnGrabs, cnEvents, cnHeard>>

CnPhases == {"new", "waiting", "idle", "gate", "batch", "deferred", "over"}

CnTypeOK ==
    /\ cnPhase \in [CnClients -> CnPhases]
    /\ \A c \in CnClients : /\ cnSocket[c] \in Seq(CnKinds)
                            /\ cnPending[c] \in Seq(CnKinds)
    /\ cnSent \in [CnClients -> 0..CnMaxReqs]
    /\ cnSeq \in [CnClients -> 0..CnMaxReqs]
    /\ cnUntil \in [CnClients -> 0..CnMaxTime + 1]
    /\ cnTime \in 0..CnMaxTime
    /\ cnHolder \in CnClients \cup {CnNobody}
    /\ cnGrabs \in [CnClients -> 0..CnMaxReqs]
    /\ cnEvents \in [CnClients -> 0..CnMaxReqs]
    /\ cnHeard \in [CnClients -> 0..CnMaxReqs]

CnInit ==
    /\ cnPhase = [c \in CnClients |-> "new"]
    /\ cnSocket = [c \in CnClients |-> <<>>]
    /\ cnPending = [c \in CnClients |-> <<>>]
    /\ cnSent = [c \in CnClients |-> 0]
    /\ cnSeq = [c \in CnClients |-> 0]
    /\ cnUntil = [c \in CnClients |-> 0]
    /\ cnTime = 0
    /\ cnHolder = CnNobody
    /\ cnGrabs = [c \in CnClients |-> 0]
    /\ cnEvents = [c \in CnClients |-> 0]
    /\ cnHeard = [c \in CnClients |-> 0]

Goes(c, from, to) == cnPhase[c] = from /\ cnPhase' = [cnPhase EXCEPT ![c] = to]

(***************************************************************************)
(* The client: it may send whenever it is connected.                       *)
(***************************************************************************)
Send(c, k) ==
    /\ cnPhase[c] \notin {"new", "over"} /\ cnSent[c] < CnMaxReqs
    /\ cnSocket' = [cnSocket EXCEPT ![c] = Append(@, k)]
    /\ cnSent' = [cnSent EXCEPT ![c] = @ + 1]
    /\ UNCHANGED <<cnPhase, cnPending, cnSeq, cnUntil, cnTime, cnHolder, cnGrabs, cnEvents, cnHeard>>

(***************************************************************************)
(* handle_client.  A client whose cookie is refused never gets further;    *)
(* one that is accepted waits for the server to be ungrabbed.              *)
(***************************************************************************)
Handshake(c, accepted) ==
    /\ Goes(c, "new", IF accepted THEN "waiting" ELSE "over")
    /\ UNCHANGED <<cnSocket, cnPending, cnSent, cnSeq, cnUntil, cnTime, cnHolder, cnGrabs, cnEvents, cnHeard>>

Start(c) ==
    /\ cnHolder = CnNobody
    /\ Goes(c, "waiting", "idle")
    /\ UNCHANGED <<cnSocket, cnPending, cnSent, cnSeq, cnUntil, cnTime, cnHolder, cnGrabs, cnEvents, cnHeard>>

\* The socket is readable: take everything there is.
Receive(c) ==
    /\ cnSocket[c] # <<>>
    /\ Goes(c, "idle", "gate")
    /\ cnPending' = [cnPending EXCEPT ![c] = @ \o cnSocket[c]]
    /\ cnSocket' = [cnSocket EXCEPT ![c] = <<>>]
    /\ UNCHANGED <<cnSent, cnSeq, cnUntil, cnTime, cnHolder, cnGrabs, cnEvents, cnHeard>>

\* The poll that lets the batch begin.
PassGate(c) ==
    /\ cnHolder \in {CnNobody, c}
    /\ Goes(c, "gate", "batch")
    /\ UNCHANGED <<cnSocket, cnPending, cnSent, cnSeq, cnUntil, cnTime, cnHolder, cnGrabs, cnEvents, cnHeard>>

\* handle_grab_server, handle_ungrab_server
GrabServer(c) ==
    /\ cnGrabs' = [cnGrabs EXCEPT ![c] = @ + 1]
    /\ cnHolder' = c
UngrabServer(c) ==
    /\ cnGrabs' = [cnGrabs EXCEPT ![c] = IF @ > 0 THEN @ - 1 ELSE 0]
    /\ cnHolder' = IF cnGrabs'[c] = 0 THEN CnNobody ELSE cnHolder

\* handle_request and the writing of its response.
Request(c, k) ==
    /\ \/ k = "Grab" /\ GrabServer(c)
       \/ k = "Ungrab" /\ UngrabServer(c)
       \/ k \notin {"Grab", "Ungrab"} /\ UNCHANGED <<cnGrabs, cnHolder>>
    /\ cnUntil' = [cnUntil EXCEPT ![c] = IF k = "Await" THEN cnTime + 1 ELSE @]
    /\ cnEvents' = [cnEvents EXCEPT ![c] = IF k = "Event" THEN @ + 1 ELSE @]
    /\ cnHeard' = [cnHeard EXCEPT ![c] = IF k = "Plain" THEN cnSeq[c] + 1 ELSE @]

Blocked(c) == cnUntil[c] # 0

\* Mutant: an Await does not hold back the rest of its batch.
HandleOneUnblocked(c) ==
    /\ cnPhase[c] \in {"batch", "deferred"}
    /\ cnPending[c] # <<>>
    /\ Request(c, Head(cnPending[c]))
    /\ cnPending' = [cnPending EXCEPT ![c] = Tail(@)]
    /\ cnSeq' = [cnSeq EXCEPT ![c] = @ + 1]
    /\ UNCHANGED <<cnPhase, cnSocket, cnSent, cnTime>>

\* One turn of the loop over pending: in a batch, or in a frame tick.
HandleOne(c) ==
    /\ cnPhase[c] \in {"batch", "deferred"}
    /\ ~Blocked(c) /\ cnPending[c] # <<>>
    /\ Request(c, Head(cnPending[c]))
    /\ cnPending' = [cnPending EXCEPT ![c] = Tail(@)]
    /\ cnSeq' = [cnSeq EXCEPT ![c] = @ + 1]
    /\ UNCHANGED <<cnPhase, cnSocket, cnSent, cnTime>>

\* Mutant: the loop ends after any request, whatever else was read.
EndOfLoopEarly(c) ==
    /\ cnPhase[c] \in {"batch", "deferred"}
    /\ cnPhase' = [cnPhase EXCEPT ![c] = "idle"]
    /\ cnHeard' = [cnHeard EXCEPT ![c] = IF cnEvents[c] > 0 /\ CnMaxEvents > 0 THEN cnSeq[c] ELSE @]
    /\ cnEvents' = [cnEvents EXCEPT ![c] = 0]
    /\ UNCHANGED <<cnSocket, cnPending, cnSent, cnSeq, cnUntil, cnTime, cnHolder, cnGrabs>>

\* The end of the loop: the events that fit are written with the sequence number of
\* the last request.
EndOfLoop(c) ==
    /\ cnPhase[c] \in {"batch", "deferred"}
    /\ Blocked(c) \/ cnPending[c] = <<>>
    /\ cnPhase' = [cnPhase EXCEPT ![c] = "idle"]
    /\ cnHeard' = [cnHeard EXCEPT ![c] = IF cnEvents[c] > 0 /\ CnMaxEvents > 0 THEN cnSeq[c] ELSE @]
    /\ cnEvents' = [cnEvents EXCEPT ![c] = 0]
    /\ UNCHANGED <<cnSocket, cnPending, cnSent, cnSeq, cnUntil, cnTime, cnHolder, cnGrabs>>

\* Mutant: a satisfied Await does not resume what it deferred.
FrameTickForgets(c) ==
    /\ cnUntil' = [cnUntil EXCEPT ![c] = IF @ <= cnTime THEN 0 ELSE @]
    /\ Goes(c, "idle", "idle")
    /\ UNCHANGED <<cnSocket, cnPending, cnSent, cnSeq, cnTime, cnHolder, cnGrabs, cnEvents, cnHeard>>

\* check_pending_awaits_ext on the frame tick; what was deferred is handled
\* in the same arm, without another look at the server grab.
FrameTick(c) ==
    /\ cnUntil' = [cnUntil EXCEPT ![c] = IF @ <= cnTime THEN 0 ELSE @]
    /\ Goes(c, "idle", IF cnUntil[c] # 0 /\ cnUntil'[c] = 0 /\ cnPending[c] # <<>>
                       THEN "deferred" ELSE "idle")
    /\ UNCHANGED <<cnSocket, cnPending, cnSent, cnSeq, cnTime, cnHolder, cnGrabs, cnEvents, cnHeard>>

ServerTime ==
    /\ cnTime < CnMaxTime /\ cnTime' = cnTime + 1
    /\ UNCHANGED <<cnPhase, cnSocket, cnPending, cnSent, cnSeq, cnUntil, cnHolder, cnGrabs, cnEvents, cnHeard>>

(***************************************************************************)
(* The end of the stream is read between batches; an error ends the task   *)
(* at any write, and only the guards run.                                  *)
(***************************************************************************)
Close(c) ==
    /\ cnSocket[c] = <<>>
    /\ Goes(c, "idle", "over")
    /\ cnHolder' = IF cnGrabs[c] > 0 /\ cnHolder = c THEN CnNobody ELSE cnHolder
    /\ cnGrabs' = [cnGrabs EXCEPT ![c] = 0]
    /\ UNCHANGED <<cnSocket, cnPending, cnSent, cnSeq, cnUntil, cnTime, cnEvents, cnHeard>>

Break(c) ==
    /\ cnPhase[c] \in {"idle", "batch", "deferred"}
    /\ cnPhase' = [cnPhase EXCEPT ![c] = "over"]
    /\ UNCHANGED <<cnSocket, cnPending, cnSent, cnSeq, cnUntil, cnTime, cnHolder, cnGrabs, cnEvents, cnHeard>>

CnNext ==
    \/ ServerTime
    \/ \E c \in CnClients :
        \/ \E k \in CnKinds : Send(c, k)
        \/ \E accepted \in BOOLEAN : Handshake(c, accepted)
        \/ Start(c) \/ Receive(c) \/ PassGate(c) \/ HandleOne(c) \/ EndOfLoop(c)
        \/ FrameTick(c) \/ Close(c) \/ Break(c)

CnSpec == CnInit /\ [][CnNext]_cnVars

(***************************************************************************)
(* Properties.                                                             *)
(***************************************************************************)
\* A request that was read is handled without the client having to send
\* another one: a connection that went back to waiting for events has nothing
\* pending but what an Await holds back, and the requests are all accounted for.
NothingForgotten ==
    \A c \in CnClients :
        /\ cnPhase[c] = "idle" /\ cnPending[c] # <<>> => Blocked(c)
        /\ cnSeq[c] + Len(cnPending[c]) + Len(cnSocket[c]) = cnSent[c]

\* Nothing that arrives later gets past an Await: until its time has come and
\* a frame tick has seen it, no request of the connection is handled.
AwaitHolds ==
    [][\A c \in CnClients : Blocked(c) => /\ cnSeq'[c] = cnSeq[c]
                                          /\ ~Blocked(c)' => cnUntil[c] <= cnTime]_cnVars

\* The sequence numbers a client reads never go back.
HeardInOrder ==
    [][\A c \in CnClients : cnHeard[c] <= cnHeard'[c] /\ cnHeard'[c] <= cnSeq'[c]]_cnVars

\* On every connection requests keep their order: nothing gets past an Await, and
\* the sequence numbers a client reads never go back.
ConnectionOrder == AwaitHolds /\ HeardInOrder

=============================================================================
