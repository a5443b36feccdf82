---------------------------- MODULE XInputProofs ----------------------------
(***************************************************************************)
(* Proofs about the input and the connections of the X11 server: XConn,    *)
(* for any set of connections, any number of requests and any limit of     *)
(* pending events; XGrabs, for any windows, passive grabs and length of a  *)
(* frozen device's queue; XPointer and XFocus, for any tree of windows,    *)
(* with the paths of XWalks; XKeyboard, XSettings and XRecord.  Lemmas     *)
(* about numbers, sequences and finite orders are those of XWindowsProofs. *)
(***************************************************************************)
EXTENDS XWindowsProofs, MCXInput

-----------------------------------------------------------------------------
(* XConn. *)

(* The state without the bounds that only follow from the order of requests. *)
CnBasic ==
    /\ cnPhase \in [CnClients -> CnPhases]
    /\ cnSocket \in [CnClients -> Seq(CnKinds)]
    /\ cnPending \in [CnClients -> Seq(CnKinds)]
    /\ cnSent \in [CnClients -> 0..CnMaxReqs]
    /\ cnSeq \in [CnClients -> Nat]
    /\ cnUntil \in [CnClients -> 0..CnMaxTime + 1]
    /\ cnTime \in 0..CnMaxTime
    /\ cnHolder \in CnClients \cup {CnNobody}
    /\ cnGrabs \in [CnClients -> Nat]
    /\ cnEvents \in [CnClients -> Nat]
    /\ cnHeard \in [CnClients -> Nat]

(* What a connection counts, it counts per request handled. *)
CnCounted ==
    \A c \in CnClients : /\ cnGrabs[c] <= cnSeq[c]
                         /\ cnEvents[c] <= cnSeq[c]
                         /\ cnHeard[c] <= cnSeq[c]

(* Nothing is read before the handshake is over and the server not grabbed. *)
CnUnread ==
    \A c \in CnClients : cnPhase[c] \in {"new", "waiting"} => cnPending[c] = <<>>

(* The inductive invariant. *)
CnInv == CnBasic /\ NothingForgotten /\ CnCounted /\ CnUnread

(* The bounds are numbers. *)
LEMMA CnBounds == CnMaxReqs \in Nat /\ CnMaxTime \in Nat /\ CnMaxEvents \in Nat
BY CnAssumption

(* One more request sent is one more on the socket. *)
LEMMA OneMore == \A a, b, n \in Nat : \A m : a + b + n = m => a + b + (n + 1) = m + 1
OBVIOUS

(* A handled request changes the counters of its own connection only, and   *)
(* by one at most (handle_request and the writing of its response).         *)
LEMMA RequestStep ==
    ASSUME CnInv, NEW c \in CnClients, NEW k \in CnKinds, Request(c, k)
    PROVE  /\ cnGrabs' \in [CnClients -> Nat] /\ cnHolder' \in CnClients \cup {CnNobody}
           /\ cnUntil' \in [CnClients -> 0..CnMaxTime + 1]
           /\ cnEvents' \in [CnClients -> Nat] /\ cnHeard' \in [CnClients -> Nat]
           /\ cnGrabs'[c] <= cnSeq[c] + 1 /\ cnEvents'[c] <= cnSeq[c] + 1
           /\ cnHeard'[c] <= cnSeq[c] + 1 /\ cnHeard[c] <= cnHeard'[c]
           /\ \A d \in CnClients \ {c} :
                /\ cnGrabs'[d] = cnGrabs[d] /\ cnEvents'[d] = cnEvents[d]
                /\ cnHeard'[d] = cnHeard[d] /\ cnUntil'[d] = cnUntil[d]
<1>0. /\ cnGrabs \in [CnClients -> Nat] /\ cnSeq \in [CnClients -> Nat]
      /\ cnEvents \in [CnClients -> Nat] /\ cnHeard \in [CnClients -> Nat]
      /\ cnHolder \in CnClients \cup {CnNobody}
      /\ cnTime \in 0..CnMaxTime /\ cnUntil \in [CnClients -> 0..CnMaxTime + 1]
      /\ cnGrabs[c] <= cnSeq[c] /\ cnEvents[c] <= cnSeq[c] /\ cnHeard[c] <= cnSeq[c]
  BY DEF CnInv, CnBasic, CnCounted
<1>1. /\ cnGrabs' \in [CnClients -> Nat] /\ cnHolder' \in CnClients \cup {CnNobody}
      /\ cnGrabs'[c] <= cnSeq[c] + 1
      /\ \A d \in CnClients \ {c} : cnGrabs'[d] = cnGrabs[d]
  <2>1. CASE GrabServer(c)
    BY <1>0, <2>1 DEF GrabServer
  <2>2. CASE UngrabServer(c)
    BY <1>0, <2>2 DEF UngrabServer
  <2>3. CASE UNCHANGED <<cnGrabs, cnHolder>>
    BY <1>0, <2>3
  <2> QED
    BY <2>1, <2>2, <2>3 DEF Request
<1>2. /\ cnUntil' \in [CnClients -> 0..CnMaxTime + 1]
      /\ \A d \in CnClients \ {c} : cnUntil'[d] = cnUntil[d]
  <2>1. cnUntil' = [cnUntil EXCEPT ![c] = IF k = "Await" THEN cnTime + 1 ELSE @]
    BY DEF Request
  <2> QED
    BY <1>0, <2>1, CnBounds
<1>3. /\ cnEvents' \in [CnClients -> Nat] /\ cnEvents'[c] <= cnSeq[c] + 1
      /\ \A d \in CnClients \ {c} : cnEvents'[d] = cnEvents[d]
  <2>1. cnEvents' = [cnEvents EXCEPT ![c] = IF k = "Event" THEN @ + 1 ELSE @]
    BY DEF Request
  <2> QED
    BY <1>0, <2>1
<1>4. /\ cnHeard' \in [CnClients -> Nat] /\ cnHeard'[c] <= cnSeq[c] + 1
      /\ cnHeard[c] <= cnHeard'[c]
      /\ \A d \in CnClients \ {c} : cnHeard'[d] = cnHeard[d]
  <2>1. cnHeard' = [cnHeard EXCEPT ![c] = IF k = "Plain" THEN cnSeq[c] + 1 ELSE @]
    BY DEF Request
  <2> QED
    BY <1>0, <2>1
<1> QED
  BY <1>1, <1>2, <1>3, <1>4

(* Every step of a connection's task, of its client and of the clock keeps  *)
(* the accounts of requests read, handled and held back by an Await.        *)
LEMMA CnStep == CnInv /\ [CnNext]_cnVars => CnInv'
<1> SUFFICES ASSUME CnInv, [CnNext]_cnVars PROVE CnInv'
  OBVIOUS
<1>0. CnBasic /\ NothingForgotten /\ CnCounted /\ CnUnread
  BY DEF CnInv
<1>1. CASE ServerTime
  <2>1. UNCHANGED <<cnPhase, cnSocket, cnPending, cnSent, cnSeq, cnUntil, cnHolder,
                    cnGrabs, cnEvents, cnHeard>>
    BY <1>1 DEF ServerTime
  <2>2. cnTime' \in 0..CnMaxTime
    BY <1>0, <1>1, CnBounds DEF ServerTime, CnBasic
  <2> QED
    BY <1>0, <2>1, <2>2 DEF CnInv, CnBasic, NothingForgotten, CnCounted, CnUnread, Blocked
<1>2. ASSUME NEW c \in CnClients, NEW k \in CnKinds, Send(c, k)
      PROVE CnInv'
  <2>1. UNCHANGED <<cnPhase, cnPending, cnSeq, cnUntil, cnTime, cnHolder, cnGrabs,
                    cnEvents, cnHeard>>
    BY <1>2 DEF Send
  <2>2. cnSocket' \in [CnClients -> Seq(CnKinds)] /\ cnSent' \in [CnClients -> 0..CnMaxReqs]
    <3>1. /\ cnSocket[c] \in Seq(CnKinds) /\ cnSent[c] \in 0..CnMaxReqs /\ cnSent[c] < CnMaxReqs
          /\ cnSocket' = [cnSocket EXCEPT ![c] = Append(@, k)]
          /\ cnSent' = [cnSent EXCEPT ![c] = @ + 1]
      BY <1>0, <1>2 DEF CnBasic, Send
    <3>2. Append(cnSocket[c], k) \in Seq(CnKinds) /\ cnSent[c] + 1 \in 0..CnMaxReqs
      BY <3>1, CnBounds
    <3> QED
      BY <1>0, <3>1, <3>2 DEF CnBasic
  <2>3. CnBasic'
    BY <1>0, <2>1, <2>2 DEF CnBasic
  <2>4. NothingForgotten'
    <3>1. /\ cnSocket[c] \in Seq(CnKinds) /\ cnPending[c] \in Seq(CnKinds)
          /\ cnSeq[c] \in Nat /\ cnSent[c] \in 0..CnMaxReqs
          /\ cnSocket'[c] = Append(cnSocket[c], k) /\ cnSent'[c] = cnSent[c] + 1
          /\ \A d \in CnClients \ {c} : cnSocket'[d] = cnSocket[d] /\ cnSent'[d] = cnSent[d]
      BY <1>0, <1>2 DEF CnBasic, Send
    <3>2. Len(cnSocket'[c]) = Len(cnSocket[c]) + 1
      BY <3>1
    <3>3. cnSeq'[c] + Len(cnPending'[c]) + Len(cnSocket'[c]) = cnSent'[c]
      <4>1. cnSeq[c] + Len(cnPending[c]) + Len(cnSocket[c]) = cnSent[c]
        BY <1>0 DEF NothingForgotten
      <4>2. Len(cnPending[c]) \in Nat /\ Len(cnSocket[c]) \in Nat
        BY <3>1
      <4>3. /\ cnSeq'[c] = cnSeq[c] /\ cnPending'[c] = cnPending[c]
            /\ cnSent'[c] = cnSent[c] + 1 /\ cnSeq[c] \in Nat
        BY <2>1, <3>1
      <4> DEFINE a == cnSeq[c]
                 b == Len(cnPending[c])
                 n == Len(cnSocket[c])
      <4>4. a \in Nat /\ b \in Nat /\ n \in Nat /\ a + b + n = cnSent[c]
        BY <4>1, <4>2, <4>3
      <4>5. /\ cnSeq'[c] = a /\ Len(cnPending'[c]) = b
            /\ Len(cnSocket'[c]) = n + 1 /\ cnSent'[c] = cnSent[c] + 1
        BY <3>2, <4>3
      <4> HIDE DEF a, b, n
      <4> QED
        BY <4>4, <4>5, OneMore
    <3> QED
      BY <1>0, <2>1, <3>1, <3>3 DEF NothingForgotten, Blocked
  <2>5. CnCounted'
    BY <1>0, <1>2 DEF CnBasic, CnCounted, Send
  <2>6. CnUnread'
    BY <1>0, <1>2 DEF CnBasic, CnUnread, Send
  <2> QED
    BY <2>3, <2>4, <2>5, <2>6 DEF CnInv
<1>3. ASSUME NEW c \in CnClients, NEW accepted \in BOOLEAN, Handshake(c, accepted)
      PROVE CnInv'
  <2>1. UNCHANGED <<cnSocket, cnPending, cnSent, cnSeq, cnUntil, cnTime, cnHolder, cnGrabs,
                    cnEvents, cnHeard>>
    BY <1>3 DEF Handshake, Goes
  <2>2. cnPhase' \in [CnClients -> CnPhases]
    BY <1>0, <1>3, CnBounds DEF CnBasic, CnPhases, Handshake, Goes
  <2>3. CnBasic'
    BY <1>0, <2>1, <2>2 DEF CnBasic
  <2>4. NothingForgotten'
    BY <1>0, <1>3 DEF CnBasic, NothingForgotten, CnUnread, Blocked, Handshake, Goes
  <2>5. CnCounted'
    BY <1>0, <1>3 DEF CnBasic, CnCounted, Handshake, Goes
  <2>6. CnUnread'
    BY <1>0, <1>3 DEF CnBasic, CnUnread, Handshake, Goes
  <2> QED
    BY <2>3, <2>4, <2>5, <2>6 DEF CnInv
<1>4. ASSUME NEW c \in CnClients, Start(c)
      PROVE CnInv'
  <2>1. UNCHANGED <<cnSocket, cnPending, cnSent, cnSeq, cnUntil, cnTime, cnHolder, cnGrabs,
                    cnEvents, cnHeard>>
    BY <1>4 DEF Start, Goes
  <2>2. cnPhase' \in [CnClients -> CnPhases]
    BY <1>0, <1>4, CnBounds DEF CnBasic, CnPhases, Start, Goes
  <2>3. CnBasic'
    BY <1>0, <2>1, <2>2 DEF CnBasic
  <2>4. NothingForgotten'
    BY <1>0, <1>4 DEF CnBasic, NothingForgotten, CnUnread, Blocked, Start, Goes
  <2>5. CnCounted'
    BY <1>0, <1>4 DEF CnBasic, CnCounted, Start, Goes
  <2>6. CnUnread'
    BY <1>0, <1>4 DEF CnBasic, CnUnread, Start, Goes
  <2> QED
    BY <2>3, <2>4, <2>5, <2>6 DEF CnInv
<1>5. ASSUME NEW c \in CnClients, Receive(c)
      PROVE CnInv'
  <2>1. UNCHANGED <<cnSent, cnSeq, cnUntil, cnTime, cnHolder, cnGrabs, cnEvents, cnHeard>>
    BY <1>5 DEF Receive, Goes
  <2>2. /\ cnPhase' \in [CnClients -> CnPhases]
        /\ cnPending' \in [CnClients -> Seq(CnKinds)]
        /\ cnSocket' \in [CnClients -> Seq(CnKinds)]
    BY <1>0, <1>5, CnBounds, SMTT(40) DEF CnBasic, CnPhases, Receive, Goes
  <2>3. CnBasic'
    BY <1>0, <2>1, <2>2 DEF CnBasic
  <2>4. NothingForgotten'
    BY <1>0, <1>5 DEF CnBasic, NothingForgotten, CnUnread, Blocked, Receive, Goes
  <2>5. CnCounted'
    BY <1>0, <1>5 DEF CnBasic, CnCounted, Receive, Goes
  <2>6. CnUnread'
    BY <1>0, <1>5 DEF CnBasic, CnUnread, Receive, Goes
  <2> QED
    BY <2>3, <2>4, <2>5, <2>6 DEF CnInv
<1>6. ASSUME NEW c \in CnClients, PassGate(c)
      PROVE CnInv'
  <2>1. UNCHANGED <<cnSocket, cnPending, cnSent, cnSeq, cnUntil, cnTime, cnHolder, cnGrabs,
                    cnEvents, cnHeard>>
    BY <1>6 DEF PassGate, Goes
  <2>2. cnPhase' \in [CnClients -> CnPhases]
    BY <1>0, <1>6, CnBounds DEF CnBasic, CnPhases, PassGate, Goes
  <2>3. CnBasic'
    BY <1>0, <2>1, <2>2 DEF CnBasic
  <2>4. NothingForgotten'
    BY <1>0, <1>6 DEF CnBasic, NothingForgotten, CnUnread, Blocked, PassGate, Goes
  <2>5. CnCounted'
    BY <1>0, <1>6 DEF CnBasic, CnCounted, PassGate, Goes
  <2>6. CnUnread'
    BY <1>0, <1>6 DEF CnBasic, CnUnread, PassGate, Goes
  <2> QED
    BY <2>3, <2>4, <2>5, <2>6 DEF CnInv
<1>7. ASSUME NEW c \in CnClients, EndOfLoop(c)
      PROVE CnInv'
  <2>1. UNCHANGED <<cnSocket, cnPending, cnSent, cnSeq, cnUntil, cnTime, cnHolder, cnGrabs>>
    BY <1>7 DEF EndOfLoop
  <2>2. /\ cnPhase' \in [CnClients -> CnPhases]
        /\ cnHeard' \in [CnClients -> Nat]
        /\ cnEvents' \in [CnClients -> Nat]
    BY <1>0, <1>7, CnBounds DEF CnBasic, CnPhases, EndOfLoop
  <2>3. CnBasic'
    BY <1>0, <2>1, <2>2 DEF CnBasic
  <2>4. NothingForgotten'
    BY <1>0, <1>7 DEF CnBasic, NothingForgotten, CnUnread, Blocked, EndOfLoop
  <2>5. CnCounted'
    BY <1>0, <1>7 DEF CnBasic, CnCounted, EndOfLoop
  <2>6. CnUnread'
    BY <1>0, <1>7 DEF CnBasic, CnUnread, EndOfLoop
  <2> QED
    BY <2>3, <2>4, <2>5, <2>6 DEF CnInv
<1>8. ASSUME NEW c \in CnClients, FrameTick(c)
      PROVE CnInv'
  <2>1. UNCHANGED <<cnSocket, cnPending, cnSent, cnSeq, cnTime, cnHolder, cnGrabs,
                    cnEvents, cnHeard>>
    BY <1>8 DEF FrameTick, Goes
  <2>2. cnPhase' \in [CnClients -> CnPhases] /\ cnUntil' \in [CnClients -> 0..CnMaxTime + 1]
    BY <1>0, <1>8, CnBounds, SMTT(40) DEF CnBasic, CnPhases, FrameTick, Goes
  <2>3. CnBasic'
    BY <1>0, <2>1, <2>2 DEF CnBasic
  <2>4. NothingForgotten'
    BY <1>0, <1>8 DEF CnBasic, NothingForgotten, CnUnread, Blocked, FrameTick, Goes
  <2>5. CnCounted'
    BY <1>0, <1>8 DEF CnBasic, CnCounted, FrameTick, Goes
  <2>6. CnUnread'
    BY <1>0, <1>8 DEF CnBasic, CnUnread, FrameTick, Goes
  <2> QED
    BY <2>3, <2>4, <2>5, <2>6 DEF CnInv
<1>9. ASSUME NEW c \in CnClients, Close(c)
      PROVE CnInv'
  <2>1. UNCHANGED <<cnSocket, cnPending, cnSent, cnSeq, cnUntil, cnTime, cnEvents, cnHeard>>
    BY <1>9 DEF Close, Goes
  <2>2. /\ cnPhase' \in [CnClients -> CnPhases]
        /\ cnHolder' \in CnClients \cup {CnNobody}
        /\ cnGrabs' \in [CnClients -> Nat]
    BY <1>0, <1>9, CnBounds DEF CnBasic, CnPhases, Close, Goes
  <2>3. CnBasic'
    BY <1>0, <2>1, <2>2 DEF CnBasic
  <2>4. NothingForgotten'
    BY <1>0, <1>9 DEF CnBasic, NothingForgotten, CnUnread, Blocked, Close, Goes
  <2>5. CnCounted'
    BY <1>0, <1>9 DEF CnBasic, CnCounted, Close, Goes
  <2>6. CnUnread'
    BY <1>0, <1>9 DEF CnBasic, CnUnread, Close, Goes
  <2> QED
    BY <2>3, <2>4, <2>5, <2>6 DEF CnInv
<1>10. ASSUME NEW c \in CnClients, Break(c)
      PROVE CnInv'
  <2>1. UNCHANGED <<cnSocket, cnPending, cnSent, cnSeq, cnUntil, cnTime, cnHolder, cnGrabs,
                    cnEvents, cnHeard>>
    BY <1>10 DEF Break
  <2>2. cnPhase' \in [CnClients -> CnPhases]
    BY <1>0, <1>10, CnBounds DEF CnBasic, CnPhases, Break
  <2>3. CnBasic'
    BY <1>0, <2>1, <2>2 DEF CnBasic
  <2>4. NothingForgotten'
    BY <1>0, <1>10 DEF CnBasic, NothingForgotten, CnUnread, Blocked, Break
  <2>5. CnCounted'
    BY <1>0, <1>10 DEF CnBasic, CnCounted, Break
  <2>6. CnUnread'
    BY <1>0, <1>10 DEF CnBasic, CnUnread, Break
  <2> QED
    BY <2>3, <2>4, <2>5, <2>6 DEF CnInv
<1>11. ASSUME NEW c \in CnClients, HandleOne(c)
      PROVE CnInv'
  <2> DEFINE k == Head(cnPending[c])
  <2>1. /\ cnPending[c] \in Seq(CnKinds) /\ cnPending[c] # <<>>
        /\ Request(c, k)
        /\ cnPhase' = cnPhase /\ cnSocket' = cnSocket /\ cnSent' = cnSent /\ cnTime' = cnTime
        /\ cnPending' = [cnPending EXCEPT ![c] = Tail(@)]
        /\ cnSeq' = [cnSeq EXCEPT ![c] = @ + 1]
        /\ cnPhase[c] \in {"batch", "deferred"}
    BY <1>0, <1>11 DEF HandleOne, CnBasic
  <2>2. k \in CnKinds /\ Tail(cnPending[c]) \in Seq(CnKinds)
        /\ Len(Tail(cnPending[c])) = Len(cnPending[c]) - 1
    BY <2>1
  <2> HIDE DEF k
  <2>3. /\ cnGrabs' \in [CnClients -> Nat] /\ cnHolder' \in CnClients \cup {CnNobody}
        /\ cnUntil' \in [CnClients -> 0..CnMaxTime + 1]
        /\ cnEvents' \in [CnClients -> Nat] /\ cnHeard' \in [CnClients -> Nat]
        /\ cnGrabs'[c] <= cnSeq[c] + 1 /\ cnEvents'[c] <= cnSeq[c] + 1
        /\ cnHeard'[c] <= cnSeq[c] + 1
        /\ \A d \in CnClients \ {c} :
             /\ cnGrabs'[d] = cnGrabs[d] /\ cnEvents'[d] = cnEvents[d]
             /\ cnHeard'[d] = cnHeard[d] /\ cnUntil'[d] = cnUntil[d]
    BY <2>1, <2>2, RequestStep
  <2>4. CnBasic'
    <3>1. cnPending' \in [CnClients -> Seq(CnKinds)] /\ cnSeq' \in [CnClients -> Nat]
      BY <1>0, <2>1, <2>2, SMTT(40) DEF CnBasic
    <3> QED
      BY <1>0, <2>1, <2>3, <3>1 DEF CnBasic
  <2>5. NothingForgotten'
    <3>1. cnPending[c] \in Seq(CnKinds) /\ cnSocket[c] \in Seq(CnKinds) /\ cnSeq[c] \in Nat
      BY <1>0 DEF CnBasic
    <3>2. cnSeq'[c] + Len(cnPending'[c]) + Len(cnSocket'[c]) = cnSent'[c]
      <4>1. cnSeq'[c] = cnSeq[c] + 1 /\ Len(cnPending'[c]) = Len(cnPending[c]) - 1
        BY <1>0, <2>1, <2>2 DEF CnBasic
      <4>2. cnSeq[c] + Len(cnPending[c]) + Len(cnSocket[c]) = cnSent[c]
        BY <1>0 DEF NothingForgotten
      <4> QED
        BY <2>1, <3>1, <4>1, <4>2
    <3>3. ASSUME NEW d \in CnClients \ {c}
          PROVE  cnSeq'[d] = cnSeq[d] /\ cnPending'[d] = cnPending[d] /\ cnUntil'[d] = cnUntil[d]
      BY <1>0, <2>1, <2>3, <3>3 DEF CnBasic
    <3> QED
      BY <1>0, <2>1, <3>2, <3>3 DEF NothingForgotten, Blocked
  <2>6. CnCounted'
    BY <1>0, <2>1, <2>3 DEF CnBasic, CnCounted
  <2>7. CnUnread'
    BY <1>0, <2>1 DEF CnBasic, CnUnread
  <2> QED
    BY <2>4, <2>5, <2>6, <2>7 DEF CnInv
<1>12. CASE UNCHANGED cnVars
  BY <1>0, <1>12 DEF CnInv, CnBasic, NothingForgotten, CnCounted, CnUnread, Blocked, cnVars
<1> QED
  BY <1>1, <1>2, <1>3, <1>4, <1>5, <1>6, <1>7, <1>8, <1>9, <1>10, <1>11, <1>12 DEF CnNext

(* Nothing is counted before the first request. *)
LEMMA CnInitInv == CnInit => CnInv
<1> SUFFICES ASSUME CnInit PROVE CnInv
  OBVIOUS
<1>1. CnBasic
  BY CnBounds DEF CnInit, CnBasic, CnPhases
<1>2. NothingForgotten /\ CnCounted /\ CnUnread
  BY DEF CnInit, NothingForgotten, CnCounted, CnUnread
<1> QED
  BY <1>1, <1>2 DEF CnInv

(* The accounts of every connection are right in every reachable state.     *)
THEOREM CnInvariant == CnSpec => []CnInv
BY CnInitInv, CnStep, PTL DEF CnSpec

(* A request that was read is handled without the client having to send     *)
(* another one, and none is lost or handled twice: deferring to the frame   *)
(* tick what an Await held back is enough.                                  *)
THEOREM ReadRequestsHandled == CnSpec => []NothingForgotten
<1>1. CnInv => NothingForgotten
  BY DEF CnInv
<1> QED
  BY <1>1, CnInvariant, PTL

(* The counters are bounded by the requests sent. *)
LEMMA CnInvType == CnInv => CnTypeOK
<1> SUFFICES ASSUME CnInv PROVE CnTypeOK
  OBVIOUS
<1>1. ASSUME NEW c \in CnClients PROVE cnSeq[c] \in 0..CnMaxReqs
  <2>1. /\ cnSeq[c] \in Nat /\ cnSent[c] \in 0..CnMaxReqs
        /\ cnSocket[c] \in Seq(CnKinds) /\ cnPending[c] \in Seq(CnKinds)
        /\ cnSeq[c] + Len(cnPending[c]) + Len(cnSocket[c]) = cnSent[c]
    BY DEF CnInv, CnBasic, NothingForgotten
  <2>2. Len(cnSocket[c]) \in Nat /\ Len(cnPending[c]) \in Nat
    BY <2>1
  <2> QED
    BY <2>1, <2>2, CnBounds
<1>2. ASSUME NEW c \in CnClients
      PROVE  /\ cnGrabs[c] \in 0..CnMaxReqs /\ cnEvents[c] \in 0..CnMaxReqs
             /\ cnHeard[c] \in 0..CnMaxReqs
  <2>1. /\ cnGrabs[c] \in Nat /\ cnEvents[c] \in Nat /\ cnHeard[c] \in Nat
        /\ cnGrabs[c] <= cnSeq[c] /\ cnEvents[c] <= cnSeq[c] /\ cnHeard[c] <= cnSeq[c]
    BY DEF CnInv, CnBasic, CnCounted
  <2> QED
    BY <1>1, <2>1, CnBounds
<1>3. /\ cnSeq \in [CnClients -> 0..CnMaxReqs] /\ cnGrabs \in [CnClients -> 0..CnMaxReqs]
      /\ cnEvents \in [CnClients -> 0..CnMaxReqs] /\ cnHeard \in [CnClients -> 0..CnMaxReqs]
  BY <1>1, <1>2 DEF CnInv, CnBasic
<1> QED
  BY <1>3 DEF CnInv, CnBasic, CnTypeOK

(* The phases, queues and counters of every connection keep their types:    *)
(* server_grab_count and the sequence numbers stay within the number of     *)
(* requests the client sent.                                                *)
THEOREM CnTypeCorrect == CnSpec => []CnTypeOK
BY CnInvType, CnInvariant, PTL

(* No request gets past an Await, whatever the batch holds: the sequence    *)
(* number stands still until SERVERTIME is reached and a tick has seen it.  *)
THEOREM AwaitBlocks == CnSpec => AwaitHolds
<1>1. ASSUME CnInv, [CnNext]_cnVars, NEW c \in CnClients, Blocked(c)
      PROVE  cnSeq'[c] = cnSeq[c] /\ (~Blocked(c)' => cnUntil[c] <= cnTime)
  <2>0. /\ cnSeq \in [CnClients -> Nat] /\ cnUntil \in [CnClients -> 0..CnMaxTime + 1]
        /\ cnTime \in 0..CnMaxTime
    BY <1>1 DEF CnInv, CnBasic
  <2>1. ASSUME NEW d \in CnClients, HandleOne(d)
        PROVE  cnSeq'[c] = cnSeq[c] /\ cnUntil'[c] = cnUntil[c]
    <3>1. d # c
      BY <1>1, <2>1 DEF HandleOne
    <3>2. /\ cnSeq' = [cnSeq EXCEPT ![d] = @ + 1]
          /\ \E v : cnUntil' = [cnUntil EXCEPT ![d] = v]
      BY <2>1 DEF HandleOne, Request
    <3> QED
      BY <2>0, <3>1, <3>2
  <2>2. ASSUME NEW d \in CnClients, FrameTick(d)
        PROVE  cnSeq'[c] = cnSeq[c] /\ (~Blocked(c)' => cnUntil[c] <= cnTime)
    BY <1>1, <2>0, <2>2 DEF FrameTick, Blocked
  <2>3. CASE UNCHANGED <<cnSeq, cnUntil>>
    BY <1>1, <2>3 DEF Blocked
  <2>4. ASSUME NEW d \in CnClients, Start(d) \/ Receive(d) \/ PassGate(d) \/ EndOfLoop(d)
                                     \/ Close(d) \/ Break(d)
        PROVE  UNCHANGED <<cnSeq, cnUntil>>
    BY <2>4 DEF Start, Receive, PassGate, EndOfLoop, Close, Break
  <2>5. ASSUME NEW d \in CnClients,
               (\E k \in CnKinds : Send(d, k)) \/ (\E a \in BOOLEAN : Handshake(d, a))
        PROVE  UNCHANGED <<cnSeq, cnUntil>>
    BY <2>5 DEF Send, Handshake
  <2>6. CASE ServerTime \/ UNCHANGED cnVars
    BY <2>3, <2>6 DEF ServerTime, cnVars
  <2> QED
    BY <1>1, <2>1, <2>2, <2>3, <2>4, <2>5, <2>6 DEF CnNext, Blocked
<1>2. CnInv /\ [CnNext]_cnVars =>
        [\A c \in CnClients : Blocked(c) => /\ cnSeq'[c] = cnSeq[c]
                                            /\ ~Blocked(c)' => cnUntil[c] <= cnTime]_cnVars
  BY <1>1
<1> QED
  BY <1>2, CnInvariant, PTL DEF CnSpec, AwaitHolds

(* The sequence numbers a client reads never go back and never run ahead of *)
(* the requests handled, responses and events taken together.               *)
THEOREM HeardForward == CnSpec => HeardInOrder
<1>1. ASSUME CnInv, [CnNext]_cnVars, NEW c \in CnClients
      PROVE  cnHeard[c] <= cnHeard'[c] /\ cnHeard'[c] <= cnSeq'[c]
  <2>0. /\ cnHeard \in [CnClients -> Nat] /\ cnSeq \in [CnClients -> Nat]
        /\ \A d \in CnClients : cnHeard[d] <= cnSeq[d]
    BY <1>1 DEF CnInv, CnBasic, CnCounted
  <2>1. cnHeard'[c] <= cnSeq'[c]
    <3>1. CnInv'
      BY <1>1, CnStep
    <3> QED
      BY <3>1 DEF CnInv, CnCounted
  <2>2. ASSUME NEW d \in CnClients, HandleOne(d)
        PROVE  cnHeard[c] <= cnHeard'[c]
    <3>1. cnHeard' = [cnHeard EXCEPT ![d] = cnSeq[d] + 1] \/ cnHeard' = cnHeard
      BY <2>0, <2>2 DEF HandleOne, Request
    <3> QED
      BY <2>0, <3>1
  <2>3. ASSUME NEW d \in CnClients, EndOfLoop(d)
        PROVE  cnHeard[c] <= cnHeard'[c]
    <3>1. cnHeard' = [cnHeard EXCEPT ![d] = cnSeq[d]] \/ cnHeard' = cnHeard
      BY <2>0, <2>3 DEF EndOfLoop
    <3> QED
      BY <2>0, <3>1
  <2>4. CASE cnHeard' = cnHeard
    <3>1. cnHeard[c] \in Nat
      BY <2>0
    <3> QED
      BY <2>1, <2>4, <3>1
  <2>5. ASSUME NEW d \in CnClients, Start(d) \/ Receive(d) \/ PassGate(d) \/ FrameTick(d)
                                     \/ Close(d) \/ Break(d)
        PROVE  cnHeard' = cnHeard
    BY <2>5 DEF Start, Receive, PassGate, FrameTick, Close, Break
  <2>6. ASSUME NEW d \in CnClients,
               (\E k \in CnKinds : Send(d, k)) \/ (\E a \in BOOLEAN : Handshake(d, a))
        PROVE  cnHeard' = cnHeard
    BY <2>6 DEF Send, Handshake
  <2>7. CASE ServerTime \/ UNCHANGED cnVars
    <3>1. cnHeard' = cnHeard
      BY <2>7 DEF ServerTime, cnVars
    <3> QED
      BY <3>1, <2>4
  <2>8. CASE \E d \in CnClients : HandleOne(d) \/ EndOfLoop(d)
    BY <2>1, <2>2, <2>3, <2>8
  <2>9. \/ cnHeard' = cnHeard \/ ServerTime \/ UNCHANGED cnVars
        \/ \E d \in CnClients : HandleOne(d) \/ EndOfLoop(d)
    BY <1>1, <2>5, <2>6 DEF CnNext
  <2> QED
    BY <2>4, <2>7, <2>8, <2>9
<1>2. CnInv /\ [CnNext]_cnVars =>
        [\A c \in CnClients : cnHeard[c] <= cnHeard'[c] /\ cnHeard'[c] <= cnSeq'[c]]_cnVars
  BY <1>1
<1> QED
  BY <1>2, CnInvariant, PTL DEF CnSpec, HeardInOrder

(* Requests keep their order on every connection: both parts.               *)
THEOREM ConnectionsOrdered == CnSpec => ConnectionOrder
BY AwaitBlocks, HeardForward DEF ConnectionOrder

-----------------------------------------------------------------------------
(* XGrabs: no input event is lost or duplicated. *)

(* The events w written, the queues qp and qk of the two devices and the    *)
(* set lo of dropped events share the n events that arrived among them.     *)
Shared(w, qp, qk, lo, n) ==
    /\ w \in Seq(Nat) /\ qp \in Seq(Nat) /\ qk \in Seq(Nat) /\ n \in Nat
    /\ IsInjective(w) /\ IsInjective(qp) /\ IsInjective(qk)
    /\ ToSet(w) \cap ToSet(qp) = {} /\ ToSet(w) \cap ToSet(qk) = {}
    /\ ToSet(qp) \cap ToSet(qk) = {}
    /\ (ToSet(w) \cup ToSet(qp) \cup ToSet(qk)) \cap lo = {}
    /\ ToSet(w) \cup ToSet(qp) \cup ToSet(qk) \cup lo = 1..n

(* The inductive invariant. *)
GrOnce ==
    /\ grQueue \in [Devices -> Seq(Nat)]
    /\ Shared(grWire, grQueue["pointer"], grQueue["keyboard"], grLost, grCount)

LEMMA ConcatSet ==
    ASSUME NEW S, NEW s \in Seq(S), NEW t \in Seq(S)
    PROVE  s \o t \in Seq(S) /\ ToSet(s \o t) = ToSet(s) \cup ToSet(t)
<1>1. /\ s \o t \in Seq(S) /\ DOMAIN (s \o t) = 1..(Len(s) + Len(t))
      /\ DOMAIN s = 1..Len(s) /\ DOMAIN t = 1..Len(t)
      /\ Len(s) \in Nat /\ Len(t) \in Nat
      /\ \A i \in 1..(Len(s) + Len(t)) :
             (s \o t)[i] = IF i <= Len(s) THEN s[i] ELSE t[i - Len(s)]
  BY ConcatProperties, LenProperties
<1>2. ASSUME NEW i \in 1..(Len(s) + Len(t))
      PROVE  (s \o t)[i] \in ToSet(s) \cup ToSet(t)
  <2>1. CASE i <= Len(s)
    BY <1>1, <2>1 DEF ToSet
  <2>2. CASE ~(i <= Len(s))
    <3>1. i - Len(s) \in 1..Len(t) /\ (s \o t)[i] = t[i - Len(s)]
      BY <1>1, <2>2
    <3> QED  BY <1>1, <3>1 DEF ToSet
  <2> QED  BY <2>1, <2>2
<1>3. ASSUME NEW i \in 1..Len(s)
      PROVE  s[i] \in ToSet(s \o t)
  <2>1. i \in 1..(Len(s) + Len(t)) /\ (s \o t)[i] = s[i]
    BY <1>1
  <2> QED  BY <1>1, <2>1 DEF ToSet
<1>4. ASSUME NEW i \in 1..Len(t)
      PROVE  t[i] \in ToSet(s \o t)
  <2>1. Len(s) + i \in 1..(Len(s) + Len(t)) /\ (s \o t)[Len(s) + i] = t[i]
    BY <1>1
  <2> QED  BY <1>1, <2>1 DEF ToSet
<1> QED  BY <1>1, <1>2, <1>3, <1>4 DEF ToSet

(* Two sequences without repetitions and nothing in common, one after the   *)
(* other, are one without repetitions; and the other way round.             *)
LEMMA ConcatOnce ==
    ASSUME NEW S, NEW s \in Seq(S), NEW t \in Seq(S),
           IsInjective(s), IsInjective(t), ToSet(s) \cap ToSet(t) = {}
    PROVE  IsInjective(s \o t)
<1>1. /\ DOMAIN (s \o t) = 1..(Len(s) + Len(t))
      /\ DOMAIN s = 1..Len(s) /\ DOMAIN t = 1..Len(t)
      /\ Len(s) \in Nat /\ Len(t) \in Nat
      /\ \A i \in 1..(Len(s) + Len(t)) :
             (s \o t)[i] = IF i <= Len(s) THEN s[i] ELSE t[i - Len(s)]
  BY ConcatProperties, LenProperties
<1> SUFFICES ASSUME NEW a \in 1..(Len(s) + Len(t)), NEW b \in 1..(Len(s) + Len(t)),
                    (s \o t)[a] = (s \o t)[b]
             PROVE  a = b
  BY <1>1 DEF IsInjective
<1>2. \A i \in 1..(Len(s) + Len(t)) :
        \/ i \in DOMAIN s /\ (s \o t)[i] = s[i]
        \/ i - Len(s) \in DOMAIN t /\ (s \o t)[i] = t[i - Len(s)]
  BY <1>1
<1>3. \A i \in DOMAIN s, j \in DOMAIN t : s[i] # t[j]
  BY DEF ToSet
<1>4. CASE a \in DOMAIN s /\ (s \o t)[a] = s[a]
  <2>1. b \in DOMAIN s /\ (s \o t)[b] = s[b]
    BY <1>2, <1>3, <1>4
  <2> QED  BY <1>4, <2>1 DEF IsInjective
<1>5. CASE a - Len(s) \in DOMAIN t /\ (s \o t)[a] = t[a - Len(s)]
  <2>1. b - Len(s) \in DOMAIN t /\ (s \o t)[b] = t[b - Len(s)]
    BY <1>2, <1>3, <1>5
  <2>2. a - Len(s) = b - Len(s)
    BY <1>5, <2>1 DEF IsInjective
  <2> QED  BY <1>1, <2>2
<1> QED  BY <1>2, <1>4, <1>5

LEMMA AppendOnce ==
    ASSUME NEW S, NEW s \in Seq(S), NEW e \in S, IsInjective(s), e \notin ToSet(s)
    PROVE  /\ Append(s, e) \in Seq(S) /\ IsInjective(Append(s, e))
           /\ ToSet(Append(s, e)) = ToSet(s) \cup {e}
<1>1. <<e>> \in Seq(S) /\ Append(s, e) = s \o <<e>>
  OBVIOUS
<1>2. ToSet(<<e>>) = {e} /\ IsInjective(<<e>>)
  BY DEF ToSet, IsInjective
<1>3. IsInjective(s \o <<e>>)
  BY <1>1, <1>2, ConcatOnce
<1>4. s \o <<e>> \in Seq(S) /\ ToSet(s \o <<e>>) = ToSet(s) \cup ToSet(<<e>>)
  BY <1>1, ConcatSet
<1> QED  BY <1>1, <1>2, <1>3, <1>4, Zenon

(* Dropping the oldest. *)
LEMMA TailOnce ==
    ASSUME NEW S, NEW s \in Seq(S), s # <<>>, IsInjective(s)
    PROVE  /\ Tail(s) \in Seq(S) /\ IsInjective(Tail(s)) /\ Head(s) \notin ToSet(Tail(s))
           /\ ToSet(s) = ToSet(Tail(s)) \cup {Head(s)}
<1>1. /\ Tail(s) \in Seq(S) /\ DOMAIN Tail(s) = 1..(Len(s) - 1)
      /\ DOMAIN s = 1..Len(s) /\ Len(s) \in Nat /\ Len(s) >= 1 /\ Head(s) = s[1]
      /\ \A i \in 1..(Len(s) - 1) : Tail(s)[i] = s[i + 1]
  BY HeadTailProperties, LenProperties
<1>2. IsInjective(Tail(s))
  <2> SUFFICES ASSUME NEW a \in 1..(Len(s) - 1), NEW b \in 1..(Len(s) - 1),
                      Tail(s)[a] = Tail(s)[b]
               PROVE  a = b
    BY <1>1 DEF IsInjective
  <2>1. a + 1 \in DOMAIN s /\ b + 1 \in DOMAIN s /\ s[a + 1] = s[b + 1]
    BY <1>1
  <2>2. a + 1 = b + 1
    BY <2>1 DEF IsInjective
  <2> QED  BY <2>2
<1>3. Head(s) \notin ToSet(Tail(s))
  <2> SUFFICES ASSUME NEW a \in 1..(Len(s) - 1), s[1] = Tail(s)[a]
               PROVE  FALSE
    BY <1>1 DEF ToSet
  <2>1. a + 1 \in DOMAIN s /\ 1 \in DOMAIN s /\ s[a + 1] = s[1]
    BY <1>1
  <2>2. a + 1 = 1
    BY <2>1 DEF IsInjective
  <2> QED  BY <2>2
<1>4. ToSet(Tail(s)) \cup {Head(s)} \subseteq ToSet(s)
  <2>1. ASSUME NEW a \in 1..(Len(s) - 1) PROVE Tail(s)[a] \in ToSet(s)
    <3>1. a + 1 \in DOMAIN s /\ Tail(s)[a] = s[a + 1]
      BY <1>1
    <3> QED  BY <3>1 DEF ToSet
  <2>2. Head(s) \in ToSet(s)
    BY <1>1 DEF ToSet
  <2> QED  BY <1>1, <2>1, <2>2 DEF ToSet
<1>5. ASSUME NEW a \in DOMAIN s PROVE s[a] \in ToSet(Tail(s)) \cup {Head(s)}
  <2>1. CASE a = 1
    BY <1>1, <2>1
  <2>2. CASE a # 1
    <3>1. a - 1 \in 1..(Len(s) - 1) /\ Tail(s)[a - 1] = s[a]
      BY <1>1, <1>5, <2>2
    <3> QED  BY <1>1, <3>1 DEF ToSet
  <2> QED  BY <2>1, <2>2
<1>6. ToSet(s) \subseteq ToSet(Tail(s)) \cup {Head(s)}
  BY <1>5 DEF ToSet
<1> QED  BY <1>1, <1>2, <1>3, <1>4, <1>6

(* The ways the events move: the queue of a device is written, an event is  *)
(* written or queued as it arrives, and the oldest of a full queue goes.    *)
LEMMA SharedSwap ==
    ASSUME NEW w, NEW p, NEW k, NEW lo, NEW n, Shared(w, p, k, lo, n)
    PROVE  Shared(w, k, p, lo, n)
  BY DEF Shared

LEMMA SharedThaw ==
    ASSUME NEW w, NEW p, NEW k, NEW lo, NEW n, Shared(w, p, k, lo, n)
    PROVE  Shared(w \o p, <<>>, k, lo, n)
<1>1. w \o p \in Seq(Nat) /\ ToSet(w \o p) = ToSet(w) \cup ToSet(p)
  BY ConcatSet DEF Shared
<1>2. IsInjective(w \o p)
  BY ConcatOnce DEF Shared
<1>3. <<>> \in Seq(Nat) /\ ToSet(<<>>) = {} /\ IsInjective(<<>>)
  BY DEF ToSet, IsInjective
<1> QED  BY <1>1, <1>2, <1>3 DEF Shared

(* Both devices thaw: first the queue p is written, then k. *)
LEMMA SharedThawBoth ==
    ASSUME NEW w, NEW p, NEW k, NEW lo, NEW n, Shared(w, p, k, lo, n)
    PROVE  Shared(w \o (p \o k), <<>>, <<>>, lo, n)
<1>1. Shared(w \o p, k, <<>>, lo, n)
  BY SharedThaw, SharedSwap
<1>2. Shared((w \o p) \o k, <<>>, <<>>, lo, n)
  BY <1>1, SharedThaw
<1>3. (w \o p) \o k = w \o (p \o k)
  <2>1. w \in Seq(Nat) /\ p \in Seq(Nat) /\ k \in Seq(Nat)
    BY DEF Shared
  <2> QED  BY <2>1, ConcatAssociative
<1> QED  BY <1>2, <1>3

LEMMA SharedFresh ==
    ASSUME NEW w, NEW p, NEW k, NEW lo, NEW n, Shared(w, p, k, lo, n)
    PROVE  /\ n + 1 \in Nat
           /\ n + 1 \notin ToSet(w) \cup ToSet(p) \cup ToSet(k) \cup lo
           /\ 1..(n + 1) = ToSet(w) \cup ToSet(p) \cup ToSet(k) \cup lo \cup {n + 1}
<1>1. n \in Nat /\ ToSet(w) \cup ToSet(p) \cup ToSet(k) \cup lo = 1..n
  BY DEF Shared
<1>2. n + 1 \in Nat /\ n + 1 \notin 1..n /\ 1..(n + 1) = 1..n \cup {n + 1}
  BY <1>1
<1> QED  BY <1>1, <1>2

LEMMA SharedWrite ==
    ASSUME NEW w, NEW p, NEW k, NEW lo, NEW n, Shared(w, p, k, lo, n)
    PROVE  Shared(Append(w, n + 1), p, k, lo, n + 1)
<1> DEFINE e == n + 1
<1>1. /\ e \in Nat /\ e \notin ToSet(w) \cup ToSet(p) \cup ToSet(k) \cup lo
      /\ 1..e = ToSet(w) \cup ToSet(p) \cup ToSet(k) \cup lo \cup {e}
  BY SharedFresh
<1> HIDE DEF e
<1>2. w \in Seq(Nat) /\ IsInjective(w)
  BY DEF Shared
<1>3. /\ Append(w, e) \in Seq(Nat) /\ IsInjective(Append(w, e))
      /\ ToSet(Append(w, e)) = ToSet(w) \cup {e}
  BY <1>1, <1>2, AppendOnce
<1>4. Shared(Append(w, e), p, k, lo, e)
  BY <1>1, <1>3 DEF Shared
<1> QED  BY <1>4 DEF e

LEMMA SharedQueue ==
    ASSUME NEW w, NEW p, NEW k, NEW lo, NEW n, Shared(w, p, k, lo, n)
    PROVE  Shared(w, Append(p, n + 1), k, lo, n + 1)
<1> DEFINE e == n + 1
<1>1. /\ e \in Nat /\ e \notin ToSet(w) \cup ToSet(p) \cup ToSet(k) \cup lo
      /\ 1..e = ToSet(w) \cup ToSet(p) \cup ToSet(k) \cup lo \cup {e}
  BY SharedFresh
<1> HIDE DEF e
<1>2. p \in Seq(Nat) /\ IsInjective(p)
  BY DEF Shared
<1>3. /\ Append(p, e) \in Seq(Nat) /\ IsInjective(Append(p, e))
      /\ ToSet(Append(p, e)) = ToSet(p) \cup {e}
  BY <1>1, <1>2, AppendOnce
<1>4. Shared(w, Append(p, e), k, lo, e)
  BY <1>1, <1>3 DEF Shared
<1> QED  BY <1>4 DEF e

LEMMA SharedDrop ==
    ASSUME NEW w, NEW p, NEW k, NEW lo, NEW n, Shared(w, p, k, lo, n), p # <<>>
    PROVE  Shared(w, Tail(p), k, lo \cup {Head(p)}, n)
<1>1. p \in Seq(Nat) /\ IsInjective(p)
  BY DEF Shared
<1>2. /\ Tail(p) \in Seq(Nat) /\ IsInjective(Tail(p)) /\ Head(p) \notin ToSet(Tail(p))
      /\ ToSet(p) = ToSet(Tail(p)) \cup {Head(p)}
  BY <1>1, TailOnce
<1> QED  BY <1>2 DEF Shared

(* The parts of a sequence without repetitions, one cut out.                *)
LEMMA CutOnce ==
    ASSUME NEW w \in Seq(Nat), NEW q \in Seq(Nat), NEW m \in 0..Len(q), IsInjective(w \o q)
    PROVE  LET a == SubSeq(q, 1, m)
               b == SubSeq(q, m + 1, Len(q))
           IN  /\ w \o b \in Seq(Nat) /\ IsInjective(w \o b) /\ ToSet(a) \cap ToSet(w \o b) = {}
               /\ ToSet(w \o q) = ToSet(w \o b) \cup ToSet(a)
<1> DEFINE a == SubSeq(q, 1, m)
           b == SubSeq(q, m + 1, Len(q))
           n == Len(w)
<1>1. /\ n \in Nat /\ Len(q) \in Nat /\ DOMAIN w = 1..n
      /\ w \o q \in Seq(Nat) /\ DOMAIN (w \o q) = 1..(n + Len(q))
      /\ \A i \in 1..(n + Len(q)) : (w \o q)[i] = IF i <= n THEN w[i] ELSE q[i - n]
  BY ConcatProperties, LenProperties
<1>2. /\ a \in Seq(Nat) /\ DOMAIN a = 1..m /\ \A i \in 1..m : a[i] = q[i]
      /\ b \in Seq(Nat) /\ Len(b) = Len(q) - m /\ DOMAIN b = 1..(Len(q) - m)
      /\ \A i \in 1..(Len(q) - m) : b[i] = q[m + i]
  OBVIOUS
<1> HIDE DEF a, b
<1>3. /\ w \o b \in Seq(Nat) /\ DOMAIN (w \o b) = 1..(n + (Len(q) - m))
      /\ \A i \in 1..(n + (Len(q) - m)) : (w \o b)[i] = IF i <= n THEN w[i] ELSE b[i - n]
  <2>1. /\ w \o b \in Seq(Nat) /\ Len(w \o b) = Len(w) + Len(b)
        /\ \A i \in 1..(Len(w) + Len(b)) : (w \o b)[i] = IF i <= Len(w) THEN w[i] ELSE b[i - Len(w)]
    BY <1>2, ConcatProperties
  <2>2. DOMAIN (w \o b) = 1..(Len(w) + Len(b))
    BY <2>1, LenProperties
  <2> QED  BY <1>2, <2>1, <2>2
<1> HIDE DEF n
<1> DEFINE at(i) == IF i <= n THEN i ELSE i + m
<1>4. ASSUME NEW i \in DOMAIN (w \o b)
      PROVE  at(i) \in DOMAIN (w \o q) /\ (w \o q)[at(i)] = (w \o b)[i]
             /\ ~(at(i) \in (n+1)..(n+m))
  <2>1. i \in Int /\ i >= 1 /\ i <= n + (Len(q) - m)
    BY <1>1, <1>3
  <2>2. CASE i <= n
    BY <1>1, <1>3, <2>1, <2>2
  <2>3. CASE ~(i <= n)
    <3>1. at(i) = i + m /\ i + m \in 1..(n + Len(q)) /\ ~(i + m <= n) /\ i - n \in 1..(Len(q) - m)
      BY <1>1, <2>1, <2>3
    <3>2. (w \o q)[i + m] = q[(i + m) - n] /\ (w \o b)[i] = b[i - n] /\ b[i - n] = q[m + (i - n)]
      BY <1>1, <1>2, <1>3, <2>3, <3>1
    <3>3. (i + m) - n = m + (i - n) /\ ~(i + m \in (n+1)..(n+m))
      BY <1>1, <2>1, <2>3
    <3> QED  BY <1>1, <3>1, <3>2, <3>3
  <2> QED  BY <2>2, <2>3
<1>5. ASSUME NEW i \in 1..m PROVE n + i \in DOMAIN (w \o q) /\ (w \o q)[n + i] = a[i]
  <2>1. n + i \in 1..(n + Len(q)) /\ ~(n + i <= n) /\ (n + i) - n = i
    BY <1>1
  <2>2. (w \o q)[n + i] = q[i] /\ a[i] = q[i]
    BY <1>1, <1>2, <2>1
  <2> QED  BY <1>1, <2>1, <2>2
<1>6. ASSUME NEW i \in DOMAIN (w \o q) PROVE (w \o q)[i] \in ToSet(w \o b) \cup ToSet(a)
  <2>0. i \in Int /\ i >= 1 /\ i <= n + Len(q)
    BY <1>1
  <2>1. CASE i <= n
    <3>1. i \in DOMAIN (w \o b) /\ (w \o b)[i] = (w \o q)[i]
      BY <1>1, <1>3, <2>0, <2>1
    <3> QED  BY <3>1 DEF ToSet
  <2>2. CASE i > n /\ i <= n + m
    <3>1. i - n \in 1..m /\ n + (i - n) = i
      BY <1>1, <2>0, <2>2
    <3> QED  BY <1>2, <1>5, <3>1 DEF ToSet
  <2>3. CASE i > n + m
    <3>1. i - m \in 1..(n + (Len(q) - m)) /\ at(i - m) = i
      BY <1>1, <2>0, <2>3
    <3>2. i - m \in DOMAIN (w \o b)
      BY <1>3, <3>1
    <3>3. (w \o b)[i - m] = (w \o q)[i]
      BY <1>4, <3>1, <3>2
    <3> QED  BY <3>2, <3>3 DEF ToSet
  <2> QED  BY <1>1, <2>0, <2>1, <2>2, <2>3
<1>7. ToSet(w \o q) = ToSet(w \o b) \cup ToSet(a)
  <2>1. ToSet(w \o b) \subseteq ToSet(w \o q)
    BY <1>4 DEF ToSet
  <2>2. ToSet(a) \subseteq ToSet(w \o q)
    <3> SUFFICES ASSUME NEW x \in ToSet(a) PROVE x \in ToSet(w \o q)
      OBVIOUS
    <3>1. PICK i \in 1..m : x = a[i]
      BY <1>2 DEF ToSet
    <3>2. n + i \in DOMAIN (w \o q) /\ x = (w \o q)[n + i]
      BY <1>5, <3>1
    <3> QED  BY <3>2 DEF ToSet
  <2>3. ToSet(w \o q) \subseteq ToSet(w \o b) \cup ToSet(a)
    <3> SUFFICES ASSUME NEW x \in ToSet(w \o q) PROVE x \in ToSet(w \o b) \cup ToSet(a)
      OBVIOUS
    <3>1. PICK i \in DOMAIN (w \o q) : x = (w \o q)[i]
      BY DEF ToSet
    <3> QED  BY <1>6, <3>1
  <2> QED  BY <2>1, <2>2, <2>3
<1>8. IsInjective(w \o b)
  <2> SUFFICES ASSUME NEW i \in DOMAIN (w \o b), NEW j \in DOMAIN (w \o b), (w \o b)[i] = (w \o b)[j]
               PROVE  i = j
    BY DEF IsInjective
  <2>1. at(i) = at(j)
    <3>1. (w \o q)[at(i)] = (w \o q)[at(j)] /\ at(i) \in DOMAIN (w \o q) /\ at(j) \in DOMAIN (w \o q)
      BY <1>4
    <3> HIDE DEF at
    <3> QED  BY <3>1 DEF IsInjective
  <2>2. i \in Int /\ j \in Int /\ i >= 1 /\ j >= 1
    BY <1>1, <1>3
  <2> QED  BY <1>1, <2>1, <2>2
<1>9. ToSet(a) \cap ToSet(w \o b) = {}
  <2> SUFFICES ASSUME NEW x \in ToSet(a), x \in ToSet(w \o b) PROVE FALSE
    OBVIOUS
  <2>3. PICK i \in 1..m : x = a[i]
    BY <1>2 DEF ToSet
  <2>4. PICK j \in DOMAIN (w \o b) : x = (w \o b)[j]
    BY DEF ToSet
  <2>1. at(j) = n + i
    <3>1. (w \o q)[at(j)] = (w \o q)[n + i] /\ at(j) \in DOMAIN (w \o q) /\ n + i \in DOMAIN (w \o q)
      BY <1>4, <1>5, <2>3, <2>4
    <3> HIDE DEF at
    <3> QED  BY <3>1 DEF IsInjective
  <2>2. n + i \in (n+1)..(n+m)
    BY <1>1
  <2> QED  BY <1>4, <2>1, <2>2
<1> QED  BY <1>3, <1>7, <1>8, <1>9 DEF a, b

(* The end of a batch writes what was thawed, or drops the oldest of it.    *)
LEMMA GrBatch ==
    ASSUME NEW x, NEW p, NEW k, x \in Seq(Nat), grWire \in Seq(Nat), EndOfBatch(x),
           Shared(grWire \o x, p, k, grLost, grCount)
    PROVE  Shared(grWire', p, k, grLost', grCount)
<1>1. PICK m \in 0..Len(x) : /\ grWire' = grWire \o SubSeq(x, m + 1, Len(x))
                            /\ grLost' = grLost \cup ToSet(SubSeq(x, 1, m))
  BY DEF EndOfBatch
<1> DEFINE a == SubSeq(x, 1, m)
           y == grWire \o SubSeq(x, m + 1, Len(x))
           z == grWire \o x
<1>2. /\ y \in Seq(Nat) /\ IsInjective(y) /\ ToSet(a) \cap ToSet(y) = {}
      /\ ToSet(z) = ToSet(y) \cup ToSet(a)
  BY CutOnce DEF Shared
<1>3. Shared(z, p, k, grLost, grCount) /\ grWire' = y /\ grLost' = grLost \cup ToSet(a)
  BY <1>1
<1> HIDE DEF a, y, z
<1> QED  BY <1>2, <1>3 DEF Shared

(* A step that writes nothing, and moves nothing. *)
LEMMA GrQuiet ==
    ASSUME GrOnce, UNCHANGED <<grWire, grLost>> \/ EndOfBatch(<<>>), UNCHANGED <<grQueue, grCount>>
    PROVE  GrOnce'
<1>1. grWire \in Seq(Nat) /\ <<>> \in Seq(Nat)
  BY DEF GrOnce, Shared
<1>2. grWire \o <<>> = grWire
  BY <1>1, ConcatEmptySeq
<1>3. CASE UNCHANGED <<grWire, grLost>>
  BY <1>3 DEF GrOnce
<1>4. CASE EndOfBatch(<<>>)
  BY <1>1, <1>2, <1>4, GrBatch DEF GrOnce
<1> QED  BY <1>3, <1>4

(* The devices D thaw: their queues are written, in either order. *)
LEMMA GrThawed ==
    ASSUME GrOnce, UNCHANGED grCount, NEW D \in SUBSET Devices,
           grQueue' = [d \in Devices |-> IF d \in D THEN <<>> ELSE grQueue[d]],
           \/ D = {} /\ EndOfBatch(<<>>)
           \/ D = {"pointer"} /\ EndOfBatch(grQueue["pointer"])
           \/ D = {"keyboard"} /\ EndOfBatch(grQueue["keyboard"])
           \/ D = Devices /\ EndOfBatch(grQueue["pointer"] \o grQueue["keyboard"])
           \/ D = Devices /\ EndOfBatch(grQueue["keyboard"] \o grQueue["pointer"])
    PROVE  GrOnce'
<1> DEFINE w == grWire
           p == grQueue["pointer"]
           k == grQueue["keyboard"]
<1>1. grQueue' \in [Devices -> Seq(Nat)]
  <2>1. <<>> \in Seq(Nat)
    OBVIOUS
  <2> QED  BY <2>1 DEF GrOnce
<1>2. /\ grQueue'["pointer"] = IF "pointer" \in D THEN <<>> ELSE p
      /\ grQueue'["keyboard"] = IF "keyboard" \in D THEN <<>> ELSE k
  BY DEF Devices
<1>3. Shared(w, p, k, grLost, grCount) /\ Shared(w, k, p, grLost, grCount)
  BY SharedSwap DEF GrOnce
<1> HIDE DEF w, p, k
<1>4. /\ Shared(w \o p, <<>>, k, grLost, grCount)
      /\ Shared(w \o k, p, <<>>, grLost, grCount)
      /\ Shared(w \o (p \o k), <<>>, <<>>, grLost, grCount)
      /\ Shared(w \o (k \o p), <<>>, <<>>, grLost, grCount)
  BY <1>3, SharedThaw, SharedThawBoth, SharedSwap
<1>6. /\ w \in Seq(Nat) /\ p \in Seq(Nat) /\ k \in Seq(Nat) /\ p \o k \in Seq(Nat) /\ k \o p \in Seq(Nat)
      /\ w \o <<>> = w /\ <<>> \in Seq(Nat) /\ w = grWire
  BY <1>3, ConcatEmptySeq, ConcatProperties DEF Shared, w
<1>7. \A x \in Seq(Nat) : EndOfBatch(x) /\ Shared(w \o x, grQueue'["pointer"], grQueue'["keyboard"], grLost, grCount)
         => Shared(grWire', grQueue'["pointer"], grQueue'["keyboard"], grLost', grCount)
  BY <1>6, GrBatch
<1>5. Shared(grWire', grQueue'["pointer"], grQueue'["keyboard"], grLost', grCount)
  <2>1. CASE D = {} /\ EndOfBatch(<<>>)
    BY <1>2, <1>3, <1>6, <1>7, <2>1
  <2>2. CASE D = {"pointer"} /\ EndOfBatch(p)
    BY <1>2, <1>4, <1>6, <1>7, <2>2
  <2>3. CASE D = {"keyboard"} /\ EndOfBatch(k)
    BY <1>2, <1>4, <1>6, <1>7, <2>3
  <2>4. CASE D = Devices /\ EndOfBatch(p \o k)
    BY <1>2, <1>4, <1>6, <1>7, <2>4 DEF Devices
  <2>5. CASE D = Devices /\ EndOfBatch(k \o p)
    BY <1>2, <1>4, <1>6, <1>7, <2>5 DEF Devices
  <2> QED  BY <2>1, <2>2, <2>3, <2>4, <2>5 DEF p, k
<1> QED  BY <1>1, <1>5 DEF GrOnce

(* An event arrives for a device and is written or queued; frozen is what   *)
(* the press that brought it made of the freezes.                           *)
LEMMA GrDelivered ==
    ASSUME GrOnce, NEW d \in Devices, NEW frozen, grCount' = grCount + 1, Deliver(d, grCount + 1, frozen)
    PROVE  GrOnce'
<1> DEFINE e == grCount + 1
           q == grQueue[d]
<1>1. /\ grQueue \in [Devices -> Seq(Nat)] /\ q \in Seq(Nat) /\ e \in Nat
      /\ Shared(grWire, grQueue["pointer"], grQueue["keyboard"], grLost, grCount)
  BY DEF GrOnce, Shared
<1>2. CASE ~frozen[d]
  <2>1. grQueue' = grQueue /\ grWire' = Append(grWire, e) \o <<>> /\ grLost' = grLost
    BY <1>2 DEF Deliver, DeliverNow
  <2>2. Shared(Append(grWire, e), grQueue["pointer"], grQueue["keyboard"], grLost, e)
    BY <1>1, SharedWrite
  <2>3. Append(grWire, e) \o <<>> = Append(grWire, e)
    BY <2>2, ConcatEmptySeq DEF Shared
  <2> QED  BY <1>1, <2>1, <2>2, <2>3 DEF GrOnce
<1>3. CASE frozen[d]
  <2> DEFINE full == Len(q) >= GrQueue
             r == IF full THEN Tail(q) ELSE q
             lo == grLost \cup (IF full THEN {Head(q)} ELSE {})
  <2>1. /\ grQueue' = [grQueue EXCEPT ![d] = Append(r, e)]
        /\ grLost' = lo /\ grWire' = grWire
    BY <1>3 DEF Deliver
  <2>2. full => q # <<>>
    BY GrAssumption
  <2>3. r \in Seq(Nat)
    BY <1>1, <2>2
  <2>4. Append(r, e) \in Seq(Nat)
    BY <1>1, <2>3
  <2>5. ASSUME NEW o \in Devices, o # d, Shared(grWire, q, grQueue[o], grLost, grCount)
        PROVE  Shared(grWire', grQueue'[d], grQueue'[o], grLost', grCount')
    <3>1. Shared(grWire, r, grQueue[o], lo, grCount)
      <4>1. CASE full
        BY <2>2, <2>5, <4>1, SharedDrop
      <4>2. CASE ~full
        BY <2>5, <4>2
      <4> QED  BY <4>1, <4>2
    <3>2. Shared(grWire, Append(r, e), grQueue[o], lo, e)
      BY <3>1, SharedQueue
    <3>3. grQueue'[d] = Append(r, e) /\ grQueue'[o] = grQueue[o]
      BY <1>1, <2>1, <2>5
    <3> QED  BY <2>1, <3>2, <3>3
  <2>6. CASE d = "pointer"
    <3>1. Shared(grWire', grQueue'["pointer"], grQueue'["keyboard"], grLost', grCount')
      BY <1>1, <2>5, <2>6 DEF Devices
    <3> QED  BY <1>1, <2>1, <2>4, <3>1 DEF GrOnce
  <2>7. CASE d = "keyboard"
    <3>1. Shared(grWire, grQueue["keyboard"], grQueue["pointer"], grLost, grCount)
      BY <1>1, SharedSwap
    <3>2. Shared(grWire', grQueue'["keyboard"], grQueue'["pointer"], grLost', grCount')
      BY <2>5, <2>7, <3>1 DEF Devices
    <3>3. Shared(grWire', grQueue'["pointer"], grQueue'["keyboard"], grLost', grCount')
      BY <3>2, SharedSwap
    <3> QED  BY <1>1, <2>1, <2>4, <3>3 DEF GrOnce
  <2> QED  BY <2>6, <2>7 DEF Devices
<1> QED  BY <1>2, <1>3

LEMMA GrGrabStep ==
    ASSUME GrOnce,
           \/ \E w \in GrWins \cup {GrTop}, g \in Grabs, late \in BOOLEAN :
                  GrabPointer(w, g, late) \/ GrabKeyboard(w, g, late)
           \/ \E p \in GrPassives : GrabButton(p) \/ GrabKey(p)
           \/ \E w \in GrWins \cup {GrTop}, code \in {0, 1}, mods \in GrMods :
                  UngrabButton(w, code, mods) \/ UngrabKey(w, code, mods)
    PROVE  GrOnce'
<1>1. EndOfBatch(<<>>) /\ UNCHANGED <<grQueue, grCount>>
  BY DEF GrabPointer, GrabKeyboard, ActiveGrab, GrabButton, GrabKey, AddPassive,
         UngrabButton, UngrabKey, RemovePassive
<1> QED  BY <1>1, GrQuiet

LEMMA GrThawStep ==
    ASSUME GrOnce,
           UngrabPointer \/ UngrabKeyboard \/ \E mode \in AllowModes : AllowEvents(mode)
    PROVE  GrOnce'
<1> DEFINE w == grWire
           p == grQueue["pointer"]
           k == grQueue["keyboard"]
<1>1. /\ p \in Seq(Nat) /\ k \in Seq(Nat) /\ w \in Seq(Nat)
      /\ grQueue \in [Devices -> Seq(Nat)]
  BY DEF GrOnce, Devices, Shared
<1>2. p \o <<>> = p /\ k \o <<>> = k /\ <<>> \o k = k /\ w \o <<>> = w /\ <<>> \o <<>> = <<>>
  BY <1>1, ConcatEmptySeq
<1>3. CASE UngrabPointer
  <2>1. /\ grQueue' = [grQueue EXCEPT !["pointer"] = <<>>] /\ EndOfBatch(p)
        /\ UNCHANGED grCount
    BY <1>3 DEF UngrabPointer
  <2>2. grQueue' = [d \in Devices |-> IF d \in {"pointer"} THEN <<>> ELSE grQueue[d]]
    BY <1>1, <2>1 DEF Devices
  <2> QED  BY <2>1, <2>2, GrThawed DEF Devices
<1>4. CASE UngrabKeyboard
  <2> DEFINE both == grGrab["pointer"] = {} /\ \E g \in grGrab["keyboard"] : g.other = "Sync"
             D == {d \in Devices : d = "keyboard" \/ both}
  <2>1. /\ grQueue' = [d \in Devices |-> IF d \in D THEN <<>> ELSE grQueue[d]]
        /\ EndOfBatch(k \o (IF both THEN p ELSE <<>>))
        /\ UNCHANGED grCount
    BY <1>4 DEF UngrabKeyboard
  <2>2. /\ both => D = Devices
        /\ ~both => D = {"keyboard"}
    BY DEF Devices
  <2> HIDE DEF both, D
  <2>3. CASE both
    BY <2>1, <2>2, <2>3, GrThawed DEF Devices
  <2>4. CASE ~both
    <3>1. D = {"keyboard"} /\ EndOfBatch(k)
      BY <1>2, <2>1, <2>2, <2>4
    <3> QED  BY <2>1, <3>1, GrThawed DEF Devices
  <2> QED  BY <2>3, <2>4
<1>5. ASSUME NEW mode \in AllowModes, AllowEvents(mode) PROVE GrOnce'
  <2> DEFINE D == mode.devs
  <2>1. /\ grQueue' = [d \in Devices |-> IF d \in D THEN <<>> ELSE grQueue[d]]
        /\ EndOfBatch((IF "pointer" \in D THEN p ELSE <<>>) \o (IF "keyboard" \in D THEN k ELSE <<>>))
        /\ UNCHANGED grCount
    BY <1>5 DEF AllowEvents
  <2>2. D \in SUBSET Devices
    <3> DEFINE A == [devs : (SUBSET Devices) \ {{}}, step : BOOLEAN, replay : {FALSE}]
               B == {[devs |-> {d}, step |-> FALSE, replay |-> TRUE] : d \in Devices}
    <3>1. mode \in A \/ mode \in B
      BY Zenon DEF AllowModes
    <3>2. CASE mode \in A
      BY <3>2
    <3>3. CASE mode \in B
      <4>1. PICK d \in Devices : mode = [devs |-> {d}, step |-> FALSE, replay |-> TRUE]
        BY <3>3, Zenon
      <4> QED  BY <4>1
    <3> QED  BY <3>1, <3>2, <3>3
  <2> HIDE DEF D
  <2>3. D = {} \/ D = {"pointer"} \/ D = {"keyboard"} \/ D = Devices
    BY <2>2 DEF Devices
  <2>4. /\ D = {} => EndOfBatch(<<>>)
        /\ D = {"pointer"} => EndOfBatch(p)
        /\ D = {"keyboard"} => EndOfBatch(k)
        /\ D = Devices => EndOfBatch(p \o k)
    BY <1>2, <2>1 DEF Devices
  <2> QED  BY <2>1, <2>2, <2>3, <2>4, GrThawed
<1> QED  BY <1>3, <1>4, <1>5

LEMMA GrInputStep ==
    ASSUME GrOnce,
           \/ \E d \in Devices, w \in GrWins, code \in {1, 2} : Press(d, w, code)
           \/ \E held \in BOOLEAN : ButtonRelease(held)
           \/ \E d \in Devices : Moved(d)
    PROVE  GrOnce'
<1>1. ASSUME NEW d \in Devices, NEW frozen, Arrives, Deliver(d, grCount', frozen)
      PROVE  GrOnce'
  BY <1>1, GrDelivered DEF Arrives
<1>2. ASSUME NEW d \in Devices, NEW w \in GrWins, NEW code \in {1, 2}, Press(d, w, code)
      PROVE  GrOnce'
  BY <1>1, <1>2 DEF Press
<1>3. ASSUME NEW d \in Devices, Moved(d) PROVE GrOnce'
  BY <1>1, <1>3 DEF Moved
<1>4. ASSUME NEW held \in BOOLEAN, ButtonRelease(held) PROVE GrOnce'
  <2>1. CASE ~AutoUngrab(held)
    BY <1>1, <1>4, <2>1 DEF ButtonRelease, Devices
  <2>2. CASE AutoUngrab(held)
    <3> DEFINE w == grWire
               p == grQueue["pointer"]
               k == grQueue["keyboard"]
               e == grCount + 1
    <3>1. /\ grQueue' = [grQueue EXCEPT !["pointer"] = <<>>] /\ grLost' = grLost
          /\ grWire' = Append(w, e) \o p /\ grCount' = e
      BY <1>4, <2>2 DEF ButtonRelease, DeliverNow, Arrives
    <3>2. /\ grQueue \in [Devices -> Seq(Nat)]
          /\ Shared(w, p, k, grLost, grCount)
      BY DEF GrOnce
    <3>3. Shared(Append(w, e) \o p, <<>>, k, grLost, e)
      BY <3>2, SharedWrite, SharedThaw
    <3>4. /\ grQueue' \in [Devices -> Seq(Nat)]
          /\ grQueue'["pointer"] = <<>> /\ grQueue'["keyboard"] = k
      <4>1. <<>> \in Seq(Nat)
        OBVIOUS
      <4> QED  BY <3>1, <3>2, <4>1 DEF Devices
    <3> QED  BY <3>1, <3>3, <3>4 DEF GrOnce
  <2> QED  BY <2>1, <2>2
<1> QED  BY <1>2, <1>3, <1>4

(* What GrOnce says, read as the property of the runs. *)
LEMMA GrOnceMeans ==
    ASSUME GrOnce
    PROVE  EveryEventOnce
<1> DEFINE w == grWire
           p == grQueue["pointer"]
           k == grQueue["keyboard"]
<1>1. Shared(w, p, k, grLost, grCount)
  BY DEF GrOnce
<1> HIDE DEF w, p, k
<1> DEFINE x == w \o p
<1>2. x \in Seq(Nat) /\ IsInjective(x) /\ ToSet(x) = ToSet(w) \cup ToSet(p)
  <2>1. /\ w \in Seq(Nat) /\ p \in Seq(Nat) /\ IsInjective(w) /\ IsInjective(p)
        /\ ToSet(w) \cap ToSet(p) = {}
    BY <1>1 DEF Shared
  <2>2. IsInjective(w \o p)
    BY <2>1, ConcatOnce
  <2> QED  BY <2>1, <2>2, ConcatSet
<1> HIDE DEF x
<1>3. ToSet(x) \cap ToSet(k) = {} /\ k \in Seq(Nat) /\ IsInjective(k)
  BY <1>1, <1>2 DEF Shared
<1>4. /\ IsInjective(x \o k)
      /\ ToSet(x \o k) = ToSet(x) \cup ToSet(k)
  <2>1. IsInjective(x \o k)
    BY <1>2, <1>3, ConcatOnce
  <2> QED  BY <1>2, <1>3, <2>1, ConcatSet
<1>5. /\ ToSet(x \o k) \cap grLost = {}
      /\ ToSet(x \o k) \cup grLost = 1..grCount
  BY <1>1, <1>2, <1>4 DEF Shared
<1> QED  BY <1>4, <1>5 DEF EveryEventOnce, x, w, p, k

(* No input event is lost or duplicated by freezing, queueing, thawing,     *)
(* replaying or replacing a grab, for any passive grabs, tree of windows    *)
(* and length of the frozen queues: an event that arrived was written once, *)
(* waits once in the queue of its device, or was dropped by a full queue.   *)
THEOREM GrabsKeepEvents == GrSpec => []EveryEventOnce
<1>1. GrInit => GrOnce
  <2> SUFFICES ASSUME GrInit PROVE GrOnce
    OBVIOUS
  <2>1. <<>> \in Seq(Nat) /\ ToSet(<<>>) = {} /\ IsInjective(<<>>) /\ 1..0 = {}
    BY DEF ToSet, IsInjective
  <2>2. Shared(<<>>, <<>>, <<>>, {}, 0)
    BY <2>1 DEF Shared
  <2> QED  BY <2>1, <2>2 DEF GrInit, GrOnce, Devices
<1>2. ASSUME GrOnce, [GrNext]_grVars PROVE GrOnce'
  <2>1. CASE UNCHANGED grVars
    BY <1>2, <2>1, GrQuiet DEF grVars
  <2>2. CASE GrNext
    BY <1>2, <2>2, GrGrabStep, GrThawStep, GrInputStep DEF GrNext
  <2> QED  BY <1>2, <2>1, <2>2
<1>3. GrOnce => EveryEventOnce
  BY GrOnceMeans
<1>4. GrOnce /\ [GrNext]_grVars => GrOnce'
  BY <1>2
<1> QED  BY <1>1, <1>3, <1>4, PTL DEF GrSpec

-----------------------------------------------------------------------------
(***************************************************************************)
(* XWalks.  What walks along a function and parts of a sequence are.       *)
(***************************************************************************)
SameSteps(G, H, m) == \A i \in 1..m : G[i] = H[i]

(* Two functions of one recursion agree as far as both go. *)
LEMMA RecursionUnique ==
  ASSUME NEW S, NEW G, NEW H, NEW a \in S, NEW m \in Nat, NEW n \in Nat, m <= n,
         NEW f, NEW h, Chain(f, m, S, a, G), Chain(h, n, S, a, H),
         SameSteps(G, H, m)
  PROVE  f[m] = h[m]
<1> DEFINE T == {k \in Nat : k <= m => f[k] = h[k]}
<1>1. 0 \in T
  BY DEF Chain
<1>2. ASSUME NEW k \in Nat, k \in T PROVE k + 1 \in T
  <2> SUFFICES ASSUME k + 1 <= m PROVE f[k+1] = h[k+1]
    OBVIOUS
  <2>1. k + 1 \in 1..m /\ k + 1 \in 1..n /\ (k + 1) - 1 = k
    OBVIOUS
  <2>2. f[k+1] = G[k+1][f[k]] /\ h[k+1] = H[k+1][h[k]]
    BY <2>1 DEF Chain
  <2>3. f[k] = h[k]
    BY <1>2
  <2> QED  BY <2>1, <2>2, <2>3 DEF SameSteps
<1> HIDE DEF T
<1>3. m \in T
  BY <1>1, <1>2, NumInduction
<1> QED  BY <1>3 DEF T

LEMMA IterateExists ==
  ASSUME NEW S, NEW g \in Maps(S), NEW x \in S
  PROVE  \E f : f = [n \in Nat |-> IF n = 0 THEN x ELSE g[f[n-1]]]
<1> DEFINE G(n) == [i \in 1..n |-> g]
           R(n) == CHOOSE f : Chain(f, n, S, x, G(n))
           F == [n \in Nat |-> R(n)[n]]
<1>1. ASSUME NEW n \in Nat PROVE Chain(R(n), n, S, x, G(n))
  <2>1. G(n) \in Steps(n, S) BY DEF Steps
  <2> HIDE DEF G
  <2>2. \E f : Chain(f, n, S, x, G(n))
    BY <2>1, RecursionExists
  <2> QED  BY <2>2
<1> HIDE DEF R
<1>2. ASSUME NEW n \in Nat PROVE F[n] = IF n = 0 THEN x ELSE g[F[n-1]]
  <2>1. CASE n = 0
    BY <1>1, <2>1 DEF Chain
  <2>2. CASE n # 0
    <3> DEFINE k == n - 1
    <3>1. k \in Nat /\ n = k + 1 /\ n \in 1..n /\ k <= n BY <2>2
    <3>2. R(n)[n] = g[R(n)[k]] BY <1>1, <3>1 DEF Chain
    <3>3. Chain(R(k), k, S, x, G(k)) /\ Chain(R(n), n, S, x, G(n)) BY <1>1, <3>1
    <3>3a. SameSteps(G(k), G(n), k) BY <3>1 DEF SameSteps
    <3> HIDE DEF k, G
    <3>4. R(k)[k] = R(n)[k] BY <3>1, <3>3, <3>3a, RecursionUnique
    <3>5. F[n] = R(n)[n] /\ F[k] = R(k)[k] BY <3>1
    <3> QED  BY <2>2, <3>2, <3>4, <3>5 DEF k
  <2> QED  BY <2>1, <2>2
<1>3. F = [n \in Nat |-> F[n]]
  OBVIOUS
<1> HIDE DEF F
<1>4. F = [n \in Nat |-> IF n = 0 THEN x ELSE g[F[n-1]]]
  BY <1>2, <1>3
<1> QED  BY <1>4

LEMMA IterateFacts ==
  ASSUME NEW S, NEW g \in Maps(S), NEW x \in S
  PROVE  /\ Iterate(g, x) \in [Nat -> S] /\ Iterate(g, x)[0] = x
         /\ \A n \in Nat : Iterate(g, x)[n+1] = g[Iterate(g, x)[n]]
<1> DEFINE f == CHOOSE f : f = [n \in Nat |-> IF n = 0 THEN x ELSE g[f[n-1]]]
           T == {n \in Nat : f[n] \in S}
<1>1. Iterate(g, x) = f
  BY Zenon DEF Iterate
<1>2. f = [n \in Nat |-> IF n = 0 THEN x ELSE g[f[n-1]]]
  BY IterateExists
<1> HIDE DEF f
<1>3. f[0] = x
  BY <1>2
<1>4. ASSUME NEW n \in Nat PROVE f[n+1] = g[f[n]]
  <2>1. n + 1 \in Nat /\ n + 1 # 0 /\ (n + 1) - 1 = n OBVIOUS
  <2>2. f[n+1] = IF n + 1 = 0 THEN x ELSE g[f[(n+1)-1]] BY <1>2, <2>1
  <2> QED  BY <2>1, <2>2
<1>5. 0 \in T
  BY <1>3
<1>6. ASSUME NEW n \in Nat, n \in T PROVE n + 1 \in T
  BY <1>4, <1>6 DEF Maps
<1> HIDE DEF T
<1>7. \A n \in Nat : n \in T
  BY <1>5, <1>6, NumInduction
<1>8. \A n \in Nat : f[n] \in S
  BY <1>7 DEF T
<1>9. f \in [Nat -> S]
  <2>1. DOMAIN f = Nat BY <1>2
  <2>2. f = [n \in Nat |-> f[n]] BY <1>2
  <2> QED  BY <1>8, <2>2
<1> QED  BY <1>1, <1>3, <1>4, <1>9

(* Walking on from where a walk has got to. *)
LEMMA IterateOn ==
  ASSUME NEW S, NEW g \in Maps(S), NEW x \in S, NEW i \in Nat
  PROVE  \A t \in Nat : Iterate(g, Iterate(g, x)[i])[t] = Iterate(g, x)[i + t]
<1> DEFINE f == Iterate(g, x)
           y == f[i]
           h == Iterate(g, y)
           T == {t \in Nat : h[t] = f[i + t]}
<1>1. f \in [Nat -> S] /\ \A n \in Nat : f[n+1] = g[f[n]]
  BY IterateFacts
<1>2. y \in S
  BY <1>1
<1> HIDE DEF f, y
<1>3. h[0] = y /\ \A n \in Nat : h[n+1] = g[h[n]]
  BY <1>2, IterateFacts
<1> HIDE DEF h
<1>4. 0 \in T
  <2>1. i + 0 = i OBVIOUS
  <2> QED  BY <1>3, <2>1 DEF y
<1>5. ASSUME NEW t \in Nat, t \in T PROVE t + 1 \in T
  <2>1. i + (t + 1) = (i + t) + 1 /\ i + t \in Nat OBVIOUS
  <2>2. f[i + (t+1)] = g[f[i+t]] BY <1>1, <2>1
  <2>3. h[t+1] = g[h[t]] BY <1>3
  <2> QED  BY <1>5, <2>2, <2>3
<1> HIDE DEF T
<1>6. \A t \in Nat : t \in T
  BY <1>4, <1>5, NumInduction
<1>7. \A t \in Nat : h[t] = f[i + t]
  BY <1>6 DEF T
<1> QED  BY <1>7 DEF h, y, f

(* A walk goes as far as the first member of End. *)
LEMMA WalkFacts ==
  ASSUME NEW S, NEW g \in Maps(S), NEW x \in S, NEW End, NEW N \in Nat,
         NEW m \in 0..N, Iterate(g, x)[m] \in End
  PROVE  \E n \in 0..N : /\ Walk(g, x, End, N) = [i \in 1..(n+1) |-> Iterate(g, x)[i-1]]
                         /\ Iterate(g, x)[n] \in End
                         /\ \A j \in 0..N : Iterate(g, x)[j] \in End => n <= j
<1> DEFINE at == Iterate(g, x)
           P == {i \in 0..N : at[i] \in End}
           n == CHOOSE i \in 0..N : at[i] \in End /\ \A j \in 0..N : at[j] \in End => i <= j
<1>1. P \subseteq Nat /\ P # {}
  OBVIOUS
<1>2. Walk(g, x, End, N) = [i \in 1..(n+1) |-> at[i-1]]
  BY Zenon DEF Walk
<1> HIDE DEF at
<1>3. \E i \in P : \A j \in P : i <= j
  BY <1>1, LeastOf
<1>4. \E i \in 0..N : at[i] \in End /\ \A j \in 0..N : at[j] \in End => i <= j
  BY <1>3
<1>5. n \in 0..N /\ at[n] \in End /\ \A j \in 0..N : at[j] \in End => n <= j
  BY <1>4
<1> HIDE DEF n
<1> QED  BY <1>2, <1>5 DEF at

(* The steps of Kept. *)
KeptSteps(s, S, T) ==
  [i \in 1..Len(s) |-> [q \in Seq(T) |-> IF s[i] \in S THEN Append(q, s[i]) ELSE q]]

LEMMA KeptChain ==
  ASSUME NEW T, NEW s \in Seq(T), NEW S
  PROVE  \E f : Chain(f, Len(s), Seq(T), <<>>, KeptSteps(s, S, T)) /\ Kept(s, S) = f[Len(s)]
<1> DEFINE n == Len(s)
           G == KeptSteps(s, S, T)
           h == CHOOSE f : f = [i \in 0..n |-> IF i = 0 THEN <<>>
                                  ELSE IF s[i] \in S THEN Append(f[i-1], s[i]) ELSE f[i-1]]
<1>1. n \in Nat /\ \A i \in 1..n : s[i] \in T
  OBVIOUS
<1>2. Kept(s, S) = h[n]
  BY Zenon DEF Kept
<1>3. G \in Steps(n, Seq(T))
  BY <1>1 DEF KeptSteps, Steps, Maps
<1>4. <<>> \in Seq(T)
  OBVIOUS
<1> HIDE DEF n, G
<1>5. PICK f : Chain(f, n, Seq(T), <<>>, G)
  BY <1>1, <1>3, <1>4, RecursionExists
<1>6. f \in [0..n -> Seq(T)] /\ f[0] = <<>>
  BY <1>5 DEF Chain
<1>7. ASSUME NEW i \in 1..n
      PROVE  f[i] = IF s[i] \in S THEN Append(f[i-1], s[i]) ELSE f[i-1]
  <2>1. i - 1 \in 0..n BY <1>1
  <2>2. f[i-1] \in Seq(T) BY <1>6, <2>1
  <2>3. f[i] = G[i][f[i-1]] BY <1>5 DEF Chain
  <2> QED  BY <2>2, <2>3 DEF G, KeptSteps, n
<1>8. f = [i \in 0..n |-> IF i = 0 THEN <<>>
                          ELSE IF s[i] \in S THEN Append(f[i-1], s[i]) ELSE f[i-1]]
  <2>1. ASSUME NEW i \in 0..n
        PROVE  f[i] = IF i = 0 THEN <<>> ELSE IF s[i] \in S THEN Append(f[i-1], s[i]) ELSE f[i-1]
    <3>1. i = 0 \/ i \in 1..n BY <1>1
    <3> QED  BY <1>6, <1>7, <3>1
  <2>2. f = [i \in 0..n |-> f[i]] BY <1>6, SMTT(40)
  <2> QED  BY <2>1, <2>2
<1>9. h = [i \in 0..n |-> IF i = 0 THEN <<>>
                          ELSE IF s[i] \in S THEN Append(h[i-1], s[i]) ELSE h[i-1]]
  BY <1>8, ZenonT(60)
<1> HIDE DEF h
<1>10. h[0] = <<>> /\ DOMAIN h = 0..n
  BY <1>1, <1>9
<1>11. ASSUME NEW i \in 1..n
       PROVE  h[i] = IF s[i] \in S THEN Append(h[i-1], s[i]) ELSE h[i-1]
  <2>1. i \in 0..n /\ i # 0 BY <1>1
  <2> QED  BY <1>9, <2>1
<1> DEFINE Q == {k \in Nat : k <= n => h[k] = f[k]}
<1>12. 0 \in Q
  BY <1>6, <1>10
<1>13. ASSUME NEW k \in Nat, k \in Q PROVE k + 1 \in Q
  <2> SUFFICES ASSUME k + 1 <= n PROVE h[k+1] = f[k+1]
    OBVIOUS
  <2>1. k + 1 \in 1..n /\ (k + 1) - 1 = k BY <1>1
  <2>2. h[k] = f[k] BY <1>1, <1>13
  <2> QED  BY <1>7, <1>11, <2>1, <2>2
<1> HIDE DEF Q
<1>14. n \in Q
  BY <1>1, <1>12, <1>13, NumInduction
<1>15. h[n] = f[n]
  BY <1>1, <1>14 DEF Q
<1> QED  BY <1>2, <1>5, <1>15 DEF G, n

LEMMA KeptEmpty ==
  ASSUME NEW S PROVE Kept(<<>>, S) = <<>>
<1> DEFINE s == <<>>
           T == {}
<1>1. s \in Seq(T) /\ Len(s) = 0
  OBVIOUS
<1> HIDE DEF s, T
<1>2. PICK f : Chain(f, Len(s), Seq(T), <<>>, KeptSteps(s, S, T)) /\ Kept(s, S) = f[Len(s)]
  BY <1>1, KeptChain
<1> QED  BY <1>1, <1>2 DEF Chain, s

LEMMA KeptAppend ==
  ASSUME NEW T, NEW s \in Seq(T), NEW x \in T, NEW S
  PROVE  /\ Kept(s, S) \in Seq(T)
         /\ Kept(Append(s, x), S) = IF x \in S THEN Append(Kept(s, S), x) ELSE Kept(s, S)
<1> DEFINE n == Len(s)
           t == Append(s, x)
           G == KeptSteps(s, S, T)
           H == KeptSteps(t, S, T)
           e == <<>>
           k == n + 1
           Q == Seq(T)
<1>1. n \in Nat /\ t \in Seq(T) /\ Len(t) = n + 1 /\ t[n+1] = x /\ \A i \in 1..n : t[i] = s[i]
  BY AppendProperties
<1> HIDE DEF t
<1>2. PICK f : Chain(f, n, Seq(T), <<>>, G) /\ Kept(s, S) = f[n]
  BY KeptChain
<1>3. PICK h : Chain(h, Len(t), Seq(T), <<>>, H) /\ Kept(t, S) = h[Len(t)]
  BY <1>1, KeptChain
<1>4. \A i \in 1..n : G[i] = H[i]
  <2> TAKE i \in 1..n
  <2>1. G[i] = [q \in Seq(T) |-> IF s[i] \in S THEN Append(q, s[i]) ELSE q]
    BY DEF KeptSteps
  <2>2. i \in 1..Len(t) BY <1>1
  <2>3. H[i] = [q \in Seq(T) |-> IF t[i] \in S THEN Append(q, t[i]) ELSE q]
    BY <2>2 DEF KeptSteps
  <2> QED  BY <1>1, <2>1, <2>3
<1>4a. SameSteps(G, H, n)
  BY <1>4 DEF SameSteps
<1>5. Chain(h, n + 1, Seq(T), <<>>, H) /\ Kept(t, S) = h[n+1]
  BY <1>1, <1>3
<1>6. f[n] \in Seq(T) /\ n + 1 \in 1..(n+1) /\ (n + 1) - 1 = n /\ n + 1 \in Nat /\ n <= n + 1
      /\ <<>> \in Seq(T)
  BY <1>1, <1>2 DEF Chain
<1>7. H[n+1] = [q \in Seq(T) |-> IF x \in S THEN Append(q, x) ELSE q]
  BY <1>1, <1>6 DEF KeptSteps
<1>8. h[n+1] = H[n+1][h[n]]
  BY <1>5, <1>6 DEF Chain
<1>8a. e \in Q /\ Chain(f, n, Q, e, G) /\ Chain(h, k, Q, e, H) /\ n \in Nat /\ k \in Nat /\ n <= k
  BY <1>1, <1>2, <1>5, <1>6
<1> HIDE DEF n, G, H, e, k, Q
<1>9. f[n] = h[n]
  BY <1>4a, <1>8a, RecursionUnique
<1> QED  BY <1>2, <1>5, <1>6, <1>7, <1>8, <1>9 DEF t

LEMMA KeptType ==
  ASSUME NEW T, NEW s \in Seq(T), NEW S
  PROVE  Kept(s, S) \in Seq(T)
<1>1. PICK f : Chain(f, Len(s), Seq(T), <<>>, KeptSteps(s, S, T)) /\ Kept(s, S) = f[Len(s)]
  BY KeptChain
<1>2. Len(s) \in Nat
  OBVIOUS
<1> QED  BY <1>1, <1>2 DEF Chain

(* The prefixes of a sequence grow by one element at a time. *)
LEMMA PrefixFacts ==
  ASSUME NEW T, NEW s \in Seq(T)
  PROVE  /\ SubSeq(s, 1, 0) = <<>> /\ SubSeq(s, 1, Len(s)) = s
         /\ \A k \in 0..Len(s) : /\ SubSeq(s, 1, k) \in Seq(T) /\ Len(SubSeq(s, 1, k)) = k
                                 /\ \A i \in 1..k : SubSeq(s, 1, k)[i] = s[i]
         /\ \A k \in 0..(Len(s) - 1) : SubSeq(s, 1, k + 1) = Append(SubSeq(s, 1, k), s[k+1])
<1>0. Len(s) \in Nat
  OBVIOUS
<1>1. ASSUME NEW k \in 0..Len(s)
      PROVE  SubSeq(s, 1, k) \in Seq(T) /\ Len(SubSeq(s, 1, k)) = k
             /\ \A i \in 1..k : SubSeq(s, 1, k)[i] = s[i]
  <2>1. k \in Nat /\ 1 \in 1..(Len(s)+1) /\ k \in (1-1)..Len(s) BY <1>0
  <2>2. Len(SubSeq(s, 1, k)) = k /\ \A i \in 1..(k-1+1) : SubSeq(s, 1, k)[i] = s[1+i-1] /\ SubSeq(s, 1, k) \in Seq(T)
    BY <1>0, <2>1, SubSeqProperties
  <2>3. SubSeq(s, 1, k) \in Seq(T)
    BY <1>0, <2>1, SubSeqProperties
  <2> QED  BY <2>1, <2>2, <2>3
<1>2. SubSeq(s, 1, 0) = <<>>
  BY <1>0, <1>1
<1>3. SubSeq(s, 1, Len(s)) = s
  BY SubSeqFull
<1>4. ASSUME NEW k \in 0..(Len(s) - 1)
      PROVE  SubSeq(s, 1, k + 1) = Append(SubSeq(s, 1, k), s[k+1])
  <2> DEFINE a == SubSeq(s, 1, k + 1)
             b == SubSeq(s, 1, k)
  <2>1. k \in 0..Len(s) /\ k + 1 \in 0..Len(s) /\ k + 1 \in 1..Len(s) /\ k \in Nat BY <1>0
  <2>2. a \in Seq(T) /\ Len(a) = k + 1 /\ \A i \in 1..(k+1) : a[i] = s[i] BY <1>1, <2>1
  <2>3. b \in Seq(T) /\ Len(b) = k /\ \A i \in 1..k : b[i] = s[i] BY <1>1, <2>1
  <2>4. s[k+1] \in T BY <2>1
  <2> HIDE DEF a, b
  <2>5. Append(b, s[k+1]) \in Seq(T) /\ Len(Append(b, s[k+1])) = k + 1
        /\ Append(b, s[k+1])[k+1] = s[k+1] /\ \A i \in 1..k : Append(b, s[k+1])[i] = b[i]
    BY <2>3, <2>4, AppendProperties
  <2> DEFINE c == Append(b, s[k+1])
  <2>6. c \in Seq(T) /\ Len(c) = k + 1 /\ \A i \in 1..(k+1) : c[i] = s[i]
    <3>1. ASSUME NEW i \in 1..(k+1) PROVE c[i] = s[i]
      <4>1. i \in 1..k \/ i = k + 1 BY <2>1
      <4> QED  BY <2>3, <2>5, <4>1
    <3> QED  BY <2>5, <3>1
  <2> HIDE DEF c
  <2>7. a = c BY <2>1, <2>2, <2>6, SeqEqual
  <2> QED  BY <2>7 DEF a, c
<1> QED  BY <1>1, <1>2, <1>3, <1>4

(* What is kept is what is in S, and all of it. *)
KeptOf(q, s, S) ==
  /\ Len(q) <= Len(s)
  /\ \A i \in 1..Len(q) : q[i] \in S /\ \E j \in 1..Len(s) : s[j] = q[i]
  /\ \A j \in 1..Len(s) : s[j] \in S => \E i \in 1..Len(q) : q[i] = s[j]

LEMMA KeptParts ==
  ASSUME NEW T, NEW s \in Seq(T), NEW S
  PROVE  KeptOf(Kept(s, S), s, S)
<1> DEFINE p(k) == SubSeq(s, 1, k)
           Q == {k \in Nat : k <= Len(s) => KeptOf(Kept(p(k), S), p(k), S)}
<1>0. Len(s) \in Nat
  OBVIOUS
<1>1. 0 \in Q
  <2>1. p(0) = <<>> BY PrefixFacts
  <2>2. Kept(p(0), S) = <<>> BY <2>1, KeptEmpty
  <2> QED  BY <2>1, <2>2 DEF KeptOf
<1>2. ASSUME NEW k \in Nat, k \in Q PROVE k + 1 \in Q
  <2> SUFFICES ASSUME k + 1 <= Len(s) PROVE KeptOf(Kept(p(k+1), S), p(k+1), S)
    OBVIOUS
  <2> DEFINE a == p(k)
             x == s[k+1]
             q == Kept(a, S)
             b == p(k+1)
  <2>1. k \in 0..Len(s) /\ k \in 0..(Len(s) - 1) /\ k + 1 \in 1..Len(s) BY <1>0
  <2>2. a \in Seq(T) /\ Len(a) = k /\ b = Append(a, x) BY <2>1, PrefixFacts
  <2>3. x \in T BY <2>1
  <2>4. KeptOf(q, a, S) BY <1>2, <2>1
  <2> HIDE DEF a, b, x
  <2>5. q \in Seq(T) BY <2>2, KeptType
  <2>6. Kept(b, S) = IF x \in S THEN Append(q, x) ELSE q BY <2>2, <2>3, KeptAppend
  <2> HIDE DEF q
  <2>7. Len(b) = k + 1 /\ b[k+1] = x /\ \A i \in 1..k : b[i] = a[i] BY <2>2, <2>3, AppendProperties
  <2>8. CASE x \in S
    <3> DEFINE r == Append(q, x)
    <3>1. Kept(b, S) = r BY <2>6, <2>8
    <3>2. Len(q) \in Nat /\ Len(r) = Len(q) + 1 /\ r[Len(q)+1] = x /\ \A i \in 1..Len(q) : r[i] = q[i]
      BY <2>3, <2>5, AppendProperties
    <3> HIDE DEF r
    <3>3. ASSUME NEW i \in 1..Len(r) PROVE r[i] \in S /\ \E j \in 1..Len(b) : b[j] = r[i]
      <4>1. i \in 1..Len(q) \/ i = Len(q) + 1 BY <3>2
      <4>2. CASE i = Len(q) + 1
        <5>1. k + 1 \in 1..Len(b) BY <2>7
        <5> QED  BY <2>7, <2>8, <3>2, <4>2, <5>1
      <4>3. CASE i \in 1..Len(q)
        <5>1. q[i] \in S BY <2>4, <4>3 DEF KeptOf
        <5>2. PICK j \in 1..Len(a) : a[j] = q[i] BY <2>4, <4>3 DEF KeptOf
        <5>3. j \in 1..Len(b) /\ b[j] = a[j] BY <2>2, <2>7
        <5> QED  BY <3>2, <4>3, <5>1, <5>2, <5>3
      <4> QED  BY <4>1, <4>2, <4>3
    <3>4. ASSUME NEW j \in 1..Len(b), b[j] \in S PROVE \E i \in 1..Len(r) : r[i] = b[j]
      <4>1. j \in 1..k \/ j = k + 1 BY <2>7
      <4>2. CASE j = k + 1
        <5>1. Len(q) + 1 \in 1..Len(r) BY <3>2
        <5> QED  BY <2>7, <3>2, <4>2, <5>1
      <4>3. CASE j \in 1..k
        <5>1. j \in 1..Len(a) /\ b[j] = a[j] BY <2>2, <2>7, <4>3
        <5>2. PICK i \in 1..Len(q) : q[i] = a[j] BY <2>4, <3>4, <5>1 DEF KeptOf
        <5>3. i \in 1..Len(r) BY <3>2
        <5> QED  BY <3>2, <5>1, <5>2, <5>3
      <4> QED  BY <4>1, <4>2, <4>3
    <3>5. Len(r) <= Len(b) BY <2>2, <2>4, <2>7, <3>2 DEF KeptOf
    <3>6. KeptOf(r, b, S) BY <3>3, <3>4, <3>5 DEF KeptOf
    <3> QED  BY <3>1, <3>6 DEF b
  <2>9. CASE x \notin S
    <3>1. Kept(b, S) = q BY <2>6, <2>9
    <3>2. Len(q) \in Nat BY <2>5
    <3>3. ASSUME NEW i \in 1..Len(q) PROVE q[i] \in S /\ \E j \in 1..Len(b) : b[j] = q[i]
      <4>1. q[i] \in S BY <2>4 DEF KeptOf
      <4>2. PICK j \in 1..Len(a) : a[j] = q[i] BY <2>4 DEF KeptOf
      <4>3. j \in 1..Len(b) /\ b[j] = a[j] BY <2>2, <2>7
      <4> QED  BY <4>1, <4>2, <4>3
    <3>4. ASSUME NEW j \in 1..Len(b), b[j] \in S PROVE \E i \in 1..Len(q) : q[i] = b[j]
      <4>1. j \in 1..k BY <2>7, <2>9, <3>4
      <4>2. j \in 1..Len(a) /\ b[j] = a[j] BY <2>2, <2>7, <4>1
      <4> QED  BY <2>4, <3>4, <4>2 DEF KeptOf
    <3>5. Len(q) <= Len(b) BY <2>2, <2>4, <2>7, <3>2 DEF KeptOf
    <3>6. KeptOf(q, b, S) BY <3>3, <3>4, <3>5 DEF KeptOf
    <3> QED  BY <3>1, <3>6 DEF b
  <2> QED  BY <2>8, <2>9
<1> HIDE DEF Q
<1>3. Len(s) \in Q
  BY <1>0, <1>1, <1>2, NumInduction
<1>4. KeptOf(Kept(p(Len(s)), S), p(Len(s)), S)
  BY <1>0, <1>3 DEF Q
<1>5. p(Len(s)) = s
  BY PrefixFacts
<1> QED  BY <1>4, <1>5

(* What is kept of two parts. *)
LEMMA KeptConcat ==
  ASSUME NEW T, NEW s \in Seq(T), NEW t \in Seq(T), NEW S
  PROVE  Kept(s \o t, S) = Kept(s, S) \o Kept(t, S)
<1> DEFINE p(k) == SubSeq(t, 1, k)
           Q == {k \in Nat : k <= Len(t) => Kept(s \o p(k), S) = Kept(s, S) \o Kept(p(k), S)}
<1>0. Len(t) \in Nat /\ Kept(s, S) \in Seq(T)
  BY KeptType
<1>1. 0 \in Q
  <2>1. p(0) = <<>> BY PrefixFacts
  <2>2. Kept(p(0), S) = <<>> BY <2>1, KeptEmpty
  <2>3. s \o p(0) = s BY <2>1, ConcatEmptySeq
  <2>4. Kept(s, S) \o Kept(p(0), S) = Kept(s, S) BY <1>0, <2>2, ConcatEmptySeq
  <2> QED  BY <2>3, <2>4
<1>2. ASSUME NEW k \in Nat, k \in Q PROVE k + 1 \in Q
  <2> SUFFICES ASSUME k + 1 <= Len(t) PROVE Kept(s \o p(k+1), S) = Kept(s, S) \o Kept(p(k+1), S)
    OBVIOUS
  <2> DEFINE a == p(k)
             x == t[k+1]
             b == p(k+1)
  <2>1. k \in 0..Len(t) /\ k \in 0..(Len(t) - 1) /\ k + 1 \in 1..Len(t) BY <1>0
  <2>2. a \in Seq(T) /\ Len(a) = k /\ b = Append(a, x) BY <2>1, PrefixFacts
  <2>3. x \in T BY <2>1
  <2>4. Kept(s \o a, S) = Kept(s, S) \o Kept(a, S) BY <1>2, <2>1
  <2> HIDE DEF a, b, x
  <2>5. s \o b = Append(s \o a, x) /\ s \o a \in Seq(T)
    <3>1. b = a \o <<x>> /\ <<x>> \in Seq(T) BY <2>2, <2>3, AppendIsConcat
    <3>2. s \o a \in Seq(T) BY <2>2
    <3>3. s \o b = (s \o a) \o <<x>> BY <2>2, <3>1, ConcatAssociative
    <3>4. Append(s \o a, x) = (s \o a) \o <<x>> BY <2>3, <3>2, AppendIsConcat
    <3> QED  BY <3>2, <3>3, <3>4
  <2> DEFINE c == s \o a
  <2>5a. c \in Seq(T) /\ s \o b = Append(c, x) BY <2>5
  <2> HIDE DEF c
  <2>6. Kept(s \o b, S) = IF x \in S THEN Append(Kept(c, S), x) ELSE Kept(c, S)
    BY <2>3, <2>5a, KeptAppend, SMTT(40)
  <2> DEFINE u == Kept(s, S)
             v == Kept(a, S)
  <2>8. u \in Seq(T) /\ v \in Seq(T) BY <1>0, <2>2, KeptType
  <2> HIDE DEF u, v
  <2>9. Append(u \o v, x) = u \o Append(v, x)
    <3>0. u \o v \in Seq(T) BY <2>8
    <3>1. Append(v, x) = v \o <<x>> /\ Append(u \o v, x) = (u \o v) \o <<x>> /\ <<x>> \in Seq(T)
      BY <2>3, <2>8, <3>0, AppendIsConcat
    <3> QED  BY <2>8, <3>1, ConcatAssociative
  <2>10. Kept(c, S) = u \o v BY <2>4 DEF u, v, c
  <2>11. Kept(b, S) = IF x \in S THEN Append(v, x) ELSE v BY <2>2, <2>3, KeptAppend DEF v
  <2>12. Kept(s \o b, S) = u \o Kept(b, S) BY <2>6, <2>9, <2>10, <2>11
  <2> QED  BY <2>12 DEF u, b
<1> HIDE DEF Q
<1>3. Len(t) \in Q
  BY <1>0, <1>1, <1>2, NumInduction
<1>4. Kept(s \o p(Len(t)), S) = Kept(s, S) \o Kept(p(Len(t)), S)
  BY <1>0, <1>3 DEF Q
<1>5. p(Len(t)) = t
  BY PrefixFacts
<1> QED  BY <1>4, <1>5

AllIn(s, S) == \A i \in 1..Len(s) : s[i] \in S
NoneIn(s, S) == \A i \in 1..Len(s) : s[i] \notin S

LEMMA KeptAll ==
  ASSUME NEW T, NEW s \in Seq(T), NEW S, AllIn(s, S)
  PROVE  Kept(s, S) = s
<1> DEFINE p(k) == SubSeq(s, 1, k)
           Q == {k \in Nat : k <= Len(s) => Kept(p(k), S) = p(k)}
<1>0. Len(s) \in Nat
  OBVIOUS
<1>1. 0 \in Q
  <2>1. p(0) = <<>> BY PrefixFacts
  <2> QED  BY <2>1, KeptEmpty
<1>2. ASSUME NEW k \in Nat, k \in Q PROVE k + 1 \in Q
  <2> SUFFICES ASSUME k + 1 <= Len(s) PROVE Kept(p(k+1), S) = p(k+1)
    OBVIOUS
  <2> DEFINE a == p(k)
             x == s[k+1]
             b == p(k+1)
  <2>1. k \in 0..Len(s) /\ k \in 0..(Len(s) - 1) /\ k + 1 \in 1..Len(s) BY <1>0
  <2>2. a \in Seq(T) /\ b = Append(a, x) BY <2>1, PrefixFacts
  <2>3. x \in T /\ x \in S BY <2>1 DEF AllIn
  <2>4. Kept(a, S) = a BY <1>2, <2>1
  <2> HIDE DEF a, b, x
  <2>5. Kept(b, S) = b BY <2>2, <2>3, <2>4, KeptAppend, ZenonT(60)
  <2> QED  BY <2>5 DEF b
<1> HIDE DEF Q
<1>3. Len(s) \in Q
  BY <1>0, <1>1, <1>2, NumInduction
<1>4. Kept(p(Len(s)), S) = p(Len(s))
  BY <1>0, <1>3 DEF Q
<1>5. p(Len(s)) = s
  BY PrefixFacts
<1> QED  BY <1>4, <1>5

LEMMA KeptNone ==
  ASSUME NEW T, NEW s \in Seq(T), NEW S, NoneIn(s, S)
  PROVE  Kept(s, S) = <<>>
<1> DEFINE q == Kept(s, S)
<1>1. q \in Seq(T)
  BY KeptType
<1>2. KeptOf(q, s, S)
  BY KeptParts
<1> HIDE DEF q
<1>3. Len(q) = 0
  <2>1. Len(q) \in Nat BY <1>1
  <2>2. ASSUME 1 \in 1..Len(q) PROVE FALSE
    BY <1>2, <2>2 DEF KeptOf, NoneIn
  <2> QED  BY <2>1, <2>2
<1>4. q = <<>>
  BY <1>1, <1>3, EmptySeq
<1> QED  BY <1>4 DEF q

(* Cutting a sequence in two. *)
LEMMA CutInTwo ==
  ASSUME NEW T, NEW s \in Seq(T), NEW m \in 0..Len(s)
  PROVE  /\ s = SubSeq(s, 1, m) \o SubSeq(s, m + 1, Len(s))
         /\ SubSeq(s, 1, m) \in Seq(T) /\ SubSeq(s, m + 1, Len(s)) \in Seq(T)
         /\ Len(SubSeq(s, 1, m)) = m /\ Len(SubSeq(s, m + 1, Len(s))) = Len(s) - m
         /\ \A i \in 1..m : SubSeq(s, 1, m)[i] = s[i]
         /\ \A i \in 1..(Len(s) - m) : SubSeq(s, m + 1, Len(s))[i] = s[m + i]
<1>0. Len(s) \in Nat /\ m \in Nat
  OBVIOUS
<1> DEFINE a == SubSeq(s, 1, m)
           b == SubSeq(s, m + 1, Len(s))
<1>1. a \in Seq(T) /\ Len(a) = m /\ \A i \in 1..m : a[i] = s[i]
  BY PrefixFacts
<1>2. m + 1 \in 1..(Len(s)+1) /\ Len(s) \in ((m+1)-1)..Len(s)
  BY <1>0
<1>3. b \in Seq(T)
  BY <1>2, SubSeqProperties
<1>4. Len(b) = Len(s) - m
  BY <1>2, <1>0, SubSeqProperties
<1>5. \A i \in 1..(Len(s) - m) : b[i] = s[m + i]
  BY <1>2, <1>0, SubSeqProperties
<1> HIDE DEF a, b
<1>6. a \o b \in Seq(T) /\ Len(a \o b) = Len(s)
  BY <1>0, <1>1, <1>3, <1>4, ConcatProperties
<1>7. ASSUME NEW i \in 1..Len(s) PROVE (a \o b)[i] = s[i]
  <2>1. (a \o b)[i] = IF i <= Len(a) THEN a[i] ELSE b[i - Len(a)]
    BY <1>1, <1>3, <1>4, ConcatProperties
  <2>2. i <= m \/ i > m BY <1>0
  <2>3. CASE i <= m
    <3>1. i \in 1..m BY <2>3
    <3> QED  BY <1>1, <2>1, <2>3, <3>1
  <2>4. CASE i > m
    <3>1. i - m \in 1..(Len(s) - m) /\ m + (i - m) = i /\ ~(i <= m) BY <1>0, <2>4
    <3> QED  BY <1>1, <1>5, <2>1, <3>1
  <2> QED  BY <2>2, <2>3, <2>4
<1> DEFINE c == a \o b
<1> HIDE DEF c
<1>8. c = s
  <2>1. c \in Seq(T) /\ Len(c) = Len(s) /\ \A i \in 1..Len(s) : c[i] = s[i] BY <1>6, <1>7 DEF c
  <2> QED  BY <2>1, SeqEqual
<1> QED  BY <1>1, <1>3, <1>4, <1>5, <1>8 DEF a, b, c

(* The first m members are in S and no other. *)
LEMMA KeptPrefix ==
  ASSUME NEW T, NEW s \in Seq(T), NEW S, NEW m \in 0..Len(s),
         \A i \in 1..m : s[i] \in S, \A i \in (m+1)..Len(s) : s[i] \notin S
  PROVE  Kept(s, S) = SubSeq(s, 1, m)
<1> DEFINE a == SubSeq(s, 1, m)
           b == SubSeq(s, m + 1, Len(s))
<1>0. Len(s) \in Nat /\ m \in Nat
  OBVIOUS
<1>1. s = a \o b /\ a \in Seq(T) /\ b \in Seq(T)
  BY CutInTwo
<1>2. AllIn(a, S)
  BY CutInTwo DEF AllIn
<1>3. NoneIn(b, S)
  <2> SUFFICES ASSUME NEW i \in 1..Len(b) PROVE b[i] \notin S
    BY DEF NoneIn
  <2>1. Len(b) = Len(s) - m BY CutInTwo
  <2>2. i \in 1..(Len(s) - m) BY <2>1
  <2>3. b[i] = s[m + i] BY <2>2, CutInTwo
  <2>4. m + i \in (m+1)..Len(s) BY <1>0, <2>2
  <2> QED  BY <2>3, <2>4
<1> HIDE DEF a, b
<1>4. Kept(s, S) = Kept(a, S) \o Kept(b, S)
  BY <1>1, KeptConcat
<1>5. Kept(a, S) = a /\ Kept(b, S) = <<>>
  BY <1>1, <1>2, <1>3, KeptAll, KeptNone
<1>6. a \o <<>> = a
  BY <1>1, ConcatEmptySeq
<1> QED  BY <1>4, <1>5, <1>6 DEF a

(* The first member that is in S comes first. *)
LEMMA KeptFirst ==
  ASSUME NEW T, NEW s \in Seq(T), NEW S, NEW m \in 1..Len(s),
         s[m] \in S, \A i \in 1..(m-1) : s[i] \notin S
  PROVE  Kept(s, S) # <<>> /\ Head(Kept(s, S)) = s[m]
<1> DEFINE a == SubSeq(s, 1, m)
           b == SubSeq(s, m + 1, Len(s))
           c == SubSeq(s, 1, m - 1)
           k == m - 1
<1>0. Len(s) \in Nat /\ m \in Nat /\ m \in 0..Len(s) /\ k \in 0..(Len(s) - 1) /\ k + 1 = m /\ k \in 0..Len(s)
  OBVIOUS
<1>1. s = a \o b /\ a \in Seq(T) /\ b \in Seq(T)
  BY <1>0, CutInTwo
<1>2. c \in Seq(T) /\ Len(c) = k /\ \A i \in 1..k : c[i] = s[i]
  BY <1>0, PrefixFacts
<1>3. a = Append(c, s[m])
  <2>1. SubSeq(s, 1, k + 1) = Append(SubSeq(s, 1, k), s[k+1]) BY <1>0, PrefixFacts
  <2> QED  BY <1>0, <2>1
<1>4. NoneIn(c, S)
  BY <1>2 DEF NoneIn
<1>5. s[m] \in T
  OBVIOUS
<1> HIDE DEF a, b, c
<1>6. Kept(s, S) = Kept(a, S) \o Kept(b, S)
  BY <1>1, KeptConcat
<1>7. Kept(c, S) = <<>>
  BY <1>2, <1>4, KeptNone
<1> DEFINE u == Kept(a, S)
           v == Kept(b, S)
           x == s[m]
<1>7a. x \in T /\ x \in S /\ a = Append(c, x)
  BY <1>3, <1>5
<1> HIDE DEF x
<1>8. Kept(a, S) = Append(Kept(c, S), x)
  BY <1>2, <1>7a, KeptAppend
<1>9. v \in Seq(T)
  BY <1>1, KeptType
<1>10. u = <<x>> /\ x \in T
  BY <1>7, <1>7a, <1>8
<1> HIDE DEF u, v
<1>11. u \in Seq(T) /\ Len(u) = 1 /\ u[1] = x
  BY <1>10
<1>12. u \o v \in Seq(T) /\ Len(u \o v) = 1 + Len(v) /\ (u \o v)[1] = x
  <2>1. u \o v \in Seq(T) /\ Len(u \o v) = Len(u) + Len(v) BY <1>9, <1>11, ConcatProperties
  <2>2. Len(v) \in Nat BY <1>9
  <2>3. 1 \in 1..(Len(u) + Len(v)) /\ 1 <= Len(u) BY <1>11, <2>2
  <2>4. (u \o v)[1] = u[1] BY <1>9, <1>11, <2>3, ConcatProperties
  <2> QED  BY <1>11, <2>1, <2>4
<1>13. Kept(s, S) = u \o v
  BY <1>6 DEF u, v
<1> QED  BY <1>9, <1>12, <1>13 DEF x

(* The climb to the parents. *)
Rooted(parent, root, wins, N) ==
  /\ root \notin wins /\ parent \in [wins -> wins \cup {root}]
  /\ N \in Nat /\ IsTree(parent, root, N)

Climb(parent, root, w) == Iterate(Upwards(parent, root), w)

LEMMA TreeUp ==
  ASSUME NEW parent, NEW root, NEW wins, NEW N, Rooted(parent, root, wins, N)
  PROVE  /\ Upwards(parent, root) \in Maps(wins \cup {root})
         /\ Upwards(parent, root)[root] = root
         /\ \A w \in wins : Upwards(parent, root)[w] = parent[w]
BY DEF Rooted, Upwards, Maps

LEMMA TreeDepth ==
  ASSUME NEW parent, NEW root, NEW wins, NEW N, Rooted(parent, root, wins, N)
  PROVE  \E d \in [wins \cup {root} -> 0..N] : \A w \in wins : d[parent[w]] < d[w]
BY DEF Rooted, IsTree

LEMMA ClimbType ==
  ASSUME NEW parent, NEW root, NEW wins, NEW N, Rooted(parent, root, wins, N),
         NEW w \in wins \cup {root}
  PROVE  /\ Climb(parent, root, w) \in [Nat -> wins \cup {root}]
         /\ Climb(parent, root, w)[0] = w
         /\ \A n \in Nat : /\ Climb(parent, root, w)[n] = root => Climb(parent, root, w)[n+1] = root
                           /\ Climb(parent, root, w)[n] \in wins =>
                                Climb(parent, root, w)[n+1] = parent[Climb(parent, root, w)[n]]
<1> DEFINE A == wins \cup {root}
           U == Upwards(parent, root)
           at == Iterate(U, w)
<1>0. U \in Maps(A)
  BY TreeUp
<1>1. U[root] = root /\ \A v \in wins : U[v] = parent[v]
  <2>1. U[root] = root BY TreeUp
  <2>2. ASSUME NEW v \in wins PROVE U[v] = parent[v] BY DEF Rooted, Upwards
  <2> QED  BY <2>1, <2>2
<1>2. w \in A
  OBVIOUS
<1> HIDE DEF A, U
<1>3. at \in [Nat -> A] /\ at[0] = w /\ \A n \in Nat : at[n+1] = U[at[n]]
  BY <1>0, <1>2, IterateFacts
<1> HIDE DEF at
<1>4. at = Climb(parent, root, w)
  BY DEF at, U, Climb
<1>5. ASSUME NEW n \in Nat
      PROVE  (at[n] = root => at[n+1] = root) /\ (at[n] \in wins => at[n+1] = parent[at[n]])
  BY <1>1, <1>3
<1> HIDE DEF U
<1> QED  BY <1>3, <1>4, <1>5 DEF A

LEMMA ClimbOn ==
  ASSUME NEW parent, NEW root, NEW wins, NEW N, Rooted(parent, root, wins, N),
         NEW w \in wins \cup {root}, NEW i \in Nat, NEW y, Climb(parent, root, w)[i] = y, NEW t \in Nat
  PROVE  Climb(parent, root, y)[t] = Climb(parent, root, w)[i + t]
<1> DEFINE A == wins \cup {root}
           U == Upwards(parent, root)
<1>1. U \in Maps(A) /\ w \in A
  BY TreeUp
<1> HIDE DEF A, U
<1>2. Iterate(U, Iterate(U, w)[i])[t] = Iterate(U, w)[i + t]
  BY <1>1, IterateOn
<1> QED  BY <1>2 DEF U, Climb

(* The depth shrinks on the way up. *)
LEMMA ClimbDepth ==
  ASSUME NEW parent, NEW root, NEW wins, NEW N, Rooted(parent, root, wins, N),
         NEW y \in wins, NEW d \in [wins \cup {root} -> 0..N], \A w \in wins : d[parent[w]] < d[w]
  PROVE  \A t \in Nat : t >= 1 => /\ d[Climb(parent, root, y)[t]] < d[y]
                                  /\ Climb(parent, root, y)[t] # root =>
                                        d[Climb(parent, root, y)[t]] + t <= d[y]
<1> DEFINE at == Climb(parent, root, y)
           Q == {t \in Nat : t >= 1 => d[at[t]] < d[y] /\ (at[t] # root => d[at[t]] + t <= d[y])}
<1>1. /\ at \in [Nat -> wins \cup {root}] /\ at[0] = y
      /\ \A n \in Nat : (at[n] = root => at[n+1] = root) /\ (at[n] \in wins => at[n+1] = parent[at[n]])
  BY ClimbType
<1>2. N \in Nat
  BY DEF Rooted
<1> HIDE DEF at
<1>3. 0 \in Q
  OBVIOUS
<1>4. ASSUME NEW t \in Nat, t \in Q PROVE t + 1 \in Q
  <2>1. at[t] \in wins \cup {root} /\ at[t+1] \in wins \cup {root} BY <1>1
  <2>2. d[at[t]] \in 0..N /\ d[at[t+1]] \in 0..N /\ d[y] \in 0..N BY <2>1
  <2>3. CASE t = 0
    <3>1. at[1] = parent[y] /\ t + 1 = 1 BY <1>1, <2>3
    <3>2. d[at[1]] < d[y] BY <3>1
    <3> QED  BY <1>2, <2>2, <3>1, <3>2
  <2>4. CASE t # 0
    <3>0. d[at[t]] < d[y] /\ (at[t] # root => d[at[t]] + t <= d[y]) BY <1>4, <2>4
    <3>1. CASE at[t] = root
      <4>1. at[t+1] = root BY <1>1, <3>1
      <4> QED  BY <3>0, <3>1, <4>1
    <3>2. CASE at[t] \in wins
      <4>1. at[t+1] = parent[at[t]] BY <1>1, <3>2
      <4>2. d[at[t+1]] < d[at[t]] BY <3>2, <4>1
      <4>3. root \notin wins BY DEF Rooted
      <4> QED  BY <1>2, <2>2, <3>0, <3>2, <4>2, <4>3
    <3> QED  BY <2>1, <3>1, <3>2
  <2> QED  BY <2>3, <2>4
<1> HIDE DEF Q
<1>5. \A t \in Nat : t \in Q
  BY <1>3, <1>4, NumInduction
<1> QED  BY <1>5 DEF Q, at

(* Every climb ends at the root and passes no window twice. *)
LEMMA ClimbEnds ==
  ASSUME NEW parent, NEW root, NEW wins, NEW N, Rooted(parent, root, wins, N),
         NEW w \in wins \cup {root}
  PROVE  /\ Climb(parent, root, w)[N] = root
         /\ \A i, j \in Nat : i < j /\ Climb(parent, root, w)[i] # root
                              => Climb(parent, root, w)[j] # Climb(parent, root, w)[i]
         /\ \A i, j \in Nat : i <= j /\ Climb(parent, root, w)[i] = root
                              => Climb(parent, root, w)[j] = root
<1> DEFINE at == Climb(parent, root, w)
<1>0. N \in Nat /\ root \notin wins
  BY DEF Rooted
<1>1. PICK d \in [wins \cup {root} -> 0..N] : \A v \in wins : d[parent[v]] < d[v]
  BY TreeDepth
<1>2. /\ at \in [Nat -> wins \cup {root}] /\ at[0] = w
      /\ \A n \in Nat : at[n] = root => at[n+1] = root
  BY ClimbType
<1>3. ASSUME NEW i \in Nat, NEW t \in Nat PROVE Climb(parent, root, at[i])[t] = at[i + t]
  BY ClimbOn
<1> HIDE DEF at
<1>4. ASSUME NEW i \in Nat, NEW j \in Nat, i < j, at[i] # root PROVE at[j] # at[i]
  <2> DEFINE t == j - i
  <2>1. t \in Nat /\ t >= 1 /\ i + t = j BY <1>4
  <2>2. at[i] \in wins BY <1>2, <1>4
  <2> HIDE DEF t
  <2>3. d[Climb(parent, root, at[i])[t]] < d[at[i]] BY <1>1, <2>1, <2>2, ClimbDepth
  <2>4. d[at[j]] < d[at[i]] BY <1>3, <2>1, <2>3
  <2>5. d[at[i]] \in 0..N BY <2>2
  <2> QED  BY <1>0, <2>4, <2>5
<1>5. ASSUME NEW i \in Nat, at[i] = root PROVE \A t \in Nat : at[i + t] = root
  <2> DEFINE Q == {t \in Nat : at[i + t] = root}
  <2>1. 0 \in Q BY <1>5
  <2>2. ASSUME NEW t \in Nat, t \in Q PROVE t + 1 \in Q
    <3>1. i + (t + 1) = (i + t) + 1 /\ i + t \in Nat OBVIOUS
    <3> QED  BY <1>2, <2>2, <3>1
  <2> HIDE DEF Q
  <2>3. \A t \in Nat : t \in Q BY <2>1, <2>2, NumInduction
  <2> QED  BY <2>3 DEF Q
<1>6. ASSUME NEW i \in Nat, NEW j \in Nat, i <= j, at[i] = root PROVE at[j] = root
  <2>1. j - i \in Nat /\ i + (j - i) = j BY <1>6
  <2>2. \A t \in Nat : at[i + t] = root BY <1>5, <1>6
  <2>3. at[i + (j - i)] = root BY <2>1, <2>2
  <2> QED  BY <2>1, <2>3
<1>7. at[N] = root
  <2> SUFFICES ASSUME at[N] # root PROVE FALSE
    OBVIOUS
  <2>1. w \in wins BY <1>0, <1>2, <1>6
  <2>2. d[w] \in 0..N /\ at[N] \in wins /\ d[at[N]] \in 0..N BY <1>0, <1>2, <2>1
  <2>3. CASE N = 0
    <3>1. at[N] = w BY <1>2, <2>3
    <3>2. parent[w] \in wins \cup {root} BY <2>1 DEF Rooted
    <3>3. d[parent[w]] < d[w] /\ d[parent[w]] \in 0..N BY <1>1, <2>1, <3>2
    <3> QED  BY <2>2, <2>3, <3>3
  <2>4. CASE N # 0
    <3>1. N >= 1 BY <1>0, <2>4
    <3>2. d[at[N]] + N <= d[w] BY <1>0, <1>1, <2>1, <3>1, ClimbDepth DEF at
    <3>3. parent[at[N]] \in wins \cup {root} BY <2>2 DEF Rooted
    <3>4. d[parent[at[N]]] < d[at[N]] /\ d[parent[at[N]]] \in 0..N BY <1>1, <2>2, <3>3
    <3> QED  BY <1>0, <2>2, <3>2, <3>4
  <2> QED  BY <2>3, <2>4
<1> QED  BY <1>4, <1>6, <1>7 DEF at

(* Two climbs that meet go on together. *)
LEMMA ClimbsMeet ==
  ASSUME NEW parent, NEW root, NEW wins, NEW N, Rooted(parent, root, wins, N),
         NEW v \in wins \cup {root}, NEW w \in wins \cup {root}, NEW i \in Nat, NEW j \in Nat,
         Climb(parent, root, v)[i] = Climb(parent, root, w)[j]
  PROVE  \A t \in Nat : Climb(parent, root, v)[i + t] = Climb(parent, root, w)[j + t]
<1> SUFFICES ASSUME NEW t \in Nat
             PROVE  Climb(parent, root, v)[i + t] = Climb(parent, root, w)[j + t]
  OBVIOUS
<1> DEFINE y == Climb(parent, root, v)[i]
<1>1. Climb(parent, root, v)[i] = y /\ Climb(parent, root, w)[j] = y
  OBVIOUS
<1> HIDE DEF y
<1>2. Climb(parent, root, y)[t] = Climb(parent, root, v)[i + t]
  BY <1>1, ClimbOn
<1>3. Climb(parent, root, y)[t] = Climb(parent, root, w)[j + t]
  BY <1>1, ClimbOn
<1> QED  BY <1>2, <1>3

-----------------------------------------------------------------------------
(***************************************************************************)
(* XKeyboard.  What a key leaves behind is tied to the keys that act: the  *)
(* keys XTEST holds, and the held keys MouseKeys does not take.            *)
(***************************************************************************)
ActingKeys(ctrls, held, fake) ==
    {k \in KbKeys : \/ k \in fake
                    \/ k \in held /\ ~("Mouse" \in ctrls /\ k \in KbMoveKeys \cup KbClickKeys)}

KeysSound(ctrls, held, fake, pressed, base, repeat, buttons, dflt) ==
    /\ \A m \in base : \E k \in ActingKeys(ctrls, held, fake) : k \notin KbLockKeys /\ m \in KbMod[k]
    /\ "Sticky" \in ctrls => base = {}
    /\ pressed \subseteq ActingKeys(ctrls, held, fake)
    /\ repeat = "none" \/ (repeat \in held /\ ~("Mouse" \in ctrls /\ repeat \in KbMoveKeys \cup KbClickKeys))
    /\ buttons \subseteq {DfltButton(dflt)}
    /\ buttons # {} => "Mouse" \in ctrls /\ held \cap KbClickKeys # {}

ModsType == [base : SUBSET KbMods, latched : SUBSET KbMods, locked : SUBSET KbMods, sticky : SUBSET KbMods]
SeenType == [state : SUBSET [mods : SUBSET KbMods, group : KbGroups], ctrls : SUBSET (SUBSET KbCtrls)]

\* What a client that deselected an event was told is forgotten.
ListenerHeard ==
    /\ kbSeen \in SeenType
    /\ "State" \notin kbMask => kbSeen.state = {}
    /\ "Controls" \notin kbMask => kbSeen.ctrls = {}
    /\ ListenerFollows

KeysInv ==
    /\ KbTypeOK
    /\ kbClean => KeysSound(kbCtrls, kbHeld, kbFake, kbPressed, kbMods.base, kbRepeat, kbButtons, kbDflt)
    /\ ListenerHeard

\* Pressing and releasing keep the modifiers modifiers.
LEMMA PressModsType ==
    ASSUME kbMods \in ModsType, NEW k \in KbKeys
    PROVE  PressMods(k) \in ModsType
  <1>1. KbMod[k] \subseteq KbMods BY DEF KbMods
  <1> HIDE DEF KbMods
  <1>. QED BY <1>1 DEF PressMods, ModsType

LEMMA ReleaseModsType ==
    ASSUME kbMods \in ModsType, NEW k \in KbKeys
    PROVE  ReleaseMods(k) \in ModsType
  <1> HIDE DEF KbMods
  <1>. QED BY DEF ReleaseMods, ModsType

\* What pressing and releasing do to the base modifiers.
LEMMA PressModsBase ==
    ASSUME kbMods \in ModsType, NEW k \in KbKeys
    PROVE  /\ \A m \in PressMods(k).base : m \in kbMods.base \/ (k \notin KbLockKeys /\ m \in KbMod[k])
           /\ Sticky => PressMods(k).base = kbMods.base
  BY DEF PressMods, ModsType

LEMMA ReleaseModsBase ==
    ASSUME kbMods \in ModsType, NEW k \in KbKeys
    PROVE  /\ ReleaseMods(k).base \subseteq kbMods.base
           /\ k \notin KbLockKeys /\ ~Sticky => \A m \in ReleaseMods(k).base : m \notin KbMod[k]
  BY DEF ReleaseMods, ModsType

\* The state a client hears of is a state.
LEMMA XkbStateType ==
    ASSUME NEW m \in ModsType, NEW g \in [latched : KbGroups, locked : KbGroups]
    PROVE  XkbStateOf(m, g) \in [mods : SUBSET KbMods, group : KbGroups]
  <1>1. EffectiveMods(m) \in SUBSET KbMods BY DEF EffectiveMods, ModsType
  <1>2. EffectiveGroup(g) \in KbGroups BY DEF EffectiveGroup, KbGroups
  <1>. QED BY <1>1, <1>2 DEF XkbStateOf

\* A listener follows whatever changes modifiers or group.
LEMMA NotifyFollows ==
    ASSUME kbMods' \in ModsType, kbGroup' \in [latched : KbGroups, locked : KbGroups],
           ListenerHeard, UNCHANGED <<kbCtrls, kbMask>>, KbNotify
    PROVE  ListenerHeard'
  <1>1. XkbStateOf(kbMods', kbGroup') \in [mods : SUBSET KbMods, group : KbGroups]
    BY XkbStateType
  <1> DEFINE x == XkbStateOf(kbMods', kbGroup')
  <1>2. CASE "State" \in kbMask /\ <<kbMods', kbGroup'>> # <<kbMods, kbGroup>>
    <2>1. kbSeen' = [kbSeen EXCEPT !.state = {x}] BY <1>2 DEF KbNotify
    <2> HIDE DEF x
    <2>2. x \in [mods : SUBSET KbMods, group : KbGroups] BY <1>1 DEF x
    <2>3. kbSeen' \in SeenType /\ kbSeen'.state = {x} /\ kbSeen'.ctrls = kbSeen.ctrls
      BY <2>1, <2>2 DEF SeenType, ListenerHeard
    <2>. QED BY <1>2, <2>3 DEF ListenerFollows, ListenerHeard, x
  <1>3. CASE ~("State" \in kbMask /\ <<kbMods', kbGroup'>> # <<kbMods, kbGroup>>)
    <2>1. kbSeen' = kbSeen BY <1>3 DEF KbNotify
    <2>2. CASE "State" \notin kbMask
      BY <2>1, <2>2 DEF ListenerFollows, ListenerHeard
    <2>3. CASE <<kbMods', kbGroup'>> = <<kbMods, kbGroup>>
      <3>1. kbMods' = kbMods /\ kbGroup' = kbGroup BY <2>3
      <3>. QED BY <2>1, <3>1 DEF ListenerFollows, ListenerHeard
    <2>. QED BY <1>3, <2>2, <2>3
  <1>. QED BY <1>2, <1>3

LEMMA HeardStays ==
    ASSUME ListenerHeard, UNCHANGED <<kbCtrls, kbMask, kbMods, kbGroup, kbSeen>>
    PROVE  ListenerHeard'
  BY DEF ListenerHeard, ListenerFollows

LEMMA KeysInitInv == KbInit => KeysInv
  <1> SUFFICES ASSUME KbInit PROVE KeysInv OBVIOUS
  <1> USE DEF KbInit
  <1>1. KbTypeOK
    <2>1. kbMods \in ModsType BY DEF ModsType
    <2>2. kbGroup \in [latched : KbGroups, locked : KbGroups] BY DEF KbGroups
    <2>3. kbBuf \in 0..KbMaxBuf /\ kbSteps \in 0..KbMaxSteps BY KbAssumption
    <2>4. kbDflt \in KbDflts \cup {0} /\ kbButtons \subseteq Nat /\ kbClean \in BOOLEAN OBVIOUS
    <2>5. kbSeen.state = {} /\ kbSeen.ctrls = {} OBVIOUS
    <2>6. kbCtrls \subseteq KbCtrls BY DEF KbCtrls
    <2> HIDE DEF KbInit
    <2>. QED BY <2>1, <2>2, <2>3, <2>4, <2>5, <2>6 DEF KbTypeOK, ModsType, KbInit
  <1>2. KeysSound(kbCtrls, kbHeld, kbFake, kbPressed, kbMods.base, kbRepeat, kbButtons, kbDflt)
    BY DEF KeysSound
  <1>3. ListenerHeard
    BY DEF ListenerHeard, SeenType, ListenerFollows
  <1>. QED BY <1>1, <1>2, <1>3 DEF KeysInv

\* A press of the browser.
LEMMA KeyPressInv ==
    ASSUME KeysInv, NEW k \in KbKeys, KeyPress(k), kbSteps' \in 0..KbMaxSteps
    PROVE  KeysInv'
  <1> USE DEF KeyPress
  <1>0. kbMods \in ModsType BY DEF KeysInv, KbTypeOK, ModsType
  <1> DEFINE old == ActingKeys(kbCtrls, kbHeld, kbFake)
             new == ActingKeys(kbCtrls, kbHeld', kbFake)
             mouse == "Mouse" \in kbCtrls
             mk == KbMoveKeys \cup KbClickKeys
  <1>a. old \subseteq new /\ (~MouseKey(k) => k \in new)
    BY DEF ActingKeys, MouseKey
  <1>1. CASE PressRejected(k)
    <2>1. ListenerHeard' BY <1>1, HeardStays DEF PressRejected, KeysInv
    <2>2. kbClean => KeysSound(kbCtrls, kbHeld, kbFake, kbPressed, kbMods.base, kbRepeat, kbButtons, kbDflt)'
      BY <1>1, <1>a DEF PressRejected, KeysInv, KeysSound
    <2>. QED BY <1>1, <2>1, <2>2 DEF PressRejected, KeysInv, KbTypeOK
  <1>2. CASE PressMouseKey(k)
    <2>1. ListenerHeard' BY <1>2, HeardStays DEF PressMouseKey, KeysInv
    <2>2. kbClean => KeysSound(kbCtrls, kbHeld, kbFake, kbPressed, kbMods.base, kbRepeat, kbButtons, kbDflt)'
      BY <1>2, <1>a DEF PressMouseKey, MouseKey, KeysInv, KeysSound
    <2>3. DfltButton(kbDflt) \in Nat
      <3>1. KbDflts \subseteq Nat BY KbAssumption, Zenon
      <3>2. kbDflt \in KbDflts \cup {0} BY Zenon DEF KeysInv, KbTypeOK
      <3>3. kbDflt \in Nat BY <3>1, <3>2
      <3>. QED BY ONLY <3>3 DEF DfltButton
    <2>4. kbButtons' \subseteq Nat BY <1>2, <2>3 DEF PressMouseKey, KeysInv, KbTypeOK
    <2>5. KbTypeOK' BY <1>2, <2>4 DEF PressMouseKey, KeysInv, KbTypeOK
    <2>. QED BY <1>2, <2>1, <2>2, <2>5 DEF PressMouseKey, KeysInv
  <1>3. ASSUME kbPressed' = kbPressed \cup {k}, kbMods' = PressMods(k), UNCHANGED kbGroup, KbNotify,
               ~MouseKey(k), kbRepeat' \in {"none", k}, UNCHANGED kbButtons, kbBuf' \in 0..KbMaxBuf
        PROVE  KeysInv'
    <2>0. kbMods' \in ModsType BY <1>0, <1>3, PressModsType
    <2>1. ListenerHeard' BY <1>3, <2>0, NotifyFollows DEF KeysInv, KbTypeOK
    <2>2. kbClean => KeysSound(kbCtrls, kbHeld, kbFake, kbPressed, kbMods.base, kbRepeat, kbButtons, kbDflt)'
      BY <1>0, <1>3, <1>a, PressModsBase DEF KeysInv, KeysSound, MouseKey, Sticky
    <2>3. KbTypeOK'
      BY <1>3, <2>0, <2>1 DEF KeysInv, KbTypeOK, ModsType, ListenerHeard, SeenType
    <2>. QED BY <1>3, <2>1, <2>2, <2>3 DEF KeysInv
  <1>4. CASE PressSlow(k)
    <2>1. kbBuf' \in 0..KbMaxBuf BY <1>4 DEF PressSlow, KeysInv, KbTypeOK
    <2>. QED BY <1>3, <1>4, <2>1 DEF PressSlow
  <1>5. CASE PressNow(k)
    <2>1. kbBuf' \in 0..KbMaxBuf BY <1>5, KbAssumption DEF PressNow, Compose, KeysInv, KbTypeOK
    <2>. QED BY <1>3, <1>5, <2>1 DEF PressNow
  <1>. QED BY <1>1, <1>2, <1>4, <1>5

\* A release of the browser.
LEMMA KeyReleaseInv ==
    ASSUME KeysInv, NEW k \in KbKeys, KeyRelease(k), kbSteps' \in 0..KbMaxSteps
    PROVE  KeysInv'
  <1> USE DEF KeyRelease
  <1>0. kbMods \in ModsType BY DEF KeysInv, KbTypeOK, ModsType
  <1> DEFINE old == ActingKeys(kbCtrls, kbHeld, kbFake)
             new == ActingKeys(kbCtrls, kbHeld', kbFake)
  <1>a. \A j \in old : j \in new \/ j = k BY DEF ActingKeys
  <1>b. MouseKey(k) => old = new BY DEF ActingKeys, MouseKey
  <1>1. CASE ReleaseMouseKey(k)
    <2>1. ListenerHeard' BY <1>1, HeardStays DEF ReleaseMouseKey, KeysInv
    <2>2. kbClean => KeysSound(kbCtrls, kbHeld, kbFake, kbPressed, kbMods.base, kbRepeat, kbButtons, kbDflt)'
      BY <1>1, <1>b DEF ReleaseMouseKey, MouseKey, KeysInv, KeysSound
    <2>. QED BY <1>1, <2>1, <2>2 DEF ReleaseMouseKey, KeysInv, KbTypeOK
  <1>2. CASE ReleaseNow(k)
    <2>0. kbMods' \in ModsType BY <1>0, <1>2, ReleaseModsType DEF ReleaseNow
    <2>1. ListenerHeard' BY <1>2, <2>0, NotifyFollows DEF ReleaseNow, KeysInv, KbTypeOK
    <2>2. ASSUME kbClean
          PROVE  KeysSound(kbCtrls, kbHeld, kbFake, kbPressed, kbMods.base, kbRepeat, kbButtons, kbDflt)'
      <3> USE <2>2
      <3>1. kbMods'.base \subseteq kbMods.base
            /\ (k \notin KbLockKeys /\ ~Sticky => \A m \in kbMods'.base : m \notin KbMod[k])
        BY <1>0, <1>2, ReleaseModsBase DEF ReleaseNow
      <3>2. \A m \in kbMods'.base : \E j \in new : j \notin KbLockKeys /\ m \in KbMod[j]
        BY <1>a, <3>1 DEF KeysInv, KeysSound, Sticky
      <3>3. kbPressed' \subseteq new
        BY <1>a, <1>2 DEF ReleaseNow, KeysInv, KeysSound
      <3>4. kbRepeat' = "none" \/ (kbRepeat' \in kbHeld'
               /\ ~("Mouse" \in kbCtrls /\ kbRepeat' \in KbMoveKeys \cup KbClickKeys))
        BY <1>2 DEF ReleaseNow, KeysInv, KeysSound
      <3>5. kbButtons' # {} => "Mouse" \in kbCtrls /\ kbHeld' \cap KbClickKeys # {}
        BY <1>2 DEF ReleaseNow, MouseKey, KeysInv, KeysSound
      <3>6. kbButtons' \subseteq {DfltButton(kbDflt')} BY <1>2 DEF ReleaseNow, KeysInv, KeysSound
      <3>7. "Sticky" \in kbCtrls' => kbMods'.base = {} BY <3>1 DEF KeysInv, KeysSound
      <3>. QED BY <3>2, <3>3, <3>4, <3>5, <3>6, <3>7 DEF KeysSound
    <2>3. KbTypeOK'
      BY <1>2, <2>0, <2>1 DEF ReleaseNow, Bounce, KeysInv, KbTypeOK, ModsType, ListenerHeard, SeenType
    <2>. QED BY <1>2, <2>1, <2>2, <2>3 DEF KeysInv
  <1>. QED BY <1>1, <1>2

\* A key of XTEST.
LEMMA FakeInputInv ==
    ASSUME KeysInv, NEW k \in KbKeys, NEW press \in BOOLEAN, FakeInput(k, press),
           kbSteps' \in 0..KbMaxSteps
    PROVE  KeysInv'
  <1> USE DEF FakeInput
  <1>0. kbMods \in ModsType BY DEF KeysInv, KbTypeOK, ModsType
  <1> DEFINE old == ActingKeys(kbCtrls, kbHeld, kbFake)
             new == ActingKeys(kbCtrls, kbHeld, kbFake')
  <1>1. kbMods' \in ModsType BY <1>0, PressModsType, ReleaseModsType
  <1>2. ListenerHeard' BY <1>1, NotifyFollows DEF KeysInv, KbTypeOK
  <1>3. KbTypeOK'
    BY <1>1, <1>2 DEF Bounce, KeysInv, KbTypeOK, ModsType, ListenerHeard, SeenType
  <1>4. ASSUME kbClean, press
        PROVE  KeysSound(kbCtrls, kbHeld, kbFake, kbPressed, kbMods.base, kbRepeat, kbButtons, kbDflt)'
    <2> USE <1>4
    <2>1. old \subseteq new /\ k \in new BY DEF ActingKeys
    <2>. QED BY <1>0, <2>1, PressModsBase DEF KeysInv, KeysSound, Sticky
  <1>5. ASSUME kbClean, ~press
        PROVE  KeysSound(kbCtrls, kbHeld, kbFake, kbPressed, kbMods.base, kbRepeat, kbButtons, kbDflt)'
    <2> USE <1>5
    <2>1. \A j \in old : j \in new \/ j = k BY DEF ActingKeys
    <2>2. kbMods'.base \subseteq kbMods.base
          /\ (k \notin KbLockKeys /\ ~Sticky => \A m \in kbMods'.base : m \notin KbMod[k])
      BY <1>0, ReleaseModsBase
    <2>3. \A m \in kbMods'.base : \E j \in new : j \notin KbLockKeys /\ m \in KbMod[j]
      BY <2>1, <2>2 DEF KeysInv, KeysSound, Sticky
    <2>. QED BY <2>1, <2>2, <2>3 DEF KeysInv, KeysSound
  <1>. QED BY <1>2, <1>3, <1>4, <1>5 DEF KeysInv

\* XkbLatchLockState leaves the base modifiers alone.
LEMMA LatchLockInv ==
    ASSUME KeysInv, NEW r \in KbLatchReqs, LatchLockState(r), kbSteps' \in 0..KbMaxSteps
    PROVE  KeysInv'
  <1> USE DEF LatchLockState
  <1>0. kbMods \in ModsType /\ kbGroup \in [latched : KbGroups, locked : KbGroups]
    BY DEF KeysInv, KbTypeOK, ModsType
  <1>1. r.locks[2] \subseteq KbMods /\ r.latches[2] \subseteq KbMods
    BY KbAssumption
  <1>2. kbMods' \in ModsType /\ kbMods'.base = kbMods.base BY <1>0, <1>1 DEF ModsType
  <1>3. r.lockGroup \subseteq KbGroups /\ r.latchGroup \subseteq KbGroups BY KbAssumption
  <1>4. kbGroup' \in [latched : KbGroups, locked : KbGroups] BY <1>0, <1>3
  <1>5. ListenerHeard' BY <1>2, <1>4, NotifyFollows DEF KeysInv
  <1>6. KbTypeOK' BY <1>2, <1>4, <1>5 DEF KeysInv, KbTypeOK, ModsType, ListenerHeard, SeenType
  <1>. QED BY <1>2, <1>5, <1>6 DEF KeysInv

\* A control switched over while no key is down finds nothing to strand.
LEMMA SetControlsInv ==
    ASSUME KeysInv, NEW enable \in SUBSET KbCtrls, NEW affect \in SUBSET KbCtrls,
           NEW dflt \in SUBSET KbDflts, SetControls(enable, affect, dflt), kbSteps' \in 0..KbMaxSteps
    PROVE  KeysInv'
  <1> USE DEF SetControls
  <1>1. kbCtrls' \subseteq KbCtrls /\ kbDflt' \in KbDflts \cup {0} BY DEF KeysInv, KbTypeOK
  <1>2. ListenerHeard'
    <2>1. CASE "Controls" \in kbMask
      <3>1. kbSeen' = [kbSeen EXCEPT !.ctrls = {kbCtrls'}] BY <2>1
      <3>2. kbSeen' \in SeenType /\ kbSeen'.state = kbSeen.state /\ kbSeen'.ctrls = {kbCtrls'}
        BY <1>1, <3>1 DEF KeysInv, ListenerHeard, SeenType
      <3>. QED BY <2>1, <3>2 DEF KeysInv, ListenerHeard, ListenerFollows
    <2>2. CASE "Controls" \notin kbMask
      BY <2>2 DEF KeysInv, ListenerHeard, ListenerFollows
    <2>. QED BY <2>1, <2>2
  <1>3. KbTypeOK' BY <1>1, <1>2 DEF KeysInv, KbTypeOK, ListenerHeard, SeenType
  <1>4. ASSUME kbClean'
        PROVE  KeysSound(kbCtrls, kbHeld, kbFake, kbPressed, kbMods.base, kbRepeat, kbButtons, kbDflt)'
    <2>1. CASE kbCtrls' = kbCtrls /\ kbDflt' = kbDflt BY <1>4, <2>1 DEF KeysInv
    <2>2. CASE kbHeld \cup kbFake = {}
      <3>1. kbHeld = {} /\ kbFake = {} BY <2>2
      <3>2. ActingKeys(kbCtrls, kbHeld, kbFake) = {} BY <3>1 DEF ActingKeys
      <3>3. kbMods.base = {} /\ kbPressed = {} /\ kbRepeat = "none" /\ kbButtons = {}
        BY <1>4, <3>1, <3>2 DEF KeysInv, KeysSound, KbTypeOK
      <3>. QED BY <3>1, <3>3 DEF KeysSound, KeysInv, KbTypeOK
    <2>. QED BY <1>4, <2>1, <2>2
  <1>. QED BY <1>2, <1>3, <1>4 DEF KeysInv

\* Every step of the keyboard keeps the invariant.
LEMMA KeysStepInv == KeysInv /\ [KbNext]_kbVars => KeysInv'
  <1> SUFFICES ASSUME KeysInv, [KbNext]_kbVars PROVE KeysInv' OBVIOUS
  <1>1. CASE UNCHANGED kbVars
    <2>1. ListenerHeard' BY <1>1, HeardStays DEF kbVars, KeysInv
    <2>. QED BY <1>1, <2>1 DEF kbVars, KeysInv, KbTypeOK
  <1>2. CASE KbNext
    <2>0. kbSteps' \in 0..KbMaxSteps BY <1>2, KbAssumption DEF KbNext, KeysInv, KbTypeOK
    <2>1. ASSUME NEW k \in KbKeys, KeyPress(k) PROVE KeysInv' BY <2>0, <2>1, KeyPressInv
    <2>2. ASSUME NEW k \in KbKeys, KeyRelease(k) PROVE KeysInv' BY <2>0, <2>2, KeyReleaseInv
    <2>3. ASSUME NEW k \in KbKeys, DebounceExpires(k) PROVE KeysInv'
      <3>1. ListenerHeard' BY <2>3, HeardStays DEF DebounceExpires, KeysInv
      <3>. QED BY <2>0, <2>3, <3>1 DEF DebounceExpires, KeysInv, KbTypeOK
    <2>4. ASSUME NEW k \in KbKeys, NEW press \in BOOLEAN, FakeInput(k, press) PROVE KeysInv'
      BY <2>0, <2>4, FakeInputInv
    <2>5. ASSUME NEW r \in KbLatchReqs, LatchLockState(r) PROVE KeysInv' BY <2>0, <2>5, LatchLockInv
    <2>6. ASSUME NEW ctrl \in KbCtrls, NEW on \in BOOLEAN, SetControls(IF on THEN {ctrl} ELSE {}, {ctrl}, {})
          PROVE  KeysInv'
      <3>1. (IF on THEN {ctrl} ELSE {}) \in SUBSET KbCtrls /\ {ctrl} \in SUBSET KbCtrls
            /\ {} \in SUBSET KbDflts OBVIOUS
      <3>. QED BY <2>0, <2>6, <3>1, SetControlsInv
    <2>10. ASSUME NEW b \in KbDflts, SetControls({}, {}, {b}) PROVE KeysInv'
      <3>1. {} \in SUBSET KbCtrls /\ {b} \in SUBSET KbDflts OBVIOUS
      <3>. QED BY <2>0, <2>10, <3>1, SetControlsInv
    <2>7. ASSUME NEW all \in {{}, KbEvents}, SelectEvents(KbEvents, {}, all) PROVE KeysInv'
      <3>1. kbMask' \subseteq KbEvents BY <2>7 DEF SelectEvents, KeysInv, KbTypeOK
      <3>2. ListenerHeard' BY <2>7, <3>1 DEF SelectEvents, KeysInv, ListenerHeard, SeenType, ListenerFollows
      <3>. QED BY <2>0, <2>7, <3>1, <3>2 DEF SelectEvents, KeysInv, KbTypeOK, ListenerHeard, SeenType
    <2>8. ASSUME GetState PROVE KeysInv'
      <3> DEFINE x == XkbStateOf(kbMods, kbGroup)
      <3>1. x \in [mods : SUBSET KbMods, group : KbGroups]
        BY XkbStateType DEF KeysInv, KbTypeOK, ModsType
      <3>2. kbSeen' = [kbSeen EXCEPT !.state = {x}] BY <2>8 DEF GetState
      <3> HIDE DEF x
      <3>3. kbSeen' \in SeenType /\ kbSeen'.state = {x} /\ kbSeen'.ctrls = kbSeen.ctrls
        BY <3>1, <3>2 DEF KeysInv, ListenerHeard, SeenType
      <3>4. ListenerHeard' BY <2>8, <3>3 DEF GetState, KeysInv, ListenerHeard, ListenerFollows, x
      <3>. QED BY <2>0, <2>8, <3>4 DEF GetState, KeysInv, KbTypeOK, ListenerHeard, SeenType
    <2>9. ASSUME GetControls PROVE KeysInv'
      <3>1. kbSeen' \in SeenType /\ kbSeen'.state = kbSeen.state /\ kbSeen'.ctrls = {kbCtrls}
        BY <2>9 DEF GetControls, KeysInv, KbTypeOK, ListenerHeard, SeenType
      <3>2. ListenerHeard' BY <2>9, <3>1 DEF GetControls, KeysInv, ListenerHeard, ListenerFollows
      <3>. QED BY <2>0, <2>9, <3>2 DEF GetControls, KeysInv, KbTypeOK, ListenerHeard, SeenType
    <2>. QED BY <1>2, <2>1, <2>2, <2>3, <2>4, <2>5, <2>6, <2>7, <2>8, <2>9, <2>10 DEF KbNext
  <1>. QED BY <1>1, <1>2

LEMMA KeysInvSound == KeysInv => KbTypeOK /\ NoStuckKeys /\ ListenerFollows
  <1> SUFFICES ASSUME KeysInv PROVE KbTypeOK /\ NoStuckKeys /\ ListenerFollows OBVIOUS
  <1>1. ActingKeys(kbCtrls, kbHeld, kbFake) \subseteq kbHeld \cup kbFake BY DEF ActingKeys
  <1>2. NoStuckKeys BY <1>1 DEF KeysInv, KeysSound, NoStuckKeys
  <1>. QED BY <1>2 DEF KeysInv, ListenerHeard

-----------------------------------------------------------------------------
(***************************************************************************)
(* XSettings.                                                              *)
(***************************************************************************)
SettingsInv == SeTypeOK /\ MappingCurrent

LEMMA SettingsInit == SeInit => SettingsInv
<1> SUFFICES ASSUME SeInit PROVE SettingsInv
  OBVIOUS
<1>0. SeMaxSteps \in Nat
  BY SeAssumption
<1>1. <<1, 2, 3>> \in [1..3 -> 1..3]
  OBVIOUS
<1>2. sePointer \in [SeClients -> [1..3 -> 1..3]]
  BY <1>1 DEF SeInit
<1> QED  BY <1>0, <1>2 DEF SeInit, SettingsInv, SeTypeOK, MappingCurrent, SeLeds

LEMMA SettingsRequest ==
  ASSUME SeTypeOK, NEW c \in SeClients, SeRequest(c)
  PROVE  seSteps' \in 0..SeMaxSteps
BY SeAssumption DEF SeTypeOK, SeRequest

LEMMA SettingsStep == SettingsInv /\ [SeNext]_seVars => SettingsInv'
<1> SUFFICES ASSUME SettingsInv, [SeNext]_seVars PROVE SettingsInv'
  OBVIOUS
<1>0. SeTypeOK /\ MappingCurrent
  BY DEF SettingsInv
<1>1. ASSUME NEW c \in SeClients, NEW k \in SeCodes, NEW row \in SeRows, ChangeKeyboardMapping(c, k, row)
      PROVE  SettingsInv'
  <2>1. seSteps' \in 0..SeMaxSteps
    BY <1>0, <1>1, SettingsRequest DEF ChangeKeyboardMapping
  <2>2. seKeymap' \in [SeCodes -> SUBSET SeRows] /\ seTelling' \subseteq SeClients /\ c \in seTelling'
    BY <1>0, <1>1 DEF ChangeKeyboardMapping, SeTypeOK
  <2>3. MappingCurrent'
    BY <2>2 DEF MappingCurrent
  <2> QED  BY <1>0, <1>1, <2>1, <2>2, <2>3 DEF ChangeKeyboardMapping, SettingsInv, SeTypeOK, seRest
<1>8. ASSUME NEW c \in SeClients, NEW k \in SeCodes, NEW row \in SeRows, NEW selected \in BOOLEAN,
             SetMap(c, k, row, selected)
      PROVE  SettingsInv'
  <2>1. seSteps' \in 0..SeMaxSteps
    BY <1>0, <1>8, SettingsRequest DEF SetMap
  <2>2. seKeymap' \in [SeCodes -> SUBSET SeRows] /\ seUntold' \subseteq SeClients
        /\ seNotify' \in [SeClients -> BOOLEAN]
    BY <1>0, <1>8 DEF SetMap, SeTypeOK
  <2>3. \A d \in SeClients \ seUntold' : seNotify'[d]
    BY <1>0, <1>8 DEF SetMap, SeTypeOK
  <2>4. MappingCurrent'
    BY <2>3 DEF MappingCurrent
  <2> QED  BY <1>0, <1>8, <2>1, <2>2, <2>4 DEF SetMap, SettingsInv, SeTypeOK, seRest
<1>2. ASSUME NEW c \in SeClients, TellMapping(c) PROVE SettingsInv'
  <2>1. seNotify' \in [SeClients -> BOOLEAN] /\ \A d \in SeClients : seNotify'[d]
    BY <1>2 DEF TellMapping, ToldOf
  <2>2. MappingCurrent'
    BY <2>1 DEF MappingCurrent
  <2> QED  BY <1>0, <1>2, <2>1, <2>2 DEF TellMapping, SettingsInv, SeTypeOK, seRest
<1>3. ASSUME NEW c \in SeClients, ReadMapping(c) PROVE SettingsInv'
  <2>1. seNotify' \in [SeClients -> BOOLEAN]
    BY <1>0, <1>3 DEF ReadMapping, SeTypeOK
  <2>2. ASSUME NEW d \in SeClients \ seUntold', seTelling' = {}, ~seNotify'[d]
        PROVE  seRead'[d] = GetKeyboardMapping(seKeymap')
    <3>1. CASE d = c
      BY <1>0, <1>3, <3>1 DEF ReadMapping, SeTypeOK
    <3>2. CASE d # c
      <4>1. seNotify'[d] = seNotify[d] /\ seRead'[d] = seRead[d]
        BY <1>0, <1>3, <3>2 DEF ReadMapping, SeTypeOK
      <4> QED  BY <1>0, <1>3, <2>2, <4>1 DEF ReadMapping, MappingCurrent
    <3> QED  BY <3>1, <3>2
  <2>3. MappingCurrent'
    BY <2>2 DEF MappingCurrent
  <2> QED  BY <1>0, <1>3, <2>1, <2>3 DEF ReadMapping, SettingsInv, SeTypeOK, seRest
<1>4. ASSUME NEW c \in SeClients, NEW map \in {<< 3 >>, <<2, 1, 3>>}, SetPointerMapping(c, map)
      PROVE  SettingsInv'
  <2>1. seSteps' \in 0..SeMaxSteps
    BY <1>0, <1>4, SettingsRequest DEF SetPointerMapping
  <2>2. \A b \in 1..Len(map) : map[b] \in 1..3
    OBVIOUS
  <2>3. [b \in 1..3 |-> IF b <= Len(map) THEN map[b] ELSE sePointer[c][b]] \in [1..3 -> 1..3]
    BY <1>0, <2>2 DEF SeTypeOK
  <2>4. DOMAIN sePointer[c] = 1..3
    BY <1>0 DEF SeTypeOK
  <2>5. sePointer' \in [SeClients -> [1..3 -> 1..3]]
    BY <1>0, <1>4, <2>3, <2>4 DEF SetPointerMapping, SeTypeOK
  <2>6. MappingCurrent'
    BY <1>0, <1>4 DEF MappingCurrent, SetPointerMapping
  <2> QED  BY <1>0, <1>4, <2>1, <2>5, <2>6 DEF SetPointerMapping, SettingsInv, SeTypeOK
<1>5. ASSUME NEW c \in SeClients, NEW insert \in BOOLEAN, NEW h \in SeHosts, ChangeHosts(c, insert, h)
      PROVE  SettingsInv'
  <2>1. seSteps' \in 0..SeMaxSteps
    BY <1>0, <1>5, SettingsRequest DEF ChangeHosts
  <2>2. seHosts' \in [SeClients -> SUBSET SeHosts]
    BY <1>0, <1>5 DEF ChangeHosts, SeTypeOK
  <2>3. seShared' \subseteq SeHosts
    BY <1>5, <2>2 DEF ChangeHosts
  <2>4. MappingCurrent'
    BY <1>0, <1>5 DEF MappingCurrent, ChangeHosts
  <2> QED  BY <1>0, <1>5, <2>1, <2>2, <2>3, <2>4 DEF ChangeHosts, SettingsInv, SeTypeOK
<1>6. ASSUME NEW c \in SeClients, NEW click \in {50, 200}, NEW mode \in 0..2, NEW led \in {{}, {1}, {4}},
             ChangeKeyboardControl(c, click, mode, led)
      PROVE  SettingsInv'
  <2>1. seSteps' \in 0..SeMaxSteps
    BY <1>0, <1>6, SettingsRequest DEF ChangeKeyboardControl
  <2>2. seClick' \in [SeClients -> 0..100]
    BY <1>0, <1>6 DEF ChangeKeyboardControl, SeTypeOK
  <2> DEFINE lit == CASE mode > 1 -> seLed[c]
                      [] mode = 1 -> IF led = {} THEN SeLeds ELSE seLed[c] \cup (led \cap SeLeds)
                      [] mode = 0 -> IF led = {} THEN {} ELSE seLed[c] \ led
  <2>3. seLed[c] \subseteq SeLeds
    BY <1>0 DEF SeTypeOK
  <2>4. mode = 0 \/ mode = 1 \/ mode = 2
    OBVIOUS
  <2>5. lit \subseteq SeLeds
    BY <2>3, <2>4
  <2>6. seLed' = [seLed EXCEPT ![c] = lit]
    BY <1>6 DEF ChangeKeyboardControl
  <2> HIDE DEF lit
  <2>7. seLed' \in [SeClients -> SUBSET SeLeds]
    BY <1>0, <2>5, <2>6 DEF SeTypeOK
  <2>8. MappingCurrent'
    BY <1>0, <1>6 DEF MappingCurrent, ChangeKeyboardControl
  <2> QED  BY <1>0, <1>6, <2>1, <2>2, <2>7, <2>8 DEF ChangeKeyboardControl, SettingsInv, SeTypeOK
<1>7. CASE UNCHANGED seVars
  BY <1>0, <1>7 DEF seVars, SettingsInv, SeTypeOK, MappingCurrent
<1> QED  BY <1>1, <1>2, <1>3, <1>4, <1>5, <1>6, <1>7, <1>8 DEF SeNext

(* A modifier map is read back as it was set, whatever the rows' width.     *)
LEMMA ModifierRowsBack ==
  ASSUME NEW rows \in [1..2 -> [1..3 -> 0..2]], NEW m \in 1..2
  PROVE  Kept(ModifierRows(ModifierMap(rows))[m], Nat \ {0}) = Kept(rows[m], Nat \ {0})
<1> DEFINE P == Nat \ {0}
           K(i) == Kept(rows[i], P)
           map == ModifierMap(rows)
           lens == {Len(map[i]) : i \in DOMAIN map} \cup {2}
           n == CHOOSE x \in lens : \A y \in lens : y <= x
           row == [j \in 1..n |-> IF j <= Len(map[m]) THEN map[m][j] ELSE 0]
<1>1. ASSUME NEW i \in 1..2
      PROVE  K(i) \in Seq(Nat) /\ Len(K(i)) \in Nat /\ \A j \in 1..Len(K(i)) : K(i)[j] \in P
  <2> DEFINE r == rows[i]
  <2>1. r \in Seq(Nat)
    <3>1. r = [j \in 1..3 |-> rows[i][j]] /\ \A j \in 1..3 : rows[i][j] \in Nat
      OBVIOUS
    <3> QED  BY <3>1
  <2> HIDE DEF r
  <2>2. Kept(r, P) \in Seq(Nat)
    BY <2>1, KeptType
  <2>3. KeptOf(Kept(r, P), r, P)
    BY <2>1, KeptParts
  <2> QED  BY <2>2, <2>3 DEF KeptOf, r
<1>2. DOMAIN map = 1..2 /\ map[1] = K(1) /\ map[2] = K(2)
  BY DEF ModifierMap
<1>3. ModifierRows(map)[m] = row
  BY <1>2 DEF ModifierRows
<1> HIDE DEF K, map
<1>4. n \in Nat /\ Len(map[m]) <= n
  <2> DEFINE a == Len(map[1])
             b == Len(map[2])
  <2>1. a \in Nat /\ b \in Nat
    BY <1>1, <1>2
  <2>2. lens = {a, b, 2}
    BY <1>2
  <2>3. \E x \in lens : \A y \in lens : y <= x
    <3> HIDE DEF a, b, lens
    <3> QED  BY <2>1, <2>2
  <2>4. n \in lens /\ \A y \in lens : y <= n
    <3> HIDE DEF lens
    <3> QED  BY <2>3, Zenon
  <2>5. Len(map[m]) \in lens
    BY <1>2
  <2>6. Len(map[m]) <= n
    BY <2>4, <2>5, Zenon
  <2>7. n \in {a, b, 2}
    BY <2>2, <2>4, Zenon
  <2> HIDE DEF a, b, lens, n
  <2>8. n \in Nat
    BY <2>1, <2>7
  <2> QED  BY <2>6, <2>8
<1> DEFINE k == map[m]
           q == Len(k)
<1>5. k = K(m) /\ k \in Seq(Nat) /\ q \in Nat /\ \A j \in 1..q : k[j] \in P
  <2>1. k = K(m)
    BY <1>2
  <2> QED  BY <1>1, <2>1
<1>6. row = [j \in 1..n |-> IF j <= q THEN k[j] ELSE 0]
  OBVIOUS
<1>7. q <= n
  BY <1>4
<1> HIDE DEF row, n, k, q
<1>8. row \in Seq(Nat) /\ Len(row) = n
  BY <1>4, <1>5, <1>6
<1>9. \A i \in 1..q : row[i] = k[i] /\ row[i] \in P
  BY <1>4, <1>5, <1>6, <1>7
<1>10. \A i \in (q+1)..Len(row) : row[i] \notin P
  BY <1>4, <1>5, <1>6, <1>8
<1>11. Kept(row, P) = SubSeq(row, 1, q)
  <2>1. q \in 0..Len(row)
    BY <1>4, <1>5, <1>7, <1>8
  <2>2. \A i \in 1..q : row[i] \in P
    BY <1>9
  <2>3. \A T, s, S, j : s \in Seq(T) /\ j \in 0..Len(s) /\ (\A i \in 1..j : s[i] \in S)
                         /\ (\A i \in (j+1)..Len(s) : s[i] \notin S)
                         => Kept(s, S) = SubSeq(s, 1, j)
    BY KeptPrefix, Zenon
  <2> HIDE DEF P
  <2> QED  BY <1>8, <1>10, <2>1, <2>2, <2>3, Zenon
<1>12. SubSeq(row, 1, q) = k
  <2>1. SubSeq(row, 1, q) \in Seq(Nat) /\ Len(SubSeq(row, 1, q)) = q
        /\ \A i \in 1..q : SubSeq(row, 1, q)[i] = row[i]
    BY <1>4, <1>5, <1>7, <1>8, PrefixFacts
  <2> QED  BY <1>5, <1>9, <2>1 DEF q
<1>13. K(m) = Kept(rows[m], P)
  BY SMTT(40) DEF K
<1> QED  BY <1>3, <1>5, <1>11, <1>12, <1>13 DEF map

LEMMA ModifiersBack == ModifiersReadBack
<1>1. ASSUME NEW base \in 0..100, NEW p \in {0, 1, 100, 101, 127, 128, 156, 255}
      PROVE  BellPercent(base, p) \in 0..100
  <2> DEFINE cut(x) == IF x < 0 THEN -((-x) \div 100) ELSE x \div 100
             s == IF p < 128 THEN p ELSE p - 256
             v == base + cut(base * s)
  <2>1. base * s \in Int
    OBVIOUS
  <2>2. \A x \in Int : cut(x) \in Int
    OBVIOUS
  <2>3. v \in Int
    <3> HIDE DEF s, cut
    <3> QED  BY <2>1, <2>2
  <2>4. BellPercent(base, p) = CASE p = 0 -> base
                                 [] p \in 1..100 -> p
                                 [] OTHER -> IF v < 0 THEN 0 ELSE IF v > 100 THEN 100 ELSE v
    BY Zenon DEF BellPercent
  <2>5. p \in Nat
    OBVIOUS
  <2> HIDE DEF v
  <2> QED  BY <2>3, <2>4, <2>5
<1> QED  BY <1>1, ModifierRowsBack, ZenonT(60) DEF ModifiersReadBack

-----------------------------------------------------------------------------
(***************************************************************************)
(* XRecord.  Bracketed is LifeBracketed of one sequence; a sequence is     *)
(* bracketed when its parts are and every later part Follows the earlier.  *)
(***************************************************************************)
Bracketed(s) ==
    \A i, j \in DOMAIN s : i < j /\ s[i].ctx = s[j].ctx /\ s[i].of = s[j].of
                           => s[i].what # "died" /\ s[j].what # "started"

Follows(A, B) ==
    \A m \in A, k \in B : m.ctx = k.ctx /\ m.of = k.of => m.what # "died" /\ k.what # "started"

(* Messages of one kind about one client, at most one of each context.     *)
Emitted(t, s, what) ==
    /\ t \in Seq(RcMessages) /\ Bracketed(t)
    /\ \A m \in ToSet(t) : m.of = s /\ m.what = what

(* What client c was told and will be told, when up says who is connected. *)
LifeOf(c, up, o, p, q) ==
    /\ o \in Seq(RcMessages) /\ p \in Seq(RcMessages) /\ q \in Seq(RcMessages)
    /\ Bracketed(o) /\ Bracketed(p) /\ Bracketed(q)
    /\ Follows(ToSet(o), ToSet(p)) /\ Follows(ToSet(o), ToSet(q)) /\ Follows(ToSet(p), ToSet(q))
    /\ \A m \in ToSet(o) \cup ToSet(p) \cup ToSet(q) :
          /\ up[m.of] # "new"
          /\ m.what = "died" => up[m.of] = "down"
          /\ m.what = "started" => m.of # c

LEMMA BracketedConcat ==
  ASSUME NEW S, NEW s \in Seq(S), NEW t \in Seq(S)
  PROVE  Bracketed(s \o t) <=> Bracketed(s) /\ Bracketed(t) /\ Follows(ToSet(s), ToSet(t))
<1> DEFINE u == s \o t
           m == Len(s)
           n == Len(t)
<1>1. /\ DOMAIN u = 1..(m + n) /\ DOMAIN s = 1..m /\ DOMAIN t = 1..n /\ m \in Nat /\ n \in Nat
      /\ \A i \in 1..m : u[i] = s[i]
      /\ \A i \in 1..n : u[m + i] = t[i]
  BY ConcatProperties
<1> HIDE DEF u, m, n
<1>2. ToSet(s) = {s[i] : i \in 1..m} /\ ToSet(t) = {t[i] : i \in 1..n}
  BY <1>1 DEF ToSet
<1>3. ASSUME Bracketed(u) PROVE Bracketed(s) /\ Bracketed(t) /\ Follows(ToSet(s), ToSet(t))
  <2>1. Bracketed(s)
    BY <1>1, <1>3 DEF Bracketed
  <2>2. ASSUME NEW i \in 1..n, NEW j \in 1..n, i < j, t[i].ctx = t[j].ctx, t[i].of = t[j].of
        PROVE  t[i].what # "died" /\ t[j].what # "started"
    <3>1. m + i \in 1..(m + n) /\ m + j \in 1..(m + n) /\ m + i < m + j
      BY <1>1, <2>2
    <3>2. u[m+i] = t[i] /\ u[m+j] = t[j]
      BY <1>1
    <3> QED  BY <1>1, <1>3, <2>2, <3>1, <3>2 DEF Bracketed
  <2>3. ASSUME NEW i \in 1..m, NEW j \in 1..n, s[i].ctx = t[j].ctx, s[i].of = t[j].of
        PROVE  s[i].what # "died" /\ t[j].what # "started"
    <3>1. i \in 1..(m + n) /\ m + j \in 1..(m + n) /\ i < m + j
      BY <1>1
    <3>2. u[i] = s[i] /\ u[m+j] = t[j]
      BY <1>1
    <3> QED  BY <1>1, <1>3, <2>3, <3>1, <3>2 DEF Bracketed
  <2>4. Bracketed(t)
    BY <1>1, <2>2 DEF Bracketed
  <2>5. Follows(ToSet(s), ToSet(t))
    BY <1>2, <2>3 DEF Follows
  <2> QED  BY <2>1, <2>4, <2>5
<1>4. ASSUME Bracketed(s), Bracketed(t), Follows(ToSet(s), ToSet(t)) PROVE Bracketed(u)
  <2>1. ASSUME NEW i \in 1..(m + n), NEW j \in 1..(m + n), i < j, u[i].ctx = u[j].ctx, u[i].of = u[j].of
        PROVE  u[i].what # "died" /\ u[j].what # "started"
    <3>1. CASE j <= m
      <4>1. u[i] = s[i] /\ u[j] = s[j] /\ i \in 1..m /\ j \in 1..m
        BY <1>1, <2>1, <3>1
      <4> QED  BY <1>1, <1>4, <2>1, <4>1 DEF Bracketed
    <3>2. CASE i > m
      <4>1. PICK a \in 1..n, b \in 1..n : i = m + a /\ j = m + b /\ a < b
        <5>1. i - m \in 1..n /\ j - m \in 1..n /\ i = m + (i - m) /\ j = m + (j - m) /\ i - m < j - m
          BY <1>1, <2>1, <3>2
        <5> QED  BY <5>1
      <4>2. u[i] = t[a] /\ u[j] = t[b]
        BY <1>1, <4>1
      <4> QED  BY <1>1, <1>4, <2>1, <4>1, <4>2, ZenonT(60) DEF Bracketed
    <3>3. CASE i <= m /\ j > m
      <4>1. PICK b \in 1..n : j = m + b
        <5>1. j - m \in 1..n /\ j = m + (j - m)
          BY <1>1, <2>1, <3>3
        <5> QED  BY <5>1
      <4>2. u[i] = s[i] /\ u[j] = t[b] /\ i \in 1..m
        BY <1>1, <3>3, <4>1
      <4> QED  BY <1>2, <1>4, <2>1, <4>2 DEF Follows
    <3> QED  BY <1>1, <3>1, <3>2, <3>3
  <2> QED  BY <1>1, <2>1 DEF Bracketed
<1> QED  BY <1>3, <1>4 DEF u

LEMMA NoMessages ==
  /\ <<>> \in Seq(RcMessages) /\ Bracketed(<<>>) /\ ToSet(<<>>) = {}
  /\ \A A : Follows(A, {}) /\ Follows({}, A)
BY DEF Bracketed, Follows, ToSet

LEMMA EmittedFacts ==
  ASSUME NEW X \in SUBSET RcIds, NEW s \in RcClients, NEW what \in RcCategories
  PROVE  Emitted(SetToSeq({RcMessage(x, s, what) : x \in X}), s, what)
<1> DEFINE M == {RcMessage(x, s, what) : x \in X}
           n == Cardinality(M)
           t == SetToSeq(M)
<1>1. IsFiniteSet(M)
  <2>1. IsFiniteSet(X)
    BY RcAssumption, FS_Subset DEF RcIds
  <2> DEFINE f == [x \in X |-> RcMessage(x, s, what)]
  <2>2. M = {f[x] : x \in X}
    OBVIOUS
  <2>3. f \in Surjection(X, M)
    BY <2>2 DEF Surjection
  <2> HIDE DEF f, M
  <2> QED  BY <2>1, <2>3, FS_Surjection
<1>2. PICK g \in Bijection(1..n, M) : TRUE
  <2> HIDE DEF M
  <2> QED  BY <1>1, FS_CardinalityType DEF ExistsBijection
<1>3. n \in Nat
  <2> HIDE DEF M
  <2> QED  BY <1>1, FS_CardinalityType
<1>4. g \in [1..n -> M] /\ IsInjective(g)
  <2> HIDE DEF M, n
  <2> QED  BY <1>2 DEF Bijection, Injection, IsInjective
<1>5. t \in [1..n -> M] /\ IsInjective(t)
  <2>1. t = CHOOSE f \in [1..n -> M] : IsInjective(f)
    BY Zenon DEF SetToSeq
  <2> HIDE DEF M, n, t
  <2> QED  BY <1>4, <2>1, Zenon
<1>6. M \subseteq RcMessages /\ \A m \in M : m.of = s /\ m.what = what
  BY DEF RcMessage, RcMessages, RcIds
<1>7. \A a, b \in M : a.ctx = b.ctx => a = b
  BY DEF RcMessage
<1> HIDE DEF M, n, t
<1>8. t \in Seq(RcMessages) /\ DOMAIN t = 1..n
  <2>1. t = [i \in 1..n |-> t[i]] /\ \A i \in 1..n : t[i] \in RcMessages
    BY <1>5, <1>6
  <2> QED  BY <1>3, <1>5, <2>1
<1>9. ToSet(t) \subseteq M
  BY <1>5, <1>8 DEF ToSet
<1>10. ASSUME NEW i \in 1..n, NEW j \in 1..n, i < j, t[i].ctx = t[j].ctx PROVE FALSE
  BY <1>3, <1>5, <1>7, <1>10 DEF IsInjective
<1>11. Bracketed(t)
  BY <1>8, <1>10 DEF Bracketed
<1> QED  BY <1>6, <1>8, <1>9, <1>11 DEF Emitted, t, M

(* How one client's messages change. *)
LEMMA LifeData ==
  ASSUME NEW c \in RcClients, NEW s \in RcClients, NEW up, NEW o, NEW p, NEW q, NEW t,
         LifeOf(c, up, o, p, q), Emitted(t, s, "data"), up[s] = "up"
  PROVE  LifeOf(c, up, o, p, q \o t)
<1>1. q \in Seq(RcMessages) /\ t \in Seq(RcMessages)
  BY DEF LifeOf, Emitted
<1>2. q \o t \in Seq(RcMessages) /\ ToSet(q \o t) = ToSet(q) \cup ToSet(t)
  BY <1>1, ConcatSet
<1>3. \A m \in ToSet(t) : m.of = s /\ m.what = "data"
  BY DEF Emitted
<1>4. \A m \in ToSet(o) \cup ToSet(p) \cup ToSet(q) : m.of = s => m.what # "died"
  BY DEF LifeOf
<1>5. Follows(ToSet(o), ToSet(t)) /\ Follows(ToSet(p), ToSet(t)) /\ Follows(ToSet(q), ToSet(t))
  BY <1>3, <1>4 DEF Follows
<1>6. Bracketed(q \o t)
  BY <1>1, <1>5, BracketedConcat DEF LifeOf, Emitted
<1>7. Follows(ToSet(o), ToSet(q \o t)) /\ Follows(ToSet(p), ToSet(q \o t))
  BY <1>2, <1>5 DEF LifeOf, Follows
<1> QED  BY <1>2, <1>3, <1>6, <1>7 DEF LifeOf

LEMMA LifeOwnData ==
  ASSUME NEW c \in RcClients, NEW up, NEW o, NEW p, NEW q, NEW t,
         LifeOf(c, up, o, p, q), Emitted(t, c, "data"), up[c] = "up"
  PROVE  LifeOf(c, up, o, p \o t, q)
<1>1. p \in Seq(RcMessages) /\ t \in Seq(RcMessages)
  BY DEF LifeOf, Emitted
<1>2. p \o t \in Seq(RcMessages) /\ ToSet(p \o t) = ToSet(p) \cup ToSet(t)
  BY <1>1, ConcatSet
<1>3. \A m \in ToSet(t) : m.of = c /\ m.what = "data"
  BY DEF Emitted
<1>4. \A m \in ToSet(o) \cup ToSet(p) \cup ToSet(q) : m.of = c => m.what # "died" /\ m.what # "started"
  BY DEF LifeOf
<1>5. Follows(ToSet(o), ToSet(t)) /\ Follows(ToSet(p), ToSet(t)) /\ Follows(ToSet(t), ToSet(q))
  BY <1>3, <1>4 DEF Follows
<1>6. Bracketed(p \o t)
  BY <1>1, <1>5, BracketedConcat DEF LifeOf, Emitted
<1>7. Follows(ToSet(o), ToSet(p \o t)) /\ Follows(ToSet(p \o t), ToSet(q))
  BY <1>2, <1>5 DEF LifeOf, Follows
<1> QED  BY <1>2, <1>3, <1>6, <1>7 DEF LifeOf

LEMMA LifeFlush ==
  ASSUME NEW c \in RcClients, NEW up, NEW o, NEW p, NEW q, LifeOf(c, up, o, p, q)
  PROVE  LifeOf(c, up, o \o p, <<>>, q)
<1>1. o \in Seq(RcMessages) /\ p \in Seq(RcMessages)
  BY DEF LifeOf
<1>2. o \o p \in Seq(RcMessages) /\ ToSet(o \o p) = ToSet(o) \cup ToSet(p)
  BY <1>1, ConcatSet
<1>3. Bracketed(o \o p)
  BY <1>1, BracketedConcat DEF LifeOf
<1>4. Follows(ToSet(o \o p), ToSet(q))
  BY <1>2 DEF LifeOf, Follows
<1> QED  BY <1>2, <1>3, <1>4, NoMessages DEF LifeOf

LEMMA LifeRead ==
  ASSUME NEW c \in RcClients, NEW up, NEW o, NEW q, LifeOf(c, up, o, <<>>, q), q # <<>>
  PROVE  LifeOf(c, up, Append(o, Head(q)), <<>>, Tail(q))
<1> DEFINE h == <<Head(q)>>
           t == Tail(q)
<1>1. o \in Seq(RcMessages) /\ q \in Seq(RcMessages)
  BY DEF LifeOf
<1>2. /\ h \in Seq(RcMessages) /\ t \in Seq(RcMessages) /\ q = h \o t
      /\ Append(o, Head(q)) = o \o h
  <2>1. Head(q) \in RcMessages /\ Tail(q) \in Seq(RcMessages)
    BY <1>1, HeadTailProperties
  <2>2. q = <<Head(q)>> \o Tail(q)
    BY <1>1
  <2> QED  BY <1>1, <2>1, <2>2, AppendIsConcat
<1> HIDE DEF h, t
<1>3. ToSet(q) = ToSet(h) \cup ToSet(t) /\ o \o h \in Seq(RcMessages) /\ ToSet(o \o h) = ToSet(o) \cup ToSet(h)
  BY <1>1, <1>2, ConcatSet
<1>4. Bracketed(h) /\ Bracketed(t) /\ Follows(ToSet(h), ToSet(t))
  BY <1>2, BracketedConcat DEF LifeOf
<1>5. Follows(ToSet(o), ToSet(h)) /\ Follows(ToSet(o), ToSet(t))
  BY <1>3 DEF LifeOf, Follows
<1>6. Bracketed(o \o h)
  BY <1>1, <1>2, <1>4, <1>5, BracketedConcat DEF LifeOf
<1>7. Follows(ToSet(o \o h), ToSet(t))
  BY <1>3, <1>4, <1>5 DEF Follows
<1>8. LifeOf(c, up, o \o h, <<>>, t)
  BY <1>2, <1>3, <1>4, <1>6, <1>7, NoMessages DEF LifeOf
<1> QED  BY <1>2, <1>8 DEF t

LEMMA LifeDrop ==
  ASSUME NEW c \in RcClients, NEW up, NEW o, NEW p, NEW q, LifeOf(c, up, o, p, q)
  PROVE  LifeOf(c, up, o, <<>>, <<>>)
BY NoMessages DEF LifeOf

(* Nobody is new again, or comes back. *)
Onwards(up, next) ==
    \A e \in RcClients : (next[e] = "new" => up[e] = "new") /\ (up[e] = "down" => next[e] = "down")

LEMMA LifeGoesOn ==
  ASSUME NEW c \in RcClients, NEW up, NEW next, NEW o, NEW p, NEW q, LifeOf(c, up, o, p, q),
         Onwards(up, next)
  PROVE  LifeOf(c, next, o, p, q)
<1>1. ToSet(o) \cup ToSet(p) \cup ToSet(q) \subseteq RcMessages
  <2>1. \A s \in Seq(RcMessages) : ToSet(s) \subseteq RcMessages
    BY DEF ToSet
  <2> QED  BY <2>1 DEF LifeOf
<1>2. \A m \in ToSet(o) \cup ToSet(p) \cup ToSet(q) : m.of \in RcClients
  BY <1>1 DEF RcMessages
<1> QED  BY <1>2 DEF LifeOf, Onwards

LEMMA LifeStarted ==
  ASSUME NEW c \in RcClients, NEW s \in RcClients, c # s, NEW up, NEW next, NEW o, NEW p, NEW q, NEW t,
         LifeOf(c, up, o, p, q), Emitted(t, s, "started"), up[s] = "new", next[s] = "up", Onwards(up, next)
  PROVE  LifeOf(c, next, o, p, q \o t)
<1>0. LifeOf(c, next, o, p, q)
  BY LifeGoesOn
<1>1. q \in Seq(RcMessages) /\ t \in Seq(RcMessages)
  BY DEF LifeOf, Emitted
<1>2. q \o t \in Seq(RcMessages) /\ ToSet(q \o t) = ToSet(q) \cup ToSet(t)
  BY <1>1, ConcatSet
<1>3. \A m \in ToSet(t) : m.of = s /\ m.what = "started"
  BY DEF Emitted
<1>4. \A m \in ToSet(o) \cup ToSet(p) \cup ToSet(q) : m.of # s
  BY DEF LifeOf
<1>5. Follows(ToSet(o), ToSet(t)) /\ Follows(ToSet(p), ToSet(t)) /\ Follows(ToSet(q), ToSet(t))
  BY <1>3, <1>4 DEF Follows
<1>6. Bracketed(q \o t)
  BY <1>1, <1>5, BracketedConcat DEF LifeOf, Emitted
<1>7. Follows(ToSet(o), ToSet(q \o t)) /\ Follows(ToSet(p), ToSet(q \o t))
  BY <1>2, <1>5 DEF LifeOf, Follows
<1> QED  BY <1>0, <1>2, <1>3, <1>6, <1>7 DEF LifeOf

LEMMA LifeDied ==
  ASSUME NEW c \in RcClients, NEW s \in RcClients, NEW up, NEW next, NEW o, NEW p, NEW q, NEW t,
         LifeOf(c, up, o, p, q), Emitted(t, s, "died"), up[s] = "up", next[s] = "down", Onwards(up, next)
  PROVE  LifeOf(c, next, o, p, q \o t)
<1>0. LifeOf(c, next, o, p, q)
  BY LifeGoesOn
<1>1. q \in Seq(RcMessages) /\ t \in Seq(RcMessages)
  BY DEF LifeOf, Emitted
<1>2. q \o t \in Seq(RcMessages) /\ ToSet(q \o t) = ToSet(q) \cup ToSet(t)
  BY <1>1, ConcatSet
<1>3. \A m \in ToSet(t) : m.of = s /\ m.what = "died"
  BY DEF Emitted
<1>4. \A m \in ToSet(o) \cup ToSet(p) \cup ToSet(q) : m.of = s => m.what # "died"
  BY DEF LifeOf
<1>5. Follows(ToSet(o), ToSet(t)) /\ Follows(ToSet(p), ToSet(t)) /\ Follows(ToSet(q), ToSet(t))
  BY <1>3, <1>4 DEF Follows
<1>6. Bracketed(q \o t)
  BY <1>1, <1>5, BracketedConcat DEF LifeOf, Emitted
<1>7. Follows(ToSet(o), ToSet(q \o t)) /\ Follows(ToSet(p), ToSet(q \o t))
  BY <1>2, <1>5 DEF LifeOf, Follows
<1> QED  BY <1>0, <1>2, <1>3, <1>6, <1>7 DEF LifeOf

(* A client that hangs up is told of its own end, last of all. *)
LEMMA LifeEnds ==
  ASSUME NEW c \in RcClients, NEW up, NEW next, NEW o, NEW p, NEW q, NEW t,
         LifeOf(c, up, o, p, q), Emitted(t, c, "died"), up[c] = "up", next[c] = "down", Onwards(up, next)
  PROVE  LifeOf(c, next, o \o t, <<>>, <<>>)
<1>1. o \in Seq(RcMessages) /\ p \in Seq(RcMessages) /\ t \in Seq(RcMessages)
  BY DEF LifeOf, Emitted
<1>2. LifeOf(c, up, o, <<>>, <<>>)
  BY LifeDrop
<1>3. LifeOf(c, next, o, <<>>, <<>> \o t)
  <2> DEFINE e == <<>>
  <2>1. LifeOf(c, up, o, <<>>, e)
    BY <1>2
  <2> HIDE DEF e
  <2>2. LifeOf(c, next, o, <<>>, e \o t)
    BY <2>1, LifeDied
  <2> QED  BY <2>2 DEF e
<1>4. <<>> \o t = t
  BY <1>1, ConcatEmptySeq
<1>5. LifeOf(c, next, o, <<>>, t)
  BY <1>3, <1>4
<1>6. o \o t \in Seq(RcMessages) /\ ToSet(o \o t) = ToSet(o) \cup ToSet(t)
  BY <1>1, ConcatSet
<1>7. Bracketed(o \o t)
  BY <1>1, <1>5, BracketedConcat DEF LifeOf
<1> QED  BY <1>5, <1>6, <1>7, NoMessages DEF LifeOf

(* The inductive invariant.  A connection only has the context named after  *)
(* it; both copies of it are at most one; whoever gets its data was told,   *)
(* also when its own copy is on and the table's is not, as the next change  *)
(* copies the switch over; and the copies agree unless somebody else acted. *)
One(S) == \A a, b \in S : a = b

TableOf(x, L, S, told, foreign, up) ==
    /\ One(L) /\ One(S)
    /\ \A n \in S : n.ctx.on \/ (\E k \in L : k.on) => x \in told[n.tx]
    /\ up # "down" /\ x \notin foreign => S = {[by |-> x, ctx |-> k, tx |-> x] : k \in L}

Whole(f) == f = [c \in RcClients |-> f[c]]

RcShape ==
    /\ rcUp \in [RcClients -> {"new", "up", "down"}]
    /\ rcLocal \in [RcClients -> [RcIds -> SUBSET RcContexts]]
    /\ \A c \in RcClients, x \in RcIds : c # x => rcLocal[c][x] = {}
    /\ rcShared \in [RcIds -> SUBSET RcEntries]
    /\ Whole(rcQueue) /\ Whole(rcPend) /\ Whole(rcOut)
    /\ rcTold \in [RcClients -> SUBSET RcIds] /\ rcForeign \subseteq RcIds
    /\ rcSteps \in 0..RcMaxSteps

RcTables == \A x \in RcIds : TableOf(x, rcLocal[x][x], rcShared[x], rcTold, rcForeign, rcUp[x])
RcLives == \A c \in RcClients : LifeOf(c, rcUp, rcOut[c], rcPend[c], rcQueue[c])

RecordInv == RcShape /\ RcTables /\ RcLives

LEMMA NothingEmitted ==
  ASSUME NEW s, NEW what
  PROVE  Emitted(<<>>, s, what)
BY NoMessages DEF Emitted

(* The queues after a message went out to some connected clients. *)
Sent(next, queue, s, what) ==
    /\ Whole(next)
    /\ \A c \in RcClients : \E t : /\ Emitted(t, s, what) /\ (rcUp[c] # "up" => t = <<>>)
                                   /\ next[c] = queue[c] \o t

LEMMA SendAllFacts ==
  ASSUME NEW queue, NEW shared, NEW xs \in SUBSET RcIds, NEW s \in RcClients, NEW what \in RcCategories
  PROVE  Sent(SendAll(queue, shared, xs, s, what), queue, s, what)
<1>1. ASSUME NEW c \in RcClients
      PROVE  \E t : /\ Emitted(t, s, what) /\ (rcUp[c] # "up" => t = <<>>)
                    /\ SendAll(queue, shared, xs, s, what)[c] = queue[c] \o t
  <2> DEFINE X == {i \in xs : \E n \in shared[i] : n.tx = c}
             all == SetToSeq({RcMessage(x, s, what) : x \in X})
             t == IF rcUp[c] = "up" THEN all ELSE <<>>
  <2>1. X \in SUBSET RcIds
    OBVIOUS
  <2>2. Emitted(all, s, what)
    <3> HIDE DEF X
    <3> QED  BY <2>1, EmittedFacts
  <2>3. SendAll(queue, shared, xs, s, what)[c] = queue[c] \o t
    BY DEF SendAll
  <2> HIDE DEF all
  <2>4. Emitted(t, s, what) /\ (rcUp[c] # "up" => t = <<>>)
    BY <2>2, NothingEmitted
  <2> QED  BY <2>3, <2>4
<1>2. Whole(SendAll(queue, shared, xs, s, what))
  BY DEF SendAll, Whole
<1> QED  BY <1>1, <1>2 DEF Sent

LEMMA SharedData ==
  ASSUME NEW queue, NEW shared, NEW s \in RcClients, NEW e
  PROVE  Sent(InterceptShared(queue, shared, s, e), queue, s, "data")
<1> DEFINE X == {x \in RcIds : \E n \in shared[x] :
                    ShouldInterceptClient(n.ctx, n.by, s) /\ Matches(n.ctx, e)}
<1>1. X \in SUBSET RcIds /\ "data" \in RcCategories
  BY DEF RcCategories
<1>2. InterceptShared(queue, shared, s, e) = SendAll(queue, shared, X, s, "data")
  BY DEF InterceptShared
<1> HIDE DEF X
<1>3. Sent(SendAll(queue, shared, X, s, "data"), queue, s, "data")
  BY <1>1, SendAllFacts
<1> QED  BY <1>2, <1>3

LEMMA LocalData ==
  ASSUME NEW local, NEW s \in RcClients, NEW e
  PROVE  Emitted(InterceptLocal(local, s, e), s, "data")
<1> DEFINE X == {i \in RcIds : \E k \in local[s][i] : ShouldInterceptClient(k, s, s) /\ Matches(k, e)}
<1>1. X \in SUBSET RcIds /\ "data" \in RcCategories
  BY DEF RcCategories
<1>2. InterceptLocal(local, s, e) = SetToSeq({RcMessage(x, s, "data") : x \in X})
  BY DEF InterceptLocal
<1> HIDE DEF X
<1> QED  BY <1>1, <1>2, EmittedFacts

LEMMA RecordStepCounts ==
  ASSUME RcShape, RcStep PROVE rcSteps' \in 0..RcMaxSteps
BY RcAssumption DEF RcShape, Whole, RcStep

(* Traffic and requests add data about the client they are of. *)
LEMMA RequestLives ==
  ASSUME RcShape, RcLives, NEW c \in RcClients, NEW minor, NEW answer, NEW local, NEW shared,
         RecordRequest(c, minor, answer, local, shared)
  PROVE  /\ RcLives' /\ rcSteps' \in 0..RcMaxSteps /\ UNCHANGED rcUp
         /\ Whole(rcQueue') /\ Whole(rcPend') /\ Whole(rcOut')
<1> DEFINE r == RcElement("request", minor)
           a == CHOOSE v \in answer : TRUE
           asked == InterceptShared(rcQueue, rcShared, c, r)
           said == InterceptShared(asked, shared, c, a)
           own == InterceptLocal(rcLocal, c, r)
           after == IF answer = {} THEN <<>> ELSE InterceptLocal(local, c, a)
<1>1. /\ rcUp[c] = "up" /\ RcStep /\ UNCHANGED <<rcUp, rcOut>>
      /\ rcPend' = [rcPend EXCEPT ![c] = rcPend[c] \o own \o after]
      /\ rcQueue' = IF answer = {} THEN asked ELSE said
  BY DEF RecordRequest
<1>2. Emitted(own, c, "data") /\ Emitted(after, c, "data")
  BY LocalData, NothingEmitted
<1>3. Sent(asked, rcQueue, c, "data")
  <2> HIDE DEF r
  <2> QED  BY SharedData
<1>4. Sent(said, asked, c, "data")
  <2> HIDE DEF asked, a
  <2> QED  BY SharedData
<1> HIDE DEF own, after, asked, said
<1>5. ASSUME NEW d \in RcClients
      PROVE  LifeOf(d, rcUp', rcOut'[d], rcPend'[d], rcQueue'[d])
  <2>1. LifeOf(d, rcUp, rcOut[d], rcPend[d], rcQueue[d])
    BY DEF RcLives
  <2>2. LifeOf(d, rcUp, rcOut[d], rcPend'[d], rcQueue[d])
    <3>1. CASE d = c
      <4> DEFINE p1 == rcPend[d] \o own
      <4>1. LifeOf(d, rcUp, rcOut[d], p1, rcQueue[d])
        BY <1>1, <1>2, <2>1, <3>1, LifeOwnData
      <4>2. rcPend'[d] = p1 \o after
        BY <1>1, <3>1 DEF RcShape, Whole
      <4> HIDE DEF p1
      <4>3. LifeOf(d, rcUp, rcOut[d], p1 \o after, rcQueue[d])
        BY <1>1, <1>2, <3>1, <4>1, LifeOwnData
      <4> QED  BY <4>2, <4>3
    <3>2. CASE d # c
      BY <1>1, <2>1, <3>2 DEF RcShape, Whole
    <3> QED  BY <3>1, <3>2
  <2>3. LifeOf(d, rcUp, rcOut[d], rcPend'[d], asked[d])
    <3>1. PICK t : Emitted(t, c, "data") /\ asked[d] = rcQueue[d] \o t
      BY <1>3 DEF Sent
    <3>2. LifeOf(d, rcUp, rcOut[d], rcPend'[d], rcQueue[d] \o t)
      BY <1>1, <2>2, <3>1, LifeData
    <3> QED  BY <3>1, <3>2
  <2>4. LifeOf(d, rcUp, rcOut[d], rcPend'[d], said[d])
    <3>1. PICK t : Emitted(t, c, "data") /\ said[d] = asked[d] \o t
      BY <1>4 DEF Sent
    <3>2. LifeOf(d, rcUp, rcOut[d], rcPend'[d], asked[d] \o t)
      BY <1>1, <2>3, <3>1, LifeData
    <3> QED  BY <3>1, <3>2
  <2>5. rcQueue'[d] = asked[d] \/ rcQueue'[d] = said[d]
    BY <1>1
  <2> QED  BY <1>1, <2>3, <2>4, <2>5
<1>6. Whole(rcQueue') /\ Whole(rcPend') /\ Whole(rcOut')
  BY <1>1, <1>3, <1>4 DEF RcShape, Whole, Sent
<1> QED  BY <1>1, <1>5, <1>6, RecordStepCounts DEF RcLives

LEMMA HeardStep ==
  ASSUME RecordInv, NEW c \in RcClients, NEW e, Heard(c, e)
  PROVE  RecordInv'
<1> DEFINE own == InterceptLocal(rcLocal, c, e)
<1>1. /\ rcUp[c] = "up" /\ RcStep /\ UNCHANGED <<rcUp, rcLocal, rcShared, rcOut, rcTold, rcForeign>>
      /\ rcPend' = [rcPend EXCEPT ![c] = rcPend[c] \o own]
  BY DEF Heard
<1>2. Emitted(own, c, "data") /\ Sent(rcQueue', rcQueue, c, "data")
  BY LocalData, SharedData DEF Heard
<1> HIDE DEF own
<1>3. ASSUME NEW d \in RcClients PROVE LifeOf(d, rcUp', rcOut'[d], rcPend'[d], rcQueue'[d])
  <2>1. LifeOf(d, rcUp, rcOut[d], rcPend[d], rcQueue[d])
    BY DEF RcLives, RecordInv
  <2>2. LifeOf(d, rcUp, rcOut[d], rcPend'[d], rcQueue[d])
    <3>1. CASE d = c
      <4>1. rcPend'[d] = rcPend[d] \o own
        BY <1>1, <3>1 DEF RcShape, Whole, RecordInv
      <4>2. LifeOf(d, rcUp, rcOut[d], rcPend[d] \o own, rcQueue[d])
        BY <1>1, <1>2, <2>1, <3>1, LifeOwnData
      <4> QED  BY <4>1, <4>2
    <3>2. CASE d # c
      BY <1>1, <2>1, <3>2 DEF RcShape, Whole, RecordInv
    <3> QED  BY <3>1, <3>2
  <2>3. PICK t : Emitted(t, c, "data") /\ rcQueue'[d] = rcQueue[d] \o t
    BY <1>2 DEF Sent
  <2>4. LifeOf(d, rcUp, rcOut[d], rcPend'[d], rcQueue[d] \o t)
    BY <1>1, <2>2, <2>3, LifeData
  <2> QED  BY <1>1, <2>3, <2>4
<1>4. RcShape'
  BY <1>1, <1>2, RecordStepCounts DEF RecordInv, RcShape, Whole, Sent
<1>5. RcTables'
  BY <1>1 DEF RecordInv, RcTables
<1> QED  BY <1>3, <1>4, <1>5 DEF RecordInv, RcLives

LEMMA EventDeliveredStep ==
  ASSUME RecordInv, NEW c \in RcClients, NEW e, EventDelivered(c, e)
  PROVE  RecordInv'
<1> DEFINE own == InterceptLocal(rcLocal, c, e)
<1>1. /\ rcUp[c] = "up" /\ RcStep /\ UNCHANGED <<rcUp, rcLocal, rcShared, rcTold, rcForeign>>
      /\ rcPend' = [rcPend EXCEPT ![c] = <<>>]
      /\ rcOut' = [rcOut EXCEPT ![c] = rcOut[c] \o rcPend[c] \o own]
  BY DEF EventDelivered
<1>2. Emitted(own, c, "data") /\ Sent(rcQueue', rcQueue, c, "data")
  BY LocalData, SharedData DEF EventDelivered
<1> HIDE DEF own
<1>3. ASSUME NEW d \in RcClients PROVE LifeOf(d, rcUp', rcOut'[d], rcPend'[d], rcQueue'[d])
  <2>1. LifeOf(d, rcUp, rcOut[d], rcPend[d], rcQueue[d])
    BY DEF RcLives, RecordInv
  <2>2. LifeOf(d, rcUp, rcOut'[d], rcPend'[d], rcQueue[d])
    <3>1. CASE d = c
      <4> DEFINE p1 == rcPend[d] \o own
      <4>1. rcPend'[d] = <<>> /\ rcOut'[d] = (rcOut[d] \o rcPend[d]) \o own
        BY <1>1, <3>1 DEF RcShape, Whole, RecordInv
      <4>2. LifeOf(d, rcUp, rcOut[d], p1, rcQueue[d])
        BY <1>1, <1>2, <2>1, <3>1, LifeOwnData
      <4>3. (rcOut[d] \o rcPend[d]) \o own = rcOut[d] \o p1
        <5>1. rcOut[d] \in Seq(RcMessages) /\ rcPend[d] \in Seq(RcMessages) /\ own \in Seq(RcMessages)
          BY <1>2, <2>1 DEF LifeOf, Emitted
        <5>2. \A u, v, w \in Seq(RcMessages) : (u \o v) \o w = u \o (v \o w)
          BY ConcatAssociative
        <5> QED  BY <5>1, <5>2, Zenon
      <4> HIDE DEF p1
      <4>4. LifeOf(d, rcUp, rcOut[d] \o p1, <<>>, rcQueue[d])
        BY <4>2, LifeFlush
      <4> QED  BY <4>1, <4>3, <4>4
    <3>2. CASE d # c
      BY <1>1, <2>1, <3>2 DEF RcShape, Whole, RecordInv
    <3> QED  BY <3>1, <3>2
  <2>3. PICK t : Emitted(t, c, "data") /\ rcQueue'[d] = rcQueue[d] \o t
    BY <1>2 DEF Sent
  <2>4. LifeOf(d, rcUp, rcOut'[d], rcPend'[d], rcQueue[d] \o t)
    BY <1>1, <2>2, <2>3, LifeData
  <2> QED  BY <1>1, <2>3, <2>4
<1>4. RcShape'
  BY <1>1, <1>2, RecordStepCounts DEF RecordInv, RcShape, Whole, Sent
<1>5. RcTables'
  BY <1>1 DEF RecordInv, RcTables
<1> QED  BY <1>3, <1>4, <1>5 DEF RecordInv, RcLives

LEMMA OutputStep ==
  ASSUME RecordInv, NEW c \in RcClients, EndBatch(c) \/ ChannelRead(c)
  PROVE  RecordInv'
<1>1. UNCHANGED <<rcUp, rcLocal, rcShared, rcTold, rcForeign, rcSteps>>
  BY DEF EndBatch, ChannelRead
<1>2. ASSUME NEW d \in RcClients PROVE LifeOf(d, rcUp, rcOut'[d], rcPend'[d], rcQueue'[d])
  <2>1. LifeOf(d, rcUp, rcOut[d], rcPend[d], rcQueue[d])
    BY DEF RcLives, RecordInv
  <2>2. CASE d # c
    <3>1. rcOut'[d] = rcOut[d] /\ rcPend'[d] = rcPend[d] /\ rcQueue'[d] = rcQueue[d]
      BY <2>2 DEF EndBatch, ChannelRead, RecordInv, RcShape, Whole
    <3> QED  BY <2>1, <3>1
  <2>3. CASE d = c /\ EndBatch(c)
    <3>1. rcOut'[d] = rcOut[d] \o rcPend[d] /\ rcPend'[d] = <<>> /\ rcQueue'[d] = rcQueue[d]
      BY <2>3 DEF EndBatch, RecordInv, RcShape, Whole
    <3>2. LifeOf(d, rcUp, rcOut[d] \o rcPend[d], <<>>, rcQueue[d])
      BY <2>1, LifeFlush
    <3> QED  BY <3>1, <3>2
  <2>4. CASE d = c /\ ChannelRead(c)
    <3>1. /\ rcOut'[d] = Append(rcOut[d], Head(rcQueue[d])) /\ rcPend'[d] = <<>> /\ rcPend[d] = <<>>
          /\ rcQueue'[d] = Tail(rcQueue[d]) /\ rcQueue[d] # <<>>
      BY <2>4 DEF ChannelRead, RecordInv, RcShape, Whole
    <3>2. LifeOf(d, rcUp, rcOut[d], <<>>, rcQueue[d])
      BY <2>1, <3>1
    <3>3. LifeOf(d, rcUp, Append(rcOut[d], Head(rcQueue[d])), <<>>, Tail(rcQueue[d]))
      BY <3>1, <3>2, LifeRead
    <3> QED  BY <3>1, <3>3
  <2> QED  BY <2>2, <2>3, <2>4
<1>3. Whole(rcQueue') /\ Whole(rcPend') /\ Whole(rcOut')
  BY DEF EndBatch, ChannelRead, RecordInv, RcShape, Whole
<1>4. RcShape'
  BY <1>1, <1>3 DEF RecordInv, RcShape, Whole
<1>5. RcTables'
  BY <1>1 DEF RecordInv, RcTables
<1> QED  BY <1>1, <1>2, <1>4, <1>5 DEF RecordInv, RcLives

LEMMA LifeSentFacts ==
  ASSUME NEW s \in RcClients, NEW started \in BOOLEAN
  PROVE  Sent(LifeSent(s, started), rcQueue, s, IF started THEN "started" ELSE "died")
<1> DEFINE X == {x \in RcIds : \E n \in rcShared[x] : n.by # s /\ WantsLife(n.ctx, started)}
           what == IF started THEN "started" ELSE "died"
<1>1. X \in SUBSET RcIds /\ what \in RcCategories
  BY DEF RcCategories
<1>2. LifeSent(s, started) = SendAll(rcQueue, rcShared, X, s, what)
  BY DEF LifeSent
<1> HIDE DEF X, what
<1>3. Sent(SendAll(rcQueue, rcShared, X, s, what), rcQueue, s, what)
  BY <1>1, SendAllFacts
<1> QED  BY <1>2, <1>3 DEF what

LEMMA StartedStep ==
  ASSUME RecordInv, NEW c \in RcClients, NotifyClientStarted(c)
  PROVE  RecordInv'
<1>1. /\ rcUp[c] = "new" /\ RcStep /\ rcUp' = [rcUp EXCEPT ![c] = "up"]
      /\ rcQueue' = LifeSent(c, TRUE) /\ UNCHANGED <<rcLocal, rcShared, rcPend, rcOut, rcTold, rcForeign>>
  BY DEF NotifyClientStarted
<1>2. Sent(rcQueue', rcQueue, c, "started")
  <2>1. Sent(LifeSent(c, TRUE), rcQueue, c, IF TRUE THEN "started" ELSE "died")
    BY LifeSentFacts
  <2> QED  BY <1>1, <2>1
<1>3. rcUp'[c] = "up" /\ Onwards(rcUp, rcUp') /\ \A d \in RcClients : d # c => rcUp'[d] = rcUp[d]
  BY <1>1 DEF RecordInv, RcShape, Whole, Onwards
<1>4. ASSUME NEW d \in RcClients PROVE LifeOf(d, rcUp', rcOut'[d], rcPend'[d], rcQueue'[d])
  <2>1. LifeOf(d, rcUp, rcOut[d], rcPend[d], rcQueue[d])
    BY DEF RcLives, RecordInv
  <2>2. PICK t : Emitted(t, c, "started") /\ (rcUp[d] # "up" => t = <<>>) /\ rcQueue'[d] = rcQueue[d] \o t
    BY <1>2 DEF Sent
  <2>3. CASE d # c
    <3>1. LifeOf(d, rcUp', rcOut[d], rcPend[d], rcQueue[d] \o t)
      BY <1>1, <1>3, <2>1, <2>2, <2>3, LifeStarted
    <3> QED  BY <1>1, <2>2, <3>1
  <2>4. CASE d = c
    <3>1. rcQueue[d] \in Seq(RcMessages) /\ t = <<>>
      BY <1>1, <2>1, <2>2, <2>4 DEF LifeOf
    <3>2. rcQueue'[d] = rcQueue[d]
      BY <2>2, <3>1, ConcatEmptySeq
    <3>3. LifeOf(d, rcUp', rcOut[d], rcPend[d], rcQueue[d])
      BY <1>3, <2>1, LifeGoesOn
    <3> QED  BY <1>1, <3>2, <3>3
  <2> QED  BY <2>3, <2>4
<1>5. RcShape'
  BY <1>1, <1>2, RecordStepCounts DEF RecordInv, RcShape, Whole, Sent
<1>6. RcTables'
  <2>1. ASSUME NEW x \in RcIds PROVE TableOf(x, rcLocal[x][x], rcShared[x], rcTold, rcForeign, rcUp'[x])
    <3>1. TableOf(x, rcLocal[x][x], rcShared[x], rcTold, rcForeign, rcUp[x])
      BY DEF RecordInv, RcTables
    <3>2. rcUp[x] = "down" <=> rcUp'[x] = "down"
      BY <1>1, <1>3 DEF RcIds
    <3> QED  BY <3>1, <3>2 DEF TableOf
  <2> QED  BY <1>1, <2>1 DEF RcTables
<1> QED  BY <1>4, <1>5, <1>6 DEF RecordInv, RcLives

(* A client that goes takes its copies along. *)
LEMMA GoneTables ==
  ASSUME RecordInv, NEW c \in RcClients, UNCHANGED <<rcTold, rcForeign>>,
         rcUp' = [rcUp EXCEPT ![c] = "down"],
         rcLocal' = [rcLocal EXCEPT ![c] = [x \in RcIds |-> {}]],
         rcShared' = rcShared \/ rcShared' = [x \in RcIds |-> {n \in rcShared[x] : n.by # c}]
  PROVE  /\ RcTables' /\ rcUp' \in [RcClients -> {"new", "up", "down"}]
         /\ rcLocal' \in [RcClients -> [RcIds -> SUBSET RcContexts]]
         /\ \A d \in RcClients, x \in RcIds : d # x => rcLocal'[d][x] = {}
         /\ rcShared' \in [RcIds -> SUBSET RcEntries]
<1>1. /\ rcUp' \in [RcClients -> {"new", "up", "down"}]
      /\ rcLocal' \in [RcClients -> [RcIds -> SUBSET RcContexts]]
      /\ rcShared' \in [RcIds -> SUBSET RcEntries]
  BY DEF RecordInv, RcShape, Whole
<1>2. ASSUME NEW d \in RcClients, NEW x \in RcIds PROVE rcLocal'[d][x] = IF d = c THEN {} ELSE rcLocal[d][x]
  BY DEF RecordInv, RcShape, Whole
<1>3. ASSUME NEW d \in RcClients, NEW x \in RcIds, d # x PROVE rcLocal'[d][x] = {}
  <2>1. rcLocal[d][x] = {}
    BY <1>3 DEF RecordInv, RcShape, Whole
  <2> QED  BY <1>2, <2>1
<1>4. ASSUME NEW x \in RcIds
      PROVE  TableOf(x, rcLocal'[x][x], rcShared'[x], rcTold', rcForeign', rcUp'[x])
  <2>1. TableOf(x, rcLocal[x][x], rcShared[x], rcTold, rcForeign, rcUp[x])
    BY DEF RecordInv, RcTables
  <2>2. x \in RcClients
    BY DEF RcIds
  <2>3. rcShared'[x] = rcShared[x] \/ rcShared'[x] = {n \in rcShared[x] : n.by # c}
    OBVIOUS
  <2>4. CASE x = c
    <3>1. rcLocal'[x][x] = {} /\ rcUp'[x] = "down"
      BY <1>2, <2>2, <2>4 DEF RecordInv, RcShape, Whole
    <3> QED  BY <2>1, <2>3, <3>1 DEF TableOf, One
  <2>5. CASE x # c
    <3> DEFINE E == {[by |-> x, ctx |-> k, tx |-> x] : k \in rcLocal[x][x]}
    <3>1. rcLocal'[x][x] = rcLocal[x][x] /\ rcUp'[x] = rcUp[x]
      BY <1>2, <2>2, <2>5 DEF RecordInv, RcShape, Whole
    <3>2. \A n \in E : n.by # c
      BY <2>5
    <3>3. rcUp[x] # "down" /\ x \notin rcForeign => rcShared[x] = E
      BY <2>1 DEF TableOf
    <3> HIDE DEF E
    <3>4. rcUp'[x] # "down" /\ x \notin rcForeign => rcShared'[x] = E
      BY <2>3, <3>1, <3>2, <3>3
    <3>5. One(rcLocal'[x][x]) /\ One(rcShared'[x])
      BY <2>1, <2>3, <3>1 DEF TableOf, One
    <3>6. \A n \in rcShared'[x] : n.ctx.on \/ (\E k \in rcLocal'[x][x] : k.on) => x \in rcTold[n.tx]
      BY <2>1, <2>3, <3>1 DEF TableOf
    <3> QED  BY <3>1, <3>4, <3>5, <3>6 DEF TableOf, E
  <2> QED  BY <2>4, <2>5
<1> QED  BY <1>1, <1>3, <1>4 DEF RcTables

LEMMA HangupStep ==
  ASSUME RecordInv, NEW c \in RcClients, NEW retained \in BOOLEAN, Hangup(c, retained)
  PROVE  RecordInv'
<1> DEFINE X == {i \in RcIds : \E k \in rcLocal[c][i] : WantsLife(k, FALSE)}
           own == SetToSeq({RcMessage(x, c, "died") : x \in X})
           sent == LifeSent(c, FALSE)
<1>1. /\ rcUp[c] = "up" /\ rcPend[c] = <<>> /\ RcStep /\ rcUp' = [rcUp EXCEPT ![c] = "down"]
      /\ rcOut' = [rcOut EXCEPT ![c] = rcOut[c] \o own] /\ rcQueue' = [sent EXCEPT ![c] = <<>>]
      /\ rcLocal' = [rcLocal EXCEPT ![c] = [x \in RcIds |-> {}]]
      /\ rcShared' = rcShared \/ rcShared' = [x \in RcIds |-> {n \in rcShared[x] : n.by # c}]
      /\ UNCHANGED <<rcPend, rcTold, rcForeign>>
  BY DEF Hangup
<1>2. Emitted(own, c, "died")
  <2>1. X \in SUBSET RcIds /\ "died" \in RcCategories
    BY DEF RcCategories
  <2> HIDE DEF X
  <2> QED  BY <2>1, EmittedFacts
<1>3. Sent(sent, rcQueue, c, "died")
  <2>1. Sent(sent, rcQueue, c, IF FALSE THEN "started" ELSE "died")
    <3>1. FALSE \in BOOLEAN
      OBVIOUS
    <3> QED  BY <3>1, LifeSentFacts
  <2> QED  BY <2>1
<1> HIDE DEF own, sent
<1>4. rcUp'[c] = "down" /\ Onwards(rcUp, rcUp') /\ \A d \in RcClients : d # c => rcUp'[d] = rcUp[d]
  BY <1>1 DEF RecordInv, RcShape, Whole, Onwards
<1>5. ASSUME NEW d \in RcClients PROVE LifeOf(d, rcUp', rcOut'[d], rcPend'[d], rcQueue'[d])
  <2>1. LifeOf(d, rcUp, rcOut[d], rcPend[d], rcQueue[d])
    BY DEF RcLives, RecordInv
  <2>2. CASE d # c
    <3>1. PICK t : Emitted(t, c, "died") /\ sent[d] = rcQueue[d] \o t
      BY <1>3 DEF Sent
    <3>2. rcOut'[d] = rcOut[d] /\ rcPend'[d] = rcPend[d] /\ rcQueue'[d] = sent[d]
      BY <1>1, <1>3, <2>2 DEF RecordInv, RcShape, Whole, Sent
    <3>3. LifeOf(d, rcUp', rcOut[d], rcPend[d], rcQueue[d] \o t)
      BY <1>1, <1>4, <2>1, <3>1, LifeDied
    <3> QED  BY <3>1, <3>2, <3>3
  <2>3. CASE d = c
    <3>1. rcOut'[d] = rcOut[d] \o own /\ rcPend'[d] = <<>> /\ rcQueue'[d] = <<>>
      BY <1>1, <1>3, <2>3 DEF RecordInv, RcShape, Whole, Sent
    <3>2. LifeOf(d, rcUp', rcOut[d] \o own, <<>>, <<>>)
      BY <1>1, <1>2, <1>4, <2>1, <2>3, LifeEnds
    <3> QED  BY <3>1, <3>2
  <2> QED  BY <2>2, <2>3
<1>6. Whole(rcQueue') /\ Whole(rcPend') /\ Whole(rcOut')
  BY <1>1, <1>3 DEF RecordInv, RcShape, Whole, Sent
<1>7. /\ RcTables' /\ rcUp' \in [RcClients -> {"new", "up", "down"}]
      /\ rcLocal' \in [RcClients -> [RcIds -> SUBSET RcContexts]]
      /\ \A d \in RcClients, x \in RcIds : d # x => rcLocal'[d][x] = {}
      /\ rcShared' \in [RcIds -> SUBSET RcEntries]
  BY <1>1, GoneTables
<1>8. RcShape'
  BY <1>1, <1>6, <1>7, RecordStepCounts DEF RecordInv, RcShape, Whole
<1> QED  BY <1>5, <1>7, <1>8 DEF RecordInv, RcLives

LEMMA LostStep ==
  ASSUME RecordInv, NEW c \in RcClients, Lost(c)
  PROVE  RecordInv'
<1>1. /\ rcUp[c] = "up" /\ RcStep /\ rcUp' = [rcUp EXCEPT ![c] = "down"]
      /\ rcQueue' = [rcQueue EXCEPT ![c] = <<>>] /\ rcPend' = [rcPend EXCEPT ![c] = <<>>]
      /\ rcLocal' = [rcLocal EXCEPT ![c] = [x \in RcIds |-> {}]]
      /\ UNCHANGED <<rcShared, rcOut, rcTold, rcForeign>>
  BY DEF Lost
<1>2. Onwards(rcUp, rcUp')
  BY <1>1 DEF RecordInv, RcShape, Whole, Onwards
<1>3. ASSUME NEW d \in RcClients PROVE LifeOf(d, rcUp', rcOut'[d], rcPend'[d], rcQueue'[d])
  <2>1. LifeOf(d, rcUp, rcOut[d], rcPend[d], rcQueue[d])
    BY DEF RcLives, RecordInv
  <2>2. LifeOf(d, rcUp', rcOut[d], rcPend[d], rcQueue[d])
    BY <1>2, <2>1, LifeGoesOn
  <2>3. CASE d # c
    BY <1>1, <2>2, <2>3 DEF RecordInv, RcShape, Whole
  <2>4. CASE d = c
    <3>1. rcOut'[d] = rcOut[d] /\ rcPend'[d] = <<>> /\ rcQueue'[d] = <<>>
      BY <1>1, <2>4 DEF RecordInv, RcShape, Whole
    <3>2. LifeOf(d, rcUp', rcOut[d], <<>>, <<>>)
      BY <2>2, LifeDrop
    <3> QED  BY <3>1, <3>2
  <2> QED  BY <2>3, <2>4
<1>4. Whole(rcQueue') /\ Whole(rcPend') /\ Whole(rcOut')
  BY <1>1 DEF RecordInv, RcShape, Whole
<1>5. /\ RcTables' /\ rcUp' \in [RcClients -> {"new", "up", "down"}]
      /\ rcLocal' \in [RcClients -> [RcIds -> SUBSET RcContexts]]
      /\ \A d \in RcClients, x \in RcIds : d # x => rcLocal'[d][x] = {}
      /\ rcShared' \in [RcIds -> SUBSET RcEntries]
  BY <1>1, GoneTables
<1>6. RcShape'
  BY <1>1, <1>4, <1>5, RecordStepCounts DEF RecordInv, RcShape, Whole
<1> QED  BY <1>3, <1>5, <1>6 DEF RecordInv, RcLives

(* A request on context x by client c, after which the table of x is sound  *)
(* and the tables of others are as they were.                               *)
LEMMA ContextRequestStep ==
  ASSUME RecordInv, NEW c \in RcClients, NEW x \in RcIds, NEW minor, NEW answer, NEW L, NEW S,
         L \subseteq RcContexts, S \subseteq RcEntries, c # x => L = {},
         RecordRequest(c, minor, answer, LocalPut(c, x, L), [rcShared EXCEPT ![x] = S]),
         rcTold' \in [RcClients -> SUBSET RcIds], rcForeign' \subseteq RcIds,
         TableOf(x, IF c = x THEN L ELSE rcLocal[x][x], S, rcTold', rcForeign', rcUp[x]),
         \A y \in RcIds : y # x => (y \in rcForeign => y \in rcForeign'),
         \A y \in RcIds, d \in RcClients : y # x => (y \in rcTold[d] => y \in rcTold'[d])
  PROVE  RecordInv'
<1>1. /\ RcLives' /\ rcSteps' \in 0..RcMaxSteps /\ UNCHANGED rcUp
      /\ Whole(rcQueue') /\ Whole(rcPend') /\ Whole(rcOut')
  BY RequestLives DEF RecordInv
<1>2. rcLocal' = [rcLocal EXCEPT ![c][x] = L] /\ rcShared' = [rcShared EXCEPT ![x] = S]
  BY DEF RecordRequest, LocalPut
<1>3. /\ rcLocal' \in [RcClients -> [RcIds -> SUBSET RcContexts]]
      /\ \A d \in RcClients, y \in RcIds :
            rcLocal'[d][y] = IF d = c /\ y = x THEN L ELSE rcLocal[d][y]
  BY <1>2 DEF RecordInv, RcShape, Whole
<1>4. /\ rcShared' \in [RcIds -> SUBSET RcEntries]
      /\ \A y \in RcIds : rcShared'[y] = IF y = x THEN S ELSE rcShared[y]
  BY <1>2 DEF RecordInv, RcShape, Whole
<1>5. ASSUME NEW d \in RcClients, NEW y \in RcIds, d # y PROVE rcLocal'[d][y] = {}
  <2>1. rcLocal[d][y] = {}
    BY <1>5 DEF RecordInv, RcShape, Whole
  <2> QED  BY <1>3, <1>5, <2>1
<1>6. ASSUME NEW y \in RcIds
      PROVE  TableOf(y, rcLocal'[y][y], rcShared'[y], rcTold', rcForeign', rcUp'[y])
  <2>0. y \in RcClients
    BY DEF RcIds
  <2>1. CASE y = x
    <3>1. rcLocal'[y][y] = IF c = x THEN L ELSE rcLocal[x][x]
      BY <1>3, <2>0, <2>1
    <3> QED  BY <1>1, <1>4, <2>1, <3>1
  <2>2. CASE y # x
    <3>1. rcLocal'[y][y] = rcLocal[y][y] /\ rcShared'[y] = rcShared[y]
      BY <1>3, <1>4, <2>0, <2>2
    <3>2. TableOf(y, rcLocal[y][y], rcShared[y], rcTold, rcForeign, rcUp[y])
      BY DEF RecordInv, RcTables
    <3>3. \A n \in rcShared[y] : n.tx \in RcClients
      BY DEF RecordInv, RcShape, Whole, RcEntries
    <3>4. TableOf(y, rcLocal[y][y], rcShared[y], rcTold', rcForeign', rcUp[y])
      BY <2>2, <3>2, <3>3 DEF TableOf
    <3> QED  BY <1>1, <3>1, <3>4
  <2> QED  BY <2>1, <2>2
<1>7. RcShape'
  BY <1>1, <1>3, <1>4, <1>5 DEF RecordInv, RcShape, Whole
<1> QED  BY <1>1, <1>6, <1>7 DEF RecordInv, RcTables

(* A request that changes no context. *)
LEMMA IdleRequestStep ==
  ASSUME RecordInv, NEW c \in RcClients, NEW minor, NEW answer,
         RecordRequest(c, minor, answer, rcLocal, rcShared), UNCHANGED <<rcTold, rcForeign>>
  PROVE  RecordInv'
<1>1. /\ RcLives' /\ rcSteps' \in 0..RcMaxSteps /\ UNCHANGED rcUp
      /\ Whole(rcQueue') /\ Whole(rcPend') /\ Whole(rcOut')
  BY RequestLives DEF RecordInv
<1>2. UNCHANGED <<rcLocal, rcShared>>
  BY DEF RecordRequest
<1>3. RcShape'
  BY <1>1, <1>2 DEF RecordInv, RcShape, Whole
<1>4. RcTables'
  BY <1>1, <1>2 DEF RecordInv, RcTables
<1> QED  BY <1>1, <1>3, <1>4 DEF RecordInv

LEMMA CreateContextStep ==
  ASSUME RecordInv, NEW c \in RcClients, NEW specs \in RcSpecs, NEW ranges \in SUBSET RcRanges,
         CreateContext(c, specs, ranges)
  PROVE  RecordInv'
<1> DEFINE k == [on |-> FALSE, specs |-> specs, ranges |-> ranges]
           n == [by |-> c, ctx |-> k, tx |-> c]
<1>1. CASE c \in RcUntrusted
  BY <1>1, IdleRequestStep DEF CreateContext
<1>2. CASE c \notin RcUntrusted
  <2>1. /\ RecordRequest(c, 1, {}, LocalPut(c, c, {k}), [rcShared EXCEPT ![c] = {n}])
        /\ rcTold' = [d \in RcClients |-> rcTold[d] \ {c}] /\ rcForeign' = rcForeign \ {c}
    BY <1>2 DEF CreateContext
  <2>2. k \in RcContexts /\ k.on = FALSE
    BY RcAssumption DEF RcContexts
  <2>3. n \in RcEntries /\ n.ctx = k /\ c \in RcIds
    BY <2>2 DEF RcEntries, RcIds
  <2>4. {n} = {[by |-> c, ctx |-> j, tx |-> c] : j \in {k}}
    OBVIOUS
  <2> HIDE DEF k, n
  <2>5. TableOf(c, {k}, {n}, rcTold', rcForeign', rcUp[c])
    BY <2>2, <2>3, <2>4 DEF TableOf, One
  <2>6. rcTold' \in [RcClients -> SUBSET RcIds] /\ rcForeign' \subseteq RcIds
    BY <2>1 DEF RecordInv, RcShape, Whole
  <2>7. \A y \in RcIds : y # c => (y \in rcForeign => y \in rcForeign')
    BY <2>1
  <2>8. \A y \in RcIds, d \in RcClients : y # c => (y \in rcTold[d] => y \in rcTold'[d])
    BY <2>1
  <2> DEFINE L == {k}
             S == {n}
             m == 1
             a == {}
  <2>9. /\ L \subseteq RcContexts /\ S \subseteq RcEntries
        /\ RecordRequest(c, m, a, LocalPut(c, c, L), [rcShared EXCEPT ![c] = S])
        /\ TableOf(c, IF c = c THEN L ELSE rcLocal[c][c], S, rcTold', rcForeign', rcUp[c])
    BY <2>1, <2>2, <2>3, <2>5
  <2> HIDE DEF L, S, m, a
  <2> QED  BY <2>3, <2>6, <2>7, <2>8, <2>9, ContextRequestStep
<1> QED  BY <1>1, <1>2

(* A change is made to the context the connection has, and copied.  S is    *)
(* what the connection's copy becomes.                                      *)
LEMMA ChangedStep ==
  ASSUME RecordInv, NEW c \in RcClients, NEW x \in RcIds, NEW minor, NEW S, Changed(c, x, minor, S),
         S \subseteq RcContexts, One(S), rcLocal[c][x] = {} => S = {},
         \A k \in S : k.on => \E j \in rcLocal[c][x] : j.on
  PROVE  RecordInv'
<1>1. CASE S = {}
  BY <1>1, IdleRequestStep DEF Changed
<1>2. CASE S # {}
  <2>1. PICK k \in S : k = CHOOSE j \in S : TRUE
    BY <1>2
  <2> DEFINE put(n) == [n EXCEPT !.ctx = k]
             T == {put(n) : n \in rcShared[x]}
  <2>2. Copied(x, S) = [rcShared EXCEPT ![x] = T]
    BY <2>1 DEF Copied
  <2>3. /\ RecordRequest(c, minor, {}, LocalPut(c, x, S), [rcShared EXCEPT ![x] = T])
        /\ UNCHANGED <<rcTold, rcForeign>>
    BY <1>2, <2>2 DEF Changed
  <2>4. c = x
    BY <1>2 DEF RecordInv, RcShape, Whole
  <2>5. TableOf(x, rcLocal[x][x], rcShared[x], rcTold, rcForeign, rcUp[x])
    BY DEF RecordInv, RcTables
  <2>6. S = {k}
    BY <2>1 DEF One
  <2>7. rcShared[x] \subseteq RcEntries /\ k \in RcContexts
    BY DEF RecordInv, RcShape, Whole
  <2>8. \A n \in rcShared[x] : /\ put(n) \in RcEntries /\ put(n).ctx = k /\ put(n).tx = n.tx
                               /\ put(n) = [by |-> n.by, ctx |-> k, tx |-> n.tx]
    BY <2>7 DEF RcEntries
  <2> HIDE DEF put
  <2>9. T \subseteq RcEntries /\ One(T)
    BY <2>5, <2>8 DEF TableOf, One
  <2>10. \A n \in T : n.ctx.on \/ (\E j \in S : j.on) => x \in rcTold[n.tx]
    <3>1. ASSUME NEW n \in rcShared[x], k.on PROVE x \in rcTold[n.tx]
      BY <2>4, <2>5, <3>1 DEF TableOf
    <3> QED  BY <2>6, <2>8, <3>1
  <2>11. ASSUME rcUp[x] # "down", x \notin rcForeign
         PROVE  T = {[by |-> x, ctx |-> j, tx |-> x] : j \in S}
    <3>1. rcShared[x] = {[by |-> x, ctx |-> j, tx |-> x] : j \in rcLocal[x][x]}
      BY <2>5, <2>11 DEF TableOf
    <3>2. \A n \in rcShared[x] : n.by = x /\ n.tx = x
      BY <3>1
    <3>3. rcShared[x] # {}
      BY <1>2, <2>4, <3>1
    <3> QED  BY <2>6, <2>8, <3>2, <3>3
  <2> HIDE DEF T
  <2>12. TableOf(x, S, T, rcTold, rcForeign, rcUp[x])
    BY <2>9, <2>10, <2>11 DEF TableOf
  <2>13. /\ rcTold' \in [RcClients -> SUBSET RcIds] /\ rcForeign' \subseteq RcIds
         /\ TableOf(x, IF c = x THEN S ELSE rcLocal[x][x], T, rcTold', rcForeign', rcUp[x])
         /\ \A y \in RcIds : y # x => (y \in rcForeign => y \in rcForeign')
         /\ \A y \in RcIds, d \in RcClients : y # x => (y \in rcTold[d] => y \in rcTold'[d])
    BY <2>3, <2>4, <2>12 DEF RecordInv, RcShape, Whole
  <2> DEFINE a == {}
  <2>14. RecordRequest(c, minor, a, LocalPut(c, x, S), [rcShared EXCEPT ![x] = T])
    BY <2>3
  <2> HIDE DEF a
  <2> QED  BY <2>4, <2>9, <2>13, <2>14, ContextRequestStep
<1> QED  BY <1>1, <1>2

LEMMA RegisterStep ==
  ASSUME RecordInv, NEW c \in RcClients, NEW x \in RcIds, NEW specs \in RcSpecs,
         NEW ranges \in SUBSET RcRanges,
         RegisterClients(c, x, specs, ranges) \/ UnregisterClients(c, x, specs)
  PROVE  RecordInv'
<1> DEFINE more(k) == [k EXCEPT !.specs = @ \cup specs, !.ranges = @ \cup ranges]
           less(k) == LET left == k.specs \ specs
                      IN  [k EXCEPT !.specs = left, !.ranges = IF left = {} THEN {} ELSE @]
           S == {more(k) : k \in rcLocal[c][x]}
           T == {less(k) : k \in rcLocal[c][x]}
<1>1. rcLocal[c][x] \subseteq RcContexts /\ One(rcLocal[c][x])
  <2>1. CASE c = x
    BY <2>1 DEF RecordInv, RcShape, Whole, RcTables, TableOf
  <2>2. CASE c # x
    BY <2>2 DEF RecordInv, RcShape, Whole, One
  <2> QED  BY <2>1, <2>2
<1>2. specs \subseteq RcMagic \cup RcClients
  BY RcAssumption
<1>3. \A k \in rcLocal[c][x] : more(k) \in RcContexts /\ more(k).on = k.on
  BY <1>1, <1>2 DEF RcContexts
<1>4. \A k \in rcLocal[c][x] : less(k) \in RcContexts /\ less(k).on = k.on
  BY <1>1, <1>2 DEF RcContexts
<1>5. Changed(c, x, 2, S) \/ Changed(c, x, 3, T)
  BY DEF RegisterClients, UnregisterClients
<1> HIDE DEF more, less
<1>6. /\ S \subseteq RcContexts /\ One(S) /\ (rcLocal[c][x] = {} => S = {})
      /\ \A k \in S : k.on => \E j \in rcLocal[c][x] : j.on
  BY <1>1, <1>3 DEF One
<1>7. /\ T \subseteq RcContexts /\ One(T) /\ (rcLocal[c][x] = {} => T = {})
      /\ \A k \in T : k.on => \E j \in rcLocal[c][x] : j.on
  BY <1>1, <1>4 DEF One
<1> HIDE DEF S, T
<1> QED  BY <1>5, <1>6, <1>7, ChangedStep

LEMMA LocalContexts ==
  ASSUME RecordInv, NEW c \in RcClients, NEW x \in RcIds
  PROVE  /\ rcLocal[c][x] \subseteq RcContexts /\ One(rcLocal[c][x]) /\ (c # x => rcLocal[c][x] = {})
         /\ rcShared[x] \subseteq RcEntries /\ One(rcShared[x])
         /\ TableOf(x, rcLocal[x][x], rcShared[x], rcTold, rcForeign, rcUp[x])
<1>1. c # x => rcLocal[c][x] = {}
  BY DEF RecordInv, RcShape, Whole
<1>2. TableOf(x, rcLocal[x][x], rcShared[x], rcTold, rcForeign, rcUp[x])
  BY DEF RecordInv, RcTables
<1>3. rcLocal[c][x] \subseteq RcContexts /\ rcShared[x] \subseteq RcEntries
  BY DEF RecordInv, RcShape, Whole
<1>4. One(rcLocal[c][x]) /\ One(rcShared[x])
  BY <1>1, <1>2 DEF TableOf, One
<1> QED  BY <1>1, <1>2, <1>3, <1>4

(* The switch of a context is turned in both copies. *)
Turned(k, on) == [k EXCEPT !.on = on]
EntryTurned(n, on, c) == [n EXCEPT !.ctx.on = on, !.tx = IF on THEN c ELSE n.tx]

LEMMA TurnedFacts ==
  ASSUME NEW on \in BOOLEAN, NEW c \in RcClients
  PROVE  /\ \A k \in RcContexts : Turned(k, on) \in RcContexts /\ Turned(k, on).on = on
         /\ \A n \in RcEntries : /\ EntryTurned(n, on, c) \in RcEntries
                                 /\ EntryTurned(n, on, c).ctx = Turned(n.ctx, on)
                                 /\ EntryTurned(n, on, c).tx = (IF on THEN c ELSE n.tx)
                                 /\ EntryTurned(n, on, c).by = n.by
                                 /\ n.ctx \in RcContexts /\ n.tx \in RcClients
<1>1. ASSUME NEW k \in RcContexts PROVE Turned(k, on) \in RcContexts /\ Turned(k, on).on = on
  BY DEF RcContexts, Turned
<1>2. ASSUME NEW n \in RcEntries
      PROVE  /\ EntryTurned(n, on, c) \in RcEntries /\ EntryTurned(n, on, c).ctx = Turned(n.ctx, on)
             /\ EntryTurned(n, on, c).tx = (IF on THEN c ELSE n.tx) /\ EntryTurned(n, on, c).by = n.by
             /\ n.ctx \in RcContexts /\ n.tx \in RcClients
  <2> DEFINE k == Turned(n.ctx, on)
             v == IF on THEN c ELSE n.tx
  <2>1. n.ctx \in RcContexts /\ n.tx \in RcClients /\ n.by \in RcClients
    BY DEF RcEntries
  <2>2. k \in RcContexts /\ v \in RcClients
    BY <1>1, <2>1
  <2>3. EntryTurned(n, on, c) = [[n EXCEPT !.ctx = k] EXCEPT !.tx = v]
    BY DEF EntryTurned, Turned
  <2>4. n = [by |-> n.by, ctx |-> n.ctx, tx |-> n.tx]
    BY DEF RcEntries
  <2> HIDE DEF k, v
  <2>5. EntryTurned(n, on, c) = [by |-> n.by, ctx |-> k, tx |-> v]
    BY <2>3, <2>4
  <2> QED  BY <2>1, <2>2, <2>5 DEF RcEntries, k, v
<1> QED  BY <1>1, <1>2
LEMMA SwitchStep ==
  ASSUME RecordInv, NEW c \in RcClients, NEW x \in RcIds, NEW minor, NEW answer, NEW on \in BOOLEAN,
         NEW L, NEW S,
         L = {Turned(k, on) : k \in rcLocal[c][x]}, S = {EntryTurned(n, on, c) : n \in rcShared[x]},
         RecordRequest(c, minor, answer, LocalPut(c, x, L), [rcShared EXCEPT ![x] = S]),
         rcTold' = IF on THEN [rcTold EXCEPT ![c] = @ \cup {x}] ELSE rcTold, Noted(c, x)
  PROVE  RecordInv'
<1> DEFINE lput(k) == Turned(k, on)
           sput(n) == EntryTurned(n, on, c)
<1>0. L = {lput(k) : k \in rcLocal[c][x]} /\ S = {sput(n) : n \in rcShared[x]}
  OBVIOUS
<1>1. /\ rcLocal[c][x] \subseteq RcContexts /\ One(rcLocal[c][x]) /\ (c # x => rcLocal[c][x] = {})
      /\ rcShared[x] \subseteq RcEntries /\ One(rcShared[x])
      /\ TableOf(x, rcLocal[x][x], rcShared[x], rcTold, rcForeign, rcUp[x])
  BY LocalContexts
<1>2. \A k \in RcContexts : lput(k) \in RcContexts /\ lput(k).on = on
  BY TurnedFacts
<1>3. \A n \in RcEntries : /\ sput(n) \in RcEntries /\ sput(n).ctx = lput(n.ctx) /\ sput(n).by = n.by
                           /\ sput(n).tx = (IF on THEN c ELSE n.tx)
                           /\ n.ctx \in RcContexts /\ n.tx \in RcClients
  BY TurnedFacts
<1> HIDE DEF lput, sput
<1>4. L \subseteq RcContexts /\ One(L) /\ (c # x => L = {}) /\ \A k \in L : k.on = on
  BY <1>0, <1>1, <1>2 DEF One
<1>5. S \subseteq RcEntries /\ One(S)
  BY <1>0, <1>1, <1>3 DEF One
<1>6. /\ rcTold' \in [RcClients -> SUBSET RcIds] /\ rcForeign' \subseteq RcIds
      /\ \A y \in RcIds : y # x => (y \in rcForeign => y \in rcForeign')
      /\ \A y \in RcIds, d \in RcClients : y \in rcTold[d] => y \in rcTold'[d]
      /\ on => x \in rcTold'[c]
      /\ (x \notin rcForeign' => c = x /\ x \notin rcForeign)
  BY DEF RecordInv, RcShape, Whole, Noted
<1> DEFINE K == IF c = x THEN L ELSE rcLocal[x][x]
<1>7. One(K)
  BY <1>1, <1>4 DEF TableOf
<1>8. ASSUME NEW n \in S, n.ctx.on \/ (\E k \in K : k.on) PROVE x \in rcTold'[n.tx]
  <2>1. PICK m \in rcShared[x] : n = sput(m)
    BY <1>0, <1>8
  <2>2. n.ctx.on = on /\ n.tx = (IF on THEN c ELSE m.tx) /\ m.tx \in RcClients
    BY <1>1, <1>2, <1>3, <2>1
  <2>3. CASE on
    BY <1>6, <2>2, <2>3
  <2>4. CASE ~on
    <3>1. \E k \in K : k.on
      BY <1>8, <2>2, <2>4
    <3>2. c # x
      BY <1>4, <2>4, <3>1
    <3>3. x \in rcTold[m.tx]
      BY <1>1, <3>1, <3>2 DEF TableOf
    <3> QED  BY <1>6, <2>2, <2>4, <3>3
  <2> QED  BY <2>3, <2>4
<1>9. ASSUME rcUp[x] # "down", x \notin rcForeign'
      PROVE  S = {[by |-> x, ctx |-> k, tx |-> x] : k \in K}
  <2>1. c = x /\ rcShared[x] = {[by |-> x, ctx |-> k, tx |-> x] : k \in rcLocal[x][x]}
    BY <1>1, <1>6, <1>9 DEF TableOf
  <2>2. ASSUME NEW n \in rcShared[x]
        PROVE  sput(n) = [by |-> x, ctx |-> lput(n.ctx), tx |-> x] /\ n.ctx \in rcLocal[x][x]
    <3>1. n.by = x /\ n.tx = x /\ n.ctx \in rcLocal[x][x]
      BY <2>1
    <3>2. sput(n).by = x /\ sput(n).tx = x /\ sput(n).ctx = lput(n.ctx) /\ sput(n) \in RcEntries
      BY <1>1, <1>3, <2>1, <3>1
    <3> QED  BY <3>1, <3>2 DEF RcEntries
  <2>3. ASSUME NEW k \in rcLocal[x][x] PROVE \E n \in rcShared[x] : n.ctx = k
    <3>1. [by |-> x, ctx |-> k, tx |-> x] \in rcShared[x] /\ [by |-> x, ctx |-> k, tx |-> x].ctx = k
      BY <2>1
    <3> QED  BY <3>1
  <2>4. S \subseteq {[by |-> x, ctx |-> k, tx |-> x] : k \in K}
    BY <1>0, <2>1, <2>2
  <2>5. ASSUME NEW k \in K PROVE [by |-> x, ctx |-> k, tx |-> x] \in S
    <3>1. PICK j \in rcLocal[x][x] : k = lput(j)
      BY <1>0, <2>1, <2>5
    <3>2. PICK n \in rcShared[x] : n.ctx = j
      BY <2>3
    <3>3. [by |-> x, ctx |-> k, tx |-> x] = sput(n)
      BY <2>2, <3>1, <3>2
    <3> QED  BY <1>0, <3>3
  <2> QED  BY <2>4, <2>5
<1>10. TableOf(x, K, S, rcTold', rcForeign', rcUp[x])
  BY <1>5, <1>7, <1>8, <1>9 DEF TableOf
<1>11. \A y \in RcIds, d \in RcClients : y # x => (y \in rcTold[d] => y \in rcTold'[d])
  BY <1>6
<1> QED  BY <1>4, <1>5, <1>6, <1>10, <1>11, ContextRequestStep

LEMMA SwitchContextStep ==
  ASSUME RecordInv, NEW c \in RcClients, NEW x \in RcIds, EnableContext(c, x) \/ DisableContext(c, x)
  PROVE  RecordInv'
<1>0. rcShared[x] \subseteq RcEntries /\ x \in DOMAIN rcShared
  BY DEF RecordInv, RcShape, Whole
<1>1. CASE EnableContext(c, x)
  <2> DEFINE on == TRUE
             L == {Turned(k, on) : k \in rcLocal[c][x]}
             S == {EntryTurned(n, on, c) : n \in rcShared[x]}
             T == {EntryEnabled(n, c) : n \in rcShared[x]}
             m == 5
             a == {RcElement("reply", 5)}
  <2>1. \A n \in rcShared[x] : EntryEnabled(n, c) = EntryTurned(n, on, c)
    BY DEF EntryEnabled, EntryTurned
  <2>2. S = T
    BY <2>1
  <2>3. RecordRequest(c, m, a, LocalPut(c, x, L), [rcShared EXCEPT ![x] = T])
    BY <1>1 DEF EnableContext, Turned
  <2>4. rcTold' = (IF on THEN [rcTold EXCEPT ![c] = @ \cup {x}] ELSE rcTold) /\ Noted(c, x)
    BY <1>1 DEF EnableContext
  <2> HIDE DEF m, a, T
  <2>5. RecordRequest(c, m, a, LocalPut(c, x, L), [rcShared EXCEPT ![x] = S])
    BY <2>2, <2>3
  <2>6. on \in BOOLEAN
    OBVIOUS
  <2> HIDE DEF on
  <2> QED  BY <2>4, <2>5, <2>6, SwitchStep
<1>2. CASE DisableContext(c, x)
  <2> DEFINE on == FALSE
             L == {Turned(k, on) : k \in rcLocal[c][x]}
             S == {EntryTurned(n, on, c) : n \in rcShared[x]}
             T == {[n EXCEPT !.ctx.on = FALSE] : n \in rcShared[x]}
             m == 6
             a == {RcElement("reply", 6)}
  <2>1. \A n \in rcShared[x] : [n EXCEPT !.ctx.on = FALSE] = EntryTurned(n, on, c)
    BY <1>0 DEF RcEntries, RcContexts, EntryTurned
  <2>2. S = T
    BY <2>1
  <2>3. RecordRequest(c, m, a, LocalPut(c, x, L), [rcShared EXCEPT ![x] = T])
    BY <1>2 DEF DisableContext, Turned
  <2>4. rcTold' = (IF on THEN [rcTold EXCEPT ![c] = @ \cup {x}] ELSE rcTold) /\ Noted(c, x)
    BY <1>2 DEF DisableContext
  <2> HIDE DEF m, a, T
  <2>5. RecordRequest(c, m, a, LocalPut(c, x, L), [rcShared EXCEPT ![x] = S])
    BY <2>2, <2>3
  <2>6. on \in BOOLEAN
    OBVIOUS
  <2> HIDE DEF on
  <2> QED  BY <2>4, <2>5, <2>6, SwitchStep
<1> QED  BY <1>1, <1>2

LEMMA FreeContextStep ==
  ASSUME RecordInv, NEW c \in RcClients, NEW x \in RcIds, FreeContext(c, x)
  PROVE  RecordInv'
<1> DEFINE e == {}
           m == 7
           K == IF c = x THEN e ELSE rcLocal[x][x]
<1>1. RecordRequest(c, m, e, LocalPut(c, x, e), [rcShared EXCEPT ![x] = e])
  BY DEF FreeContext
<1>2. /\ rcTold' \in [RcClients -> SUBSET RcIds] /\ rcForeign' \subseteq RcIds
      /\ \A y \in RcIds : y # x => (y \in rcForeign => y \in rcForeign')
      /\ \A y \in RcIds, d \in RcClients : y # x => (y \in rcTold[d] => y \in rcTold'[d])
      /\ (x \notin rcForeign' => c = x)
  BY DEF RecordInv, RcShape, Whole, Noted, FreeContext
<1>3. TableOf(x, rcLocal[x][x], rcShared[x], rcTold, rcForeign, rcUp[x])
  BY DEF RecordInv, RcTables
<1>4. TableOf(x, K, e, rcTold', rcForeign', rcUp[x])
  BY <1>2, <1>3 DEF TableOf, One
<1>5. e \subseteq RcContexts /\ e \subseteq RcEntries /\ (c # x => e = {})
  OBVIOUS
<1> HIDE DEF e, m
<1> QED  BY <1>1, <1>2, <1>4, <1>5, ContextRequestStep

LEMMA RecordStep == RecordInv /\ [RcNext]_rcVars => RecordInv'
<1> SUFFICES ASSUME RecordInv, [RcNext]_rcVars PROVE RecordInv'
  OBVIOUS
<1>1. CASE UNCHANGED rcVars
  BY <1>1 DEF rcVars, RecordInv, RcShape, Whole, RcTables, RcLives
<1>2. ASSUME NEW c \in RcClients,
             NotifyClientStarted(c) \/ Hangup(c, TRUE) \/ Hangup(c, FALSE) \/ Lost(c)
             \/ EndBatch(c) \/ ChannelRead(c)
      PROVE  RecordInv'
  <2>1. TRUE \in BOOLEAN /\ FALSE \in BOOLEAN
    OBVIOUS
  <2> QED  BY <1>2, <2>1, StartedStep, HangupStep, LostStep, OutputStep
<1>3. ASSUME NEW c \in RcClients, NEW e \in RcElements,
             RequestPasses(c, e) \/ ResponsePasses(c, e) \/ EventDelivered(c, e)
      PROVE  RecordInv'
  BY <1>3, HeardStep, EventDeliveredStep DEF RequestPasses, ResponsePasses
<1>4. ASSUME NEW c \in RcClients, NEW specs \in RcSpecs, NEW r \in RcRanges, CreateContext(c, specs, {r})
      PROVE  RecordInv'
  <2> DEFINE s == {r}
  <2>1. s \in SUBSET RcRanges /\ CreateContext(c, specs, s)
    BY <1>4
  <2> HIDE DEF s
  <2> QED  BY <2>1, CreateContextStep
<1>5. ASSUME NEW c \in RcClients, NEW x \in RcIds, NEW specs \in RcSpecs, UnregisterClients(c, x, specs)
      PROVE  RecordInv'
  <2> DEFINE s == {}
  <2>1. s \in SUBSET RcRanges
    OBVIOUS
  <2> HIDE DEF s
  <2> QED  BY <1>5, <2>1, RegisterStep
<1>6. ASSUME NEW c \in RcClients, NEW x \in RcIds, NEW specs \in RcSpecs, NEW r \in RcRanges,
             RegisterClients(c, x, specs, {r})
      PROVE  RecordInv'
  <2> DEFINE s == {r}
  <2>1. s \in SUBSET RcRanges /\ RegisterClients(c, x, specs, s)
    BY <1>6
  <2> HIDE DEF s
  <2> QED  BY <2>1, RegisterStep
<1>7. ASSUME NEW c \in RcClients, NEW x \in RcIds,
             EnableContext(c, x) \/ DisableContext(c, x) \/ FreeContext(c, x)
      PROVE  RecordInv'
  BY <1>7, SwitchContextStep, FreeContextStep
<1> QED  BY <1>1, <1>2, <1>3, <1>4, <1>5, <1>6, <1>7 DEF RcNext

LEMMA RecordInit == RcInit => RecordInv
<1> SUFFICES ASSUME RcInit PROVE RecordInv
  OBVIOUS
<1>1. RcShape
  BY RcAssumption DEF RcInit, RcShape, Whole
<1>2. RcTables
  BY DEF RcInit, RcTables, TableOf, One, RcIds
<1>3. RcLives
  <2>1. \A c \in RcClients : rcOut[c] = <<>> /\ rcPend[c] = <<>> /\ rcQueue[c] = <<>>
    BY DEF RcInit
  <2> QED  BY <2>1, NoMessages DEF RcLives, LifeOf
<1> QED  BY <1>1, <1>2, <1>3 DEF RecordInv

LEMMA OneCounts ==
  ASSUME NEW S, One(S) PROVE Cardinality(S) <= 1
<1>1. CASE S = {}
  BY <1>1, FS_EmptySet
<1>2. CASE S # {}
  <2>1. PICK a \in S : S = {a}
    BY <1>2 DEF One
  <2>2. Cardinality({a}) = 1
    BY FS_Singleton, Zenon
  <2> QED  BY <2>1, <2>2
<1> QED  BY <1>1, <1>2

LEMMA RecordSound == RecordInv => RcTypeOK /\ RecordingAnnounced /\ CopiesAgree /\ LifeBracketed
<1> SUFFICES ASSUME RecordInv PROVE RcTypeOK /\ RecordingAnnounced /\ CopiesAgree /\ LifeBracketed
  OBVIOUS
<1>1. ASSUME NEW c \in RcClients, NEW x \in RcIds
      PROVE  Cardinality(rcLocal[c][x]) <= 1 /\ Cardinality(rcShared[x]) <= 1
  BY LocalContexts, OneCounts
<1>2. rcQueue \in [RcClients -> Seq(RcMessages)] /\ rcPend \in [RcClients -> Seq(RcMessages)]
      /\ rcOut \in [RcClients -> Seq(RcMessages)]
  <2>1. \A c \in RcClients : /\ rcQueue[c] \in Seq(RcMessages) /\ rcPend[c] \in Seq(RcMessages)
                             /\ rcOut[c] \in Seq(RcMessages)
    BY DEF RecordInv, RcLives, LifeOf
  <2>2. \A f : Whole(f) /\ (\A c \in RcClients : f[c] \in Seq(RcMessages))
               => f \in [RcClients -> Seq(RcMessages)]
    BY DEF Whole
  <2> QED  BY <2>1, <2>2 DEF RecordInv, RcShape
<1>3. \A q \in {rcQueue, rcPend, rcOut} : q \in [RcClients -> Seq(RcMessages)]
  BY <1>2
<1>4. \A x \in RcIds : Cardinality(rcShared[x]) <= 1
  BY <1>1 DEF RcIds
<1>5. RcTypeOK
  BY <1>1, <1>3, <1>4 DEF RecordInv, RcShape, Whole, RcTypeOK
<1>6. RecordingAnnounced
  BY DEF RecordingAnnounced, RecordInv, RcTables, TableOf
<1>7. CopiesAgree
  BY DEF CopiesAgree, RecordInv, RcTables, TableOf, RcIds
<1>8. ASSUME NEW c \in RcClients PROVE Bracketed(rcOut[c] \o rcPend[c] \o rcQueue[c])
  <2> DEFINE o == rcOut[c]
             p == rcPend[c]
             q == rcQueue[c]
             u == o \o p
  <2>1. LifeOf(c, rcUp, o, p, q)
    BY DEF RecordInv, RcLives
  <2>2. LifeOf(c, rcUp, u, <<>>, q)
    BY <2>1, LifeFlush
  <2> HIDE DEF u, q
  <2>3. Bracketed(u \o q)
    BY <2>2, BracketedConcat DEF LifeOf
  <2> QED  BY <2>3 DEF u, q
<1>9. LifeBracketed
  BY <1>8 DEF LifeBracketed, Bracketed
<1> QED  BY <1>5, <1>6, <1>7, <1>9

-----------------------------------------------------------------------------
(***************************************************************************)
(* XGrabs: types.                                                          *)
(***************************************************************************)
GrabHeld(S) == S = {} \/ \E g \in Grabs : S = {g}

LEMMA GrabsTree == Rooted(GrParent, GrTop, GrWins, Cardinality(GrWins))
<1>1. Cardinality(GrWins) \in Nat
  BY GrAssumption, FS_CardinalityType
<1> QED  BY <1>1, GrAssumption DEF Rooted

LEMMA GrPathType ==
  ASSUME NEW w \in GrWins \cup {GrTop}
  PROVE  GrPath(w) \in Seq(GrWins \cup {GrTop})
<1> DEFINE A == GrWins \cup {GrTop}
           U == Upwards(GrParent, GrTop)
           N == Cardinality(GrWins)
           at == Iterate(U, w)
<1>1. U \in Maps(A) /\ N \in Nat
  BY GrabsTree, TreeUp DEF Rooted
<1>2. at[N] \in {GrTop} /\ at \in [Nat -> A]
  BY GrabsTree, ClimbEnds, ClimbType DEF Climb
<1>3. GrPath(w) = Walk(U, w, {GrTop}, N)
  BY DEF GrPath
<1>4. w \in A
  OBVIOUS
<1> DEFINE E == {GrTop}
<1> HIDE DEF A, U, N, E, at
<1>5. PICK n \in 0..N : Walk(U, w, E, N) = [i \in 1..(n+1) |-> Iterate(U, w)[i-1]]
  <2>1. N \in 0..N /\ Iterate(U, w)[N] \in E
    BY <1>1, <1>2 DEF at, E
  <2> QED  BY <1>1, <1>4, <2>1, WalkFacts
<1>6. \A i \in 1..(n+1) : Iterate(U, w)[i-1] \in A
  BY <1>1, <1>2 DEF at
<1>7. Walk(U, w, E, N) \in Seq(A)
  BY <1>1, <1>5, <1>6
<1> QED  BY <1>3, <1>7 DEF A, E

LEMMA HeadKept ==
  ASSUME NEW T, NEW s \in Seq(T), NEW S, Kept(s, S) # <<>>
  PROVE  Head(Kept(s, S)) \in S /\ Head(Kept(s, S)) \in T
<1> DEFINE q == Kept(s, S)
<1>1. q \in Seq(T)
  BY KeptType
<1>2. KeptOf(q, s, S)
  BY KeptParts
<1> HIDE DEF q
<1>3. q # <<>>
  BY DEF q
<1>4. 1 \in 1..Len(q) /\ Head(q) = q[1] /\ q[1] \in T
  BY <1>1, <1>3
<1>5. q[1] \in S
  BY <1>2, <1>4 DEF KeptOf
<1> QED  BY <1>4, <1>5 DEF q

LEMMA ActivatedType ==
  ASSUME GrTypeOK, NEW d \in Devices, NEW w \in GrWins, NEW code
  PROVE  Activated(d, w, code) = {} \/ \E p \in PassiveGrabs : Activated(d, w, code) = {p}
<1> DEFINE s == grPassive[d]
           mine(v) == {p \in PassiveGrabs : p.win = v /\ p.code \in {0, code}}
           H == {v \in GrWins \cup {GrTop} : Kept(s, mine(v)) # <<>>}
           path == GrPath(w)
           A == GrWins \cup {GrTop}
<1>1. Activated(d, w, code) = IF Kept(path, H) = <<>> THEN {} ELSE {Head(Kept(s, mine(Head(Kept(path, H)))))}
  BY DEF Activated
<1>2. s \in Seq(PassiveGrabs)
  BY DEF GrTypeOK
<1>3. path \in Seq(A)
  BY GrPathType
<1> HIDE DEF path, s
<1>4. CASE Kept(path, H) = <<>>
  BY <1>1, <1>4
<1>5. CASE Kept(path, H) # <<>>
  <2> DEFINE v == Head(Kept(path, H))
  <2>1. v \in H
    <3> HIDE DEF H, A
    <3> QED  BY <1>3, <1>5, HeadKept
  <2> DEFINE M == mine(v)
  <2>2. Kept(s, M) # <<>>
    BY <2>1
  <2>3. Activated(d, w, code) = {Head(Kept(s, M))}
    BY <1>1, <1>5
  <2> HIDE DEF M, v
  <2>4. Head(Kept(s, M)) \in PassiveGrabs
    BY <1>2, <2>2, HeadKept
  <2> QED  BY <2>3, <2>4
<1> QED  BY <1>4, <1>5

LEMMA GrTypeInit == GrInit => GrTypeOK
<1> SUFFICES ASSUME GrInit PROVE GrTypeOK
  OBVIOUS
<1>0. GrMaxEvents \in Nat /\ GrQueue \in Nat /\ GrMaxPassive \in Nat
  BY GrAssumption
<1>1. <<>> \in Seq(PassiveGrabs) /\ Len(<<>>) = 0
  OBVIOUS
<1> QED  BY <1>0, <1>1 DEF GrInit, GrTypeOK

(* What Deliver does to the flags and the queue of a device. *)
LEMMA DeliverTypes ==
  ASSUME GrTypeOK, GrOnce, NEW d \in Devices, NEW e, NEW frozen \in [Devices -> BOOLEAN],
         Deliver(d, e, frozen)
  PROVE  /\ grFrozen' \in [Devices -> BOOLEAN] /\ grStep' \in [Devices -> BOOLEAN]
         /\ \A x \in Devices : Len(grQueue'[x]) <= GrQueue
<1>0. GrQueue \in Nat /\ GrQueue > 0
  BY GrAssumption
<1>1. grStep \in [Devices -> BOOLEAN] /\ grQueue \in [Devices -> Seq(Nat)]
      /\ \A x \in Devices : Len(grQueue[x]) <= GrQueue
  BY DEF GrTypeOK, GrOnce
<1>2. CASE frozen[d]
  <2> DEFINE q == grQueue[d]
             r == IF Len(q) >= GrQueue THEN Tail(q) ELSE q
  <2>1. grFrozen' = frozen /\ grStep' = grStep /\ grQueue' = [grQueue EXCEPT ![d] = Append(r, e)]
    BY <1>2 DEF Deliver
  <2>2. q \in Seq(Nat) /\ Len(q) \in Nat /\ Len(q) <= GrQueue
    BY <1>1
  <2>3. Len(r) \in Nat /\ Len(r) < GrQueue
    <3>1. CASE Len(q) >= GrQueue
      <4>1. q # <<>>
        BY <1>0, <2>2, <3>1
      <4>2. Len(Tail(q)) = Len(q) - 1
        BY <2>2, <4>1, HeadTailProperties
      <4> QED  BY <1>0, <2>2, <3>1, <4>2
    <3>2. CASE ~(Len(q) >= GrQueue)
      BY <1>0, <2>2, <3>2
    <3> QED  BY <3>1, <3>2
  <2>4. Len(Append(r, e)) = Len(r) + 1
    <3>1. r \in Seq(Nat)
      <4>1. CASE Len(q) >= GrQueue
        <5>1. q # <<>>
          BY <1>0, <2>2, <4>1
        <5> QED  BY <2>2, <4>1, <5>1, HeadTailProperties
      <4>2. CASE ~(Len(q) >= GrQueue)
        BY <2>2, <4>2
      <4> QED  BY <4>1, <4>2
    <3>2. r \in Seq(Nat \cup {e})
      BY <3>1, SeqMonotonic
    <3> HIDE DEF r
    <3> QED  BY <3>2, AppendProperties
  <2> HIDE DEF r
  <2>5. \A x \in Devices : grQueue'[x] = IF x = d THEN Append(r, e) ELSE grQueue[x]
    BY <1>1, <2>1
  <2> QED  BY <1>0, <1>1, <2>1, <2>3, <2>4, <2>5
<1>3. CASE ~frozen[d]
  <2>1. /\ grFrozen' = [frozen EXCEPT ![d] = grStep[d]] /\ grStep' = [grStep EXCEPT ![d] = FALSE]
        /\ grQueue' = grQueue
    BY <1>3 DEF Deliver, DeliverNow
  <2> QED  BY <1>1, <2>1
<1> QED  BY <1>2, <1>3

LEMMA ArrivesType ==
  ASSUME GrTypeOK, Arrives PROVE grCount' \in 0..GrMaxEvents
BY GrAssumption DEF GrTypeOK, Arrives

LEMMA GrGrabTypes ==
  ASSUME GrTypeOK, NEW d \in Devices, NEW w, NEW g \in Grabs, NEW late, ActiveGrab(d, w, g, late)
  PROVE  GrTypeOK'
<1>1. /\ grGrab' = [grGrab EXCEPT ![d] = {g}]
      /\ grFrozen' = [grFrozen EXCEPT ![d] = g.own = "Sync", ![Other(d)] = @ \/ g.other = "Sync"]
      /\ UNCHANGED <<grPassive, grStep, grQueue, grCount>>
  BY DEF ActiveGrab
<1>2. grGrab' \in [Devices -> SUBSET Grabs] /\ \A x \in Devices : GrabHeld(grGrab'[x])
  BY <1>1 DEF GrTypeOK, GrabHeld
<1>3. grFrozen' \in [Devices -> BOOLEAN]
  <2> DEFINE f == [grFrozen EXCEPT ![d] = g.own = "Sync"]
             b == grFrozen[Other(d)] \/ g.other = "Sync"
  <2>1. f \in [Devices -> BOOLEAN] /\ Other(d) \in Devices
    BY DEF GrTypeOK, Devices, Other
  <2>2. grFrozen' = [f EXCEPT ![Other(d)] = b]
    BY <1>1
  <2> HIDE DEF f
  <2>3. b \in BOOLEAN
    BY <2>1
  <2> HIDE DEF b
  <2> QED  BY <2>1, <2>2, <2>3
<1> QED  BY <1>1, <1>2, <1>3 DEF GrTypeOK, GrabHeld

LEMMA GrPassiveTypes ==
  ASSUME GrTypeOK, NEW d \in Devices,
         \/ \E p \in GrPassives : AddPassive(d, p)
         \/ \E w, code, mods : RemovePassive(d, w, code, mods)
  PROVE  GrTypeOK'
<1>0. grPassive \in [Devices -> Seq(PassiveGrabs)] /\ \A x \in Devices : Len(grPassive[x]) <= GrMaxPassive
  BY DEF GrTypeOK
<1>1. ASSUME NEW p \in GrPassives, AddPassive(d, p) PROVE GrTypeOK'
  <2> DEFINE S == {q \in PassiveGrabs : ~SamePassive(q, p.win, p.code, p.mods)}
             k == Kept(grPassive[d], S)
  <2>1. k \in Seq(PassiveGrabs) /\ <<p>> \in Seq(PassiveGrabs)
    <3>1. p \in PassiveGrabs
      BY GrAssumption
    <3> HIDE DEF S
    <3> QED  BY <1>0, <3>1, KeptType
  <2>2. grPassive' = [grPassive EXCEPT ![d] = <<p>> \o k] /\ Len(grPassive'[d]) <= GrMaxPassive
        /\ UNCHANGED <<grGrab, grFrozen, grStep, grQueue, grCount>>
    BY <1>1 DEF AddPassive
  <2> HIDE DEF k
  <2>3. <<p>> \o k \in Seq(PassiveGrabs)
    BY <2>1, ConcatProperties
  <2>4. grPassive' \in [Devices -> Seq(PassiveGrabs)] /\ \A x \in Devices : Len(grPassive'[x]) <= GrMaxPassive
    <3> DEFINE t == <<p>> \o k
    <3> HIDE DEF t
    <3>1. t \in Seq(PassiveGrabs) /\ grPassive' = [grPassive EXCEPT ![d] = t]
      BY <2>2, <2>3 DEF t
    <3> QED  BY <1>0, <2>2, <3>1
  <2> QED  BY <2>2, <2>4 DEF GrTypeOK
<1>2. ASSUME NEW w, NEW code, NEW mods, RemovePassive(d, w, code, mods) PROVE GrTypeOK'
  <2> DEFINE S == {q \in PassiveGrabs :
                      IF code = 0 /\ mods = AnyMod THEN q.win # w ELSE ~SamePassive(q, w, code, mods)}
             k == Kept(grPassive[d], S)
  <2>1. k \in Seq(PassiveGrabs) /\ Len(k) <= Len(grPassive[d])
    <3> HIDE DEF S
    <3>1. KeptOf(k, grPassive[d], S)
      BY <1>0, KeptParts
    <3> QED  BY <1>0, <3>1, KeptType DEF KeptOf
  <2>2. grPassive' = [grPassive EXCEPT ![d] = k] /\ UNCHANGED <<grGrab, grFrozen, grStep, grQueue, grCount>>
    BY <1>2 DEF RemovePassive
  <2> HIDE DEF k
  <2>3. Len(k) \in Nat /\ Len(grPassive[d]) \in Nat /\ Len(k) <= GrMaxPassive
    BY <1>0, <2>1, GrAssumption
  <2>4. grPassive' \in [Devices -> Seq(PassiveGrabs)] /\ \A x \in Devices : Len(grPassive'[x]) <= GrMaxPassive
    BY <1>0, <2>1, <2>2, <2>3
  <2> QED  BY <2>2, <2>4 DEF GrTypeOK
<1> QED  BY <1>1, <1>2

LEMMA GrThawTypes ==
  ASSUME GrTypeOK, GrOnce,
         UngrabPointer \/ UngrabKeyboard \/ \E mode \in AllowModes : AllowEvents(mode)
  PROVE  GrTypeOK'
<1>0. /\ grGrab \in [Devices -> SUBSET Grabs] /\ \A x \in Devices : GrabHeld(grGrab[x])
      /\ grFrozen \in [Devices -> BOOLEAN] /\ grStep \in [Devices -> BOOLEAN]
      /\ \A x \in Devices : Len(grQueue[x]) <= GrQueue
      /\ grQueue \in [Devices -> Seq(Nat)] /\ Len(<<>>) = 0 /\ GrQueue \in Nat
  BY GrAssumption DEF GrTypeOK, GrabHeld, GrOnce
<1>1. UNCHANGED <<grPassive, grCount>>
  BY DEF UngrabPointer, UngrabKeyboard, AllowEvents
<1>2. CASE UngrabPointer
  <2>1. /\ grGrab' = [grGrab EXCEPT !["pointer"] = {}] /\ grFrozen' = [grFrozen EXCEPT !["pointer"] = FALSE]
        /\ grQueue' = [grQueue EXCEPT !["pointer"] = <<>>] /\ grStep' = grStep
    BY <1>2 DEF UngrabPointer
  <2>2. \A x \in Devices : Len(grQueue'[x]) <= GrQueue
    BY <1>0, <2>1
  <2>3. grGrab' \in [Devices -> SUBSET Grabs] /\ \A x \in Devices : GrabHeld(grGrab'[x])
    BY <1>0, <2>1 DEF GrabHeld
  <2>4. grFrozen' \in [Devices -> BOOLEAN] /\ grStep' \in [Devices -> BOOLEAN]
    BY <1>0, <2>1
  <2> QED  BY <1>1, <2>2, <2>3, <2>4 DEF GrTypeOK, GrabHeld
<1>3. CASE UngrabKeyboard
  <2> DEFINE both == grGrab["pointer"] = {} /\ \E g \in grGrab["keyboard"] : g.other = "Sync"
             D == {d \in Devices : d = "keyboard" \/ both}
  <2>1. /\ grGrab' = [grGrab EXCEPT !["keyboard"] = {}]
        /\ grFrozen' = [d \in Devices |-> grFrozen[d] /\ d \notin D]
        /\ grStep' = [d \in Devices |-> grStep[d] /\ d \notin D]
        /\ grQueue' = [d \in Devices |-> IF d \in D THEN <<>> ELSE grQueue[d]]
    BY <1>3 DEF UngrabKeyboard
  <2> HIDE DEF D
  <2>2. \A x \in Devices : Len(grQueue'[x]) <= GrQueue
    BY <1>0, <2>1
  <2>3. grGrab' \in [Devices -> SUBSET Grabs] /\ \A x \in Devices : GrabHeld(grGrab'[x])
    BY <1>0, <2>1 DEF GrabHeld
  <2>4. grFrozen' \in [Devices -> BOOLEAN] /\ grStep' \in [Devices -> BOOLEAN]
    BY <2>1
  <2> QED  BY <1>1, <2>2, <2>3, <2>4 DEF GrTypeOK, GrabHeld
<1>4. ASSUME NEW mode \in AllowModes, AllowEvents(mode) PROVE GrTypeOK'
  <2>0. mode.step \in BOOLEAN
    <3> DEFINE A == [devs : (SUBSET Devices) \ {{}}, step : BOOLEAN, replay : {FALSE}]
               B == {[devs |-> {d}, step |-> FALSE, replay |-> TRUE] : d \in Devices}
    <3>1. mode \in A \/ mode \in B
      BY Zenon DEF AllowModes
    <3>2. CASE mode \in A
      BY <3>2
    <3>3. CASE mode \in B
      <4>1. PICK d \in Devices : mode = [devs |-> {d}, step |-> FALSE, replay |-> TRUE]
        BY <3>3, Zenon
      <4>2. mode.step = FALSE
        BY <4>1
      <4> QED  BY <4>2
    <3> QED  BY <3>1, <3>2, <3>3
  <2>1. /\ grFrozen' = [d \in Devices |-> grFrozen[d] /\ d \notin mode.devs]
        /\ grStep' = [d \in Devices |-> IF d \in mode.devs THEN mode.step ELSE grStep[d]]
        /\ grGrab' = [d \in Devices |-> IF d \in mode.devs /\ mode.replay THEN {} ELSE grGrab[d]]
        /\ grQueue' = [d \in Devices |-> IF d \in mode.devs THEN <<>> ELSE grQueue[d]]
    BY <1>4 DEF AllowEvents
  <2>2. \A x \in Devices : Len(grQueue'[x]) <= GrQueue
    BY <1>0, <2>1
  <2>3. grGrab' \in [Devices -> SUBSET Grabs] /\ \A x \in Devices : GrabHeld(grGrab'[x])
    BY <1>0, <2>1 DEF GrabHeld
  <2>4. grFrozen' \in [Devices -> BOOLEAN] /\ grStep' \in [Devices -> BOOLEAN]
    BY <1>0, <2>0, <2>1
  <2> QED  BY <1>1, <2>2, <2>3, <2>4 DEF GrTypeOK, GrabHeld
<1> QED  BY <1>2, <1>3, <1>4

LEMMA GrInputTypes ==
  ASSUME GrTypeOK, GrOnce,
         \/ \E d \in Devices, w \in GrWins, code \in {1, 2} : Press(d, w, code)
         \/ \E held \in BOOLEAN : ButtonRelease(held)
         \/ \E d \in Devices : Moved(d)
  PROVE  GrTypeOK'
<1>0. /\ grGrab \in [Devices -> SUBSET Grabs] /\ \A x \in Devices : GrabHeld(grGrab[x])
      /\ grFrozen \in [Devices -> BOOLEAN] /\ grStep \in [Devices -> BOOLEAN]
      /\ \A x \in Devices : Len(grQueue[x]) <= GrQueue
      /\ grQueue \in [Devices -> Seq(Nat)] /\ Len(<<>>) = 0 /\ GrQueue \in Nat
  BY GrAssumption DEF GrTypeOK, GrabHeld, GrOnce
<1>1. ASSUME NEW d \in Devices, NEW w \in GrWins, NEW code \in {1, 2}, Press(d, w, code) PROVE GrTypeOK'
  <2> DEFINE act == Activated(d, w, code)
             frozen == [x \in Devices |-> grFrozen[x] \/ \E p \in act :
                             (IF x = d THEN p.own ELSE p.other) = "Sync"]
             G == {ActivePart(p) : p \in act}
  <2>1. /\ Arrives /\ Deliver(d, grCount', frozen) /\ UNCHANGED grPassive
        /\ grGrab' = IF act = {} THEN grGrab ELSE [grGrab EXCEPT ![d] = G]
    BY <1>1 DEF Press
  <2>2. act = {} \/ \E p \in PassiveGrabs : act = {p}
    BY ActivatedType
  <2>3. frozen \in [Devices -> BOOLEAN]
    OBVIOUS
  <2>4. GrabHeld(G) /\ G \subseteq Grabs
    <3> HIDE DEF act
    <3>1. \A p \in PassiveGrabs : ActivePart(p) \in Grabs
      BY DEF ActivePart, PassiveGrabs, Grabs
    <3> QED  BY <2>2, <3>1 DEF GrabHeld
  <2> HIDE DEF frozen, G, act
  <2>5. grGrab' \in [Devices -> SUBSET Grabs] /\ \A x \in Devices : GrabHeld(grGrab'[x])
    BY <1>0, <2>1, <2>4
  <2>6. /\ grFrozen' \in [Devices -> BOOLEAN] /\ grStep' \in [Devices -> BOOLEAN]
        /\ \A x \in Devices : Len(grQueue'[x]) <= GrQueue
    BY <2>1, <2>3, DeliverTypes
  <2> QED  BY <2>1, <2>5, <2>6, ArrivesType DEF GrTypeOK, GrabHeld
<1>2. ASSUME NEW d \in Devices, Moved(d) PROVE GrTypeOK'
  <2>1. Arrives /\ Deliver(d, grCount', grFrozen) /\ UNCHANGED <<grGrab, grPassive>>
    BY <1>2 DEF Moved
  <2>2. /\ grFrozen' \in [Devices -> BOOLEAN] /\ grStep' \in [Devices -> BOOLEAN]
        /\ \A x \in Devices : Len(grQueue'[x]) <= GrQueue
    BY <1>0, <2>1, DeliverTypes
  <2> QED  BY <2>1, <2>2, ArrivesType DEF GrTypeOK
<1>3. ASSUME NEW held \in BOOLEAN, ButtonRelease(held) PROVE GrTypeOK'
  <2>1. CASE ~AutoUngrab(held)
    <3>1. Arrives /\ Deliver("pointer", grCount', grFrozen) /\ UNCHANGED <<grGrab, grPassive>>
      BY <1>3, <2>1 DEF ButtonRelease
    <3>2. /\ grFrozen' \in [Devices -> BOOLEAN] /\ grStep' \in [Devices -> BOOLEAN]
          /\ \A x \in Devices : Len(grQueue'[x]) <= GrQueue
      <4>1. "pointer" \in Devices
        BY DEF Devices
      <4> QED  BY <1>0, <3>1, <4>1, DeliverTypes
    <3> QED  BY <3>1, <3>2, ArrivesType DEF GrTypeOK
  <2>2. CASE AutoUngrab(held)
    <3> DEFINE f == [grFrozen EXCEPT !["pointer"] = FALSE]
               s == [grStep EXCEPT !["pointer"] = FALSE]
    <3>1. /\ Arrives /\ UNCHANGED grPassive /\ grGrab' = [grGrab EXCEPT !["pointer"] = {}]
          /\ grFrozen' = [f EXCEPT !["pointer"] = s["pointer"]] /\ grStep' = [s EXCEPT !["pointer"] = FALSE]
          /\ grQueue' = [grQueue EXCEPT !["pointer"] = <<>>]
      BY <1>3, <2>2 DEF ButtonRelease, DeliverNow
    <3>2. f \in [Devices -> BOOLEAN] /\ s \in [Devices -> BOOLEAN] /\ "pointer" \in Devices
      BY <1>0 DEF Devices
    <3> HIDE DEF f, s
    <3>3. grFrozen' \in [Devices -> BOOLEAN] /\ grStep' \in [Devices -> BOOLEAN]
      BY <3>1, <3>2
    <3>4. \A x \in Devices : Len(grQueue'[x]) <= GrQueue
      BY <1>0, <3>1
    <3>5. grGrab' \in [Devices -> SUBSET Grabs] /\ \A x \in Devices : GrabHeld(grGrab'[x])
      BY <1>0, <3>1 DEF GrabHeld
    <3> QED  BY <3>1, <3>3, <3>4, <3>5, ArrivesType DEF GrTypeOK, GrabHeld
  <2> QED  BY <2>1, <2>2
<1> QED  BY <1>1, <1>2, <1>3

GrabsInv == GrTypeOK /\ GrOnce

LEMMA GrabsInit == GrInit => GrabsInv
<1> SUFFICES ASSUME GrInit PROVE GrabsInv
  OBVIOUS
<1>1. <<>> \in Seq(Nat) /\ ToSet(<<>>) = {} /\ IsInjective(<<>>) /\ 1..0 = {}
  BY DEF ToSet, IsInjective
<1>2. Shared(<<>>, <<>>, <<>>, {}, 0)
  BY <1>1 DEF Shared
<1>3. GrOnce
  BY <1>1, <1>2 DEF GrInit, GrOnce, Devices
<1> QED  BY <1>3, GrTypeInit DEF GrabsInv

LEMMA GrabsStep == GrabsInv /\ [GrNext]_grVars => GrabsInv'
<1> SUFFICES ASSUME GrabsInv, [GrNext]_grVars PROVE GrabsInv'
  OBVIOUS
<1>0. GrTypeOK /\ GrOnce
  BY DEF GrabsInv
<1>1. CASE UNCHANGED grVars
  <2>1. GrTypeOK'
    BY <1>0, <1>1 DEF GrTypeOK, grVars
  <2> QED  BY <1>0, <1>1, <2>1, GrQuiet DEF grVars, GrabsInv
<1>2. CASE GrNext
  <2>1. GrOnce'
    BY <1>0, <1>2, GrGrabStep, GrThawStep, GrInputStep DEF GrNext
  <2>2. GrTypeOK'
    <3>0. "pointer" \in Devices /\ "keyboard" \in Devices
      BY DEF Devices
    <3>1. ASSUME NEW w \in GrWins \cup {GrTop}, NEW g \in Grabs, NEW late \in BOOLEAN,
                 GrabPointer(w, g, late) \/ GrabKeyboard(w, g, late)
          PROVE  GrTypeOK'
      BY <1>0, <3>0, <3>1, GrGrabTypes DEF GrabPointer, GrabKeyboard
    <3>2. ASSUME NEW p \in GrPassives, GrabButton(p) \/ GrabKey(p) PROVE GrTypeOK'
      BY <1>0, <3>0, <3>2, GrPassiveTypes DEF GrabButton, GrabKey
    <3>3. ASSUME NEW w \in GrWins \cup {GrTop}, NEW code \in {0, 1}, NEW mods \in GrMods,
                 UngrabButton(w, code, mods) \/ UngrabKey(w, code, mods)
          PROVE  GrTypeOK'
      BY <1>0, <3>0, <3>3, GrPassiveTypes DEF UngrabButton, UngrabKey
    <3> QED  BY <1>0, <1>2, <3>1, <3>2, <3>3, GrThawTypes, GrInputTypes DEF GrNext
  <2> QED  BY <2>1, <2>2 DEF GrabsInv
<1> QED  BY <1>1, <1>2

-----------------------------------------------------------------------------
(***************************************************************************)
(* XPointer.  A finite set of points has a least and a greatest one.       *)
(***************************************************************************)
Ended(S) == /\ \E x \in S : \A y \in S : x <= y
            /\ \E x \in S : \A y \in S : x >= y

LEMMA FiniteEnds ==
  ASSUME NEW S, S \subseteq Int, S # {}, IsFiniteSet(S)
  PROVE  Ended(S)
<1> DEFINE T == {n \in Nat : \A R \in SUBSET Int : IsFiniteSet(R) /\ Cardinality(R) = n /\ R # {} => Ended(R)}
<1>1. 0 \in T
  BY FS_EmptySet
<1>2. ASSUME NEW n \in Nat, n \in T PROVE n + 1 \in T
  <2> SUFFICES ASSUME NEW R \in SUBSET Int, IsFiniteSet(R), Cardinality(R) = n + 1, R # {}
               PROVE  Ended(R)
    OBVIOUS
  <2>1. PICK x \in R : TRUE
    OBVIOUS
  <2> DEFINE Q == R \ {x}
  <2>2. IsFiniteSet(Q) /\ Cardinality(Q) = n /\ Q \in SUBSET Int
    <3>1. IsFiniteSet(R \ {x}) /\ Cardinality(R \ {x}) = IF x \in R THEN Cardinality(R) - 1 ELSE Cardinality(R)
      BY FS_RemoveElement, Zenon
    <3> QED  BY <2>1, <3>1
  <2>3. x \in Int /\ R = Q \cup {x}
    BY <2>1
  <2> HIDE DEF Q
  <2>4. CASE Q = {}
    BY <2>3, <2>4 DEF Ended
  <2>5. CASE Q # {}
    <3>1. Ended(Q)
      BY <1>2, <2>2, <2>5
    <3>2. PICK a \in Q : \A y \in Q : a <= y
      BY <3>1 DEF Ended
    <3>3. PICK z \in Q : \A y \in Q : z >= y
      BY <3>1 DEF Ended
    <3>4. \E l \in R : \A y \in R : l <= y
      <4>1. CASE x <= a
        BY <2>2, <2>3, <3>2, <4>1
      <4>2. CASE ~(x <= a)
        BY <2>2, <2>3, <3>2, <4>2
      <4> QED  BY <4>1, <4>2
    <3>5. \E l \in R : \A y \in R : l >= y
      <4>1. CASE x >= z
        BY <2>2, <2>3, <3>3, <4>1
      <4>2. CASE ~(x >= z)
        BY <2>2, <2>3, <3>3, <4>2
      <4> QED  BY <4>1, <4>2
    <3> QED  BY <3>4, <3>5 DEF Ended
  <2> QED  BY <2>4, <2>5
<1>3. Cardinality(S) \in Nat
  BY FS_CardinalityType
<1> HIDE DEF T
<1>4. Cardinality(S) \in T
  BY <1>1, <1>2, <1>3, NumInduction
<1> QED  BY <1>4 DEF T

LEMMA LoHi ==
  ASSUME NEW S, Ended(S)
  PROVE  /\ Lo(S) \in S /\ \A y \in S : Lo(S) <= y
         /\ Hi(S) \in S /\ \A y \in S : Hi(S) >= y
BY DEF Ended, Lo, Hi

(* Positions in a sequence. *)
LEMMA PlacesEnded ==
  ASSUME NEW n \in Nat, NEW P, P \subseteq 1..n, P # {}
  PROVE  Ended(P)
<1>1. P \subseteq Int /\ IsFiniteSet(P)
  <2>1. IsFiniteSet(1..n) BY FS_Interval
  <2>2. P \in SUBSET (1..n) OBVIOUS
  <2>3. IsFiniteSet(P) BY <2>1, <2>2, FS_Subset, Zenon
  <2> QED  BY <2>3
<1> QED  BY <1>1, FiniteEnds

(***************************************************************************)
(* The path to the root.                                                   *)
(***************************************************************************)
LEMMA PointerTree == Rooted(PtParent, PtRoot, PtWins, Len(PtStack))
<1>1. PtStack \in Seq(PtWins) /\ PtRoot \notin PtWins
      /\ PtParent \in [PtWins -> PtWins \cup {PtRoot}] /\ IsTree(PtParent, PtRoot, Len(PtStack))
  BY PtAssumption
<1>2. Len(PtStack) \in Nat
  BY <1>1
<1> QED  BY <1>1, <1>2 DEF Rooted

PtClimb(w) == Climb(PtParent, PtRoot, w)
Lineage(w) == {PtClimb(w)[j] : j \in Nat}

LEMMA PtClimbFacts ==
  ASSUME NEW w \in PtAll
  PROVE  /\ PtClimb(w) \in [Nat -> PtAll] /\ PtClimb(w)[0] = w
         /\ \A n \in Nat : /\ PtClimb(w)[n] = PtRoot => PtClimb(w)[n+1] = PtRoot
                           /\ PtClimb(w)[n] \in PtWins => PtClimb(w)[n+1] = PtParent[PtClimb(w)[n]]
         /\ PtClimb(w)[Len(PtStack)] = PtRoot
         /\ \A i, j \in Nat : i < j /\ PtClimb(w)[i] # PtRoot => PtClimb(w)[j] # PtClimb(w)[i]
         /\ \A i, j \in Nat : i <= j /\ PtClimb(w)[i] = PtRoot => PtClimb(w)[j] = PtRoot
<1> DEFINE p == PtParent
           r == PtRoot
           W == PtWins
           N == Len(PtStack)
<1>1. Rooted(p, r, W, N) /\ w \in W \cup {r}
  BY PointerTree DEF PtAll
<1> HIDE DEF p, r, W, N
<1>2. /\ Climb(p, r, w) \in [Nat -> W \cup {r}]
      /\ Climb(p, r, w)[0] = w
      /\ \A n \in Nat : /\ Climb(p, r, w)[n] = r => Climb(p, r, w)[n+1] = r
                        /\ Climb(p, r, w)[n] \in W => Climb(p, r, w)[n+1] = p[Climb(p, r, w)[n]]
  BY <1>1, ClimbType
<1>3. /\ Climb(p, r, w)[N] = r
      /\ \A i, j \in Nat : i < j /\ Climb(p, r, w)[i] # r => Climb(p, r, w)[j] # Climb(p, r, w)[i]
      /\ \A i, j \in Nat : i <= j /\ Climb(p, r, w)[i] = r => Climb(p, r, w)[j] = r
  BY <1>1, ClimbEnds
<1> QED  BY <1>2, <1>3, Zenon DEF p, r, W, N, PtClimb, PtAll

LEMMA PtClimbOn ==
  ASSUME NEW w \in PtAll, NEW i \in Nat, NEW y, PtClimb(w)[i] = y, NEW t \in Nat
  PROVE  PtClimb(y)[t] = PtClimb(w)[i + t]
<1> DEFINE p == PtParent
           r == PtRoot
           W == PtWins
           N == Len(PtStack)
<1>1. Rooted(p, r, W, N) /\ w \in W \cup {r} /\ Climb(p, r, w)[i] = y
  BY PointerTree DEF PtAll, PtClimb
<1> HIDE DEF p, r, W, N
<1>2. Climb(p, r, y)[t] = Climb(p, r, w)[i + t]
  BY <1>1, ClimbOn
<1> QED  BY <1>2 DEF p, r, PtClimb

(* The windows that exist have parents that exist. *)
Closed(live) == live \subseteq PtWins /\ \A v \in live : PtParent[v] \in live \cup {PtRoot}

LEMMA LineageAlive ==
  ASSUME NEW live, Closed(live), NEW w \in live \cup {PtRoot}
  PROVE  \A j \in Nat : PtClimb(w)[j] \in live \cup {PtRoot}
<1> DEFINE T == {j \in Nat : PtClimb(w)[j] \in live \cup {PtRoot}}
<1>1. w \in PtAll /\ live \subseteq PtWins
  BY DEF PtAll, Closed
<1>2. 0 \in T
  BY <1>1, PtClimbFacts
<1>3. ASSUME NEW j \in Nat, j \in T PROVE j + 1 \in T
  <2>1. PtClimb(w)[j] \in live \cup {PtRoot}
    BY <1>3
  <2>2. /\ PtClimb(w)[j] = PtRoot => PtClimb(w)[j+1] = PtRoot
        /\ PtClimb(w)[j] \in PtWins => PtClimb(w)[j+1] = PtParent[PtClimb(w)[j]]
    BY <1>1, PtClimbFacts
  <2>3. PtClimb(w)[j+1] \in live \cup {PtRoot}
    BY <1>1, <2>1, <2>2 DEF Closed
  <2> QED  BY <2>3
<1> HIDE DEF T
<1>4. Nat \subseteq T
  BY <1>2, <1>3, NumInduction
<1> QED  BY <1>4 DEF T

(* What the path of a window is, given the windows that exist. *)
IsPath(p, w, live) ==
  /\ p \in Seq(PtAll) /\ Len(p) >= 1
  /\ \A i \in 1..Len(p) : p[i] = PtClimb(w)[i-1]
  /\ \A i, j \in 1..Len(p) : i < j => p[i] # p[j]
  /\ w \in live \cup {PtRoot} => /\ p[Len(p)] = PtRoot
                                 /\ ToSet(p) = Lineage(w)
                                 /\ \A i \in 1..Len(p) : p[i] \in live \cup {PtRoot}
  /\ w \notin live \cup {PtRoot} => Len(p) = 1

LEMMA PathFacts ==
  ASSUME NEW w \in PtAll, Closed(ptLive)
  PROVE  IsPath(AncestorPath(w), w, ptLive)
<1> DEFINE U == PtUp
           N == Len(PtStack)
           E == {v \in PtAll : v = PtRoot \/ ~Known(v)}
           at == PtClimb(w)
           p == AncestorPath(w)
<1>1. U \in Maps(PtAll) /\ N \in Nat
  BY PointerTree, TreeUp DEF Rooted, PtUp, PtAll
<1>2. p = Walk(U, w, E, N) /\ at = Iterate(U, w)
  BY DEF AncestorPath, PtClimb, Climb, PtUp
<1>3. /\ at \in [Nat -> PtAll] /\ at[0] = w /\ at[N] = PtRoot
      /\ \A i, j \in Nat : i < j /\ at[i] # PtRoot => at[j] # at[i]
      /\ \A i, j \in Nat : i <= j /\ at[i] = PtRoot => at[j] = PtRoot
  BY PtClimbFacts
<1>4. at[N] \in E
  BY <1>3 DEF PtAll
<1>5. E = {v \in PtAll : v = PtRoot \/ v \notin ptLive \cup {PtRoot}}
  BY DEF Known
<1> HIDE DEF U, N, E, at, p
<1>6. PICK n \in 0..N : /\ Walk(U, w, E, N) = [i \in 1..(n+1) |-> Iterate(U, w)[i-1]]
                        /\ Iterate(U, w)[n] \in E
                        /\ \A j \in 0..N : Iterate(U, w)[j] \in E => n <= j
  <2>1. N \in 0..N /\ Iterate(U, w)[N] \in E BY <1>1, <1>2, <1>4
  <2> QED  BY <1>1, <2>1, WalkFacts
<1>7. /\ p = [i \in 1..(n+1) |-> at[i-1]] /\ at[n] \in E
      /\ \A j \in 0..N : at[j] \in E => n <= j
  BY <1>2, <1>6
<1>8. n \in Nat /\ n <= N
  BY <1>1, <1>6
<1>9. p \in Seq(PtAll) /\ Len(p) = n + 1 /\ \A i \in 1..(n+1) : p[i] = at[i-1]
  <2>1. \A i \in 1..(n+1) : i - 1 \in Nat /\ at[i-1] \in PtAll
    BY <1>3, <1>8
  <2> QED  BY <1>7, <1>8, <2>1
<1>10. ASSUME NEW i \in 1..(n+1), NEW j \in 1..(n+1), i < j PROVE p[i] # p[j]
  <2>1. i - 1 \in 0..N /\ ~(n <= i - 1) /\ j - 1 \in Nat /\ i - 1 \in Nat /\ i - 1 < j - 1
    BY <1>8, <1>10, <1>1
  <2>2. at[i-1] \notin E
    BY <1>7, <2>1
  <2>3. at[i-1] # PtRoot
    BY <2>2, <1>5 DEF PtAll
  <2> QED  BY <1>3, <1>9, <2>1, <2>3
<1>11. ASSUME w \in ptLive \cup {PtRoot}
       PROVE  /\ p[n+1] = PtRoot /\ ToSet(p) = Lineage(w)
              /\ \A i \in 1..(n+1) : p[i] \in ptLive \cup {PtRoot}
  <2>1. \A j \in Nat : at[j] \in ptLive \cup {PtRoot}
    BY <1>11, LineageAlive DEF at
  <2>2. at[n] = PtRoot
    BY <1>5, <1>7, <1>8, <2>1
  <2>3. p[n+1] = PtRoot
    BY <1>8, <1>9, <2>2
  <2>4. ASSUME NEW j \in Nat PROVE \E i \in 1..(n+1) : at[j] = p[i]
    <3>1. CASE j <= n
      <4>1. j + 1 \in 1..(n+1) /\ (j + 1) - 1 = j BY <1>8, <3>1
      <4> QED  BY <1>9, <4>1
    <3>2. CASE ~(j <= n)
      <4>1. at[j] = PtRoot BY <1>3, <1>8, <2>2, <3>2
      <4>2. n + 1 \in 1..(n+1) BY <1>8
      <4> QED  BY <2>3, <4>1, <4>2
    <3> QED  BY <3>1, <3>2
  <2>5. \A i \in 1..(n+1) : i - 1 \in Nat /\ p[i] = at[i-1]
    BY <1>8, <1>9
  <2>6. DOMAIN p = 1..(n+1)
    BY <1>7
  <2>7. ToSet(p) = Lineage(w)
    <3>1. \A x : x \in ToSet(p) <=> \E i \in 1..(n+1) : x = p[i]
      BY <2>6 DEF ToSet
    <3>2. \A x : x \in Lineage(w) <=> \E j \in Nat : x = at[j]
      BY DEF Lineage, at
    <3>3. \A x : x \in ToSet(p) <=> x \in Lineage(w)
      BY <2>4, <2>5, <3>1, <3>2
    <3> QED  BY <3>3
  <2> QED  BY <2>1, <2>3, <2>5, <2>7
<1>12. ASSUME w \notin ptLive \cup {PtRoot} PROVE n = 0
  <2>1. at[0] \in E BY <1>3, <1>5, <1>12
  <2> QED  BY <1>1, <1>7, <1>8, <2>1
<1>13. IsPath(p, w, ptLive)
  <2>1. Len(p) = n + 1 /\ Len(p) >= 1 /\ 1..Len(p) = 1..(n+1)
    BY <1>8, <1>9
  <2>2. \A i \in 1..Len(p) : p[i] = PtClimb(w)[i-1]
    BY <1>9, <2>1 DEF at
  <2> QED  BY <1>9, <1>10, <1>11, <1>12, <2>1, <2>2 DEF IsPath
<1> QED  BY <1>13 DEF p

(***************************************************************************)
(* Crossing events: what a list of them says.  Every window of E is        *)
(* entered, and only windows of L are left.                                *)
(***************************************************************************)
Crossings == {"Enter", "Leave", "LeaveInferior"} \X PtAll
Says(steps, E, L) ==
  /\ steps \in Seq(Crossings)
  /\ \A x \in E : <<"Enter", x>> \in ToSet(steps)
  /\ \A x : <<"Leave", x>> \in ToSet(steps) => x \in L

Entering(s) == [i \in DOMAIN s |-> <<"Enter", Reverse(s)[i]>>]
Leaving(s) == [i \in DOMAIN s |-> <<"Leave", s[i]>>]

LEMMA SaysConcat ==
  ASSUME NEW s, NEW t, NEW E, NEW F, NEW L, NEW M, Says(s, E, L), Says(t, F, M)
  PROVE  Says(s \o t, E \cup F, L \cup M)
<1>1. s \in Seq(Crossings) /\ t \in Seq(Crossings)
  BY DEF Says
<1>2. s \o t \in Seq(Crossings) /\ ToSet(s \o t) = ToSet(s) \cup ToSet(t)
  BY <1>1, ConcatSet
<1> QED  BY <1>2 DEF Says

LEMMA SaysOne ==
  ASSUME NEW x \in PtAll
  PROVE  /\ Says(<<<<"Enter", x>>>>, {x}, {})
         /\ Says(<<<<"Leave", x>>>>, {}, {x})
         /\ Says(<<<<"LeaveInferior", x>>>>, {}, {})
<1>1. ASSUME NEW m \in Crossings PROVE <<m>> \in Seq(Crossings) /\ ToSet(<<m>>) = {m}
  BY DEF ToSet
<1>2. \A k \in {"Enter", "Leave", "LeaveInferior"} :
         <<<<k, x>>>> \in Seq(Crossings) /\ ToSet(<<<<k, x>>>>) = {<<k, x>>}
  BY <1>1 DEF Crossings
<1> QED  BY <1>2 DEF Says

LEMMA SaysNothing == Says(<<>>, {}, {})
BY DEF Says, ToSet

LEMMA SaysEnters ==
  ASSUME NEW s \in Seq(PtAll)
  PROVE  Says(Entering(s), ToSet(s), {})
<1> DEFINE e == Entering(s)
<1>1. Len(s) \in Nat /\ DOMAIN s = 1..Len(s)
  OBVIOUS
<1>2. \A i \in 1..Len(s) : (Len(s) - i) + 1 \in 1..Len(s)
  BY <1>1
<1>3. \A i \in 1..Len(s) : e[i] = <<"Enter", s[(Len(s) - i) + 1]>>
  BY <1>1, <1>2 DEF Entering, Reverse
<1>4. e \in Seq(Crossings) /\ DOMAIN e = 1..Len(s)
  <2>1. e = [i \in 1..Len(s) |-> e[i]]
    BY <1>1 DEF Entering
  <2>2. \A i \in 1..Len(s) : e[i] \in Crossings
    <3>1. \A i \in 1..Len(s) : s[(Len(s) - i) + 1] \in PtAll
      BY <1>2
    <3>2. \A y \in PtAll : <<"Enter", y>> \in Crossings
      BY DEF Crossings
    <3> HIDE DEF e
    <3> QED  BY <1>3, <3>1, <3>2
  <2> QED  BY <1>1, <2>1, <2>2
<1>5. ASSUME NEW x \in ToSet(s) PROVE <<"Enter", x>> \in ToSet(e)
  <2>1. PICK i \in 1..Len(s) : x = s[i]
    BY <1>1, <1>5 DEF ToSet
  <2>2. (Len(s) - i) + 1 \in 1..Len(s) /\ (Len(s) - ((Len(s) - i) + 1)) + 1 = i
    BY <1>1, <2>1
  <2>3. e[(Len(s) - i) + 1] = <<"Enter", x>>
    BY <1>3, <2>1, <2>2
  <2> HIDE DEF e
  <2> QED  BY <1>4, <2>2, <2>3 DEF ToSet
<1> HIDE DEF e
<1>6. \A m \in ToSet(e) : m[1] = "Enter"
  BY <1>3, <1>4 DEF ToSet
<1>7. \A x : <<"Leave", x>> \notin ToSet(e)
  BY <1>6
<1>8. Says(e, ToSet(s), {})
  BY <1>4, <1>5, <1>7 DEF Says
<1> QED  BY <1>8 DEF e

LEMMA SaysLeaves ==
  ASSUME NEW s \in Seq(PtAll)
  PROVE  Says(Leaving(s), {}, ToSet(s))
<1> DEFINE e == Leaving(s)
<1>1. Len(s) \in Nat /\ DOMAIN s = 1..Len(s) /\ \A i \in 1..Len(s) : s[i] \in PtAll
  OBVIOUS
<1>2. e = [i \in 1..Len(s) |-> <<"Leave", s[i]>>]
  BY <1>1 DEF Leaving
<1> HIDE DEF e
<1>3. e \in Seq(Crossings)
  BY <1>1, <1>2 DEF Crossings
<1>4. \A m \in ToSet(e) : \E i \in 1..Len(s) : m = <<"Leave", s[i]>>
  BY <1>2 DEF ToSet
<1>5. \A x : <<"Leave", x>> \in ToSet(e) => \E i \in 1..Len(s) : x = s[i]
  BY <1>4
<1>6. \A x : <<"Leave", x>> \in ToSet(e) => x \in ToSet(s)
  BY <1>1, <1>5 DEF ToSet
<1>7. Says(e, {}, ToSet(s))
  BY <1>3, <1>6 DEF Says
<1> QED  BY <1>7 DEF e

LEMMA ToldRule ==
  ASSUME NEW inside, NEW steps, NEW E, NEW L, Says(steps, E, L),
         NEW w \in PtAll, w # PtRoot, w \in inside \/ w \in E, w \notin L, Known(w)
  PROVE  w \in Told(inside, steps)
<1> DEFINE about == {i \in DOMAIN steps : steps[i][1] \in {"Enter", "Leave"} /\ steps[i][2] = w}
<1>1. steps \in Seq(Crossings) /\ Len(steps) \in Nat /\ DOMAIN steps = 1..Len(steps)
  BY DEF Says
<1>2. about \subseteq 1..Len(steps)
  BY <1>1
<1>3. ASSUME NEW i \in about PROVE steps[i][1] = "Enter"
  <2>1. i \in DOMAIN steps /\ steps[i] \in Crossings /\ steps[i][1] \in {"Enter", "Leave"} /\ steps[i][2] = w
    BY <1>1, <1>3
  <2>2. steps[i] \in ToSet(steps)
    BY <2>1 DEF ToSet
  <2>3. steps[i] = <<steps[i][1], w>>
    BY <2>1 DEF Crossings
  <2>4. steps[i] # <<"Leave", w>>
    BY <2>2 DEF Says
  <2> QED  BY <2>1, <2>3, <2>4
<1>4. w \in E => about # {}
  <2> SUFFICES ASSUME w \in E PROVE about # {}
    OBVIOUS
  <2>1. <<"Enter", w>> \in ToSet(steps)
    BY DEF Says
  <2>2. PICK i \in DOMAIN steps : steps[i] = <<"Enter", w>>
    BY <2>1 DEF ToSet
  <2> QED  BY <2>2
<1>5. w \in Told(inside, steps) <=> (IF ~Known(w) \/ about = {} THEN w \in inside ELSE steps[Hi(about)][1] = "Enter")
  <2>1. w \in PtWins BY DEF PtAll
  <2> QED  BY <2>1, Zenon DEF Told
<1> HIDE DEF about
<1>6. CASE about = {}
  BY <1>4, <1>5, <1>6
<1>7. CASE about # {}
  <2>1. Ended(about)
    BY <1>1, <1>2, <1>7, PlacesEnded
  <2>2. Hi(about) \in about
    BY <2>1, LoHi
  <2> QED  BY <1>3, <1>5, <1>7, <2>2
<1> QED  BY <1>6, <1>7

(***************************************************************************)
(* A stretch of a path.                                                    *)
(***************************************************************************)
LEMMA IndexFacts ==
  ASSUME NEW T, NEW p \in Seq(T), NEW w \in ToSet(p)
  PROVE  /\ IndexIn(p, w) \in 1..Len(p) /\ p[IndexIn(p, w)] = w
         /\ \A j \in 1..Len(p) : p[j] = w => IndexIn(p, w) <= j
<1> DEFINE P == {i \in 1..Len(p) : p[i] = w}
<1>1. DOMAIN p = 1..Len(p) /\ Len(p) \in Nat
  OBVIOUS
<1>2. P # {} /\ P \subseteq Nat
  BY <1>1 DEF ToSet
<1> HIDE DEF P
<1>3. PICK i \in P : \A j \in P : i <= j
  BY <1>2, LeastOf
<1>4. i \in DOMAIN p /\ p[i] = w /\ \A j \in DOMAIN p : p[j] = w => i <= j
  BY <1>1, <1>3 DEF P
<1> QED  BY <1>1, <1>4 DEF IndexIn

LEMMA BetweenFacts ==
  ASSUME NEW T, NEW p \in Seq(T), NEW w \in ToSet(p), NEW m, IndexIn(p, w) = m
  PROVE  /\ m \in 1..Len(p) /\ p[m] = w /\ \A j \in 1..Len(p) : p[j] = w => m <= j
         /\ Between(p, w) \in Seq(T)
         /\ \A x : x \in ToSet(Between(p, w)) <=> \E j \in 2..(m-1) : x = p[j]
<1>1. m \in 1..Len(p) /\ p[m] = w /\ \A j \in 1..Len(p) : p[j] = w => m <= j
  BY IndexFacts
<1> DEFINE b == SubSeq(p, 2, m - 1)
<1>2. Len(p) \in Nat /\ \A i \in 2..(m-1) : p[i] \in T
  BY <1>1
<1>3. m - 1 \in Int
  BY <1>1
<1>4. /\ b \in Seq(T) /\ Len(b) = (IF 2 <= m - 1 THEN (m - 1) - 2 + 1 ELSE 0)
      /\ \A i \in 1..((m - 1) - 2 + 1) : b[i] = p[2 + i - 1]
  BY <1>2, <1>3, SubSeqProperties
<1>5. Between(p, w) = b
  BY DEF Between
<1> HIDE DEF b
<1>6. DOMAIN b = 1..Len(b)
  BY <1>4
<1>7. ASSUME NEW x, x \in ToSet(b) PROVE \E j \in 2..(m-1) : x = p[j]
  <2>1. PICK i \in 1..Len(b) : x = b[i]
    BY <1>6, <1>7 DEF ToSet
  <2>2. i + 1 \in 2..(m-1) /\ i \in 1..((m - 1) - 2 + 1) /\ 2 + i - 1 = i + 1
    BY <1>1, <1>2, <1>4, <2>1
  <2> QED  BY <1>4, <2>1, <2>2
<1>8. ASSUME NEW j \in 2..(m-1) PROVE p[j] \in ToSet(b)
  <2>1. j - 1 \in 1..Len(b) /\ j - 1 \in 1..((m - 1) - 2 + 1) /\ 2 + (j - 1) - 1 = j
    BY <1>1, <1>2, <1>4
  <2>2. b[j-1] = p[j]
    BY <1>4, <2>1
  <2> QED  BY <1>6, <2>1, <2>2 DEF ToSet
<1> QED  BY <1>1, <1>4, <1>5, <1>7, <1>8

LEMMA LineageOn ==
  ASSUME NEW w \in PtAll, NEW y \in Lineage(w)
  PROVE  y \in PtAll /\ Lineage(y) \subseteq Lineage(w)
<1>1. PICK i \in Nat : y = PtClimb(w)[i]
  BY DEF Lineage
<1>2. y \in PtAll
  BY <1>1, PtClimbFacts
<1>3. ASSUME NEW x \in Lineage(y) PROVE x \in Lineage(w)
  <2>1. PICK t \in Nat : x = PtClimb(y)[t]
    BY <1>3 DEF Lineage
  <2>2. x = PtClimb(w)[i + t] /\ i + t \in Nat
    BY <1>1, <2>1, PtClimbOn
  <2> QED  BY <2>2 DEF Lineage
<1> QED  BY <1>2, <1>3

LEMMA RootLineage == Lineage(PtRoot) = {PtRoot}
<1>1. PtRoot \in PtAll
  BY DEF PtAll
<1>2. PtClimb(PtRoot)[0] = PtRoot /\ \A j \in Nat : PtClimb(PtRoot)[j] = PtRoot
  <2>1. /\ PtClimb(PtRoot)[0] = PtRoot
        /\ \A i, j \in Nat : i <= j /\ PtClimb(PtRoot)[i] = PtRoot => PtClimb(PtRoot)[j] = PtRoot
    BY <1>1, PtClimbFacts
  <2>2. \A j \in Nat : 0 <= j
    OBVIOUS
  <2> QED  BY <2>1, <2>2
<1>3. \A x : x \in Lineage(PtRoot) <=> x = PtRoot
  BY <1>2 DEF Lineage
<1> QED  BY <1>3

(* What is above a window of a path is not below it. *)
LEMMA NotBelow ==
  ASSUME NEW v \in PtAll, NEW live, NEW p, IsPath(p, v, live),
         NEW m \in 1..Len(p), NEW j \in 1..Len(p), j < m,
         NEW x \in Lineage(p[m]), x # PtRoot
  PROVE  p[j] # x
<1>1. Len(p) \in Nat /\ p[m] = PtClimb(v)[m-1] /\ p[j] = PtClimb(v)[j-1]
  BY DEF IsPath
<1>2. PICK t \in Nat : x = PtClimb(p[m])[t]
  BY DEF Lineage
<1> DEFINE y == p[m]
<1>3. m - 1 \in Nat /\ j - 1 \in Nat /\ PtClimb(v)[m-1] = y
  BY <1>1
<1> HIDE DEF y
<1>4. PtClimb(y)[t] = PtClimb(v)[(m - 1) + t]
  BY <1>3, PtClimbOn
<1>5. x = PtClimb(v)[(m - 1) + t]
  BY <1>2, <1>4 DEF y
<1>6. (m - 1) + t \in Nat /\ j - 1 < (m - 1) + t
  BY <1>3
<1>7. /\ \A a, b \in Nat : a < b /\ PtClimb(v)[a] # PtRoot => PtClimb(v)[b] # PtClimb(v)[a]
      /\ \A a, b \in Nat : a <= b /\ PtClimb(v)[a] = PtRoot => PtClimb(v)[b] = PtRoot
  BY PtClimbFacts
<1>8. PtClimb(v)[j-1] # PtRoot
  BY <1>3, <1>5, <1>6, <1>7
<1>9. PtClimb(v)[(m - 1) + t] # PtClimb(v)[j-1]
  BY <1>3, <1>6, <1>7, <1>8
<1> QED  BY <1>1, <1>5, <1>9

(* A window of a path is above all those before it. *)
LEMMA FurtherUp ==
  ASSUME NEW v \in PtAll, NEW live, NEW p, IsPath(p, v, live),
         NEW m \in 1..Len(p), NEW k \in 1..Len(p), m <= k
  PROVE  p[k] \in Lineage(p[m])
<1> DEFINE y == p[m]
<1>1. Len(p) \in Nat /\ p[m] = PtClimb(v)[m-1] /\ p[k] = PtClimb(v)[k-1]
  BY DEF IsPath
<1>2. m - 1 \in Nat /\ PtClimb(v)[m-1] = y /\ k - m \in Nat /\ (m - 1) + (k - m) = k - 1
  BY <1>1
<1> HIDE DEF y
<1>3. PtClimb(y)[k - m] = PtClimb(v)[(m - 1) + (k - m)]
  BY <1>2, PtClimbOn
<1>4. PtClimb(y)[k - m] = p[k]
  BY <1>1, <1>2, <1>3
<1> QED  BY <1>2, <1>4 DEF Lineage, y

Upto(path, lca) == IF lca \in ToSet(path) THEN Between(path, lca) ELSE <<>>
Lca(op, np) ==
  IF {i \in DOMAIN np : np[i] \in ToSet(op)} = {} THEN PtRoot
  ELSE np[Lo({i \in DOMAIN np : np[i] \in ToSet(op)})]

LEMMA CrossingCases ==
  ASSUME NEW old, NEW new, NEW op, NEW np, AncestorPath(old) = op, AncestorPath(new) = np
  PROVE  CrossingSteps(old, new) =
           IF old \in ToSet(np)
           THEN <<<<"LeaveInferior", old>>>> \o Entering(Between(np, old)) \o <<<<"Enter", new>>>>
           ELSE IF new \in ToSet(op)
           THEN <<<<"Leave", old>>>> \o Leaving(Between(op, new)) \o <<<<"Enter", new>>>>
           ELSE <<<<"Leave", old>>>> \o Leaving(Upto(op, Lca(op, np)))
                \o Entering(Upto(np, Lca(op, np))) \o <<<<"Enter", new>>>>
BY Zenon DEF CrossingSteps, Entering, Leaving, Upto, Lca

Believed(inside, v, live) == v \in live \cup {PtRoot} => Lineage(v) \ {PtRoot} \subseteq inside

(* The pointer moves into a descendant of its window. *)
LEMMA EnterInferior ==
  ASSUME NEW inside, NEW old \in PtAll, NEW new \in PtAll, NEW np,
         Closed(ptLive), new \in ptLive \cup {PtRoot},
         IsPath(np, new, ptLive), old \in ToSet(np), Believed(inside, old, ptLive),
         NEW w \in Lineage(new), w # PtRoot
  PROVE  w \in Told(inside, <<<<"LeaveInferior", old>>>> \o Entering(Between(np, old)) \o <<<<"Enter", new>>>>)
<1> DEFINE b == Between(np, old)
           m == IndexIn(np, old)
<1>1. np \in Seq(PtAll) /\ Len(np) \in Nat /\ Len(np) >= 1 /\ ToSet(np) = Lineage(new)
      /\ \A i \in 1..Len(np) : np[i] \in ptLive \cup {PtRoot}
  BY DEF IsPath
<1>2. /\ m \in 1..Len(np) /\ np[m] = old
      /\ b \in Seq(PtAll) /\ \A x : x \in ToSet(b) <=> \E j \in 2..(m-1) : x = np[j]
  BY <1>1, BetweenFacts
<1>3. PICK k \in 1..Len(np) : w = np[k]
  <2>1. w \in ToSet(np) /\ DOMAIN np = 1..Len(np) BY <1>1
  <2> QED  BY <2>1 DEF ToSet
<1>4. np[1] = new
  <2>1. np[1] = PtClimb(new)[0] BY <1>1 DEF IsPath
  <2> QED  BY <2>1, PtClimbFacts
<1> HIDE DEF b, m
<1>5. w \in PtAll /\ Known(w)
  BY <1>1, <1>3 DEF Known
<1>6. Says(<<<<"LeaveInferior", old>>>> \o Entering(b), {} \cup ToSet(b), {} \cup {})
  BY <1>2, SaysOne, SaysEnters, SaysConcat
<1>7. Says(<<<<"LeaveInferior", old>>>> \o Entering(b) \o <<<<"Enter", new>>>>,
           {} \cup ToSet(b) \cup {new}, {} \cup {} \cup {})
  BY <1>6, SaysOne, SaysConcat
<1>8. w \in inside \/ w \in {} \cup ToSet(b) \cup {new}
  <2>1. CASE k = 1
    BY <1>3, <1>4, <2>1
  <2>2. CASE k > 1 /\ k < m
    <3>1. k \in 2..(m-1) BY <1>1, <1>2, <2>2
    <3> QED  BY <1>2, <1>3, <3>1
  <2>3. CASE k >= m
    <3>1. w \in Lineage(old)
      BY <1>1, <1>2, <1>3, <2>3, FurtherUp
    <3>2. old \in ptLive \cup {PtRoot}
      BY <1>1, <1>2
    <3> QED  BY <3>1, <3>2 DEF Believed
  <2> QED  BY <1>1, <1>2, <1>3, <2>1, <2>2, <2>3
<1>9. w \in Told(inside, <<<<"LeaveInferior", old>>>> \o Entering(b) \o <<<<"Enter", new>>>>)
  BY <1>5, <1>7, <1>8, ToldRule
<1> QED  BY <1>9 DEF b

(* The pointer moves to an ancestor. *)
LEMMA LeaveInferior ==
  ASSUME NEW inside, NEW old \in PtAll, NEW new \in PtAll, NEW op, old # new,
         Closed(ptLive), new \in ptLive \cup {PtRoot},
         IsPath(op, old, ptLive), new \in ToSet(op), Believed(inside, old, ptLive),
         NEW w \in Lineage(new), w # PtRoot
  PROVE  w \in Told(inside, <<<<"Leave", old>>>> \o Leaving(Between(op, new)) \o <<<<"Enter", new>>>>)
<1> DEFINE b == Between(op, new)
           m == IndexIn(op, new)
<1>1. op \in Seq(PtAll) /\ Len(op) \in Nat /\ Len(op) >= 1 /\ op[1] = old
  <2>1. op[1] = PtClimb(old)[0] BY DEF IsPath
  <2> QED  BY <2>1, PtClimbFacts DEF IsPath
<1>2. /\ m \in 1..Len(op) /\ op[m] = new
      /\ b \in Seq(PtAll) /\ \A x : x \in ToSet(b) <=> \E j \in 2..(m-1) : x = op[j]
  BY <1>1, BetweenFacts
<1> HIDE DEF b, m
<1>3. m > 1 /\ old \in ptLive \cup {PtRoot}
  <2>1. m # 1 BY <1>1, <1>2
  <2> QED  BY <1>1, <1>2, <2>1 DEF IsPath
<1>4. w \in inside
  <2>1. new \in Lineage(old) BY <1>3 DEF IsPath
  <2>2. w \in Lineage(old) BY <2>1, LineageOn
  <2> QED  BY <1>3, <2>2 DEF Believed
<1>5. w \in PtAll /\ Known(w)
  <2>1. PICK i \in Nat : w = PtClimb(new)[i] BY DEF Lineage
  <2>2. w \in ptLive \cup {PtRoot} BY <2>1, LineageAlive
  <2> QED  BY <2>2, LineageOn DEF Known
<1>6. Says(<<<<"Leave", old>>>> \o Leaving(b), {} \cup {}, {old} \cup ToSet(b))
  BY <1>2, SaysOne, SaysLeaves, SaysConcat
<1>7. Says(<<<<"Leave", old>>>> \o Leaving(b) \o <<<<"Enter", new>>>>,
           {} \cup {} \cup {new}, {old} \cup ToSet(b) \cup {})
  BY <1>6, SaysOne, SaysConcat
<1>8. w \notin {old} \cup ToSet(b) \cup {}
  <2>1. \A j \in 1..Len(op) : j < m => op[j] # w
    BY <1>2, NotBelow
  <2>2. 1 \in 1..Len(op) /\ \A j \in 2..(m-1) : j \in 1..Len(op) /\ j < m
    BY <1>1, <1>2
  <2> QED  BY <1>1, <1>2, <1>3, <2>1, <2>2
<1>9. w \in Told(inside, <<<<"Leave", old>>>> \o Leaving(b) \o <<<<"Enter", new>>>>)
  BY <1>4, <1>5, <1>7, <1>8, ToldRule
<1> QED  BY <1>9 DEF b

(* Where two paths meet first, seen from the second. *)
LEMMA MeetFacts ==
  ASSUME NEW op \in Seq(PtAll), NEW np \in Seq(PtAll),
         NEW c \in ToSet(np), c \in ToSet(op)
  PROVE  \E m \in 1..Len(np) : /\ Lca(op, np) = np[m] /\ np[m] \in ToSet(op)
                               /\ \A k \in 1..Len(np) : np[k] \in ToSet(op) => m <= k
<1> DEFINE C == {i \in DOMAIN np : np[i] \in ToSet(op)}
<1>1. Len(np) \in Nat /\ DOMAIN np = 1..Len(np)
  OBVIOUS
<1>2. C # {} /\ C \subseteq 1..Len(np)
  BY <1>1 DEF ToSet
<1>3. Lca(op, np) = np[Lo(C)]
  BY <1>2 DEF Lca
<1>4. Lo(C) \in C /\ \A y \in C : Lo(C) <= y
  BY <1>1, <1>2, PlacesEnded, LoHi
<1> DEFINE m == Lo(C)
<1>5. m \in 1..Len(np) /\ np[m] \in ToSet(op)
  BY <1>1, <1>4
<1>6. \A k \in 1..Len(np) : np[k] \in ToSet(op) => m <= k
  BY <1>1, <1>4
<1> HIDE DEF m
<1>7. Lca(op, np) = np[m]
  BY <1>3 DEF m
<1> QED  BY <1>5, <1>6, <1>7

(* The pointer moves to another branch. *)
LEMMA EnterAcross ==
  ASSUME NEW inside, NEW old \in PtAll, NEW new \in PtAll, NEW op, NEW np,
         Closed(ptLive), new \in ptLive \cup {PtRoot},
         IsPath(op, old, ptLive), IsPath(np, new, ptLive),
         old \notin ToSet(np), Believed(inside, old, ptLive),
         NEW w \in Lineage(new), w # PtRoot
  PROVE  w \in Told(inside, <<<<"Leave", old>>>> \o Leaving(Upto(op, Lca(op, np)))
                            \o Entering(Upto(np, Lca(op, np))) \o <<<<"Enter", new>>>>)
<1> DEFINE lca == Lca(op, np)
           a == Upto(op, lca)
           b == Upto(np, lca)
<1>1. /\ np \in Seq(PtAll) /\ Len(np) \in Nat /\ Len(np) >= 1 /\ ToSet(np) = Lineage(new)
      /\ np[Len(np)] = PtRoot /\ DOMAIN np = 1..Len(np)
      /\ \A i \in 1..Len(np) : np[i] \in ptLive \cup {PtRoot}
  BY DEF IsPath
<1>2. np[1] = new
  <2>1. np[1] = PtClimb(new)[0] BY <1>1 DEF IsPath
  <2> QED  BY <2>1, PtClimbFacts
<1>3. op \in Seq(PtAll) /\ Len(op) \in Nat /\ Len(op) >= 1 /\ op[1] = old /\ DOMAIN op = 1..Len(op)
  <2>1. op[1] = PtClimb(old)[0] BY DEF IsPath
  <2> QED  BY <2>1, PtClimbFacts DEF IsPath
<1>4. PICK k \in 1..Len(np) : w = np[k]
  <2>1. w \in ToSet(np) BY <1>1
  <2> QED  BY <1>1, <2>1 DEF ToSet
<1>5. w \in PtAll /\ Known(w) /\ w # old
  <2>1. w \in ToSet(np) BY <1>1
  <2> QED  BY <1>1, <1>4, <2>1 DEF Known
<1> HIDE DEF lca
<1>6. /\ a \in Seq(PtAll) /\ b \in Seq(PtAll)
      /\ lca \in ToSet(np) /\ (w \in inside \/ w \in ToSet(b) \/ w = new) /\ w \notin ToSet(a)
  <2>1. CASE old \notin ptLive \cup {PtRoot}
    <3>1. Len(op) = 1 /\ ToSet(op) = {old}
      <4>1. Len(op) = 1 BY <2>1 DEF IsPath
      <4>2. DOMAIN op = {1} BY <1>3, <4>1
      <4> QED  BY <1>3, <4>1, <4>2 DEF ToSet
    <3>2. {i \in DOMAIN np : np[i] \in ToSet(op)} = {}
      BY <3>1 DEF ToSet
    <3>3. lca = PtRoot
      BY <3>2 DEF Lca, lca
    <3>4. PtRoot \in ToSet(np) /\ PtRoot \notin ToSet(op)
      <4>1. Len(np) \in DOMAIN np BY <1>1
      <4> QED  BY <1>1, <2>1, <3>1, <4>1 DEF ToSet
    <3>5. a = <<>> /\ b = Between(np, PtRoot)
      BY <3>3, <3>4 DEF Upto
    <3> DEFINE m == IndexIn(np, PtRoot)
    <3>6. /\ m \in 1..Len(np) /\ np[m] = PtRoot
          /\ Between(np, PtRoot) \in Seq(PtAll)
          /\ \A x : x \in ToSet(Between(np, PtRoot)) <=> \E j \in 2..(m-1) : x = np[j]
      BY <1>1, <3>4, BetweenFacts
    <3>7. k < m
      <4>1. ASSUME k >= m PROVE FALSE
        <5>1. w \in Lineage(PtRoot)
          <6> HIDE DEF m
          <6>1. np[k] \in Lineage(np[m])
            BY <1>1, <1>4, <3>6, <4>1, FurtherUp
          <6> QED  BY <1>4, <3>6, <6>1
        <5> QED  BY <5>1, RootLineage
      <4> QED  BY <1>1, <1>4, <3>6, <4>1
    <3> HIDE DEF m
    <3>8. k = 1 \/ k \in 2..(m-1)
      BY <1>1, <1>4, <3>6, <3>7
    <3>9. w \in ToSet(b) \/ w = new
      BY <1>2, <1>4, <3>5, <3>6, <3>8
    <3>10. a \in Seq(PtAll) /\ w \notin ToSet(a)
      <4>1. a \in Seq(PtAll) BY <3>5
      <4>2. ToSet(a) = {} BY <3>5 DEF ToSet
      <4> QED  BY <4>1, <4>2
    <3> QED  BY <3>3, <3>4, <3>5, <3>6, <3>9, <3>10
  <2>2. CASE old \in ptLive \cup {PtRoot}
    <3>1. PtRoot \in ToSet(np) /\ PtRoot \in ToSet(op)
      <4>1. op[Len(op)] = PtRoot BY <2>2 DEF IsPath
      <4>2. Len(np) \in DOMAIN np /\ Len(op) \in DOMAIN op BY <1>1, <1>3
      <4> QED  BY <1>1, <4>1, <4>2 DEF ToSet
    <3>2. PICK m \in 1..Len(np) : /\ Lca(op, np) = np[m] /\ np[m] \in ToSet(op)
                                  /\ \A i \in 1..Len(np) : np[i] \in ToSet(op) => m <= i
      BY <1>1, <1>3, <3>1, MeetFacts
    <3>3. lca = np[m] /\ lca \in ToSet(np) /\ lca \in ToSet(op)
      BY <1>1, <3>2 DEF lca, ToSet
    <3>4. a = Between(op, lca) /\ b = Between(np, lca)
      BY <3>3 DEF Upto
    <3> DEFINE l == IndexIn(op, lca)
               h == IndexIn(np, lca)
    <3>5. /\ l \in 1..Len(op) /\ op[l] = lca
          /\ a \in Seq(PtAll) /\ \A x : x \in ToSet(a) <=> \E j \in 2..(l-1) : x = op[j]
      BY <1>3, <3>3, <3>4, BetweenFacts
    <3>6. /\ h \in 1..Len(np) /\ np[h] = lca
          /\ b \in Seq(PtAll) /\ \A x : x \in ToSet(b) <=> \E j \in 2..(h-1) : x = np[j]
      <4>1. /\ h \in 1..Len(np) /\ np[h] = lca
            /\ Between(np, lca) \in Seq(PtAll)
            /\ \A x : x \in ToSet(Between(np, lca)) <=> \E j \in 2..(h-1) : x = np[j]
        BY <1>1, <3>3, BetweenFacts
      <4> HIDE DEF b
      <4> QED  BY <3>4, <4>1
    <3> HIDE DEF l, h, a, b
    <3>7. m <= h
      BY <3>2, <3>3, <3>6
    <3>8. CASE k < m
      <4>1. w = new \/ w \in ToSet(b)
        <5>1. k = 1 \/ k \in 2..(h-1) BY <1>1, <1>4, <3>2, <3>6, <3>7, <3>8
        <5> QED  BY <1>2, <1>4, <3>6, <5>1
      <4>2. w \notin ToSet(op)
        BY <1>1, <1>4, <3>2, <3>8
      <4>3. w \notin ToSet(a)
        <5>1. \A j \in 2..(l-1) : op[j] \in ToSet(op)
          <6>1. \A j \in 2..(l-1) : j \in DOMAIN op BY <1>3, <3>5
          <6> QED  BY <6>1 DEF ToSet
        <5> QED  BY <3>5, <4>2, <5>1
      <4> QED  BY <3>3, <3>5, <3>6, <4>1, <4>3
    <3>9. CASE ~(k < m)
      <4>1. w \in Lineage(np[m])
        BY <1>1, <1>4, <3>2, <3>9, FurtherUp
      <4>2. w \in Lineage(op[l])
        BY <3>3, <3>5, <4>1
      <4>3. lca \in Lineage(old)
        BY <2>2, <3>3 DEF IsPath
      <4>4. w \in inside
        <5>1. w \in Lineage(lca) BY <3>5, <4>2
        <5>2. w \in Lineage(old) BY <4>3, <5>1, LineageOn
        <5> QED  BY <2>2, <5>2 DEF Believed
      <4>5. \A j \in 1..Len(op) : j < l => op[j] # w
        BY <3>5, <4>2, NotBelow
      <4>6. w \notin ToSet(a)
        <5>1. \A j \in 2..(l-1) : j \in 1..Len(op) /\ j < l BY <1>3, <3>5
        <5> QED  BY <3>5, <4>5, <5>1
      <4> QED  BY <3>3, <3>5, <3>6, <4>4, <4>6
    <3> QED  BY <3>8, <3>9
  <2> QED  BY <2>1, <2>2
<1> HIDE DEF a, b
<1>7. Says(<<<<"Leave", old>>>> \o Leaving(a), {} \cup {}, {old} \cup ToSet(a))
  BY <1>6, SaysOne, SaysLeaves, SaysConcat
<1>8. Says(<<<<"Leave", old>>>> \o Leaving(a) \o Entering(b),
           {} \cup {} \cup ToSet(b), {old} \cup ToSet(a) \cup {})
  BY <1>6, <1>7, SaysEnters, SaysConcat
<1>9. Says(<<<<"Leave", old>>>> \o Leaving(a) \o Entering(b) \o <<<<"Enter", new>>>>,
           {} \cup {} \cup ToSet(b) \cup {new}, {old} \cup ToSet(a) \cup {} \cup {})
  BY <1>8, SaysOne, SaysConcat
<1>10. w \in Told(inside, <<<<"Leave", old>>>> \o Leaving(a) \o Entering(b) \o <<<<"Enter", new>>>>)
  <2>1. w \in inside \/ w \in {} \cup {} \cup ToSet(b) \cup {new}
    BY <1>6
  <2>2. w \notin {old} \cup ToSet(a) \cup {} \cup {}
    BY <1>5, <1>6
  <2> QED  BY <1>5, <1>9, <2>1, <2>2, ToldRule
<1> QED  BY <1>10 DEF a, b, lca

(* Whatever the move, a belief that was complete stays so. *)
LEMMA CrossedBelieved ==
  ASSUME Closed(ptLive), NEW inside, NEW old \in PtAll, NEW new \in PtAll,
         Believed(inside, old, ptLive)
  PROVE  Believed(Crossed(inside, old, new), new, ptLive)
<1> SUFFICES ASSUME new \in ptLive \cup {PtRoot}, NEW w \in Lineage(new), w # PtRoot
             PROVE  w \in Crossed(inside, old, new)
  BY DEF Believed
<1>1. CASE old = new
  BY <1>1 DEF Crossed, Believed
<1>2. CASE old # new
  <2> DEFINE op == AncestorPath(old)
             np == AncestorPath(new)
  <2>1. IsPath(op, old, ptLive) /\ IsPath(np, new, ptLive)
    BY PathFacts
  <2>2. AncestorPath(old) = op /\ AncestorPath(new) = np
    OBVIOUS
  <2>3. Crossed(inside, old, new) = Told(inside, CrossingSteps(old, new))
    BY <1>2 DEF Crossed
  <2> HIDE DEF op, np
  <2>4. CrossingSteps(old, new) =
           IF old \in ToSet(np)
           THEN <<<<"LeaveInferior", old>>>> \o Entering(Between(np, old)) \o <<<<"Enter", new>>>>
           ELSE IF new \in ToSet(op)
           THEN <<<<"Leave", old>>>> \o Leaving(Between(op, new)) \o <<<<"Enter", new>>>>
           ELSE <<<<"Leave", old>>>> \o Leaving(Upto(op, Lca(op, np)))
                \o Entering(Upto(np, Lca(op, np))) \o <<<<"Enter", new>>>>
    BY <2>2, CrossingCases, ZenonT(60)
  <2>5. CASE old \in ToSet(np)
    BY <2>1, <2>3, <2>4, <2>5, EnterInferior
  <2>6. CASE old \notin ToSet(np) /\ new \in ToSet(op)
    BY <1>2, <2>1, <2>3, <2>4, <2>6, LeaveInferior
  <2>7. CASE old \notin ToSet(np) /\ new \notin ToSet(op)
    BY <2>1, <2>3, <2>4, <2>7, EnterAcross
  <2> QED  BY <2>5, <2>6, <2>7
<1> QED  BY <1>1, <1>2

(***************************************************************************)
(* The windows the walks lead to.                                          *)
(***************************************************************************)
LEMMA DeepestType ==
  ASSUME NEW w \in PtAll, NEW p PROVE FindDeepest(w, p) \in PtAll
<1> DEFINE N == Len(PtStack)
           D == PtDown(p)
<1>1. N \in Nat /\ DOMAIN PtStack = 1..N /\ \A i \in 1..N : PtStack[i] \in PtWins
  BY PtAssumption
<1>2. ASSUME NEW v \in PtAll
      PROVE  (IF KidsAt(v, p) = {} THEN v ELSE PtStack[Hi(KidsAt(v, p))]) \in PtAll
  <2>1. KidsAt(v, p) \subseteq 1..N
    BY <1>1 DEF KidsAt
  <2> HIDE DEF N
  <2>2. CASE KidsAt(v, p) # {}
    <3>1. Hi(KidsAt(v, p)) \in 1..N
      BY <1>1, <2>1, <2>2, PlacesEnded, LoHi
    <3> QED  BY <1>1, <2>2, <3>1 DEF PtAll
  <2> QED  BY <2>2
<1>3. D \in Maps(PtAll)
  BY <1>2 DEF PtDown, Maps
<1> HIDE DEF D, N
<1>4. Iterate(D, w) \in [Nat -> PtAll]
  BY <1>3, IterateFacts
<1>5. Iterate(D, w)[N] \in PtAll
  BY <1>1, <1>4
<1> QED  BY <1>5 DEF FindDeepest, D, N

LEMMA SubwindowType ==
  ASSUME Closed(ptLive), NEW w \in PtAll, NEW p PROVE FindEventSubwindow(w, p) \in PtAll
<1> DEFINE src == FindDeepest(w, p)
           path == AncestorPath(src)
           ends == {i \in DOMAIN path : Known(path[i]) /\ path[i] \in PtSelects \cup PtStops}
<1>1. src \in PtAll
  BY DeepestType
<1>2. path \in Seq(PtAll)
  BY <1>1, PathFacts DEF IsPath
<1>3. ends \subseteq 1..Len(path) /\ Len(path) \in Nat
  BY <1>2
<1>4. FindEventSubwindow(w, p) =
        IF ends # {} /\ path[Lo(ends)] \in PtSelects THEN path[Lo(ends)] ELSE src
  BY Zenon DEF FindEventSubwindow
<1> HIDE DEF src, path, ends
<1>5. CASE ends # {}
  <2>1. Lo(ends) \in ends
    BY <1>3, <1>5, PlacesEnded, LoHi
  <2>2. path[Lo(ends)] \in PtAll
    <3> DEFINE l == Lo(ends)
    <3>1. l \in 1..Len(path) BY <1>3, <2>1
    <3> HIDE DEF l
    <3>2. path[l] \in PtAll BY <1>2, <3>1
    <3> QED  BY <3>2 DEF l
  <2> QED  BY <1>1, <1>4, <2>2
<1> QED  BY <1>1, <1>4, <1>5

PtHeld(S) == S = {} \/ \E g \in PtGrabs : S = {g}

LEMMA TargetType ==
  ASSUME Closed(ptLive), PtHeld(ptGrab), NEW w \in PtAll, NEW p
  PROVE  ResolveTarget(w, p) \in PtAll
<1> DEFINE normal == FindEventSubwindow(w, p)
           own == normal = PtRoot \/ (Known(normal) /\ normal \in PtSelects)
           g == CHOOSE x \in ptGrab : TRUE
<1>1. normal \in PtAll
  BY SubwindowType
<1>2. ResolveTarget(w, p) = IF ptGrab = {} THEN normal
                            ELSE IF g.owner /\ own THEN normal
                                 ELSE IF g.sel THEN g.win
                                 ELSE IF g.owner THEN normal ELSE PtRoot
  BY Zenon DEF ResolveTarget
<1> HIDE DEF normal, own
<1>3. ptGrab # {} => g \in PtGrabs
  BY DEF PtHeld
<1>4. ptGrab # {} => g.win \in PtAll
  BY <1>3, PtAssumption DEF PtAll
<1> HIDE DEF g
<1>5. PtRoot \in PtAll
  BY DEF PtAll
<1> QED  BY <1>1, <1>2, <1>4, <1>5

(***************************************************************************)
(* Confinement and barriers.                                               *)
(***************************************************************************)
Spots == Int \X Int

LEMMA PointerConfined ==
  ASSUME PtHeld(ptGrab), NEW p \in Spots PROVE ClampToConfine(p) \in Spots
<1> DEFINE bounds == UNION {g.confine : g \in ptGrab}
<1>1. bounds \in SUBSET Int /\ IsFiniteSet(bounds)
  <2>1. CASE ptGrab = {}
    BY <2>1, FS_EmptySet
  <2>2. CASE ptGrab # {}
    <3>1. PICK g \in PtGrabs : ptGrab = {g} BY <2>2 DEF PtHeld
    <3>2. bounds = g.confine BY <3>1
    <3> QED  BY <3>2, PtAssumption
  <2> QED  BY <2>1, <2>2
<1>2. ClampToConfine(p) = IF bounds = {} THEN p
        ELSE IF p[1] < Lo(bounds) THEN <<Lo(bounds), p[2]>>
        ELSE IF p[1] > Hi(bounds) THEN <<Hi(bounds), p[2]>> ELSE p
  BY DEF ClampToConfine
<1> HIDE DEF bounds
<1>3. CASE bounds # {}
  <2>1. Ended(bounds)
    BY <1>1, <1>3, FiniteEnds
  <2>2. Lo(bounds) \in Int /\ Hi(bounds) \in Int
    BY <1>1, <2>1, LoHi
  <2> QED  BY <1>2, <2>2 DEF Spots
<1> QED  BY <1>2, <1>3

(* A motion from old that would end at p ends at q, on the way there, in either axis. *)
Nearer(old, p, q) ==
  \A i \in 1..2 : /\ old[i] <= p[i] => old[i] <= q[i] /\ q[i] <= p[i]
                  /\ old[i] >= p[i] => old[i] >= q[i] /\ q[i] >= p[i]

LEMMA NearerOn ==
  ASSUME NEW old \in Spots, NEW p \in Spots, NEW q \in Spots, NEW r \in Spots
  PROVE  Nearer(old, p, p) /\ (Nearer(old, p, q) /\ Nearer(old, q, r) => Nearer(old, p, r))
<1>1. \A i \in 1..2 : old[i] \in Int /\ p[i] \in Int /\ q[i] \in Int /\ r[i] \in Int
  <2>1. \A s \in Spots : s[1] \in Int /\ s[2] \in Int BY DEF Spots
  <2>2. \A i \in 1..2 : i = 1 \/ i = 2 OBVIOUS
  <2> QED  BY <2>1, <2>2
<1>2. Nearer(old, p, p)
  BY <1>1 DEF Nearer
<1>3. ASSUME Nearer(old, p, q), Nearer(old, q, r), NEW i \in 1..2
      PROVE  /\ old[i] <= p[i] => old[i] <= r[i] /\ r[i] <= p[i]
             /\ old[i] >= p[i] => old[i] >= r[i] /\ r[i] >= p[i]
  <2>1. /\ old[i] <= p[i] => old[i] <= q[i] /\ q[i] <= p[i]
        /\ old[i] >= p[i] => old[i] >= q[i] /\ q[i] >= p[i]
    BY <1>3 DEF Nearer
  <2>2. /\ old[i] <= q[i] => old[i] <= r[i] /\ r[i] <= q[i]
        /\ old[i] >= q[i] => old[i] >= r[i] /\ r[i] >= q[i]
    BY <1>3 DEF Nearer
  <2> DEFINE a == old[i]
             b == p[i]
             c == q[i]
             d == r[i]
  <2>3. a \in Int /\ b \in Int /\ c \in Int /\ d \in Int BY <1>1
  <2> HIDE DEF a, b, c, d
  <2>4. (a <= b => a <= d /\ d <= b) /\ (a >= b => a >= d /\ d >= b)
    BY <2>1, <2>2, <2>3 DEF a, b, c, d
  <2> QED  BY <2>4 DEF a, b, d
<1> QED  BY <1>2, <1>3 DEF Nearer

(* One barrier brings the motion nearer, and a closed one holds it. *)
LEMMA BarrierStops ==
  ASSUME NEW old \in Spots, NEW p \in Spots, NEW b \in PtBarriers
  PROVE  /\ AtBarrier(old, p, b) \in Spots
         /\ Nearer(old, p, AtBarrier(old, p, b))
         /\ b.dirs = {} /\ p[3 - b.axis] \in b.from..b.to =>
              /\ old[b.axis] < b.at => AtBarrier(old, p, b)[b.axis] <= b.at
              /\ old[b.axis] > b.at => AtBarrier(old, p, b)[b.axis] >= b.at
<1> DEFINE q == AtBarrier(old, p, b)
<1>1. b.axis \in 1..2 /\ b.at \in Int
  BY PtAssumption
<1>2. /\ old[1] \in Int /\ old[2] \in Int /\ p[1] \in Int /\ p[2] \in Int
      /\ p = <<p[1], p[2]>>
  BY DEF Spots
<1>3. CASE b.axis = 1
  <2>1. 3 - b.axis = 2 BY <1>3
  <2>2. q = IF /\ p[2] \in b.from..b.to
               /\ \/ (old[1] <= b.at /\ p[1] > b.at) /\ (b.dirs = {} \/ "Positive" \in b.dirs)
                  \/ (old[1] >= b.at /\ p[1] < b.at) /\ (b.dirs = {} \/ "Negative" \in b.dirs)
            THEN <<b.at, p[2]>> ELSE p
    BY <1>3, <2>1, Zenon DEF AtBarrier
  <2> HIDE DEF q
  <2>3. \/ q = p
        \/ q = <<b.at, p[2]>> /\ ((old[1] <= b.at /\ p[1] > b.at) \/ (old[1] >= b.at /\ p[1] < b.at))
    BY <2>2
  <2>4. q[2] = p[2] /\ q[1] \in Int /\ q \in Spots
        /\ (q[1] = p[1] \/ (q[1] = b.at /\ ((old[1] <= b.at /\ p[1] > b.at) \/ (old[1] >= b.at /\ p[1] < b.at))))
    BY <1>1, <1>2, <2>3 DEF Spots
  <2>5. Nearer(old, p, q)
    <3>1. \A i \in 1..2 : i = 1 \/ i = 2 OBVIOUS
    <3>2. /\ old[1] <= p[1] => old[1] <= q[1] /\ q[1] <= p[1]
          /\ old[1] >= p[1] => old[1] >= q[1] /\ q[1] >= p[1]
      BY <1>1, <1>2, <2>4
    <3>3. /\ old[2] <= p[2] => old[2] <= q[2] /\ q[2] <= p[2]
          /\ old[2] >= p[2] => old[2] >= q[2] /\ q[2] >= p[2]
      BY <1>1, <1>2, <2>4
    <3> QED  BY <3>1, <3>2, <3>3 DEF Nearer
  <2>6. ASSUME b.dirs = {}, p[2] \in b.from..b.to
        PROVE  (old[1] < b.at => q[1] <= b.at) /\ (old[1] > b.at => q[1] >= b.at)
    <3>1. q = IF (old[1] <= b.at /\ p[1] > b.at) \/ (old[1] >= b.at /\ p[1] < b.at)
              THEN <<b.at, p[2]>> ELSE p
      BY <2>2, <2>6
    <3>2. (old[1] <= b.at /\ p[1] > b.at) \/ (old[1] >= b.at /\ p[1] < b.at) => q[1] = b.at
      BY <1>1, <1>2, <3>1
    <3>3. ~((old[1] <= b.at /\ p[1] > b.at) \/ (old[1] >= b.at /\ p[1] < b.at)) => q[1] = p[1]
      BY <3>1
    <3> QED  BY <1>1, <1>2, <3>2, <3>3
  <2> QED  BY <1>3, <2>1, <2>4, <2>5, <2>6 DEF q
<1>4. CASE b.axis = 2
  <2>1. 3 - b.axis = 1 /\ b.axis # 1 BY <1>4
  <2>2. q = IF /\ p[1] \in b.from..b.to
               /\ \/ (old[2] <= b.at /\ p[2] > b.at) /\ (b.dirs = {} \/ "Positive" \in b.dirs)
                  \/ (old[2] >= b.at /\ p[2] < b.at) /\ (b.dirs = {} \/ "Negative" \in b.dirs)
            THEN <<p[1], b.at>> ELSE p
    BY <1>4, <2>1, Zenon DEF AtBarrier
  <2> HIDE DEF q
  <2>3. \/ q = p
        \/ q = <<p[1], b.at>> /\ ((old[2] <= b.at /\ p[2] > b.at) \/ (old[2] >= b.at /\ p[2] < b.at))
    BY <2>2
  <2>4. q[1] = p[1] /\ q[2] \in Int /\ q \in Spots
        /\ (q[2] = p[2] \/ (q[2] = b.at /\ ((old[2] <= b.at /\ p[2] > b.at) \/ (old[2] >= b.at /\ p[2] < b.at))))
    BY <1>1, <1>2, <2>3 DEF Spots
  <2>5. Nearer(old, p, q)
    <3>1. \A i \in 1..2 : i = 1 \/ i = 2 OBVIOUS
    <3>2. /\ old[1] <= p[1] => old[1] <= q[1] /\ q[1] <= p[1]
          /\ old[1] >= p[1] => old[1] >= q[1] /\ q[1] >= p[1]
      BY <1>1, <1>2, <2>4
    <3>3. /\ old[2] <= p[2] => old[2] <= q[2] /\ q[2] <= p[2]
          /\ old[2] >= p[2] => old[2] >= q[2] /\ q[2] >= p[2]
      BY <1>1, <1>2, <2>4
    <3> QED  BY <3>1, <3>2, <3>3 DEF Nearer
  <2>6. ASSUME b.dirs = {}, p[1] \in b.from..b.to
        PROVE  (old[2] < b.at => q[2] <= b.at) /\ (old[2] > b.at => q[2] >= b.at)
    <3>1. q = IF (old[2] <= b.at /\ p[2] > b.at) \/ (old[2] >= b.at /\ p[2] < b.at)
              THEN <<p[1], b.at>> ELSE p
      BY <2>2, <2>6
    <3>2. (old[2] <= b.at /\ p[2] > b.at) \/ (old[2] >= b.at /\ p[2] < b.at) => q[2] = b.at
      BY <1>1, <1>2, <3>1
    <3>3. ~((old[2] <= b.at /\ p[2] > b.at) \/ (old[2] >= b.at /\ p[2] < b.at)) => q[2] = p[2]
      BY <3>1
    <3> QED  BY <1>1, <1>2, <3>2, <3>3
  <2> QED  BY <1>4, <2>1, <2>4, <2>5, <2>6 DEF q
<1> QED  BY <1>1, <1>3, <1>4

BarrierSteps(o, old) ==
  [i \in 1..Len(o) |-> [x \in Spots |-> AtBarrier(old, x, o[i])]]

(* The positions of a motion from old towards p as it meets the barriers o. *)
Meets(f, o, old, p) ==
  /\ f \in [0..Len(o) -> Spots] /\ f[0] = p
  /\ \A i \in 1..Len(o) : f[i] = AtBarrier(old, f[i-1], o[i])

LEMMA BarrierChain ==
  ASSUME NEW o \in Seq(PtBarriers), NEW old \in Spots, NEW p \in Spots
  PROVE  \E f : Meets(f, o, old, p) /\
           f[Len(o)] = LET q[n \in 0..Len(o)] == IF n = 0 THEN p ELSE AtBarrier(old, q[n-1], o[n])
                       IN  q[Len(o)]
<1> DEFINE n == Len(o)
           G == BarrierSteps(o, old)
           h == CHOOSE f : f = [i \in 0..n |-> IF i = 0 THEN p ELSE AtBarrier(old, f[i-1], o[i])]
<1>1. n \in Nat /\ \A i \in 1..n : o[i] \in PtBarriers
  OBVIOUS
<1>2. (LET q[k \in 0..Len(o)] == IF k = 0 THEN p ELSE AtBarrier(old, q[k-1], o[k])
       IN  q[Len(o)]) = h[n]
  BY Zenon
<1>3. G \in Steps(n, Spots)
  <2>1. ASSUME NEW i \in 1..n, NEW x \in Spots PROVE AtBarrier(old, x, o[i]) \in Spots
    BY <1>1, BarrierStops
  <2> QED  BY <1>1, <2>1 DEF BarrierSteps, Steps, Maps
<1> HIDE DEF n, G
<1>4. PICK f : Chain(f, n, Spots, p, G)
  BY <1>1, <1>3, RecursionExists
<1>5. f \in [0..n -> Spots] /\ f[0] = p
  BY <1>4 DEF Chain
<1>6. ASSUME NEW i \in 1..n PROVE f[i] = AtBarrier(old, f[i-1], o[i])
  <2>1. i - 1 \in 0..n BY <1>1
  <2>2. f[i-1] \in Spots BY <1>5, <2>1
  <2>3. f[i] = G[i][f[i-1]] BY <1>4 DEF Chain
  <2> QED  BY <2>2, <2>3 DEF G, BarrierSteps, n
<1>7. f = [i \in 0..n |-> IF i = 0 THEN p ELSE AtBarrier(old, f[i-1], o[i])]
  <2>1. ASSUME NEW i \in 0..n
        PROVE  f[i] = IF i = 0 THEN p ELSE AtBarrier(old, f[i-1], o[i])
    <3>1. i = 0 \/ i \in 1..n BY <1>1
    <3> QED  BY <1>5, <1>6, <3>1
  <2>2. f = [i \in 0..n |-> f[i]] BY <1>5
  <2> QED  BY <2>1, <2>2
<1>8. h = [i \in 0..n |-> IF i = 0 THEN p ELSE AtBarrier(old, h[i-1], o[i])]
  BY <1>7
<1> HIDE DEF h
<1>9. h[0] = p
  BY <1>1, <1>8
<1>10. ASSUME NEW i \in 1..n PROVE h[i] = AtBarrier(old, h[i-1], o[i])
  <2>1. i \in 0..n /\ i # 0 BY <1>1
  <2> QED  BY <1>8, <2>1
<1> DEFINE Q == {k \in Nat : k <= n => h[k] = f[k]}
<1>11. 0 \in Q
  BY <1>5, <1>9
<1>12. ASSUME NEW k \in Nat, k \in Q PROVE k + 1 \in Q
  <2> SUFFICES ASSUME k + 1 <= n PROVE h[k+1] = f[k+1]
    OBVIOUS
  <2>1. k + 1 \in 1..n /\ (k + 1) - 1 = k BY <1>1
  <2>2. h[k] = f[k] BY <1>1, <1>12
  <2> QED  BY <1>6, <1>10, <2>1, <2>2
<1> HIDE DEF Q
<1>13. n \in Q
  BY <1>1, <1>11, <1>12, NumInduction
<1>14. h[n] = f[n]
  BY <1>1, <1>13 DEF Q
<1>15. Meets(f, o, old, p)
  BY <1>5, <1>6 DEF Meets, n
<1> QED  BY <1>2, <1>14, <1>15 DEF n

LEMMA EnforceFacts ==
  ASSUME ptFences \subseteq PtBarriers, IsFiniteSet(ptFences),
         NEW old \in Spots, NEW p \in Spots, NEW q \in EnforceBarriers(old, p)
  PROVE  \E o \in Seq(PtBarriers) : \E f : ToSet(o) = ptFences /\ Meets(f, o, old, p) /\ q = f[Len(o)]
<1>1. PICK o \in SetToSeqs(ptFences) :
        q = LET r[n \in 0..Len(o)] == IF n = 0 THEN p ELSE AtBarrier(old, r[n-1], o[n])
            IN  r[Len(o)]
  BY Zenon DEF EnforceBarriers
<1> DEFINE n == Cardinality(ptFences)
           D == 1..n
<1>2. n \in Nat
  BY FS_CardinalityType, Zenon
<1>3. o \in [D -> ptFences] /\ \A i, j \in D : i # j => o[i] # o[j]
  BY <1>1 DEF SetToSeqs
<1>4. IsFiniteSet(D) /\ Cardinality(D) = n
  BY <1>2, FS_Interval
<1>5. o \in Injection(D, ptFences)
  BY <1>3 DEF Injection, IsInjective
<1> HIDE DEF D
<1>6. o \in Surjection(D, ptFences)
  BY <1>4, <1>5, FS_Injection
<1>7. o \in Seq(PtBarriers) /\ DOMAIN o = D
  <2>1. \A i \in 1..n : o[i] \in PtBarriers BY <1>3 DEF D
  <2>2. o = [i \in 1..n |-> o[i]] BY <1>3 DEF D
  <2>3. DOMAIN o = D BY <1>3
  <2> HIDE DEF n
  <2> QED  BY <1>2, <2>1, <2>2, <2>3
<1>8. ToSet(o) = ptFences
  BY <1>3, <1>6, <1>7 DEF ToSet, Surjection
<1>9. PICK f : Meets(f, o, old, p) /\ f[Len(o)] = q
  BY <1>1, <1>7, BarrierChain
<1> QED  BY <1>7, <1>8, <1>9

(* A closed barrier is not crossed, in whichever order the barriers are met. *)
LEMMA BarrierHeld ==
  ASSUME ptFences \subseteq PtBarriers, IsFiniteSet(ptFences),
         NEW old \in Spots, NEW p \in Spots, NEW q \in EnforceBarriers(old, p),
         NEW b \in ptFences, b.dirs = {}
  PROVE  q \in Spots /\ ~Crosses(old, p, q, b)
<1>0. PICK o \in Seq(PtBarriers) : \E f : ToSet(o) = ptFences /\ Meets(f, o, old, p) /\ q = f[Len(o)]
  BY EnforceFacts
<1>1. PICK f : ToSet(o) = ptFences /\ Meets(f, o, old, p) /\ q = f[Len(o)]
  BY <1>0
<1> DEFINE n == Len(o)
<1>2. n \in Nat /\ \A i \in 1..n : o[i] \in PtBarriers
  OBVIOUS
<1>3. PICK m \in 1..n : o[m] = b
  <2>1. DOMAIN o = 1..n OBVIOUS
  <2>2. b \in ToSet(o) BY <1>1
  <2> QED  BY <2>1, <2>2 DEF ToSet
<1>4. /\ f \in [0..n -> Spots] /\ f[0] = p /\ q = f[n]
      /\ \A i \in 1..n : f[i] = AtBarrier(old, f[i-1], o[i])
  BY <1>1 DEF Meets
<1> HIDE DEF n
<1>5. \A i \in 0..n : f[i] \in Spots
  BY <1>4
<1>6. ASSUME NEW i \in 0..n, i + 1 \in 0..n PROVE Nearer(old, f[i], f[i+1])
  <2>1. i + 1 \in 1..n /\ (i + 1) - 1 = i BY <1>2, <1>6
  <2>2. f[i+1] = AtBarrier(old, f[i], o[i+1]) BY <1>4, <2>1
  <2>3. o[i+1] \in PtBarriers BY <1>2, <2>1
  <2> QED  BY <1>5, <2>2, <2>3, BarrierStops
<1>7. ASSUME NEW a \in 0..n, NEW z \in 0..n, a <= z PROVE Nearer(old, f[a], f[z])
  <2> DEFINE Q == {k \in Nat : a + k <= n => Nearer(old, f[a], f[a+k])}
  <2>1. 0 \in Q
    BY <1>2, <1>5, NearerOn
  <2>2. ASSUME NEW k \in Nat, k \in Q PROVE k + 1 \in Q
    <3> SUFFICES ASSUME a + (k + 1) <= n PROVE Nearer(old, f[a], f[a+(k+1)])
      OBVIOUS
    <3>1. a + k \in 0..n /\ (a + k) + 1 \in 0..n /\ a + (k + 1) = (a + k) + 1
      BY <1>2
    <3>2. Nearer(old, f[a], f[a+k])
      BY <1>2, <2>2, <3>1
    <3>3. Nearer(old, f[a+k], f[(a+k)+1])
      BY <1>6, <3>1
    <3>4. f[a] \in Spots /\ f[a+k] \in Spots /\ f[(a+k)+1] \in Spots
      BY <1>5, <3>1
    <3> QED  BY <3>1, <3>2, <3>3, <3>4, NearerOn
  <2> HIDE DEF Q
  <2>3. z - a \in Nat /\ a + (z - a) = z BY <1>2, <1>7
  <2>4. z - a \in Q BY <2>1, <2>2, <2>3, NumInduction
  <2> QED  BY <1>2, <2>3, <2>4 DEF Q
<1>8. m - 1 \in 0..n /\ m \in 0..n /\ 0 \in 0..n /\ n \in 0..n /\ 0 <= m - 1 /\ m - 1 <= n /\ m <= n
  BY <1>2, <1>3
<1>9. /\ Nearer(old, p, f[m-1]) /\ Nearer(old, f[m-1], q) /\ Nearer(old, f[m], q)
      /\ f[m-1] \in Spots /\ f[m] \in Spots /\ q \in Spots
  BY <1>4, <1>5, <1>7, <1>8
<1>10. f[m] = AtBarrier(old, f[m-1], b)
  BY <1>3, <1>4
<1> DEFINE i == b.axis
           j == 3 - b.axis
<1>11. i \in 1..2 /\ j \in 1..2 /\ b.at \in Int /\ b.from \in Int /\ b.to \in Int
  BY PtAssumption
<1>12. \A s \in Spots : s[i] \in Int /\ s[j] \in Int
  <2>1. \A s \in Spots : s[1] \in Int /\ s[2] \in Int BY DEF Spots
  <2>2. (i = 1 \/ i = 2) /\ (j = 1 \/ j = 2) BY <1>11
  <2> HIDE DEF i, j
  <2> QED  BY <2>1, <2>2
<1>13. SUFFICES ASSUME Crosses(old, p, q, b) PROVE FALSE
  BY <1>9
<1>14. /\ p[j] \in b.from..b.to /\ q[j] \in b.from..b.to
       /\ (old[i] < b.at /\ q[i] > b.at) \/ (old[i] > b.at /\ q[i] < b.at)
  BY <1>13 DEF Crosses
<1>15. f[m-1][j] \in b.from..b.to
  <2> DEFINE r == f[m-1]
  <2>1. /\ old[j] <= p[j] => old[j] <= r[j] /\ r[j] <= p[j]
        /\ old[j] >= p[j] => old[j] >= r[j] /\ r[j] >= p[j]
    BY <1>9, <1>11 DEF Nearer
  <2>2. /\ old[j] <= r[j] => old[j] <= q[j] /\ q[j] <= r[j]
        /\ old[j] >= r[j] => old[j] >= q[j] /\ q[j] >= r[j]
    BY <1>9, <1>11 DEF Nearer
  <2>3. r[j] \in Int /\ old[j] \in Int /\ p[j] \in Int /\ q[j] \in Int
    BY <1>9, <1>12
  <2> HIDE DEF r, j
  <2>4. b.from <= r[j] /\ r[j] <= b.to
    BY <1>11, <1>14, <2>1, <2>2, <2>3
  <2> QED  BY <1>11, <2>3, <2>4 DEF r
<1>16. (old[i] < b.at => f[m][i] <= b.at) /\ (old[i] > b.at => f[m][i] >= b.at)
  BY <1>9, <1>10, <1>15, BarrierStops
<1>17. /\ old[i] <= f[m][i] => old[i] <= q[i] /\ q[i] <= f[m][i]
       /\ old[i] >= f[m][i] => old[i] >= q[i] /\ q[i] >= f[m][i]
  BY <1>9, <1>11 DEF Nearer
<1>18. f[m][i] \in Int /\ old[i] \in Int /\ q[i] \in Int
  BY <1>9, <1>12
<1> HIDE DEF i, j
<1> QED  BY <1>11, <1>14, <1>16, <1>17, <1>18

(***************************************************************************)
(* The invariant: the types, windows exist with their parents, finitely    *)
(* many barriers, none leaked, and the client was told of every window the *)
(* pointer is in, or misled about it by a warp.                            *)
(***************************************************************************)
PointerInv ==
  /\ PtTypeOK
  /\ Closed(ptLive)
  /\ IsFiniteSet(ptFences)
  /\ Believed(ptInside \cup ptMisled, ptLast, ptLive)
  /\ ~ptLeak

LEMMA PointerInit == PtInit => PointerInv
<1> SUFFICES ASSUME PtInit PROVE PointerInv
  OBVIOUS
<1> USE DEF PtInit
<1>1. ptAt \in Int \X Int
  OBVIOUS
<1>2. PtTypeOK
  BY <1>1 DEF PtTypeOK
<1>3. Closed(ptLive)
  BY PtAssumption DEF Closed
<1>4. IsFiniteSet(ptFences)
  BY FS_EmptySet
<1>5. Believed(ptInside \cup ptMisled, ptLast, ptLive)
  BY RootLineage DEF Believed
<1> QED  BY <1>2, <1>3, <1>4, <1>5 DEF PointerInv

LEMMA PointerSound == PointerInv => PtTypeOK /\ EntersNotMissed /\ BarriersHold
<1> SUFFICES ASSUME PointerInv PROVE PtTypeOK /\ EntersNotMissed /\ BarriersHold
  OBVIOUS
<1>1. PtTypeOK /\ Closed(ptLive) /\ Believed(ptInside \cup ptMisled, ptLast, ptLive) /\ ~ptLeak
  BY DEF PointerInv
<1>2. EntersNotMissed
  <2> SUFFICES ASSUME NEW w \in ToSet(AncestorPath(ptLast)), w \in ptLive
               PROVE  w \in ptInside \cup ptMisled
    BY DEF EntersNotMissed
  <2>1. ptLast \in PtAll /\ w # PtRoot
    BY <1>1, PtAssumption DEF PtTypeOK, PtAll, Closed
  <2> DEFINE p == AncestorPath(ptLast)
  <2>2. IsPath(p, ptLast, ptLive)
    BY <1>1, <2>1, PathFacts
  <2> HIDE DEF p
  <2>3. CASE ptLast \in ptLive \cup {PtRoot}
    <3>1. w \in Lineage(ptLast) BY <2>2, <2>3 DEF IsPath, p
    <3> QED  BY <1>1, <2>1, <2>3, <3>1 DEF Believed
  <2>4. CASE ptLast \notin ptLive \cup {PtRoot}
    <3>1. Len(p) = 1 /\ p[1] = PtClimb(ptLast)[0] /\ p \in Seq(PtAll)
      BY <2>2, <2>4 DEF IsPath
    <3>2. p[1] = ptLast
      BY <2>1, <3>1, PtClimbFacts
    <3>3. DOMAIN p = {1}
      BY <3>1
    <3>4. w = ptLast
      BY <3>2, <3>3 DEF ToSet, p
    <3> QED  BY <2>4, <3>4
  <2> QED  BY <2>3, <2>4
<1> QED  BY <1>1, <1>2 DEF BarriersHold

LEMMA ClosedDestroy ==
  ASSUME Closed(ptLive), NEW w \in ptLive,
         NEW gone, gone = {v \in ptLive : \E i \in DOMAIN AncestorPath(v) : AncestorPath(v)[i] = w}
  PROVE  /\ Closed(ptLive \ gone)
         /\ \A v \in (ptLive \ gone) \cup {PtRoot} : Lineage(v) \cap gone = {}
<1>1. ptLive \subseteq PtWins /\ PtRoot \notin ptLive
  BY PtAssumption DEF Closed
<1>2. ASSUME NEW v \in ptLive PROVE v \in gone <=> w \in Lineage(v)
  <2> DEFINE p == AncestorPath(v)
  <2>1. IsPath(p, v, ptLive)
    BY <1>1, PathFacts DEF PtAll
  <2>2. ToSet(p) = Lineage(v)
    BY <2>1 DEF IsPath
  <2>3. v \in gone <=> \E i \in DOMAIN p : p[i] = w
    OBVIOUS
  <2> HIDE DEF p
  <2>4. w \in ToSet(p) <=> \E i \in DOMAIN p : p[i] = w
    BY DEF ToSet
  <2> QED  BY <2>2, <2>3, <2>4
<1>3. gone \subseteq ptLive
  OBVIOUS
<1>4. ASSUME NEW v \in ptLive \ gone PROVE Lineage(v) \cap gone = {}
  <2> SUFFICES ASSUME NEW x \in Lineage(v), x \in gone PROVE FALSE
    OBVIOUS
  <2>1. w \in Lineage(x)
    BY <1>2, <1>3
  <2>2. v \in PtAll BY <1>1 DEF PtAll
  <2>3. w \in Lineage(v)
    BY <2>1, <2>2, LineageOn
  <2> QED  BY <1>2, <2>3
<1>5. Lineage(PtRoot) \cap gone = {}
  BY <1>1, <1>3, RootLineage
<1>6. ASSUME NEW v \in ptLive \ gone PROVE PtParent[v] \in (ptLive \ gone) \cup {PtRoot}
  <2>1. PtParent[v] \in ptLive \cup {PtRoot}
    BY DEF Closed
  <2>2. v \in PtAll /\ v \in PtWins
    BY <1>1 DEF PtAll
  <2>3. PtClimb(v)[0] = v /\ (PtClimb(v)[0] \in PtWins => PtClimb(v)[0+1] = PtParent[PtClimb(v)[0]])
    BY <2>2, PtClimbFacts
  <2>4. PtParent[v] \in Lineage(v)
    <3>1. PtParent[v] = PtClimb(v)[1] BY <2>2, <2>3
    <3> QED  BY <3>1 DEF Lineage
  <2> QED  BY <1>4, <2>1, <2>4
<1> QED  BY <1>1, <1>4, <1>5, <1>6 DEF Closed

LEMMA CrossedType ==
  ASSUME NEW inside \in SUBSET PtWins, NEW old, NEW new
  PROVE  Crossed(inside, old, new) \in SUBSET PtWins
<1>1. \A s : Told(inside, s) \subseteq PtWins
  BY DEF Told
<1> QED  BY <1>1 DEF Crossed

(* Crossings tell of a window whatever was believed of the others. *)
LEMMA ToldApart ==
  ASSUME NEW I \in SUBSET PtWins, NEW M \in SUBSET PtWins, NEW s
  PROVE  Told(I \cup M, s) \subseteq Told(I, s) \cup M
<1> SUFFICES ASSUME NEW w \in Told(I \cup M, s), w \notin M PROVE w \in Told(I, s)
  OBVIOUS
<1> DEFINE about == {i \in DOMAIN s : s[i][1] \in {"Enter", "Leave"} /\ s[i][2] = w}
<1>1. w \in PtWins
  BY DEF Told
<1>2. IF ~Known(w) \/ about = {} THEN w \in I \cup M ELSE s[Hi(about)][1] = "Enter"
  BY Zenon DEF Told
<1>3. w \in Told(I, s) <=> (IF ~Known(w) \/ about = {} THEN w \in I ELSE s[Hi(about)][1] = "Enter")
  BY <1>1, Zenon DEF Told
<1> HIDE DEF about
<1> QED  BY <1>2, <1>3

LEMMA CrossedApart ==
  ASSUME NEW I \in SUBSET PtWins, NEW M \in SUBSET PtWins, NEW old, NEW new
  PROVE  Crossed(I \cup M, old, new) \subseteq Crossed(I, old, new) \cup M
BY ToldApart DEF Crossed

(* What the client is told and what it was misled about cover the windows the *)
(* pointer is in after a crossing too.                                        *)
LEMMA HeardBelieved ==
  ASSUME Closed(ptLive), NEW I \in SUBSET PtWins, NEW M \in SUBSET PtWins,
         NEW old \in PtAll, NEW new \in PtAll, Believed(I \cup M, old, ptLive)
  PROVE  Believed(Crossed(I, old, new) \cup M, new, ptLive)
<1>1. Believed(Crossed(I \cup M, old, new), new, ptLive)
  BY CrossedBelieved
<1>2. Crossed(I \cup M, old, new) \subseteq Crossed(I, old, new) \cup M
  BY CrossedApart
<1> QED  BY <1>1, <1>2 DEF Believed

(* A warp that stays in its window says at most that one window was left. *)
LEMMA BareTold ==
  ASSUME NEW I \in SUBSET PtWins, NEW M \in SUBSET PtWins, NEW u \in PtAll, NEW w \in PtAll,
         NEW x \in (I \cup M) \ {u}
  PROVE  x \in Told(I, <<<<"Leave", u>>, <<"Enter", w>>>>) \cup M
<1> DEFINE s == <<<<"Leave", u>>, <<"Enter", w>>>>
           about == {i \in DOMAIN s : s[i][1] \in {"Enter", "Leave"} /\ s[i][2] = x}
<1>1. CASE x \in M
  BY <1>1
<1>2. CASE x \in I
  <2>1. x \in PtWins
    BY <1>2
  <2>2. x \in Told(I, s) <=> (IF ~Known(x) \/ about = {} THEN x \in I ELSE s[Hi(about)][1] = "Enter")
    BY <2>1, Zenon DEF Told
  <2>3. DOMAIN s = 1..2 /\ s[1] = <<"Leave", u>> /\ s[2] = <<"Enter", w>>
    OBVIOUS
  <2> HIDE DEF s
  <2>4. about \subseteq {2}
    <3> SUFFICES ASSUME NEW i \in about PROVE i = 2
      OBVIOUS
    <3>1. i \in 1..2 /\ s[i][2] = x BY <2>3
    <3>2. i # 1
      BY <2>3, <3>1
    <3> QED  BY <3>1, <3>2
  <2> HIDE DEF about
  <2>5. CASE about = {}
    BY <1>2, <2>2, <2>5 DEF s
  <2>6. CASE about # {}
    <3>1. about = {2} BY <2>4, <2>6
    <3>2. Ended({2})
      BY PlacesEnded
    <3>3. Hi(about) = 2
      BY <3>1, <3>2, LoHi
    <3> QED  BY <2>2, <2>3, <3>3 DEF s
  <2> QED  BY <2>5, <2>6
<1> QED  BY <1>1, <1>2

(* The barriers hold a motion from where the pointer is, and nothing leaks. *)
LEMMA MotionHeld ==
  ASSUME PointerInv, NEW p \in Spots, NEW q \in EnforceBarriers(ptAt, p)
  PROVE  q \in Spots /\ (Leaks(p, q) => ~ptLeak')
<1>1. ptFences \subseteq PtBarriers /\ IsFiniteSet(ptFences) /\ ptAt \in Spots /\ ~ptLeak
  BY DEF PointerInv, PtTypeOK, Spots
<1>2. q \in Spots
  <2>0. PICK o \in Seq(PtBarriers) : \E f : ToSet(o) = ptFences /\ Meets(f, o, ptAt, p) /\ q = f[Len(o)]
    BY <1>1, EnforceFacts
  <2>1. PICK f : ToSet(o) = ptFences /\ Meets(f, o, ptAt, p) /\ q = f[Len(o)]
    BY <2>0
  <2>2. Len(o) \in 0..Len(o) /\ f \in [0..Len(o) -> Spots]
    BY <2>1 DEF Meets
  <2> QED  BY <2>1, <2>2
<1>3. ASSUME NEW b \in ptFences, b.dirs = {} PROVE ~Crosses(ptAt, p, q, b)
  BY <1>1, <1>3, BarrierHeld
<1> QED  BY <1>1, <1>2, <1>3 DEF Leaks

LEMMA RootedSpot ==
  ASSUME NEW top \in PtWins, NEW q \in Spots PROVE LocalToRoot(top, q) \in Spots
<1>1. q[1] \in Int /\ q[2] \in Int
  BY DEF Spots
<1>2. Begins(top) \in Int /\ PtFar \in Int
  BY PtAssumption DEF Begins
<1> DEFINE x == Begins(top) + q[1]
<1>3. x \in Int
  BY <1>1, <1>2
<1> HIDE DEF x
<1>4. Narrow(x) \in Int
  BY <1>2, <1>3 DEF Narrow
<1> QED  BY <1>1, <1>4 DEF LocalToRoot, Spots, x

LEMMA PointerStep == PointerInv /\ [PtNext]_ptVars => PointerInv'
<1> SUFFICES ASSUME PointerInv, [PtNext]_ptVars PROVE PointerInv'
  OBVIOUS
<1>1. /\ PtTypeOK /\ Closed(ptLive) /\ IsFiniteSet(ptFences) /\ ~ptLeak
      /\ Believed(ptInside \cup ptMisled, ptLast, ptLive)
  BY DEF PointerInv
<1>2. /\ ptAt \in Spots /\ ptFences \subseteq PtBarriers /\ PtHeld(ptGrab) /\ ptLast \in PtAll
      /\ ptInside \in SUBSET PtWins /\ ptMisled \in SUBSET PtWins
      /\ ptMapped \subseteq ptLive /\ ptLive \subseteq PtWins
      /\ ptHint \in BOOLEAN
  BY <1>1 DEF PtTypeOK, PtHeld, PtAll, Spots
<1>3. PtRoot \in PtAll /\ PtRoot \notin PtWins /\ PtWins \subseteq PtAll
      /\ \A l \in PtPoints : l \in Spots
  BY PtAssumption DEF PtAll, Spots
<1> DEFINE Move == /\ ptLast' \in PtAll /\ ptInside' \in SUBSET PtWins /\ ptMisled' \in SUBSET PtWins
                   /\ Believed(ptInside' \cup ptMisled', ptLast', ptLive)
           Rest == /\ ptAt' \in Spots /\ PtHeld(ptGrab') /\ ptHint' \in BOOLEAN /\ ptLeak' = FALSE
                   /\ ptLive' = ptLive /\ ptMapped' \subseteq ptLive /\ ptFences' = ptFences
<1>4. ASSUME Move, Rest PROVE PointerInv'
  <2>1. PtTypeOK'
    BY <1>2, <1>4 DEF PtTypeOK, PtHeld, PtAll, Spots
  <2>2. Closed(ptLive)' /\ IsFiniteSet(ptFences)' /\ Believed(ptInside \cup ptMisled, ptLast, ptLive)'
    BY <1>1, <1>4 DEF Closed, Believed
  <2> QED  BY <1>4, <2>1, <2>2 DEF PointerInv
<1>5. ASSUME NEW S \in SUBSET PtWins, NEW new \in PtAll, Hears(S), ptLast' = new,
             Believed(S \cup ptMisled, new, ptLive)
      PROVE  Move
  <2>1. ptInside' = S /\ ptMisled' = ptMisled \ S
    BY <1>5 DEF Hears
  <2>2. S \cup (ptMisled \ S) = S \cup ptMisled
    OBVIOUS
  <2> QED  BY <1>2, <1>5, <2>1, <2>2
<1>6. ASSUME NEW old \in PtAll, NEW new \in PtAll, Believed(ptInside \cup ptMisled, old, ptLive),
             Hears(Crossed(ptInside, old, new)), ptLast' = new
      PROVE  Move
  <2> DEFINE S == Crossed(ptInside, old, new)
  <2>1. S \in SUBSET PtWins
    BY <1>2, CrossedType
  <2>2. Believed(S \cup ptMisled, new, ptLive)
    BY <1>1, <1>2, <1>6, HeardBelieved
  <2>3. Hears(S)
    BY <1>6
  <2> HIDE DEF S, Move
  <2> QED  BY <1>5, <1>6, <2>1, <2>2, <2>3
<1>7. UNCHANGED <<ptInside, ptLast, ptMisled>> => Move
  BY <1>1, <1>2
<1> HIDE DEF Move
<1>8. ASSUME NEW top \in PtWins, NEW l \in Spots, MotionNotify(top, l) PROVE PointerInv'
  <2> DEFINE c == ClampToConfine(l)
  <2>1. PICK q \in EnforceBarriers(ptAt, c) :
           LET r == LocalToRoot(top, q)
               deep == FindDeepest(top, r[1])
               win == ResolveTarget(top, r[1])
           IN  /\ ptAt' = r
               /\ Hears(Crossed(Crossed(ptInside, ptLast, deep), deep, win))
               /\ ptLast' = win
               /\ HintGiven(win, deep # win)
               /\ IF Begins(top) = 0 THEN Leaks(c, q) ELSE UNCHANGED ptLeak
               /\ UNCHANGED <<ptLive, ptMapped, ptGrab, ptFences>>
    BY <1>8, Zenon DEF MotionNotify
  <2>2. c \in Spots
    BY <1>2, PointerConfined
  <2> HIDE DEF c
  <2>3. q \in Spots /\ (Leaks(c, q) => ~ptLeak')
    BY <2>2, MotionHeld
  <2> DEFINE r == LocalToRoot(top, q)
             x == r[1]
             deep == FindDeepest(top, x)
             win == ResolveTarget(top, x)
             mid == Crossed(ptInside, ptLast, deep)
  <2>4. /\ ptAt' = r /\ Hears(Crossed(mid, deep, win)) /\ ptLast' = win /\ HintGiven(win, deep # win)
        /\ IF Begins(top) = 0 THEN Leaks(c, q) ELSE UNCHANGED ptLeak
        /\ UNCHANGED <<ptLive, ptMapped, ptGrab, ptFences>>
    BY <2>1, Zenon
  <2>5. r \in Spots
    BY <2>3, RootedSpot
  <2>6. ptLeak' = FALSE
    <3>1. CASE Begins(top) = 0
      <4>1. Leaks(c, q) BY <2>4, <3>1
      <4>2. ptLeak' \in BOOLEAN BY <4>1, Zenon DEF Leaks
      <4> QED  BY <2>3, <4>1, <4>2
    <3>2. CASE Begins(top) # 0
      BY <1>1, <2>4, <3>2
    <3> QED  BY <3>1, <3>2
  <2>7. ptHint' \in BOOLEAN
    BY <2>4, Zenon DEF HintGiven
  <2>8. Rest
    BY <1>2, <2>4, <2>5, <2>6, <2>7
  <2> HIDE DEF r, x
  <2>9. deep \in PtAll /\ win \in PtAll
    BY <1>1, <1>2, <1>3, DeepestType, TargetType
  <2> HIDE DEF deep, win
  <2>10. mid \in SUBSET PtWins /\ Believed(mid \cup ptMisled, deep, ptLive)
    BY <1>1, <1>2, <2>9, CrossedType, HeardBelieved
  <2> HIDE DEF mid
  <2> DEFINE S == Crossed(mid, deep, win)
  <2>11. S \in SUBSET PtWins /\ Believed(S \cup ptMisled, win, ptLive) /\ Hears(S)
    BY <1>1, <1>2, <2>4, <2>9, <2>10, CrossedType, HeardBelieved
  <2> HIDE DEF S
  <2>12. Move
    BY <1>5, <2>4, <2>9, <2>11
  <2> QED  BY <1>4, <2>8, <2>12
<1>9. ASSUME NEW top \in PtWins, NEW l \in Spots, SkippedMotion(top, l) PROVE PointerInv'
  <2>1. PICK q \in EnforceBarriers(ptAt, l) :
          /\ ptAt' = q /\ IF Begins(top) = 0 THEN Leaks(l, q) ELSE UNCHANGED ptLeak
          /\ UNCHANGED <<ptLive, ptMapped, ptLast, ptInside, ptGrab, ptFences, ptHint, ptMisled>>
    BY <1>9, Zenon DEF SkippedMotion
  <2>2. q \in Spots /\ (Leaks(l, q) => ~ptLeak')
    BY MotionHeld
  <2>3. ptLeak' = FALSE
    <3>1. Leaks(l, q) => ptLeak' \in BOOLEAN BY Zenon DEF Leaks
    <3> QED  BY <1>1, <2>1, <2>2, <3>1
  <2>4. Rest
    BY <1>2, <2>1, <2>2, <2>3
  <2> QED  BY <1>4, <1>7, <2>1, <2>4
<1>10. ASSUME NEW top \in PtWins, NEW l \in Spots, Button(top, l) PROVE PointerInv'
  <2> DEFINE r == LocalToRoot(top, l)
             x == r[1]
             deep == FindDeepest(top, x)
  <2>1. /\ ptAt' = r /\ Hears(Crossed(ptInside, ptLast, deep)) /\ ptLast' = deep
        /\ ptHint' = (ptHint /\ BlockedByModal(ResolveTarget(top, x)))
        /\ UNCHANGED <<ptLive, ptMapped, ptGrab, ptFences, ptLeak>>
    BY <1>10, Zenon DEF Button
  <2>2. r \in Spots /\ ptHint' \in BOOLEAN
    BY <2>1, RootedSpot, Zenon
  <2>3. Rest
    BY <1>1, <1>2, <2>1, <2>2
  <2> HIDE DEF r, x
  <2>4. deep \in PtAll
    BY <1>3, DeepestType
  <2> HIDE DEF deep
  <2>5. Move
    BY <1>1, <1>2, <1>6, <2>1, <2>4
  <2> QED  BY <1>4, <2>3, <2>5
<1>11. ASSUME NEW top \in PtWins, NEW d \in PtKeyMoves, MouseKeysMove(top, d) PROVE PointerInv'
  <2> DEFINE s == <<Shifted(ptAt[1], d[1]), Shifted(ptAt[2], d[2])>>
             r == LocalToRoot(top, s)
             x == r[1]
             win == ResolveTarget(top, x)
  <2>1. /\ ptAt' = r /\ Hears(Crossed(ptInside, ptLast, win)) /\ ptLast' = win
        /\ HintGiven(win, ptLast # win)
        /\ UNCHANGED <<ptLive, ptMapped, ptGrab, ptFences, ptLeak>>
    BY <1>11, Zenon DEF MouseKeysMove
  <2>2. s \in Spots
    <3>1. ptAt[1] \in Int /\ ptAt[2] \in Int BY <1>2 DEF Spots
    <3>2. d[1] \in Int /\ d[2] \in Int BY PtAssumption
    <3>3. Shifted(ptAt[1], d[1]) \in Int /\ Shifted(ptAt[2], d[2]) \in Int
      BY <3>1, <3>2 DEF Shifted
    <3> QED  BY <3>3 DEF Spots
  <2> HIDE DEF s
  <2>3. r \in Spots
    BY <2>2, RootedSpot
  <2>4. ptHint' \in BOOLEAN
    BY <2>1, Zenon DEF HintGiven
  <2>5. Rest
    BY <1>1, <1>2, <2>1, <2>3, <2>4
  <2> HIDE DEF r, x
  <2>6. win \in PtAll
    BY <1>1, <1>2, <1>3, TargetType
  <2> HIDE DEF win
  <2>7. Move
    BY <1>1, <1>2, <1>6, <2>1, <2>6
  <2> QED  BY <1>4, <2>5, <2>7
<1>12. ASSUME NEW top \in PtWins, MouseKeysClick(top) PROVE PointerInv'
  <2> DEFINE r == LocalToRoot(top, ptAt)
  <2>1. /\ ptAt' = r /\ ptHint' = (ptHint /\ BlockedByModal(ResolveTarget(top, r[1])))
        /\ UNCHANGED <<ptLive, ptMapped, ptLast, ptInside, ptGrab, ptFences, ptMisled, ptLeak>>
    BY <1>12, Zenon DEF MouseKeysClick
  <2>2. r \in Spots /\ ptHint' \in BOOLEAN
    BY <1>2, <2>1, RootedSpot, Zenon
  <2> HIDE DEF r
  <2>3. Rest
    BY <1>1, <1>2, <2>1, <2>2
  <2> QED  BY <1>4, <1>7, <2>1, <2>3
<1>13. ASSUME NEW p \in Spots, XTestMotion(p) PROVE PointerInv'
  <2>1. PICK q \in EnforceBarriers(ptAt, p) :
          LET win == FindEventSubwindow(PtRoot, q[1])
          IN  /\ ptAt' = q /\ Hears(Crossed(ptInside, ptLast, win)) /\ ptLast' = win
              /\ Leaks(p, q) /\ UNCHANGED <<ptLive, ptMapped, ptGrab, ptFences, ptHint>>
    BY <1>13, Zenon DEF XTestMotion
  <2> DEFINE x == q[1]
             win == FindEventSubwindow(PtRoot, x)
  <2>2. /\ ptAt' = q /\ Hears(Crossed(ptInside, ptLast, win)) /\ ptLast' = win
        /\ Leaks(p, q) /\ UNCHANGED <<ptLive, ptMapped, ptGrab, ptFences, ptHint>>
    BY <2>1, Zenon
  <2>3. q \in Spots /\ ~ptLeak'
    BY <2>2, MotionHeld
  <2>4. ptLeak' = FALSE
    <3>1. ptLeak' \in BOOLEAN BY <2>2, Zenon DEF Leaks
    <3> QED  BY <2>3, <3>1
  <2>5. Rest
    BY <1>2, <2>2, <2>3, <2>4
  <2> HIDE DEF x
  <2>6. win \in PtAll
    BY <1>1, <1>3, SubwindowType
  <2> HIDE DEF win
  <2>7. Move
    BY <1>1, <1>2, <1>6, <2>2, <2>6
  <2> QED  BY <1>4, <2>5, <2>7
<1>14. ASSUME NEW p \in Spots, WarpPointer(p) PROVE PointerInv'
  <2>1. PICK q \in EnforceBarriers(ptAt, p) :
          LET win == FindEventSubwindow(PtRoot, q[1])
              under == FindDeepest(PtRoot, ptAt[1])
              bare == Told(ptInside, <<<<"Leave", under>>, <<"Enter", win>>>>)
          IN  /\ ptAt' = q
              /\ IF ptLast = win /\ under # win
                 THEN ptInside' = bare /\ ptMisled' = (ptMisled \cup ({under} \ {PtRoot})) \ bare
                 ELSE Hears(Crossed(ptInside, ptLast, win))
              /\ ptLast' = win /\ Leaks(p, q)
              /\ UNCHANGED <<ptLive, ptMapped, ptGrab, ptFences, ptHint>>
    BY <1>14, Zenon DEF WarpPointer
  <2> DEFINE x == q[1]
             z == ptAt[1]
             win == FindEventSubwindow(PtRoot, x)
             under == FindDeepest(PtRoot, z)
             bare == Told(ptInside, <<<<"Leave", under>>, <<"Enter", win>>>>)
  <2>2. /\ ptAt' = q
        /\ IF ptLast = win /\ under # win
           THEN ptInside' = bare /\ ptMisled' = (ptMisled \cup ({under} \ {PtRoot})) \ bare
           ELSE Hears(Crossed(ptInside, ptLast, win))
        /\ ptLast' = win /\ Leaks(p, q)
        /\ UNCHANGED <<ptLive, ptMapped, ptGrab, ptFences, ptHint>>
    BY <2>1, Zenon
  <2>3. q \in Spots /\ ~ptLeak'
    BY <2>2, MotionHeld
  <2>4. ptLeak' = FALSE
    <3>1. ptLeak' \in BOOLEAN BY <2>2, Zenon DEF Leaks
    <3> QED  BY <2>3, <3>1
  <2>5. Rest
    BY <1>2, <2>2, <2>3, <2>4
  <2> HIDE DEF x, z
  <2>6. win \in PtAll /\ under \in PtAll
    BY <1>1, <1>3, SubwindowType, DeepestType
  <2>7. bare \in SUBSET PtWins
    BY DEF Told
  <2>8. \A y \in (ptInside \cup ptMisled) \ {under} : y \in bare \cup ptMisled
    BY <1>2, <2>6, BareTold
  <2> HIDE DEF win, under, bare
  <2>9. CASE ptLast = win /\ under # win
    <3>1. ptInside' = bare /\ ptMisled' = (ptMisled \cup ({under} \ {PtRoot})) \ bare
      BY <2>2, <2>9
    <3>2. ptInside' \in SUBSET PtWins /\ ptMisled' \in SUBSET PtWins
      BY <1>2, <2>6, <2>7, <3>1 DEF PtAll
    <3>3. Believed(ptInside' \cup ptMisled', ptLast', ptLive)
      <4> SUFFICES ASSUME ptLast \in ptLive \cup {PtRoot}, NEW y \in Lineage(ptLast), y # PtRoot
                   PROVE  y \in ptInside' \cup ptMisled'
        BY <2>2, <2>9 DEF Believed
      <4>1. y \in ptInside \cup ptMisled BY <1>1 DEF Believed
      <4> QED  BY <2>8, <3>1, <4>1
    <3>4. Move
      BY <2>2, <2>6, <3>2, <3>3 DEF Move
    <3> QED  BY <1>4, <2>5, <3>4
  <2>10. CASE ~(ptLast = win /\ under # win)
    <3>1. Move
      BY <1>1, <1>2, <1>6, <2>2, <2>6, <2>10
    <3> QED  BY <1>4, <2>5, <3>1
  <2> QED  BY <2>9, <2>10
<1>15. ASSUME NEW g \in PtGrabs, BeginGrab(g) PROVE PointerInv'
  <2>1. g.win \in PtAll
    BY PtAssumption DEF PtAll
  <2>2. Move
    BY <1>1, <1>2, <1>6, <1>15, <2>1 DEF BeginGrab
  <2>3. Rest
    BY <1>1, <1>2, <1>15 DEF BeginGrab, PtHeld
  <2> QED  BY <1>4, <2>2, <2>3
<1>16. ASSUME EndGrab PROVE PointerInv'
  <2>1. PICK g \in ptGrab :
          /\ ptGrab' = {}
          /\ IF g.win = PtRoot THEN UNCHANGED <<ptInside, ptLast, ptMisled>>
             ELSE Hears(Crossed(ptInside, g.win, PtRoot)) /\ ptLast' = PtRoot
          /\ UNCHANGED <<ptLive, ptMapped, ptAt, ptFences, ptHint, ptLeak>>
    BY <1>16 DEF EndGrab
  <2>2. Rest
    BY <1>1, <1>2, <2>1 DEF PtHeld
  <2>3. Move
    <3>1. CASE g.win = PtRoot
      BY <1>7, <2>1, <3>1
    <3>2. CASE g.win # PtRoot
      <4> DEFINE S == Crossed(ptInside, g.win, PtRoot)
      <4>1. Hears(S) /\ ptLast' = PtRoot
        BY <2>1, <3>2
      <4>2. S \in SUBSET PtWins
        BY <1>2, CrossedType
      <4>3. Believed(S \cup ptMisled, PtRoot, ptLive)
        BY RootLineage DEF Believed
      <4> HIDE DEF S
      <4> QED  BY <1>3, <1>5, <4>1, <4>2, <4>3
    <3> QED  BY <3>1, <3>2
  <2> QED  BY <1>4, <2>2, <2>3
<1>17. ASSUME NEW w \in PtWins, PtMap(w) PROVE PointerInv'
  <2>1. Rest
    BY <1>1, <1>2, <1>17 DEF PtMap
  <2>2. Move
    <3>1. (Hears(Crossed(ptInside, ptLast, w)) /\ ptLast' = w) \/ UNCHANGED <<ptInside, ptLast, ptMisled>>
      BY <1>17 DEF PtMap
    <3> QED  BY <1>1, <1>2, <1>3, <1>6, <1>7, <3>1
  <2> QED  BY <1>4, <2>1, <2>2
<1>18. ASSUME NEW w \in PtWins, PtUnmap(w) PROVE PointerInv'
  <2>1. Rest
    BY <1>1, <1>2, <1>18 DEF PtUnmap
  <2>2. Move
    <3>1. \/ ptLast = w /\ Hears(Crossed(ptInside, w, PtParent[w])) /\ ptLast' = PtParent[w]
          \/ UNCHANGED <<ptInside, ptLast, ptMisled>>
      BY <1>18 DEF PtUnmap
    <3>2. PtParent[w] \in PtAll
      BY PtAssumption DEF PtAll
    <3> DEFINE v == PtParent[w]
    <3>3. v \in PtAll /\ (\/ ptLast = w /\ Hears(Crossed(ptInside, w, v)) /\ ptLast' = v
                          \/ UNCHANGED <<ptInside, ptLast, ptMisled>>)
      BY <3>1, <3>2
    <3> HIDE DEF v
    <3> QED  BY <1>1, <1>2, <1>3, <1>6, <1>7, <3>3
  <2> QED  BY <1>4, <2>1, <2>2
<1>19. ASSUME NEW w \in PtWins, PtDestroy(w) PROVE PointerInv'
  <2> DEFINE gone == {v \in ptLive : \E i \in DOMAIN AncestorPath(v) : AncestorPath(v)[i] = w}
  <2>1. /\ w \in ptLive
        /\ ptLive' = ptLive \ gone /\ ptMapped' = ptMapped \ gone /\ ptInside' = ptInside \ gone
        /\ ptMisled' = ptMisled \ gone
        /\ UNCHANGED <<ptAt, ptLast, ptGrab, ptFences, ptHint, ptLeak>>
    BY <1>19, Zenon DEF PtDestroy
  <2>2. /\ Closed(ptLive \ gone)
        /\ \A v \in (ptLive \ gone) \cup {PtRoot} : Lineage(v) \cap gone = {}
    BY <1>1, <2>1, ClosedDestroy
  <2> HIDE DEF gone
  <2>3. PtTypeOK'
    BY <1>1, <1>2, <2>1 DEF PtTypeOK, PtHeld, PtAll, Spots
  <2>4. Closed(ptLive)'
    BY <2>1, <2>2 DEF Closed
  <2>5. IsFiniteSet(ptFences)' /\ ~ptLeak'
    BY <1>1, <2>1
  <2>6. Believed(ptInside \cup ptMisled, ptLast, ptLive)'
    <3> SUFFICES ASSUME ptLast \in (ptLive \ gone) \cup {PtRoot}, NEW x \in Lineage(ptLast), x # PtRoot
                 PROVE  x \in (ptInside \ gone) \cup (ptMisled \ gone)
      BY <2>1 DEF Believed
    <3>1. x \in ptInside \cup ptMisled
      BY <1>1 DEF Believed
    <3>2. x \notin gone
      BY <2>2
    <3> QED  BY <3>1, <3>2
  <2> QED  BY <2>3, <2>4, <2>5, <2>6 DEF PointerInv
<1>20. ASSUME NEW b \in PtBarriers, CreateBarrier(b) \/ DeleteBarrier(b) PROVE PointerInv'
  <2>1. /\ ptFences' = ptFences \cup {b} \/ ptFences' = ptFences \ {b}
        /\ UNCHANGED <<ptLive, ptMapped, ptAt, ptLast, ptInside, ptGrab, ptHint, ptMisled, ptLeak>>
    BY <1>20 DEF CreateBarrier, DeleteBarrier
  <2>2. IsFiniteSet(ptFences \cup {b}) /\ IsFiniteSet(ptFences \ {b})
    BY <1>1, FS_AddElement, FS_RemoveElement, Zenon
  <2>3. IsFiniteSet(ptFences') /\ ~ptLeak'
    BY <1>1, <2>1, <2>2
  <2>4. PtTypeOK'
    BY <1>1, <1>2, <2>1 DEF PtTypeOK, PtHeld, PtAll, Spots
  <2>5. Closed(ptLive)' /\ Believed(ptInside \cup ptMisled, ptLast, ptLive)'
    BY <1>1, <2>1 DEF Closed, Believed
  <2> QED  BY <2>3, <2>4, <2>5 DEF PointerInv
<1>21. CASE UNCHANGED ptVars
  <2>1. UNCHANGED <<ptInside, ptLast, ptMisled>> /\ Rest
    BY <1>1, <1>2, <1>21 DEF ptVars
  <2> QED  BY <1>4, <1>7, <2>1
<1>22. CASE PtNext
  <2>1. \A l \in PtPoints : l \in Spots
    BY <1>3
  <2> QED
    BY <1>8, <1>9, <1>10, <1>11, <1>12, <1>13, <1>14, <1>15, <1>16, <1>17, <1>18, <1>19, <1>20,
       <1>22, <2>1, ZenonT(60) DEF PtNext
<1> QED  BY <1>21, <1>22
-----------------------------------------------------------------------------
(***************************************************************************)
(* XFocus.  Sequences written backwards.                                   *)
(***************************************************************************)
LEMMA ReverseFacts ==
  ASSUME NEW T, NEW s \in Seq(T)
  PROVE  /\ Reverse(s) \in Seq(T) /\ Len(Reverse(s)) = Len(s)
         /\ \A i \in 1..Len(s) : Reverse(s)[i] = s[(Len(s) - i) + 1]
<1>1. Len(s) \in Nat /\ \A i \in 1..Len(s) : (Len(s) - i) + 1 \in 1..Len(s)
  OBVIOUS
<1>2. \A i \in 1..Len(s) : s[(Len(s) - i) + 1] \in T
  BY <1>1
<1> QED  BY <1>1, <1>2 DEF Reverse

LEMMA SameSeq ==
  ASSUME NEW T, NEW s \in Seq(T), NEW t \in Seq(T), Len(s) = Len(t),
         \A i \in 1..Len(s) : s[i] = t[i]
  PROVE  s = t
OBVIOUS

LEMMA ConcatAt ==
  ASSUME NEW T, NEW s \in Seq(T), NEW t \in Seq(T), NEW m, NEW n, Len(s) = m, Len(t) = n
  PROVE  /\ s \o t \in Seq(T) /\ Len(s \o t) = m + n
         /\ \A i \in 1..m : (s \o t)[i] = s[i]
         /\ \A i \in (m+1)..(m+n) : (s \o t)[i] = t[i - m]
<1>1. m \in Nat /\ n \in Nat
  OBVIOUS
<1>2. s \o t \in Seq(T) /\ Len(s \o t) = m + n
  BY ConcatProperties
<1>3. \A i \in 1..(m+n) : (s \o t)[i] = IF i <= m THEN s[i] ELSE t[i - m]
  BY ConcatProperties
<1>4. \A i \in 1..m : i \in 1..(m+n) /\ i <= m
  BY <1>1
<1>5. \A i \in (m+1)..(m+n) : i \in 1..(m+n) /\ ~(i <= m)
  BY <1>1
<1> QED  BY <1>2, <1>3, <1>4, <1>5

LEMMA ReverseConcat ==
  ASSUME NEW T, NEW s \in Seq(T), NEW t \in Seq(T)
  PROVE  Reverse(s \o t) = Reverse(t) \o Reverse(s)
<1> DEFINE u == s \o t
           m == Len(s)
           n == Len(t)
           a == Reverse(u)
           b == Reverse(t) \o Reverse(s)
<1>1. m \in Nat /\ n \in Nat /\ u \in Seq(T) /\ Len(u) = m + n
  BY ConcatProperties
<1>2. /\ \A i \in 1..m : u[i] = s[i]
      /\ \A i \in (m+1)..(m+n) : u[i] = t[i - m]
  BY ConcatProperties
<1>3. Reverse(s) \in Seq(T) /\ Len(Reverse(s)) = m /\ \A i \in 1..m : Reverse(s)[i] = s[(m - i) + 1]
  BY ReverseFacts
<1>4. Reverse(t) \in Seq(T) /\ Len(Reverse(t)) = n /\ \A i \in 1..n : Reverse(t)[i] = t[(n - i) + 1]
  BY ReverseFacts
<1> HIDE DEF u
<1>5. a \in Seq(T) /\ Len(a) = m + n /\ \A i \in 1..(m+n) : a[i] = u[((m + n) - i) + 1]
  BY <1>1, ReverseFacts
<1> DEFINE rs == Reverse(s)
           rt == Reverse(t)
<1>6. rs \in Seq(T) /\ rt \in Seq(T) /\ Len(rs) = m /\ Len(rt) = n
  BY <1>3, <1>4
<1> HIDE DEF rs, rt, m, n, a
<1>7. /\ rt \o rs \in Seq(T) /\ Len(rt \o rs) = n + m
      /\ \A i \in 1..n : (rt \o rs)[i] = rt[i]
      /\ \A i \in (n+1)..(n+m) : (rt \o rs)[i] = rs[i - n]
  BY <1>6, ConcatAt
<1>8. b = rt \o rs
  BY DEF rt, rs
<1> HIDE DEF b
<1>9. b \in Seq(T) /\ Len(b) = n + m /\ (\A i \in 1..n : b[i] = rt[i])
      /\ \A i \in (n+1)..(n+m) : b[i] = rs[i - n]
  BY <1>7, <1>8
<1>10. ASSUME NEW i \in 1..(m+n) PROVE a[i] = b[i]
  <2>1. a[i] = u[((m + n) - i) + 1]
    BY <1>5
  <2>2. CASE i <= n
    <3>1. i \in 1..n /\ ((m + n) - i) + 1 \in (m+1)..(m+n)
          /\ (((m + n) - i) + 1) - m = (n - i) + 1
      BY <1>1, <2>2
    <3>2. u[((m + n) - i) + 1] = t[(n - i) + 1]
      BY <1>2, <3>1
    <3>3. b[i] = t[(n - i) + 1]
      BY <1>4, <1>9, <3>1 DEF rt
    <3> QED  BY <2>1, <3>2, <3>3
  <2>3. CASE i > n
    <3>1. i \in (n+1)..(n+m) /\ i - n \in 1..m /\ ((m + n) - i) + 1 \in 1..m
          /\ (m - (i - n)) + 1 = ((m + n) - i) + 1
      BY <1>1, <2>3
    <3>2. u[((m + n) - i) + 1] = s[((m + n) - i) + 1]
      BY <1>2, <3>1
    <3>3. b[i] = rs[i - n]
      BY <1>9, <3>1
    <3>4. rs[i - n] = s[(m - (i - n)) + 1]
      BY <1>3, <3>1 DEF rs
    <3> QED  BY <2>1, <3>1, <3>2, <3>3, <3>4
  <2> QED  BY <1>1, <2>2, <2>3
<1>11. a = b
  BY <1>1, <1>5, <1>9, <1>10, SameSeq
<1> QED  BY <1>11 DEF a, b, u

LEMMA ReverseTwice ==
  ASSUME NEW T, NEW s \in Seq(T) PROVE Reverse(Reverse(s)) = s
<1> DEFINE r == Reverse(s)
           n == Len(s)
<1>1. n \in Nat /\ r \in Seq(T) /\ Len(r) = n /\ \A i \in 1..n : r[i] = s[(n - i) + 1]
  BY ReverseFacts
<1> HIDE DEF r
<1>2. Reverse(r) \in Seq(T) /\ Len(Reverse(r)) = n /\ \A i \in 1..n : Reverse(r)[i] = r[(n - i) + 1]
  BY <1>1, ReverseFacts
<1>3. ASSUME NEW i \in 1..n PROVE Reverse(r)[i] = s[i]
  <2>1. (n - i) + 1 \in 1..n /\ (n - ((n - i) + 1)) + 1 = i
    BY <1>1
  <2> QED  BY <1>1, <1>2, <2>1
<1>4. Reverse(r) = s
  BY <1>2, <1>3, SameSeq
<1> QED  BY <1>4 DEF r

LEMMA ReverseOne ==
  ASSUME NEW x PROVE Reverse(<<x>>) = <<x>>
<1> DEFINE T == {x}
           s == <<x>>
<1>1. s \in Seq(T) /\ Len(s) = 1 /\ s[1] = x
  OBVIOUS
<1> HIDE DEF s, T
<1>2. Reverse(s) \in Seq(T) /\ Len(Reverse(s)) = 1 /\ Reverse(s)[1] = s[1]
  BY <1>1, ReverseFacts
<1>3. Reverse(s) = s
  BY <1>1, <1>2, SameSeq
<1> QED  BY <1>3 DEF s

LEMMA ReverseSet ==
  ASSUME NEW T, NEW s \in Seq(T) PROVE ToSet(Reverse(s)) = ToSet(s)
<1> DEFINE r == Reverse(s)
           n == Len(s)
<1>1. n \in Nat /\ r \in Seq(T) /\ Len(r) = n /\ \A i \in 1..n : r[i] = s[(n - i) + 1]
  BY ReverseFacts
<1> HIDE DEF r
<1>2. DOMAIN r = 1..n /\ DOMAIN s = 1..n
  BY <1>1
<1>3. \A i \in 1..n : (n - i) + 1 \in 1..n /\ (n - ((n - i) + 1)) + 1 = i
  BY <1>1
<1>4. \A x : x \in ToSet(r) <=> \E i \in 1..n : x = r[i]
  BY <1>2 DEF ToSet
<1>5. \A x : x \in ToSet(s) <=> \E i \in 1..n : x = s[i]
  BY <1>2 DEF ToSet
<1>6. \A i \in 1..n : s[i] = r[(n - i) + 1]
  BY <1>1, <1>3
<1>7. \A x : x \in ToSet(r) <=> x \in ToSet(s)
  BY <1>1, <1>3, <1>4, <1>5, <1>6
<1> QED  BY <1>7 DEF r

(***************************************************************************)
(* The part of a path before a window.                                     *)
(***************************************************************************)
LEMMA TailFacts ==
  ASSUME NEW T, NEW p \in Seq(T), Len(p) >= 1
  PROVE  /\ Tail(p) \in Seq(T) /\ Len(Tail(p)) = Len(p) - 1
         /\ \A i \in 1..(Len(p) - 1) : Tail(p)[i] = p[i+1]
  OBVIOUS

LEMMA TailBefore ==
  ASSUME NEW T, NEW p \in Seq(T), NEW j \in 2..Len(p), NEW h, p[j] = h,
         \A k \in 1..Len(p) : p[k] = h => j <= k
  PROVE  /\ h \in ToSet(Tail(p)) /\ Before(Tail(p), h) \in Seq(T)
         /\ SubSeq(p, 1, j - 1) = <<p[1]>> \o Before(Tail(p), h)
         /\ ToSet(Before(Tail(p), h)) = {p[k] : k \in 2..(j-1)}
<1> DEFINE t == Tail(p)
           n == Len(p)
<1>1. n \in Nat /\ n >= 2 /\ j - 1 \in 1..(n-1) /\ (j - 1) + 1 = j
  OBVIOUS
<1>2. t \in Seq(T) /\ Len(t) = n - 1 /\ \A i \in 1..(n-1) : t[i] = p[i+1]
  BY <1>1, TailFacts
<1> HIDE DEF t
<1>3. DOMAIN t = 1..(n-1)
  BY <1>1, <1>2
<1>4. t[j-1] = h
  BY <1>1, <1>2
<1>5. h \in ToSet(t)
  BY <1>1, <1>3, <1>4 DEF ToSet
<1>6. IndexIn(t, h) = j - 1
  <2> DEFINE i == IndexIn(t, h)
  <2>1. i \in 1..(n-1) /\ t[i] = h /\ i <= j - 1
    BY <1>1, <1>2, <1>4, <1>5, IndexFacts
  <2> HIDE DEF i
  <2>2. i + 1 \in 1..n /\ p[i+1] = h
    BY <1>1, <1>2, <2>1
  <2>3. j <= i + 1
    BY <2>2
  <2>4. i = j - 1
    BY <1>1, <2>1, <2>3
  <2> QED  BY <2>4 DEF i
<1> DEFINE b == SubSeq(t, 1, (j - 1) - 1)
<1>7. Before(t, h) = b
  BY <1>6 DEF Before
<1>8. /\ b \in Seq(T) /\ Len(b) = j - 2 /\ \A i \in 1..(j-2) : b[i] = t[i]
  <2>1. j - 2 \in 0..Len(t) /\ (j - 1) - 1 = j - 2
    BY <1>1, <1>2
  <2> QED  BY <1>2, <2>1, PrefixFacts
<1>9. \A i \in 1..(j-2) : i \in 1..(n-1) /\ b[i] = p[i+1]
  BY <1>1, <1>2, <1>8
<1> HIDE DEF b
<1> DEFINE a == SubSeq(p, 1, j - 1)
           c == <<p[1]>> \o b
<1>10. a \in Seq(T) /\ Len(a) = j - 1 /\ \A i \in 1..(j-1) : a[i] = p[i]
  <2>1. j - 1 \in 0..Len(p) BY <1>1
  <2> QED  BY <2>1, PrefixFacts
<1>11. c \in Seq(T) /\ Len(c) = j - 1 /\ c[1] = p[1] /\ \A i \in 2..(j-1) : c[i] = b[i-1]
  <2> DEFINE e == <<p[1]>>
  <2>1. e \in Seq(T) /\ Len(e) = 1 /\ e[1] = p[1] BY <1>1
  <2> HIDE DEF e
  <2>2. /\ e \o b \in Seq(T) /\ Len(e \o b) = 1 + (j - 2)
        /\ \A i \in 1..1 : (e \o b)[i] = e[i]
        /\ \A i \in (1+1)..(1 + (j - 2)) : (e \o b)[i] = b[i - 1]
    <3> DEFINE u == 1
               v == j - 2
    <3>1. Len(e) = u /\ Len(b) = v BY <1>8, <2>1
    <3> HIDE DEF u, v
    <3>2. /\ e \o b \in Seq(T) /\ Len(e \o b) = u + v
          /\ \A i \in 1..u : (e \o b)[i] = e[i]
          /\ \A i \in (u+1)..(u + v) : (e \o b)[i] = b[i - u]
      BY <1>8, <2>1, <3>1, ConcatAt
    <3> QED  BY <3>2 DEF u, v
  <2>3. 1 + (j - 2) = j - 1 /\ 1 + 1 = 2 /\ 1 \in 1..1 BY <1>1
  <2>4. c = e \o b BY DEF e
  <2> HIDE DEF c
  <2> QED  BY <2>1, <2>2, <2>3, <2>4
<1>12. a = c
  <2> HIDE DEF a, c
  <2>1. ASSUME NEW i \in 1..(j-1) PROVE a[i] = c[i]
    <3>1. CASE i = 1
      BY <1>10, <1>11, <3>1
    <3>2. CASE i # 1
      <4>1. i \in 2..(j-1) /\ i - 1 \in 1..(j-2) /\ (i - 1) + 1 = i BY <1>1, <3>2
      <4> QED  BY <1>9, <1>10, <1>11, <4>1
    <3> QED  BY <3>1, <3>2
  <2> QED  BY <1>1, <1>10, <1>11, <2>1, SameSeq
<1>13. ToSet(b) = {p[k] : k \in 2..(j-1)}
  <2>1. DOMAIN b = 1..(j-2) BY <1>1, <1>8
  <2>2. \A i \in 1..(j-2) : i + 1 \in 2..(j-1) BY <1>1
  <2>3. \A k \in 2..(j-1) : k - 1 \in 1..(j-2) /\ b[k-1] = p[k]
    <3>1. \A k \in 2..(j-1) : k - 1 \in 1..(j-2) /\ (k - 1) + 1 = k BY <1>1
    <3> QED  BY <1>9, <3>1
  <2>4. \A x : x \in ToSet(b) <=> \E i \in 1..(j-2) : x = b[i]
    BY <2>1 DEF ToSet
  <2>5. \A x : x \in ToSet(b) <=> \E k \in 2..(j-1) : x = p[k]
    <3>1. ASSUME NEW x, x \in ToSet(b) PROVE \E k \in 2..(j-1) : x = p[k]
      <4>1. PICK i \in 1..(j-2) : x = b[i] BY <2>4, <3>1
      <4> QED  BY <1>9, <2>2, <4>1
    <3>2. ASSUME NEW k \in 2..(j-1) PROVE p[k] \in ToSet(b)
      BY <2>3, <2>4
    <3> QED  BY <3>1, <3>2
  <2> QED  BY <2>5
<1> QED  BY <1>5, <1>7, <1>8, <1>12, <1>13 DEF t

(***************************************************************************)
(* The paths of windows that are attached to the root.                     *)
(***************************************************************************)
LEMMA FocusTree == Rooted(FcParent, FcRoot, FcWins, Len(FcOrder))
<1>1. FcOrder \in Seq(FcWins) /\ FcRoot \notin FcWins
      /\ FcParent \in [FcWins -> FcWins \cup {FcRoot}] /\ IsTree(FcParent, FcRoot, Len(FcOrder))
  BY FcAssumption
<1>2. Len(FcOrder) \in Nat
  BY <1>1
<1> QED  BY <1>1, <1>2 DEF Rooted

FcClimb(w) == Climb(FcParent, FcRoot, w)

LEMMA FcClimbFacts ==
  ASSUME NEW w \in FcAll
  PROVE  /\ FcClimb(w) \in [Nat -> FcAll] /\ FcClimb(w)[0] = w
         /\ FcClimb(w)[Len(FcOrder)] = FcRoot
         /\ \A i, j \in Nat : i < j /\ FcClimb(w)[i] # FcRoot => FcClimb(w)[j] # FcClimb(w)[i]
         /\ \A i, j \in Nat : i <= j /\ FcClimb(w)[i] = FcRoot => FcClimb(w)[j] = FcRoot
<1> DEFINE p == FcParent
           r == FcRoot
           W == FcWins
           N == Len(FcOrder)
<1>1. Rooted(p, r, W, N) /\ w \in W \cup {r}
  BY FocusTree DEF FcAll
<1> HIDE DEF p, r, W, N
<1>2. Climb(p, r, w) \in [Nat -> W \cup {r}] /\ Climb(p, r, w)[0] = w
  BY <1>1, ClimbType
<1>3. /\ Climb(p, r, w)[N] = r
      /\ \A i, j \in Nat : i < j /\ Climb(p, r, w)[i] # r => Climb(p, r, w)[j] # Climb(p, r, w)[i]
      /\ \A i, j \in Nat : i <= j /\ Climb(p, r, w)[i] = r => Climb(p, r, w)[j] = r
  BY <1>1, ClimbEnds
<1> QED  BY <1>2, <1>3, Zenon DEF p, r, W, N, FcClimb, FcAll

LEMMA FcClimbsMeet ==
  ASSUME NEW v \in FcAll, NEW w \in FcAll, NEW i \in Nat, NEW j \in Nat,
         FcClimb(v)[i] = FcClimb(w)[j], NEW t \in Nat
  PROVE  FcClimb(v)[i + t] = FcClimb(w)[j + t]
<1> DEFINE p == FcParent
           r == FcRoot
           W == FcWins
           N == Len(FcOrder)
<1>1. /\ Rooted(p, r, W, N) /\ v \in W \cup {r} /\ w \in W \cup {r}
      /\ Climb(p, r, v)[i] = Climb(p, r, w)[j]
  BY FocusTree DEF FcAll, FcClimb
<1> HIDE DEF p, r, W, N
<1>2. \A u \in Nat : Climb(p, r, v)[i + u] = Climb(p, r, w)[j + u]
  BY <1>1, ClimbsMeet
<1> QED  BY <1>2 DEF p, r, FcClimb

(* The path of any window. *)
LEMMA FcPathShape ==
  ASSUME NEW w \in FcAll, fcLive \subseteq FcWins
  PROVE  /\ FcPath(w) \in Seq(FcAll) /\ Len(FcPath(w)) >= 1 /\ FcPath(w)[1] = w
         /\ \A i \in 1..Len(FcPath(w)) : FcPath(w)[i] = FcClimb(w)[i-1]
         /\ \A i \in 1..(Len(FcPath(w)) - 1) : FcPath(w)[i] \in fcLive
         /\ FcPath(w)[Len(FcPath(w))] \notin fcLive
<1> DEFINE U == FcUp
           N == Len(FcOrder)
           E == FcAll \ fcLive
           at == FcClimb(w)
           p == FcPath(w)
<1>1. U \in Maps(FcAll) /\ N \in Nat
  BY FocusTree, TreeUp DEF Rooted, FcUp, FcAll
<1>2. p = Walk(U, w, E, N) /\ at = Iterate(U, w)
  BY DEF FcPath, FcClimb, Climb, FcUp
<1>3. at \in [Nat -> FcAll] /\ at[0] = w /\ at[N] = FcRoot
  BY FcClimbFacts
<1>4. at[N] \in E
  BY <1>3, FcAssumption DEF FcAll
<1> HIDE DEF U, N, E, at, p
<1>5. PICK n \in 0..N : /\ Walk(U, w, E, N) = [i \in 1..(n+1) |-> Iterate(U, w)[i-1]]
                        /\ Iterate(U, w)[n] \in E
                        /\ \A j \in 0..N : Iterate(U, w)[j] \in E => n <= j
  <2>1. N \in 0..N /\ Iterate(U, w)[N] \in E BY <1>1, <1>2, <1>4
  <2> QED  BY <1>1, <2>1, WalkFacts
<1>6. /\ p = [i \in 1..(n+1) |-> at[i-1]] /\ at[n] \in E
      /\ \A j \in 0..N : at[j] \in E => n <= j
  BY <1>2, <1>5
<1>7. n \in Nat /\ n <= N
  BY <1>1, <1>5
<1>8. p \in Seq(FcAll) /\ Len(p) = n + 1 /\ \A i \in 1..(n+1) : p[i] = at[i-1]
  <2>1. \A i \in 1..(n+1) : i - 1 \in Nat /\ at[i-1] \in FcAll
    BY <1>3, <1>7
  <2> QED  BY <1>6, <1>7, <2>1
<1>9. ASSUME NEW i \in 1..n PROVE p[i] \in fcLive
  <2>1. i - 1 \in 0..N /\ i \in 1..(n+1) /\ i - 1 < n /\ i - 1 \in Nat BY <1>1, <1>7
  <2>2. at[i-1] \notin E BY <1>6, <1>7, <2>1
  <2>3. at[i-1] \in FcAll BY <1>3, <2>1
  <2> QED  BY <1>8, <2>1, <2>2, <2>3 DEF E
<1>10. p[n+1] \notin fcLive
  <2>1. n + 1 \in 1..(n+1) /\ (n + 1) - 1 = n BY <1>7
  <2> QED  BY <1>6, <1>8, <2>1 DEF E
<1>11. p[1] = w
  <2>1. 1 \in 1..(n+1) /\ 1 - 1 = 0 BY <1>7
  <2> QED  BY <1>3, <1>8, <2>1
<1>12. Len(p) - 1 = n /\ Len(p) >= 1
  BY <1>7, <1>8
<1> QED  BY <1>7, <1>8, <1>9, <1>10, <1>11, <1>12 DEF p, at

IsLine(p, w) ==
  /\ p \in Seq(FcAll) /\ Len(p) >= 1 /\ p[1] = w /\ p[Len(p)] = FcRoot
  /\ \A i \in 1..Len(p) : p[i] = FcClimb(w)[i-1]
  /\ \A i, j \in 1..Len(p) : i < j => p[i] # p[j]

LEMMA AttachedLine ==
  ASSUME fcLive \subseteq FcWins, NEW w \in Attached
  PROVE  w \in FcAll /\ IsLine(FcPath(w), w)
<1> DEFINE p == FcPath(w)
<1>1. w \in FcAll /\ Last(p) = FcRoot
  BY DEF Attached, FcAll
<1>2. /\ p \in Seq(FcAll) /\ Len(p) >= 1 /\ p[1] = w
      /\ \A i \in 1..Len(p) : p[i] = FcClimb(w)[i-1]
      /\ \A i \in 1..(Len(p) - 1) : p[i] \in fcLive
  BY <1>1, FcPathShape
<1>3. p[Len(p)] = FcRoot
  BY <1>1 DEF Last
<1> HIDE DEF p
<1>4. ASSUME NEW i \in 1..Len(p), NEW j \in 1..Len(p), i < j PROVE p[i] # p[j]
  <2>1. Len(p) \in Nat BY <1>2
  <2>2. i \in 1..(Len(p) - 1) /\ i - 1 \in Nat /\ j - 1 \in Nat /\ i - 1 < j - 1
    BY <1>4, <2>1
  <2>3. p[i] # FcRoot
    BY <1>2, <2>2, FcAssumption
  <2>4. FcClimb(w)[i-1] # FcRoot
    BY <1>2, <2>3
  <2>5. FcClimb(w)[j-1] # FcClimb(w)[i-1]
    <3>1. \A a, b \in Nat : a < b /\ FcClimb(w)[a] # FcRoot => FcClimb(w)[b] # FcClimb(w)[a]
      BY <1>1, FcClimbFacts
    <3> QED  BY <2>2, <2>4, <3>1
  <2> QED  BY <1>2, <2>5
<1> QED  BY <1>1, <1>2, <1>3, <1>4 DEF IsLine, p

(* Two paths that have met stay together. *)
LEMMA LinesJoin ==
  ASSUME NEW v \in FcAll, NEW w \in FcAll, NEW p, NEW q, IsLine(p, v), IsLine(q, w),
         NEW i \in 1..Len(p), NEW j \in 1..Len(q), p[i] = q[j], NEW k \in 1..Len(p), i <= k
  PROVE  \E l \in j..Len(q) : p[k] = q[l]
<1>1. Len(p) \in Nat /\ Len(q) \in Nat
  BY DEF IsLine
<1>2. i - 1 \in Nat /\ j - 1 \in Nat /\ k - i \in Nat /\ (i - 1) + (k - i) = k - 1
  BY <1>1
<1>3. p[i] = FcClimb(v)[i-1] /\ q[j] = FcClimb(w)[j-1] /\ p[k] = FcClimb(v)[k-1]
  BY DEF IsLine
<1>4. FcClimb(v)[(i - 1) + (k - i)] = FcClimb(w)[(j - 1) + (k - i)]
  <2> DEFINE a == i - 1
             b == j - 1
             t == k - i
  <2>1. a \in Nat /\ b \in Nat /\ t \in Nat /\ FcClimb(v)[a] = FcClimb(w)[b]
    BY <1>2, <1>3
  <2> HIDE DEF a, b, t
  <2>2. FcClimb(v)[a + t] = FcClimb(w)[b + t]
    BY <2>1, FcClimbsMeet
  <2> QED  BY <2>2 DEF a, b, t
<1> DEFINE l == j + (k - i)
<1>5. p[k] = FcClimb(w)[(j - 1) + (k - i)] /\ (j - 1) + (k - i) = l - 1 /\ l - 1 \in Nat /\ l >= j /\ l \in Int
  BY <1>1, <1>2, <1>3, <1>4
<1>6. p[k] = FcClimb(w)[l - 1]
  BY <1>5
<1> HIDE DEF l
<1>7. CASE l <= Len(q)
  <2>1. l \in 1..Len(q) /\ l \in j..Len(q)
    BY <1>1, <1>5, <1>7
  <2>2. q[l] = FcClimb(w)[l-1]
    BY <2>1 DEF IsLine
  <2> QED  BY <1>6, <2>1, <2>2 DEF l
<1>8. CASE ~(l <= Len(q))
  <2>1. Len(q) - 1 \in Nat /\ Len(q) - 1 <= l - 1 /\ Len(q) \in 1..Len(q) /\ Len(q) \in j..Len(q) /\ l \in Int
    BY <1>1, <1>5, <1>8 DEF l
  <2>2. q[Len(q)] = FcRoot /\ q[Len(q)] = FcClimb(w)[Len(q) - 1]
    BY <2>1 DEF IsLine
  <2>3. FcClimb(w)[l-1] = FcRoot
    BY <1>5, <2>1, <2>2, FcClimbFacts
  <2> QED  BY <1>6, <2>1, <2>2, <2>3
<1> QED  BY <1>1, <1>7, <1>8 DEF l

(* The first window of p that is on q is the first of q that is on p. *)
LEMMA MeetSame ==
  ASSUME NEW v \in FcAll, NEW w \in FcAll, NEW p, NEW q, IsLine(p, v), IsLine(q, w),
         NEW i \in 1..Len(p), NEW j \in 1..Len(q), p[i] = q[j],
         \A k \in 1..Len(p) : p[k] \in ToSet(q) => i <= k
  PROVE  \A k \in 1..Len(q) : q[k] \in ToSet(p) <=> j <= k
<1>1. p \in Seq(FcAll) /\ q \in Seq(FcAll) /\ Len(p) \in Nat /\ Len(q) \in Nat
      /\ DOMAIN p = 1..Len(p) /\ DOMAIN q = 1..Len(q)
  BY DEF IsLine
<1>2. ASSUME NEW k \in 1..Len(q), j <= k PROVE q[k] \in ToSet(p)
  <2>1. PICK l \in i..Len(p) : q[k] = p[l]
    BY <1>2, LinesJoin
  <2>2. l \in 1..Len(p) BY <1>1, <2>1
  <2> QED  BY <1>1, <2>1, <2>2 DEF ToSet
<1>3. ASSUME NEW k \in 1..Len(q), q[k] \in ToSet(p), ~(j <= k) PROVE FALSE
  <2>1. PICK m \in 1..Len(p) : q[k] = p[m]
    BY <1>1, <1>3 DEF ToSet
  <2>2. q[k] \in ToSet(q)
    BY <1>1 DEF ToSet
  <2>3. i <= m
    BY <2>1, <2>2
  <2>4. PICK l \in j..Len(q) : p[m] = q[l]
    BY <2>1, <2>3, LinesJoin
  <2>5. l \in 1..Len(q) /\ k < l /\ q[k] = q[l]
    BY <1>1, <1>3, <2>1, <2>4
  <2> QED  BY <2>5 DEF IsLine
<1> QED  BY <1>2, <1>3

LEMMA KeptWithin ==
  ASSUME NEW T, NEW s \in Seq(T), NEW S, ToSet(s) \subseteq S
  PROVE  Kept(s, S) = s
<1>1. DOMAIN s = 1..Len(s)
  OBVIOUS
<1>2. AllIn(s, S)
  BY <1>1 DEF AllIn, ToSet
<1> QED  BY <1>2, KeptAll

LEMMA KeptOutside ==
  ASSUME NEW T, NEW s \in Seq(T), NEW S, ToSet(s) \cap S = {}
  PROVE  Kept(s, S) = <<>>
<1>1. DOMAIN s = 1..Len(s)
  OBVIOUS
<1>2. NoneIn(s, S)
  BY <1>1 DEF NoneIn, ToSet
<1> QED  BY <1>2, KeptNone

LEMMA OneSeq ==
  ASSUME NEW T, NEW x \in T PROVE <<x>> \in Seq(T) /\ ToSet(<<x>>) = {x}
BY DEF ToSet

(* What a path loses to another that it joins at its position j. *)
LEMMA PathOff ==
  ASSUME NEW w \in FcAll, NEW p, IsLine(p, w), NEW S, NEW j \in 1..Len(p),
         \A k \in 1..Len(p) : p[k] \in S <=> j <= k
  PROVE  Kept(p, FcAll \ S) = SubSeq(p, 1, j - 1)
<1>1. p \in Seq(FcAll) /\ Len(p) \in Nat /\ \A k \in 1..Len(p) : p[k] \in FcAll
  BY DEF IsLine
<1> DEFINE m == j - 1
           D == FcAll \ S
<1>2. m \in 0..Len(p) /\ (\A k \in 1..m : k \in 1..Len(p) /\ ~(j <= k))
      /\ \A k \in (m+1)..Len(p) : k \in 1..Len(p) /\ j <= k
  BY <1>1
<1>3. (\A k \in 1..m : p[k] \in D) /\ (\A k \in (m+1)..Len(p) : p[k] \notin D)
  BY <1>1, <1>2
<1> HIDE DEF m, D
<1>4. Kept(p, D) = SubSeq(p, 1, m)
  BY <1>1, <1>2, <1>3, KeptPrefix
<1> QED  BY <1>4 DEF m, D

(* A path, cut where it joins another one above its first window. *)
Cut(p, S, h, b) ==
  /\ b \in Seq(FcAll) /\ h \in ToSet(Tail(p)) /\ b = Before(Tail(p), h)
  /\ Kept(p, FcAll \ S) = <<p[1]>> \o b
  /\ p[1] \notin S /\ h \in S /\ ToSet(b) \cap S = {}
  /\ p[1] \notin ToSet(b) /\ h \in FcAll /\ p[1] # h

LEMMA PathCut ==
  ASSUME NEW w \in FcAll, NEW p, IsLine(p, w), NEW S, NEW j \in 2..Len(p),
         \A k \in 1..Len(p) : p[k] \in S <=> j <= k
  PROVE  Cut(p, S, p[j], Before(Tail(p), p[j]))
<1>1. p \in Seq(FcAll) /\ Len(p) \in Nat /\ \A i, k \in 1..Len(p) : i < k => p[i] # p[k]
  BY DEF IsLine
<1> DEFINE h == p[j]
           b == Before(Tail(p), h)
<1>2. j \in 1..Len(p) /\ 1 \in 1..Len(p) /\ ~(j <= 1)
      /\ \A k \in 2..(j-1) : k \in 1..Len(p) /\ ~(j <= k) /\ 1 < k
  BY <1>1
<1>3. \A k \in 1..Len(p) : p[k] = h => j <= k
  BY <1>2
<1>4. /\ h \in ToSet(Tail(p)) /\ b \in Seq(FcAll)
      /\ SubSeq(p, 1, j - 1) = <<p[1]>> \o b
      /\ ToSet(b) = {p[k] : k \in 2..(j-1)}
  <2> HIDE DEF h
  <2>1. p[j] = h BY DEF h
  <2> QED  BY <1>1, <1>3, <2>1, TailBefore, ZenonT(60)
<1>5. Kept(p, FcAll \ S) = <<p[1]>> \o b
  <2>1. Kept(p, FcAll \ S) = SubSeq(p, 1, j - 1)
    BY <1>2, PathOff
  <2> QED  BY <1>4, <2>1
<1>6. p[1] \notin S /\ h \in S /\ h \in FcAll /\ p[1] # h
  BY <1>1, <1>2
<1> HIDE DEF h, b
<1>7. ToSet(b) \cap S = {} /\ p[1] \notin ToSet(b)
  BY <1>1, <1>2, <1>4
<1>8. Cut(p, S, h, b)
  BY <1>4, <1>5, <1>6, <1>7 DEF Cut, b
<1> QED  BY <1>8 DEF h, b

(* The chain of ancestors. *)
LEMMA ChainOf ==
  ASSUME fcLive \subseteq FcWins, NEW w \in Attached, NEW p, FcPath(w) = p
  PROVE  FcChain(w) = Tail(p) /\ (w = FcRoot => Tail(p) = <<>>)
<1>1. IsLine(p, w) /\ w \in fcLive \cup {FcRoot} /\ FcRoot \notin fcLive
  BY AttachedLine, FcAssumption DEF Attached
<1>2. CASE w \in fcLive
  BY <1>1, <1>2 DEF FcChain
<1>3. CASE w = FcRoot
  <2>1. p \in Seq(FcAll) /\ Len(p) \in Nat /\ Len(p) >= 1 /\ p[1] = p[Len(p)]
    BY <1>1, <1>3 DEF IsLine
  <2>2. Len(p) = 1
    <3>1. 1 \in 1..Len(p) /\ Len(p) \in 1..Len(p) BY <2>1
    <3> DEFINE n == Len(p)
    <3>2. ~(1 < n) /\ n \in Nat /\ n >= 1 BY <1>1, <2>1, <3>1 DEF IsLine
    <3> HIDE DEF n
    <3>3. n = 1 BY <3>2
    <3> QED  BY <3>3 DEF n
  <2>3. Tail(p) = <<>>
    <3>1. Tail(p) \in Seq(FcAll) /\ Len(Tail(p)) = 0 BY <2>1, <2>2, TailFacts
    <3> QED  BY <3>1, EmptySeq
  <2> QED  BY <1>1, <1>3, <2>3 DEF FcChain
<1> QED  BY <1>1, <1>2, <1>3

(* The members of the rest of a path. *)
LEMMA TailSet ==
  ASSUME NEW w \in FcAll, NEW p, IsLine(p, w)
  PROVE  /\ Tail(p) \in Seq(FcAll)
         /\ ToSet(p) = ToSet(Tail(p)) \cup {w} /\ w \notin ToSet(Tail(p))
         /\ w # FcRoot => FcRoot \in ToSet(Tail(p))
<1> DEFINE t == Tail(p)
           n == Len(p)
<1>1. p \in Seq(FcAll) /\ n \in Nat /\ n >= 1 /\ p[1] = w /\ p[n] = FcRoot
      /\ \A i, j \in 1..n : i < j => p[i] # p[j]
  BY DEF IsLine
<1>2. t \in Seq(FcAll) /\ Len(t) = n - 1 /\ \A i \in 1..(n-1) : t[i] = p[i+1]
  BY <1>1, TailFacts
<1> HIDE DEF t
<1>3. DOMAIN t = 1..(n-1) /\ DOMAIN p = 1..n
  BY <1>1, <1>2
<1>4. \A x : x \in ToSet(t) <=> \E i \in 1..(n-1) : x = t[i]
  BY <1>3 DEF ToSet
<1>5. \A x : x \in ToSet(p) <=> \E i \in 1..n : x = p[i]
  BY <1>3 DEF ToSet
<1>6. \A i \in 1..(n-1) : i + 1 \in 1..n /\ 1 < i + 1 /\ 1 \in 1..n
  BY <1>1
<1>7. ASSUME NEW k \in 1..n, k # 1 PROVE p[k] \in ToSet(t)
  <2>1. k - 1 \in 1..(n-1) /\ (k - 1) + 1 = k BY <1>1, <1>7
  <2>2. t[k-1] = p[k] BY <1>2, <2>1
  <2> QED  BY <1>4, <2>1, <2>2
<1>8. ASSUME NEW x \in ToSet(t) PROVE x \in ToSet(p) /\ x # w
  <2>1. PICK i \in 1..(n-1) : x = t[i] BY <1>4
  <2>2. x = p[i+1] BY <1>2, <2>1
  <2> QED  BY <1>1, <1>5, <1>6, <2>2
<1>9. w \in ToSet(p)
  <2>1. 1 \in 1..n BY <1>1
  <2> QED  BY <1>1, <1>5, <2>1
<1>10. \A x \in ToSet(p) : x \in ToSet(t) \cup {w}
  BY <1>1, <1>5, <1>7
<1>11. w # FcRoot => FcRoot \in ToSet(t)
  <2>1. n \in 1..n BY <1>1
  <2>2. w # FcRoot => n # 1 BY <1>1
  <2> QED  BY <1>1, <1>7, <2>1, <2>2
<1> QED  BY <1>2, <1>8, <1>9, <1>10, <1>11 DEF t

(***************************************************************************)
(* Focus events.                                                           *)
(***************************************************************************)
LEMMA EventsOf ==
  ASSUME NEW old \in FcAll, NEW new \in FcAll, NEW way,
         Kept(VirtualPath(old, new), FcAll \ {old, new}) = way
  PROVE  /\ FocusEvents(old, new).out = <<old>> \o way
         /\ FocusEvents(old, new).in = Reverse(way) \o <<new>>
<1>1. old # "None" /\ old # "PointerRoot" /\ new # "None" /\ new # "PointerRoot"
  BY FcAssumption DEF FcAll
<1> DEFINE out == CASE old = "None"        -> <<>>
                    [] old = "PointerRoot" -> <<FcRoot>>
                    [] OTHER               -> <<old>> \o way
           in  == CASE new = "None"        -> <<>>
                    [] new = "PointerRoot" -> <<FcRoot>>
                    [] OTHER               -> Reverse(way) \o <<new>>
<1>2. FocusEvents(old, new) = [out |-> out, in |-> in]
  BY Zenon DEF FocusEvents
<1>3. out = <<old>> \o way /\ in = Reverse(way) \o <<new>>
  BY <1>1
<1> HIDE DEF out, in
<1> QED  BY <1>2, <1>3

(* The three ways between two windows. *)
LEMMA WayOf ==
  ASSUME NEW old \in FcAll, NEW new \in FcAll, NEW oc, NEW nc, FcChain(old) = oc, FcChain(new) = nc
  PROVE  /\ old \in ToSet(nc) => VirtualPath(old, new) = Before(nc, old)
         /\ old \notin ToSet(nc) /\ new \in ToSet(oc) => VirtualPath(old, new) = Before(oc, new)
<1>1. {old, new} \cap FcSpecial = {}
  BY FcAssumption DEF FcAll, FcSpecial
<1> DEFINE met == Kept(oc, ToSet(nc) \cup {FcRoot})
           c1 == {old, new} \cap FcSpecial # {}
           c2 == old \in ToSet(nc)
           c3 == new \in ToSet(oc)
           c4 == met = <<>>
           b1 == Before(nc, old)
           b2 == Before(oc, new)
           b3 == Before(oc, Head(met)) \o <<Head(met)>>
                      \o Reverse(IF Head(met) \in ToSet(nc) THEN Before(nc, Head(met)) ELSE nc)
           e == <<>>
<1>2. VirtualPath(old, new) =
         IF c1 THEN e ELSE IF c2 THEN b1 ELSE IF c3 THEN b2 ELSE IF c4 THEN e ELSE b3
  BY Zenon DEF VirtualPath
<1>3. ~c1
  BY <1>1
<1> HIDE DEF c1, c2, c3, c4, b1, b2, b3, e
<1>4. c2 => VirtualPath(old, new) = b1
  BY <1>2, <1>3
<1>5. ~c2 /\ c3 => VirtualPath(old, new) = b2
  BY <1>2, <1>3
<1> QED  BY <1>4, <1>5 DEF c2, c3, b1, b2

(* The chains of two windows of which neither is above the other, where they meet, *)
(* and the way from one to the other.                                             *)
Crossing(old, new, oc, nc, met, h) ==
    /\ FcChain(old) = oc /\ FcChain(new) = nc
    /\ old \notin ToSet(nc) /\ new \notin ToSet(oc) /\ h \in ToSet(nc)
    /\ Kept(oc, ToSet(nc) \cup {FcRoot}) = met /\ met # <<>> /\ Head(met) = h
WayBy(oc, nc, h) == Before(oc, h) \o <<h>> \o Reverse(Before(nc, h))

LEMMA WayAcross ==
  ASSUME NEW old \in FcAll, NEW new \in FcAll, NEW oc, NEW nc, NEW met, NEW h,
         Crossing(old, new, oc, nc, met, h)
  PROVE  VirtualPath(old, new) = WayBy(oc, nc, h)
<1> USE DEF Crossing, WayBy
<1>1. {old, new} \cap FcSpecial = {}
  BY FcAssumption DEF FcAll, FcSpecial
<1> DEFINE c1 == {old, new} \cap FcSpecial # {}
           c2 == old \in ToSet(nc)
           c3 == new \in ToSet(oc)
           c4 == met = <<>>
           b1 == Before(nc, old)
           b2 == Before(oc, new)
           b3 == Before(oc, Head(met)) \o <<Head(met)>>
                      \o Reverse(IF Head(met) \in ToSet(nc) THEN Before(nc, Head(met)) ELSE nc)
           e == <<>>
<1>2. VirtualPath(old, new) =
         IF c1 THEN e ELSE IF c2 THEN b1 ELSE IF c3 THEN b2 ELSE IF c4 THEN e ELSE b3
  BY Zenon DEF VirtualPath
<1>3. ~c1 /\ ~c2 /\ ~c3 /\ ~c4
  BY <1>1
<1>4. b3 = Before(oc, h) \o <<h>> \o Reverse(Before(nc, h))
  OBVIOUS
<1> HIDE DEF c1, c2, c3, c4, b1, b2, b3, e
<1>5. VirtualPath(old, new) = b3
  BY <1>2, <1>3
<1> QED  BY <1>4, <1>5

(* The events, given the losers and the gainers. *)
FocusTold(old, new, losers, gainers, down) ==
  /\ Kept(FocusEvents(old, new).out, ToSet(losers)) = losers
  /\ Kept(FocusEvents(old, new).in, ToSet(gainers)) =
         IF down THEN Reverse(gainers) ELSE Tail(gainers) \o <<new>>

LEMMA ReversePush ==
  ASSUME NEW T, NEW x \in T, NEW b \in Seq(T)
  PROVE  Reverse(<<x>> \o b) = Reverse(b) \o <<x>>
<1> DEFINE e == <<x>>
<1>1. e \in Seq(T) /\ Reverse(e) = e
  BY ReverseOne
<1> HIDE DEF e
<1>2. Reverse(e \o b) = Reverse(b) \o Reverse(e)
  BY <1>1, ReverseConcat
<1>3. Reverse(e \o b) = Reverse(b) \o e
  BY <1>1, <1>2
<1> QED  BY <1>3 DEF e

LEMMA EmptyFacts ==
  ASSUME NEW T
  PROVE  <<>> \in Seq(T) /\ ToSet(<<>>) = {} /\ Reverse(<<>>) = <<>>
<1>1. <<>> \in Seq(T) /\ ToSet(<<>>) = {} /\ Len(<<>>) = 0
  BY DEF ToSet
<1> DEFINE e == <<>>
<1> HIDE DEF e
<1>2. Reverse(e) \in Seq(T) /\ Len(Reverse(e)) = 0
  BY <1>1, ReverseFacts DEF e
<1> QED  BY <1>1, <1>2, EmptySeq DEF e

LEMMA PushSet ==
  ASSUME NEW T, NEW x \in T, NEW b \in Seq(T)
  PROVE  /\ <<x>> \o b \in Seq(T) /\ ToSet(<<x>> \o b) = {x} \cup ToSet(b)
         /\ b \o <<x>> \in Seq(T) /\ ToSet(b \o <<x>>) = ToSet(b) \cup {x}
<1> DEFINE e == <<x>>
<1>1. e \in Seq(T) /\ ToSet(e) = {x}
  BY OneSeq
<1> HIDE DEF e
<1>2. e \o b \in Seq(T) /\ ToSet(e \o b) = ToSet(e) \cup ToSet(b)
  BY <1>1, ConcatSet
<1>3. b \o e \in Seq(T) /\ ToSet(b \o e) = ToSet(b) \cup ToSet(e)
  BY <1>1, ConcatSet
<1> QED  BY <1>1, <1>2, <1>3 DEF e

(* The focus moves to a descendant. *)
LEMMA FocusDown ==
  ASSUME fcLive \subseteq FcWins, NEW old \in Attached, NEW new \in Attached, old # new,
         NEW P, NEW N, FcPath(old) = P, FcPath(new) = N, old \in ToSet(N)
  PROVE  FocusTold(old, new, Kept(P, FcAll \ ToSet(N)), Kept(N, FcAll \ ToSet(P)), TRUE)
<1>1. old \in FcAll /\ new \in FcAll /\ IsLine(P, old) /\ IsLine(N, new)
  BY AttachedLine
<1>2. P \in Seq(FcAll) /\ N \in Seq(FcAll) /\ Len(P) \in Nat /\ Len(N) \in Nat
      /\ DOMAIN N = 1..Len(N) /\ DOMAIN P = 1..Len(P) /\ 1 \in 1..Len(P) /\ P[1] = old /\ N[1] = new
  BY <1>1 DEF IsLine
<1>3. PICK j \in 1..Len(N) : N[j] = old
  BY <1>2 DEF ToSet
<1>4. \A k \in 1..Len(P) : P[k] \in ToSet(N) => 1 <= k
  BY <1>2
<1>5. \A k \in 1..Len(N) : N[k] \in ToSet(P) <=> j <= k
  BY <1>1, <1>2, <1>3, <1>4, MeetSame
<1>6. j \in 2..Len(N)
  <2>1. j # 1 BY <1>2, <1>3
  <2> QED  BY <1>2, <1>3, <2>1
<1> DEFINE b == Before(Tail(N), old)
<1>7. Cut(N, ToSet(P), old, b)
  BY <1>1, <1>3, <1>5, <1>6, PathCut
<1> HIDE DEF b
<1>8. /\ b \in Seq(FcAll) /\ b = Before(Tail(N), old) /\ old \in ToSet(Tail(N))
      /\ Kept(N, FcAll \ ToSet(P)) = <<new>> \o b
      /\ old \in ToSet(P) /\ ToSet(b) \cap ToSet(P) = {} /\ new \notin ToSet(b)
  BY <1>2, <1>7 DEF Cut
<1>9. VirtualPath(old, new) = b
  <2>1. FcChain(new) = Tail(N) /\ FcChain(old) = Tail(P)
    BY ChainOf
  <2> DEFINE oc == Tail(P)
             nc == Tail(N)
  <2>2. FcChain(old) = oc /\ FcChain(new) = nc /\ old \in ToSet(nc) /\ b = Before(nc, old)
    BY <1>8, <2>1
  <2> HIDE DEF oc, nc
  <2> QED  BY <1>1, <2>2, WayOf
<1>10. Kept(VirtualPath(old, new), FcAll \ {old, new}) = b
  <2>1. ToSet(b) \subseteq FcAll \ {old, new}
    <3>1. ToSet(b) \subseteq FcAll BY <1>8 DEF ToSet
    <3> QED  BY <1>8, <3>1
  <2> QED  BY <1>8, <1>9, <2>1, KeptWithin
<1>11. FocusEvents(old, new).out = <<old>> \o b /\ FocusEvents(old, new).in = Reverse(b) \o <<new>>
  BY <1>1, <1>10, EventsOf
<1>12. Kept(P, FcAll \ ToSet(N)) = <<>>
  <2>1. ASSUME NEW k \in 1..Len(P) PROVE P[k] \in ToSet(N)
    <3>1. PICK l \in j..Len(N) : P[k] = N[l]
      <4> DEFINE i == 1
      <4>1. i <= k /\ i \in 1..Len(P) /\ P[i] = N[j] BY <1>2, <1>3
      <4> HIDE DEF i
      <4> QED  BY <1>1, <1>3, <4>1, LinesJoin
    <3>2. l \in 1..Len(N) BY <1>2, <1>3, <3>1
    <3> QED  BY <1>2, <3>1, <3>2 DEF ToSet
  <2>2. ToSet(P) \cap (FcAll \ ToSet(N)) = {}
    BY <1>2, <2>1 DEF ToSet
  <2> QED  BY <1>2, <2>2, KeptOutside
<1>13. Kept(<<old>> \o b, ToSet(<<>>)) = <<>>
  <2> DEFINE s == <<old>> \o b
  <2>1. s \in Seq(FcAll) BY <1>1, <1>8, PushSet
  <2>2. ToSet(<<>>) = {} BY EmptyFacts
  <2> HIDE DEF s
  <2>3. Kept(s, {}) = <<>> BY <2>1, KeptOutside
  <2> QED  BY <2>2, <2>3 DEF s
<1> DEFINE g == <<new>> \o b
           r == Reverse(b) \o <<new>>
<1>14. Reverse(g) = r /\ g \in Seq(FcAll)
  BY <1>1, <1>8, ReversePush, PushSet
<1> HIDE DEF g, r
<1>15. Kept(r, ToSet(g)) = r
  <2>1. ToSet(r) = ToSet(g) BY <1>14, ReverseSet
  <2>2. r \in Seq(FcAll) BY <1>14, ReverseFacts
  <2> QED  BY <2>1, <2>2, KeptWithin
<1> QED  BY <1>8, <1>11, <1>12, <1>13, <1>14, <1>15 DEF FocusTold, g, r

(* The focus moves to an ancestor. *)
LEMMA FocusUp ==
  ASSUME fcLive \subseteq FcWins, NEW old \in Attached, NEW new \in Attached, old # new,
         NEW P, NEW N, FcPath(old) = P, FcPath(new) = N, new \in ToSet(P), old \notin ToSet(N)
  PROVE  /\ Kept(N, FcAll \ ToSet(P)) = <<>>
         /\ FocusTold(old, new, Kept(P, FcAll \ ToSet(N)), Kept(N, FcAll \ ToSet(P)), TRUE)
<1>1. old \in FcAll /\ new \in FcAll /\ IsLine(P, old) /\ IsLine(N, new)
  BY AttachedLine
<1>2. P \in Seq(FcAll) /\ N \in Seq(FcAll) /\ Len(P) \in Nat /\ Len(N) \in Nat
      /\ DOMAIN N = 1..Len(N) /\ DOMAIN P = 1..Len(P) /\ 1 \in 1..Len(N) /\ P[1] = old /\ N[1] = new
  BY <1>1 DEF IsLine
<1>3. PICK j \in 1..Len(P) : P[j] = new
  BY <1>2 DEF ToSet
<1>4. \A k \in 1..Len(N) : N[k] \in ToSet(P) => 1 <= k
  BY <1>2
<1>5. \A k \in 1..Len(P) : P[k] \in ToSet(N) <=> j <= k
  BY <1>1, <1>2, <1>3, <1>4, MeetSame
<1>6. j \in 2..Len(P)
  <2>1. j # 1 BY <1>2, <1>3
  <2> QED  BY <1>2, <1>3, <2>1
<1> DEFINE a == Before(Tail(P), new)
<1>7. Cut(P, ToSet(N), new, a)
  BY <1>1, <1>3, <1>5, <1>6, PathCut
<1> HIDE DEF a
<1>8. /\ a \in Seq(FcAll) /\ a = Before(Tail(P), new) /\ new \in ToSet(Tail(P))
      /\ Kept(P, FcAll \ ToSet(N)) = <<old>> \o a
      /\ new \in ToSet(N) /\ ToSet(a) \cap ToSet(N) = {} /\ old \notin ToSet(a)
  BY <1>2, <1>7 DEF Cut
<1>9. VirtualPath(old, new) = a
  <2>1. FcChain(new) = Tail(N) /\ FcChain(old) = Tail(P)
    BY ChainOf
  <2>2. old \notin ToSet(Tail(N))
    BY <1>1, TailSet
  <2> DEFINE oc == Tail(P)
             nc == Tail(N)
  <2>3. FcChain(old) = oc /\ FcChain(new) = nc /\ old \notin ToSet(nc) /\ new \in ToSet(oc)
        /\ a = Before(oc, new)
    BY <1>8, <2>1, <2>2
  <2> HIDE DEF oc, nc
  <2> QED  BY <1>1, <2>3, WayOf
<1>10. Kept(VirtualPath(old, new), FcAll \ {old, new}) = a
  <2>1. ToSet(a) \subseteq FcAll \ {old, new}
    <3>1. ToSet(a) \subseteq FcAll BY <1>8 DEF ToSet
    <3> QED  BY <1>8, <3>1
  <2> QED  BY <1>8, <1>9, <2>1, KeptWithin
<1>11. FocusEvents(old, new).out = <<old>> \o a /\ FocusEvents(old, new).in = Reverse(a) \o <<new>>
  BY <1>1, <1>10, EventsOf
<1>12. Kept(N, FcAll \ ToSet(P)) = <<>>
  <2>1. ASSUME NEW k \in 1..Len(N) PROVE N[k] \in ToSet(P)
    <3>1. PICK l \in j..Len(P) : N[k] = P[l]
      <4> DEFINE i == 1
      <4>1. i <= k /\ i \in 1..Len(N) /\ N[i] = P[j] BY <1>2, <1>3
      <4> HIDE DEF i
      <4> QED  BY <1>1, <1>3, <4>1, LinesJoin
    <3>2. l \in 1..Len(P) BY <1>2, <1>3, <3>1
    <3> QED  BY <1>2, <3>1, <3>2 DEF ToSet
  <2>2. ToSet(N) \cap (FcAll \ ToSet(P)) = {}
    BY <1>2, <2>1 DEF ToSet
  <2> QED  BY <1>2, <2>2, KeptOutside
<1>13. Kept(Reverse(a) \o <<new>>, ToSet(<<>>)) = <<>>
  <2> DEFINE s == Reverse(a) \o <<new>>
  <2>1. s \in Seq(FcAll) BY <1>1, <1>8, ReverseFacts, PushSet
  <2>2. ToSet(<<>>) = {} BY EmptyFacts
  <2> HIDE DEF s
  <2>3. Kept(s, {}) = <<>> BY <2>1, KeptOutside
  <2> QED  BY <2>2, <2>3 DEF s
<1> DEFINE g == <<old>> \o a
<1>14. g \in Seq(FcAll)
  BY <1>1, <1>8, PushSet
<1> HIDE DEF g
<1>15. Kept(g, ToSet(g)) = g
  BY <1>14, KeptWithin
<1>16. Reverse(<<>>) = <<>>
  BY EmptyFacts
<1> QED  BY <1>8, <1>11, <1>12, <1>13, <1>15, <1>16 DEF FocusTold, g

KeptIs(s, S, u) == s \in Seq(FcAll) /\ Kept(s, S) = u

LEMMA KeptJoin ==
  ASSUME NEW s, NEW t, NEW S, NEW u, NEW v, KeptIs(s, S, u), KeptIs(t, S, v)
  PROVE  KeptIs(s \o t, S, u \o v)
<1>1. Kept(s, S) = u /\ Kept(t, S) = v
  BY DEF KeptIs
<1>2. s \in Seq(FcAll) /\ t \in Seq(FcAll)
  BY DEF KeptIs
<1>3. s \o t \in Seq(FcAll)
  BY <1>2, ConcatProperties
<1>4. Kept(s \o t, S) = Kept(s, S) \o Kept(t, S)
  <2> DEFINE T == FcAll
  <2>1. s \in Seq(T) /\ t \in Seq(T)
    BY <1>2
  <2> HIDE DEF T
  <2> QED  BY <2>1, KeptConcat
<1> QED  BY <1>1, <1>3, <1>4 DEF KeptIs

LEMMA KeptDrop ==
  ASSUME NEW s, NEW t, NEW S, NEW u, KeptIs(s, S, u), KeptIs(t, S, <<>>)
  PROVE  KeptIs(s \o t, S, u)
<1> DEFINE e == <<>>
<1>1. KeptIs(t, S, e)
  OBVIOUS
<1>2. u \in Seq(FcAll)
  BY KeptType DEF KeptIs
<1>3. u \o e = u
  BY <1>2, ConcatEmptySeq
<1> HIDE DEF e
<1>4. KeptIs(s \o t, S, u \o e)
  BY <1>1, KeptJoin
<1> QED  BY <1>3, <1>4

(* A way from old up along a to h and down along b to new. *)
Across(old, new, h, a, b, P, N) ==
  /\ VirtualPath(old, new) = a \o <<h>> \o Reverse(b)
  /\ a \in Seq(FcAll) /\ b \in Seq(FcAll) /\ h \in FcAll
  /\ h \in ToSet(N) /\ h \in ToSet(P) /\ ToSet(a) \cap ToSet(N) = {} /\ ToSet(b) \cap ToSet(P) = {}
  /\ old \notin ToSet(a) /\ new \notin ToSet(b) /\ old # h /\ new # h
  /\ ToSet(a) \subseteq ToSet(P) /\ ToSet(b) \subseteq ToSet(N)
  /\ old \in ToSet(P) /\ new \in ToSet(N) /\ old \notin ToSet(N) /\ new \notin ToSet(P)

(* What the two loops send when the way leads up along a to h and down along b. *)
LEMMA AcrossTold ==
  ASSUME NEW old \in FcAll, NEW new \in FcAll, NEW h, NEW a, NEW b, NEW P, NEW N,
         Across(old, new, h, a, b, P, N), NEW losers, NEW gainers,
         losers = <<old>> \o a, gainers = <<new>> \o b
  PROVE  gainers # <<>> /\ FocusTold(old, new, losers, gainers, FALSE)
<1>0. /\ h \in FcAll /\ a \in Seq(FcAll) /\ b \in Seq(FcAll)
      /\ VirtualPath(old, new) = a \o <<h>> \o Reverse(b)
      /\ h \in ToSet(N) /\ h \in ToSet(P) /\ ToSet(a) \cap ToSet(N) = {} /\ ToSet(b) \cap ToSet(P) = {}
      /\ old \notin ToSet(a) /\ new \notin ToSet(b) /\ old # h /\ new # h
      /\ ToSet(a) \subseteq ToSet(P) /\ ToSet(b) \subseteq ToSet(N)
      /\ old \in ToSet(P) /\ new \in ToSet(N) /\ old \notin ToSet(N) /\ new \notin ToSet(P)
  BY DEF Across
<1> DEFINE o == <<old>>
           n == <<new>>
           c == <<h>>
           r == Reverse(b)
           ra == Reverse(a)
           T == FcAll
<1>1. /\ o \in Seq(T) /\ ToSet(o) = {old} /\ n \in Seq(T) /\ ToSet(n) = {new}
      /\ c \in Seq(T) /\ ToSet(c) = {h}
  BY <1>0, OneSeq
<1>2. r \in Seq(T) /\ ToSet(r) = ToSet(b) /\ Reverse(r) = b /\ ra \in Seq(T) /\ ToSet(ra) = ToSet(a)
  BY <1>0, ReverseFacts, ReverseSet, ReverseTwice
<1>3. Reverse(c) = c
  BY <1>0, ReverseOne
<1>4. Len(o) = 1 /\ o # <<>> /\ Len(n) = 1
  OBVIOUS
<1> HIDE DEF o, n, c, r, ra, T
<1> DEFINE ac == a \o c
           vp == (a \o c) \o r
<1>5. a \in Seq(T) /\ b \in Seq(T) /\ ac \in Seq(T) /\ ToSet(ac) = ToSet(a) \cup {h}
  BY <1>0, <1>1, ConcatSet DEF T
<1>6. vp \in Seq(T) /\ ToSet(vp) = ToSet(a) \cup {h} \cup ToSet(b)
  <2> HIDE DEF ac
  <2>1. ac \o r \in Seq(T) /\ ToSet(ac \o r) = ToSet(ac) \cup ToSet(r)
    BY <1>2, <1>5, ConcatSet
  <2> QED  BY <1>2, <1>5, <2>1 DEF ac
<1>7. VirtualPath(old, new) = vp
  BY <1>0 DEF c, r
<1>8. Reverse(vp) = b \o (c \o ra)
  <2> HIDE DEF ac
  <2>1. Reverse(ac \o r) = Reverse(r) \o Reverse(ac)
    BY <1>2, <1>5, ReverseConcat
  <2>2. Reverse(ac) = Reverse(c) \o ra
    BY <1>1, <1>5, ReverseConcat DEF ac, ra
  <2>3. Reverse(ac \o r) = b \o (c \o ra)
    BY <1>2, <1>3, <2>1, <2>2
  <2> QED  BY <2>3 DEF ac
<1> HIDE DEF vp
<1>9. Kept(VirtualPath(old, new), FcAll \ {old, new}) = vp
  <2>1. ToSet(vp) \subseteq FcAll \ {old, new}
    <3>1. ToSet(vp) \subseteq FcAll
      BY <1>6 DEF T, ToSet
    <3> QED  BY <1>0, <1>6, <3>1
  <2> QED  BY <1>6, <1>7, <2>1, KeptWithin
<1>10. FocusEvents(old, new).out = o \o vp /\ FocusEvents(old, new).in = Reverse(vp) \o n
  BY <1>9, EventsOf DEF o, n
<1> DEFINE L == ToSet(losers)
           G == ToSet(gainers)
<1>11. losers = o \o a /\ gainers = n \o b
  BY DEF o, n
<1>12. L = {old} \cup ToSet(a) /\ G = {new} \cup ToSet(b)
  <2>1. ToSet(o \o a) = ToSet(o) \cup ToSet(a) /\ ToSet(n \o b) = ToSet(n) \cup ToSet(b)
    BY <1>1, <1>5, ConcatSet
  <2> QED  BY <1>1, <1>11, <2>1
<1> HIDE DEF L, G
<1>13. /\ Kept(o, L) = o /\ Kept(a, L) = a /\ Kept(c, L) = <<>> /\ Kept(r, L) = <<>>
  <2>1. ToSet(o) \subseteq L /\ ToSet(a) \subseteq L
    BY <1>1, <1>12
  <2>2. ToSet(c) \cap L = {} /\ ToSet(r) \cap L = {}
    BY <1>0, <1>1, <1>2, <1>12
  <2>3. Kept(o, L) = o /\ Kept(a, L) = a
    BY <1>1, <1>5, <2>1, KeptWithin
  <2>4. Kept(c, L) = <<>> /\ Kept(r, L) = <<>>
    BY <1>1, <1>2, <2>2, KeptOutside
  <2> QED  BY <2>3, <2>4
<1>14. /\ Kept(b, G) = b /\ Kept(n, G) = n /\ Kept(c, G) = <<>> /\ Kept(ra, G) = <<>>
  <2>1. ToSet(b) \subseteq G /\ ToSet(n) \subseteq G
    BY <1>1, <1>12
  <2>2. ToSet(c) \cap G = {} /\ ToSet(ra) \cap G = {}
    BY <1>0, <1>1, <1>2, <1>12
  <2>3. Kept(b, G) = b /\ Kept(n, G) = n
    BY <1>1, <1>5, <2>1, KeptWithin
  <2>4. Kept(c, G) = <<>> /\ Kept(ra, G) = <<>>
    BY <1>1, <1>2, <2>2, KeptOutside
  <2> QED  BY <2>3, <2>4
<1>20. /\ KeptIs(o, L, o) /\ KeptIs(a, L, a) /\ KeptIs(c, L, <<>>) /\ KeptIs(r, L, <<>>)
       /\ KeptIs(b, G, b) /\ KeptIs(n, G, n) /\ KeptIs(c, G, <<>>) /\ KeptIs(ra, G, <<>>)
  BY <1>1, <1>2, <1>5, <1>13, <1>14 DEF KeptIs, T
<1>15. Kept(o \o vp, L) = losers
  <2>1. KeptIs(a \o c, L, a) /\ KeptIs(vp, L, a)
    <3>1. KeptIs(a \o c, L, a) BY <1>20, KeptDrop
    <3>2. KeptIs((a \o c) \o r, L, a) BY <1>20, <3>1, KeptDrop
    <3> QED  BY <3>1, <3>2 DEF vp
  <2>2. KeptIs(o \o vp, L, o \o a)
    BY <1>20, <2>1, KeptJoin
  <2> QED  BY <1>11, <2>2 DEF KeptIs
<1>16. Kept(Reverse(vp) \o n, G) = b \o n
  <2>1. KeptIs(c \o ra, G, <<>>)
    <3> DEFINE e == <<>>
    <3>1. KeptIs(c, G, e) /\ KeptIs(ra, G, <<>>) BY <1>20
    <3> HIDE DEF e
    <3>2. KeptIs(c \o ra, G, e) BY <3>1, KeptDrop
    <3> QED  BY <3>2 DEF e
  <2>2. KeptIs(b \o (c \o ra), G, b)
    BY <1>20, <2>1, KeptDrop
  <2>3. KeptIs((b \o (c \o ra)) \o n, G, b \o n)
    BY <1>20, <2>2, KeptJoin
  <2> QED  BY <1>8, <2>3 DEF KeptIs
<1>17. gainers # <<>> /\ Tail(gainers) = b
  <2> DEFINE nb == n \o b
  <2>1. n[1] = new /\ n \in Seq(T) /\ Len(b) \in Nat
    BY <1>1, <1>5 DEF n
  <2>2. nb \in Seq(T) /\ Len(nb) = 1 + Len(b) /\ \A k \in (1+1)..(1 + Len(b)) : nb[k] = b[k - 1]
    <3> DEFINE u == 1
               v == Len(b)
    <3>1. Len(n) = u /\ Len(b) = v BY <1>4
    <3> HIDE DEF u, v
    <3>2. n \o b \in Seq(T) /\ Len(n \o b) = u + v /\ \A k \in (u+1)..(u + v) : (n \o b)[k] = b[k - u]
      BY <1>1, <1>5, <3>1, ConcatAt
    <3> QED  BY <3>2 DEF u, v
  <2> HIDE DEF nb
  <2>3. Len(nb) >= 1 /\ Len(nb) - 1 = Len(b)
    BY <2>1, <2>2
  <2>4. Tail(nb) \in Seq(T) /\ Len(Tail(nb)) = Len(b) /\ \A k \in 1..Len(b) : Tail(nb)[k] = nb[k+1]
    <3>1. Tail(nb) \in Seq(T) /\ Len(Tail(nb)) = Len(nb) - 1
          /\ \A k \in 1..(Len(nb) - 1) : Tail(nb)[k] = nb[k+1]
      BY <2>2, <2>3, TailFacts
    <3> QED  BY <2>3, <3>1
  <2>5. ASSUME NEW k \in 1..Len(b) PROVE Tail(nb)[k] = b[k]
    <3>1. k + 1 \in (1+1)..(1 + Len(b)) /\ (k + 1) - 1 = k BY <2>1
    <3> QED  BY <2>2, <2>4, <3>1
  <2>6. Tail(nb) = b
    BY <1>5, <2>4, <2>5, SameSeq
  <2>7. nb # <<>>
    BY <2>3
  <2> QED  BY <1>11, <2>6, <2>7 DEF nb
<1> QED  BY <1>10, <1>15, <1>16, <1>17 DEF FocusTold, L, G, n

LEMMA BeforeInPath ==
  ASSUME NEW p \in Seq(FcAll), NEW x, NEW k \in 2..Len(p), p[k] = x,
         \A l \in 1..Len(p) : p[l] = x => k <= l
  PROVE  ToSet(Before(Tail(p), x)) \subseteq ToSet(p)
<1>1. ToSet(Before(Tail(p), x)) = {p[l] : l \in 2..(k-1)}
  BY TailBefore, ZenonT(60)
<1>2. \A l \in 2..(k-1) : l \in DOMAIN p
  OBVIOUS
<1> QED  BY <1>1, <1>2 DEF ToSet

(* The focus moves to another branch. *)
LEMMA FocusAcross ==
  ASSUME fcLive \subseteq FcWins, NEW old \in Attached, NEW new \in Attached, old # new,
         NEW P, NEW N, FcPath(old) = P, FcPath(new) = N, new \notin ToSet(P), old \notin ToSet(N)
  PROVE  /\ Kept(N, FcAll \ ToSet(P)) # <<>>
         /\ FocusTold(old, new, Kept(P, FcAll \ ToSet(N)), Kept(N, FcAll \ ToSet(P)), FALSE)
<1> DEFINE oc == Tail(P)
           nc == Tail(N)
<1>1. old \in FcAll /\ new \in FcAll /\ IsLine(P, old) /\ IsLine(N, new)
  BY AttachedLine
<1>2. P \in Seq(FcAll) /\ N \in Seq(FcAll) /\ Len(P) \in Nat /\ Len(N) \in Nat /\ Len(P) >= 1
      /\ DOMAIN N = 1..Len(N) /\ DOMAIN P = 1..Len(P) /\ P[1] = old /\ N[1] = new
  BY <1>1 DEF IsLine
<1>3. /\ oc \in Seq(FcAll) /\ ToSet(P) = ToSet(oc) \cup {old} /\ old \notin ToSet(oc)
      /\ old # FcRoot => FcRoot \in ToSet(oc)
  BY <1>1, TailSet
<1>4. /\ nc \in Seq(FcAll) /\ ToSet(N) = ToSet(nc) \cup {new} /\ new \notin ToSet(nc)
      /\ new # FcRoot => FcRoot \in ToSet(nc)
  BY <1>1, TailSet
<1>5. FcRoot \in ToSet(nc) /\ FcRoot \in ToSet(oc)
  <2>1. FcRoot \in ToSet(P)
    <3>1. P[Len(P)] = FcRoot /\ Len(P) \in DOMAIN P BY <1>1, <1>2 DEF IsLine
    <3> QED  BY <3>1 DEF ToSet
  <2>2. new # FcRoot BY <2>1
  <2>3. FcRoot \in ToSet(nc) BY <1>4, <2>2
  <2>4. old # FcRoot BY <1>4, <2>3
  <2> QED  BY <1>3, <2>3, <2>4
<1>6. FcChain(old) = oc /\ FcChain(new) = nc
  BY ChainOf
<1>7. PICK i \in 1..Len(P) : /\ P[i] \in ToSet(N)
                             /\ \A k \in 1..Len(P) : P[k] \in ToSet(N) => i <= k
  <2> DEFINE C == {k \in 1..Len(P) : P[k] \in ToSet(N)}
  <2>1. C \subseteq Nat BY <1>2
  <2>2. C # {}
    <3>1. P[Len(P)] = FcRoot /\ Len(P) \in 1..Len(P) BY <1>1, <1>2 DEF IsLine
    <3> QED  BY <1>4, <1>5, <3>1
  <2> HIDE DEF C
  <2>3. PICK k \in C : \A l \in C : k <= l BY <2>1, <2>2, LeastOf
  <2> QED  BY <2>3 DEF C
<1> DEFINE h == P[i]
<1>8. PICK j \in 1..Len(N) : N[j] = h
  BY <1>2, <1>7 DEF ToSet
<1>9. \A k \in 1..Len(N) : N[k] \in ToSet(P) <=> j <= k
  BY <1>1, <1>7, <1>8, MeetSame
<1>10. \A k \in 1..Len(P) : P[k] \in ToSet(N) <=> i <= k
  <2>1. N[j] = P[i] /\ \A k \in 1..Len(N) : N[k] \in ToSet(P) => j <= k
    BY <1>8, <1>9
  <2> HIDE DEF h
  <2> QED  BY <1>1, <2>1, MeetSame
<1>11. i \in 2..Len(P) /\ j \in 2..Len(N)
  <2>1. i # 1 BY <1>2, <1>7
  <2>2. h \in ToSet(P) BY <1>2 DEF ToSet
  <2>3. j # 1 BY <1>2, <1>8, <2>2
  <2> QED  BY <1>2, <2>1, <2>3
<1> DEFINE a == Before(oc, h)
           b == Before(nc, h)
<1>12. Cut(P, ToSet(N), h, a) /\ Cut(N, ToSet(P), h, b)
  <2>1. Cut(P, ToSet(N), P[i], Before(Tail(P), P[i]))
    BY <1>1, <1>10, <1>11, PathCut
  <2>2. Cut(N, ToSet(P), N[j], Before(Tail(N), N[j]))
    BY <1>1, <1>9, <1>11, PathCut
  <2> QED  BY <1>8, <2>1, <2>2
<1> DEFINE met == Kept(oc, ToSet(nc) \cup {FcRoot})
<1>13. met # <<>> /\ Head(met) = h
  <2> DEFINE m == i - 1
             S == ToSet(nc) \cup {FcRoot}
  <2>1. Len(oc) = Len(P) - 1 /\ \A k \in 1..(Len(P) - 1) : oc[k] = P[k+1]
    BY <1>2, TailFacts
  <2>2. m \in 1..Len(oc) /\ oc[m] = h
    <3>1. m \in 1..(Len(P) - 1) /\ m + 1 = i BY <1>2, <1>11
    <3> HIDE DEF m, oc
    <3> QED  BY <2>1, <3>1
  <2>3. oc[m] \in S
    <3>1. h \in ToSet(N) /\ h # new
      BY <1>2, <1>12 DEF Cut
    <3> QED  BY <1>4, <2>2, <3>1
  <2>4. ASSUME NEW k \in 1..(m-1) PROVE oc[k] \notin S
    <3>1. k \in 1..(Len(P) - 1) /\ k + 1 \in 1..Len(P) /\ ~(i <= k + 1)
      BY <1>2, <1>11
    <3>2. oc[k] = P[k+1] /\ P[k+1] \notin ToSet(N)
      BY <1>10, <2>1, <3>1
    <3> QED  BY <1>4, <1>5, <3>2
  <2> HIDE DEF S, m, oc, h
  <2>5. Kept(oc, S) # <<>> /\ Head(Kept(oc, S)) = oc[m]
    BY <1>3, <2>2, <2>3, <2>4, KeptFirst
  <2> QED  BY <2>2, <2>5 DEF S
<1>14. h \in ToSet(nc)
  <2>1. h \in ToSet(N) /\ h # new
    BY <1>2, <1>12 DEF Cut
  <2> QED  BY <1>4, <2>1
<1>15. VirtualPath(old, new) = a \o <<h>> \o Reverse(b)
  <2> HIDE DEF oc, nc, met, h
  <2>1. Kept(oc, ToSet(nc) \cup {FcRoot}) = met BY DEF met
  <2>2. old \notin ToSet(nc) /\ new \notin ToSet(oc) BY <1>3, <1>4
  <2>3. VirtualPath(old, new) = Before(oc, h) \o <<h>> \o Reverse(Before(nc, h))
    <3>1. FcChain(old) = oc /\ FcChain(new) = nc /\ met # <<>> /\ Head(met) = h /\ h \in ToSet(nc)
      BY <1>6, <1>13, <1>14
    <3>2. Crossing(old, new, oc, nc, met, h)
      BY <2>1, <2>2, <3>1 DEF Crossing
    <3>3. VirtualPath(old, new) = WayBy(oc, nc, h)
      BY <1>1, <3>2, WayAcross
    <3> QED  BY <3>3 DEF WayBy
  <2> QED  BY <2>3
<1>16. /\ a \in Seq(FcAll) /\ b \in Seq(FcAll) /\ h \in FcAll
       /\ Kept(P, FcAll \ ToSet(N)) = <<old>> \o a /\ Kept(N, FcAll \ ToSet(P)) = <<new>> \o b
       /\ h \in ToSet(N) /\ h \in ToSet(P) /\ ToSet(a) \cap ToSet(N) = {} /\ ToSet(b) \cap ToSet(P) = {}
       /\ old \notin ToSet(a) /\ new \notin ToSet(b) /\ old # h /\ new # h
  BY <1>2, <1>12 DEF Cut
<1>17. ToSet(a) \subseteq ToSet(P) /\ ToSet(b) \subseteq ToSet(N)
  <2>2. \A l \in 1..Len(P) : P[l] = h => i <= l
    BY <1>7
  <2>3. \A l \in 1..Len(N) : N[l] = h => j <= l
    <3>1. h \in ToSet(P) BY <1>16
    <3> QED  BY <1>9, <3>1
  <2>4. P[i] = h OBVIOUS
  <2> HIDE DEF h
  <2>5. ToSet(Before(Tail(P), h)) \subseteq ToSet(P)
    BY <1>2, <1>11, <2>2, <2>4, BeforeInPath
  <2>6. ToSet(Before(Tail(N), h)) \subseteq ToSet(N)
    BY <1>2, <1>8, <1>11, <2>3, BeforeInPath
  <2> QED  BY <2>5, <2>6
<1>18. old \in ToSet(P) /\ new \in ToSet(N)
  BY <1>3, <1>4
<1> HIDE DEF oc, nc, h, a, b, met
<1>19. Across(old, new, h, a, b, P, N)
  BY <1>15, <1>16, <1>17, <1>18 DEF Across
<1> QED  BY <1>1, <1>16, <1>19, AcrossTold

-----------------------------------------------------------------------------
(* Focus events: every move between attached windows tells the losers and the gainers. *)
LEMMA FocusEventsHold ==
  ASSUME fcLive \subseteq FcWins
  PROVE  FocusEventsComplete
<1> DEFINE Ls(o, n) == Kept(FcPath(o), FcAll \ ToSet(FcPath(n)))
           Gs(o, n) == Kept(FcPath(n), FcAll \ ToSet(FcPath(o)))
<1>1. ASSUME NEW old \in Attached, NEW new \in Attached, old # new
      PROVE  FocusTold(old, new, Ls(old, new), Gs(old, new),
                       Gs(old, new) = <<>> \/ old \in ToSet(FcPath(new)))
  <2> DEFINE P == FcPath(old)
             N == FcPath(new)
  <2>0. FcPath(old) = P /\ FcPath(new) = N
    OBVIOUS
  <2> DEFINE ls == Kept(P, FcAll \ ToSet(N))
             gs == Kept(N, FcAll \ ToSet(P))
             down == gs = <<>> \/ old \in ToSet(N)
  <2> HIDE DEF P, N
  <2>1. CASE old \in ToSet(N)
    <3>1. FocusTold(old, new, ls, gs, TRUE)
      BY <1>1, <2>0, <2>1, FocusDown
    <3>2. down = TRUE
      BY <2>1
    <3> HIDE DEF ls, gs, down
    <3>3. FocusTold(old, new, ls, gs, down)
      BY <3>1, <3>2
    <3> QED  BY <3>3 DEF ls, gs, down, P, N
  <2>2. CASE old \notin ToSet(N) /\ new \in ToSet(P)
    <3>1. gs = <<>> /\ FocusTold(old, new, ls, gs, TRUE)
      BY <1>1, <2>0, <2>2, FocusUp
    <3>2. down = TRUE
      BY <3>1
    <3> HIDE DEF ls, gs, down
    <3>3. FocusTold(old, new, ls, gs, down)
      BY <3>1, <3>2
    <3> QED  BY <3>3 DEF ls, gs, down, P, N
  <2>3. CASE old \notin ToSet(N) /\ new \notin ToSet(P)
    <3>1. gs # <<>> /\ FocusTold(old, new, ls, gs, FALSE)
      BY <1>1, <2>0, <2>3, FocusAcross
    <3>2. down = FALSE
      BY <2>3, <3>1
    <3> HIDE DEF ls, gs, down
    <3>3. FocusTold(old, new, ls, gs, down)
      BY <3>1, <3>2
    <3> QED  BY <3>3 DEF ls, gs, down, P, N
  <2> QED  BY <2>1, <2>2, <2>3
<1> QED  BY <1>1, Zenon DEF FocusEventsComplete, FocusTold

(* Key events climb to the first window that selects or stops them. *)
LEMMA KeyClimbs ==
  ASSUME fcLive \subseteq FcWins, NEW w \in Attached,
         NEW S, S = FcSelects \cup FcStops, Kept(FcPath(w), S) # <<>>,
         Head(Kept(FcPath(w), S)) \in FcSelects
  PROVE  /\ PropagateKey(w) = Head(Kept(FcPath(w), S))
         /\ Head(Kept(FcPath(w), S)) \in fcLive \cup {FcRoot}
<1> DEFINE p == FcPath(w)
           U == FcUp
           N == Len(FcOrder)
           E == S \cup (FcAll \ fcLive)
           at == FcClimb(w)
<1>1. w \in FcAll /\ IsLine(p, w)
  BY AttachedLine
<1>2. /\ p \in Seq(FcAll) /\ Len(p) \in Nat /\ Len(p) >= 1 /\ p[Len(p)] = FcRoot
      /\ \A i \in 1..Len(p) : p[i] = at[i-1]
      /\ \A i, j \in 1..Len(p) : i < j => p[i] # p[j]
  BY <1>1 DEF IsLine
<1>3. \A i \in 1..(Len(p) - 1) : p[i] \in fcLive
  BY <1>1, FcPathShape
<1>4. U \in Maps(FcAll) /\ N \in Nat
  BY FocusTree, TreeUp DEF Rooted, FcUp, FcAll
<1>5. at = Iterate(U, w) /\ at \in [Nat -> FcAll] /\ at[N] = FcRoot
  BY <1>1, FcClimbFacts DEF FcClimb, Climb, FcUp
<1> DEFINE ends == FcSelects \cup FcStops \cup (FcAll \ fcLive)
           v == Last(Walk(U, w, ends, N))
<1>6. PropagateKey(w) = IF v \notin fcLive \cup {FcRoot} THEN w
                        ELSE IF v \in FcSelects THEN v
                        ELSE IF v \in FcStops THEN "None" ELSE w
  BY Zenon DEF PropagateKey
<1>7. ends = E /\ FcRoot \in E
  BY FcAssumption DEF FcAll
<1> HIDE DEF p, U, N, at, ends
<1>8. PICK m \in 1..Len(p) : p[m] \in S /\ \A i \in 1..(m-1) : p[i] \notin S
  <2> DEFINE C == {k \in 1..Len(p) : p[k] \in S}
  <2>1. C \subseteq Nat BY <1>2
  <2>2. C # {}
    <3> SUFFICES ASSUME C = {} PROVE FALSE OBVIOUS
    <3>1. NoneIn(p, S) BY DEF NoneIn
    <3> HIDE DEF C
    <3>2. Kept(p, S) = <<>> BY <1>2, <3>1, KeptNone
    <3> QED  BY <3>2 DEF p
  <2> HIDE DEF C
  <2>3. PICK m \in C : \A l \in C : m <= l BY <2>1, <2>2, LeastOf
  <2>4. m \in 1..Len(p) /\ p[m] \in S BY <2>3 DEF C
  <2>5. ASSUME NEW i \in 1..(m-1) PROVE p[i] \notin S
    <3>1. i \in 1..Len(p) /\ ~(m <= i) BY <1>2, <2>4
    <3> QED  BY <2>3, <3>1 DEF C
  <2> QED  BY <2>4, <2>5
<1>9. Head(Kept(p, S)) = p[m]
  BY <1>2, <1>8, KeptFirst
<1>10. p[m] \in fcLive \cup {FcRoot}
  <2>1. m = Len(p) \/ m \in 1..(Len(p) - 1) BY <1>2
  <2> QED  BY <1>2, <1>3, <2>1
<1>11. at[m-1] \in E /\ m - 1 \in Nat /\ at[m-1] = p[m]
  BY <1>2, <1>8
<1> DEFINE E2 == E
<1>12. PICK n \in 0..N : /\ Walk(U, w, E2, N) = [i \in 1..(n+1) |-> Iterate(U, w)[i-1]]
                         /\ Iterate(U, w)[n] \in E2
                         /\ \A j \in 0..N : Iterate(U, w)[j] \in E2 => n <= j
  <2>1. N \in 0..N /\ Iterate(U, w)[N] \in E2 BY <1>4, <1>5, <1>7
  <2> HIDE DEF E2, E
  <2> QED  BY <1>1, <1>4, <2>1, WalkFacts
<1>13. ~(n < m - 1)
  <2> SUFFICES ASSUME n < m - 1 PROVE FALSE OBVIOUS
  <2>1. n + 1 \in 1..(m-1) /\ n + 1 \in 1..Len(p) /\ n + 1 \in 1..(Len(p) - 1) /\ (n + 1) - 1 = n
    BY <1>2, <1>4
  <2>2. p[n+1] = at[n] BY <1>2, <2>1
  <2>3. at[n] \notin S /\ at[n] \in fcLive BY <1>3, <1>8, <2>1, <2>2
  <2> QED  BY <1>5, <1>12, <2>3
<1>14. ~(m - 1 < n)
  <2> SUFFICES ASSUME m - 1 < n PROVE FALSE OBVIOUS
  <2>1. m - 1 \in 0..N BY <1>4, <1>11
  <2> QED  BY <1>4, <1>5, <1>11, <1>12, <2>1
<1>15. n = m - 1 /\ n \in Nat
  BY <1>4, <1>11, <1>13, <1>14
<1>16. v = at[n]
  <2> DEFINE x == Walk(U, w, ends, N)
  <2>1. x = [i \in 1..(n+1) |-> at[i-1]] BY <1>5, <1>7, <1>12
  <2>2. x \in Seq(FcAll) /\ Len(x) = n + 1 /\ x[n+1] = at[n]
    <3>1. \A i \in 1..(n+1) : at[i-1] \in FcAll BY <1>5, <1>15
    <3> QED  BY <1>15, <2>1, <3>1
  <2> HIDE DEF x
  <2> QED  BY <2>2 DEF Last, x
<1>17. v = p[m] /\ p[m] \in FcSelects
  BY <1>9, <1>11, <1>15, <1>16 DEF p
<1> HIDE DEF v
<1>18. PropagateKey(w) = p[m]
  BY <1>6, <1>10, <1>17
<1> QED  BY <1>9, <1>10, <1>18 DEF p

LEMMA KeyWhere ==
  ASSUME NEW w \in FcWins, NEW e, PropagateKey(w) = e, e \in FcSelects, e \in fcLive \cup {FcRoot},
         NEW g, g = {} \/ \E v : g = {[win |-> v, owner |-> TRUE]}
  PROVE  KeyTarget(w, w, g) = e
<1> DEFINE none == "None"
           pr == "PointerRoot"
           x == CHOOSE y \in g : TRUE
           cond == x.owner /\ w # none /\ e \in FcSelects \cap (fcLive \cup {FcRoot})
<1>1. w # none /\ w # pr /\ w # FcRoot
  BY FcAssumption
<1>2. (IF w \in {"PointerRoot", FcRoot} THEN w ELSE w) = w
  OBVIOUS
<1>3. KeyTarget(w, w, g) =
        IF g # {} THEN IF cond THEN e ELSE x.win
        ELSE IF w = none THEN none ELSE IF w \in {pr, FcRoot} THEN w ELSE e
  BY <1>2 DEF KeyTarget
<1>4. g # {} => cond
  <2> SUFFICES ASSUME g # {} PROVE x.owner
    BY <1>1
  <2>1. PICK u : g = {[win |-> u, owner |-> TRUE]} OBVIOUS
  <2>2. x = [win |-> u, owner |-> TRUE] BY <2>1
  <2> QED  BY <2>2
<1>5. w \notin {pr, FcRoot}
  BY <1>1
<1> HIDE DEF none, pr, x, cond
<1> QED  BY <1>1, <1>3, <1>4, <1>5

LEMMA KeysFind ==
  ASSUME fcLive \subseteq FcWins
  PROVE  KeysFindSelector
<1> DEFINE Gr == {{}} \cup {{[win |-> v, owner |-> TRUE]} : v \in fcLive}
           Ends(w) == Kept(FcPath(w), FcSelects \cup FcStops)
<1>1. ASSUME NEW w \in Attached \cap fcLive, NEW g \in Gr, Ends(w) # <<>>, Head(Ends(w)) \in FcSelects
      PROVE  KeyTarget(w, w, g) = Head(Ends(w))
  <2> DEFINE S == FcSelects \cup FcStops
             e == Head(Kept(FcPath(w), S))
  <2>1. w \in Attached /\ w \in FcWins OBVIOUS
  <2>2. g = {} \/ \E v : g = {[win |-> v, owner |-> TRUE]} OBVIOUS
  <2>3. S = FcSelects \cup FcStops /\ Kept(FcPath(w), S) # <<>> /\ e \in FcSelects BY <1>1
  <2> HIDE DEF S
  <2>4. PropagateKey(w) = e /\ e \in fcLive \cup {FcRoot} BY <2>1, <2>3, KeyClimbs
  <2> HIDE DEF e
  <2>5. KeyTarget(w, w, g) = e BY <2>1, <2>2, <2>3, <2>4, KeyWhere
  <2> QED  BY <2>5 DEF e, S
<1> QED  BY <1>1, Zenon DEF KeysFindSelector

(***************************************************************************)
(* The focus keeps its type.                                               *)
(***************************************************************************)
FocusRecs == [local : FcTargets, shared : FcTargets, told : FcWins \cup {"none"}]

LEMMA FocusRecOf ==
  ASSUME FcTypeOK, NEW c \in FcClients
  PROVE  Focus(c) \in FocusRecs
  BY DEF FcTypeOK, Focus, FocusRecs

LEMMA FocusMoved ==
  ASSUME FcTypeOK, NEW c, NEW f \in FocusRecs, NEW w \in FcTargets
  PROVE  SetFocusWindow(c, f, w) \in FocusRecs
<1>1. \A x : UuidFor(c, x) \in FcWins \cup {"none"}
  BY DEF FcTypeOK, UuidFor
<1>2. f.told \in FcWins \cup {"none"}
  BY DEF FocusRecs
<1> DEFINE told == IF UuidFor(c, f.local) = UuidFor(c, w) THEN f.told ELSE UuidFor(c, w)
<1>3. told \in FcWins \cup {"none"}
  BY <1>1, <1>2
<1> HIDE DEF told
<1>4. SetFocusWindow(c, f, w) = [local |-> w, shared |-> w, told |-> told]
  BY DEF SetFocusWindow, told
<1> QED  BY <1>3, <1>4 DEF FocusRecs

LEMMA FocusReverted ==
  ASSUME FcTypeOK, NEW c \in FcClients, NEW f \in FocusRecs, NEW w
  PROVE  RevertFocusFrom(c, f, w) \in FocusRecs
<1>1. RevertTarget(c, w) \in FcTargets
  <2>1. CASE fcRevert[c] = "Parent"
    <3>1. RevertTarget(c, w) = IF w \in fcLive /\ FcParent[w] \in fcLive THEN FcParent[w] ELSE FcRoot
      BY <2>1 DEF RevertTarget
    <3> QED  BY <3>1 DEF FcTargets, FcTypeOK
  <2>2. CASE fcRevert[c] # "Parent"
    <3>1. RevertTarget(c, w) = fcRevert[c]
      BY <2>2 DEF RevertTarget
    <3> QED  BY <2>2, <3>1 DEF FcTargets, FcTypeOK, Reverts, FcSpecial
  <2> QED  BY <2>1, <2>2
<1>2. SetFocusWindow(c, f, RevertTarget(c, w)) \in FocusRecs
  BY <1>1, FocusMoved
<1> QED  BY <1>2 DEF RevertFocusFrom

RevertSteps(c, d) == [i \in 1..Len(d) |-> [f \in FocusRecs |-> RevertFocusFrom(c, f, d[i])]]

LEMMA RevertChain ==
  ASSUME FcTypeOK, NEW c \in FcClients, NEW d, Len(d) \in Nat
  PROVE  LET f[n \in 0..Len(d)] == IF n = 0 THEN Focus(c) ELSE RevertFocusFrom(c, f[n-1], d[n])
         IN  f[Len(d)] \in FocusRecs
<1> DEFINE n == Len(d)
           F == Focus(c)
           G == RevertSteps(c, d)
           h == CHOOSE f : f = [i \in 0..n |-> IF i = 0 THEN F ELSE RevertFocusFrom(c, f[i-1], d[i])]
<1>1. n \in Nat /\ F \in FocusRecs
  BY FocusRecOf
<1>2. (LET f[k \in 0..Len(d)] == IF k = 0 THEN Focus(c) ELSE RevertFocusFrom(c, f[k-1], d[k])
       IN  f[Len(d)] \in FocusRecs) <=> h[n] \in FocusRecs
  BY Zenon
<1>3. G \in Steps(n, FocusRecs)
  <2>1. ASSUME NEW i \in 1..n, NEW x \in FocusRecs PROVE RevertFocusFrom(c, x, d[i]) \in FocusRecs
    BY FocusReverted
  <2> QED  BY <1>1, <2>1 DEF RevertSteps, Steps, Maps
<1> HIDE DEF n, G, F
<1>4. PICK f : Chain(f, n, FocusRecs, F, G)
  BY <1>1, <1>3, RecursionExists
<1>5. f \in [0..n -> FocusRecs] /\ f[0] = F
  BY <1>4 DEF Chain
<1>6. ASSUME NEW i \in 1..n PROVE f[i] = RevertFocusFrom(c, f[i-1], d[i])
  <2>1. i - 1 \in 0..n BY <1>1
  <2>2. f[i-1] \in FocusRecs BY <1>5, <2>1
  <2>3. f[i] = G[i][f[i-1]] BY <1>4 DEF Chain
  <2> QED  BY <2>2, <2>3 DEF G, RevertSteps, n
<1>7. f = [i \in 0..n |-> IF i = 0 THEN F ELSE RevertFocusFrom(c, f[i-1], d[i])]
  <2>1. ASSUME NEW i \in 0..n
        PROVE  f[i] = IF i = 0 THEN F ELSE RevertFocusFrom(c, f[i-1], d[i])
    <3>1. i = 0 \/ i \in 1..n BY <1>1
    <3> QED  BY <1>5, <1>6, <3>1
  <2>2. f = [i \in 0..n |-> f[i]] BY <1>5
  <2> QED  BY <2>1, <2>2
<1>8. h = [i \in 0..n |-> IF i = 0 THEN F ELSE RevertFocusFrom(c, h[i-1], d[i])]
  BY <1>7
<1> HIDE DEF h
<1>9. h[0] = F
  BY <1>1, <1>8
<1>10. ASSUME NEW i \in 1..n PROVE h[i] = RevertFocusFrom(c, h[i-1], d[i])
  <2>1. i \in 0..n /\ i # 0 BY <1>1
  <2> QED  BY <1>8, <2>1
<1> DEFINE Q == {k \in Nat : k <= n => h[k] \in FocusRecs}
<1>11. 0 \in Q
  BY <1>1, <1>9
<1>12. ASSUME NEW k \in Nat, k \in Q PROVE k + 1 \in Q
  <2> SUFFICES ASSUME k + 1 <= n PROVE h[k+1] \in FocusRecs
    OBVIOUS
  <2>1. k + 1 \in 1..n /\ (k + 1) - 1 = k BY <1>1
  <2>2. h[k] \in FocusRecs BY <1>1, <1>12
  <2>3. h[k+1] = RevertFocusFrom(c, h[k], d[k+1]) BY <1>10, <2>1
  <2> QED  BY <2>2, <2>3, FocusReverted
<1> HIDE DEF Q
<1>13. n \in Q
  BY <1>1, <1>11, <1>12, NumInduction
<1>14. h[n] \in FocusRecs
  BY <1>1, <1>13 DEF Q
<1> QED  BY <1>2, <1>14

LEMMA DestroyReverted ==
  ASSUME FcTypeOK, NEW c \in FcClients, NEW w
  PROVE  DestroyReverts(c, w) \in FocusRecs
<1> DEFINE d == <<w>> \o Below(w)
<1>1. Below(w) \in Seq(FcWins)
  BY KeptType, FcAssumption DEF Below
<1>2. Len(d) \in Nat
  <2> DEFINE e == <<w>>
             b == Below(w)
             T == FcWins \cup {w}
  <2>1. e \in Seq(T) /\ b \in Seq(T) BY <1>1
  <2> HIDE DEF e, b, T
  <2>2. e \o b \in Seq(T) BY <2>1, ConcatProperties
  <2>3. Len(e \o b) \in Nat BY <2>2
  <2> QED  BY <2>3 DEF e, b
<1>3. DestroyReverts(c, w) = LET f[n \in 0..Len(d)] == IF n = 0 THEN Focus(c) ELSE RevertFocusFrom(c, f[n-1], d[n])
                             IN  f[Len(d)]
  BY Zenon DEF DestroyReverts
<1> HIDE DEF d
<1>4. LET f[n \in 0..Len(d)] == IF n = 0 THEN Focus(c) ELSE RevertFocusFrom(c, f[n-1], d[n])
      IN  f[Len(d)] \in FocusRecs
  BY <1>2, RevertChain
<1> QED  BY <1>3, <1>4, Zenon

LEMMA LeavesType ==
  ASSUME FcTypeOK, NEW c \in FcClients, NEW f \in FocusRecs, Leaves(c, f)
  PROVE  fcLocal' \in [FcClients -> FcTargets] /\ fcShared' \in FcTargets
         /\ fcTold' \in FcWins \cup {"none"}
<1>1. f.local \in FcTargets /\ f.shared \in FcTargets /\ f.told \in FcWins \cup {"none"}
  BY DEF FocusRecs
<1> QED  BY <1>1 DEF Leaves, FcTypeOK

LEMMA FocusInit == FcInit => FcTypeOK
  BY FcAssumption DEF FcInit, FcTypeOK, FcTargets, Reverts

LEMMA FocusStep == FcTypeOK /\ [FcNext]_fcVars => FcTypeOK'
<1> SUFFICES ASSUME FcTypeOK, [FcNext]_fcVars PROVE FcTypeOK'
  OBVIOUS
<1>0. CASE UNCHANGED fcVars
  BY <1>0 DEF fcVars, FcTypeOK
<1>00. CASE FcNext
  <2> SUFFICES ASSUME NEW c \in FcClients,
                   \/ \E w \in FcTargets, r \in FcReverts : SetInputFocus(c, w, r)
                   \/ GetInputFocus(c)
                   \/ \E clean \in BOOLEAN : FcDisconnect(c, clean)
                   \/ \E w \in FcWins :
                       \/ ClickToFocus(c, w) \/ NetActiveWindow(c, w) \/ FcLookUp(c, w)
                       \/ FcMap(c, w) \/ FcUnmap(c, w)
                       \/ FcDestroy(c, w) \/ FcDestroySubwindows(c, w)
               PROVE  FcTypeOK'
    BY <1>00 DEF FcNext
  <2>1. Focus(c) \in FocusRecs
    BY FocusRecOf
  <2>2. ASSUME NEW w \in FcTargets, NEW r \in FcReverts, SetInputFocus(c, w, r) PROVE FcTypeOK'
    <3>1. SetFocusWindow(c, Focus(c), w) \in FocusRecs BY <2>1, FocusMoved
    <3>2. Leaves(c, SetFocusWindow(c, Focus(c), w)) BY <2>2 DEF SetInputFocus
    <3>3. fcLocal' \in [FcClients -> FcTargets] /\ fcShared' \in FcTargets
          /\ fcTold' \in FcWins \cup {"none"}
      BY <3>1, <3>2, LeavesType
    <3> QED  BY <2>2, <3>3, FcAssumption DEF SetInputFocus, FcTypeOK, Reverts
  <2>3. ASSUME GetInputFocus(c) PROVE FcTypeOK'
    BY <2>3 DEF GetInputFocus, FcTypeOK
  <2>4. ASSUME NEW clean \in BOOLEAN, FcDisconnect(c, clean) PROVE FcTypeOK'
    <3> DEFINE gone == {w \in fcLive : FcOwner[w] = c}
               f == IF clean /\ fcLocal[c] \in gone
                    THEN RevertFocusFrom(c, Focus(c), fcLocal[c]) ELSE Focus(c)
    <3>1. f \in FocusRecs BY <2>1, FocusReverted
    <3>2. Leaves(c, f) /\ fcUp' = fcUp \ {c} /\ fcLive' = fcLive \ gone
          /\ fcMapped' = fcMapped \ gone /\ fcRevert' = fcRevert
          /\ fcCopies' = [fcCopies EXCEPT ![c] = {}]
      BY <2>4, Zenon DEF FcDisconnect
    <3> HIDE DEF f, gone
    <3>3. fcLocal' \in [FcClients -> FcTargets] /\ fcShared' \in FcTargets
          /\ fcTold' \in FcWins \cup {"none"}
      BY <3>1, <3>2, LeavesType
    <3> QED  BY <3>2, <3>3 DEF FcTypeOK
  <2>5. ASSUME NEW w \in FcWins, ClickToFocus(c, w) PROVE FcTypeOK'
    <3> DEFINE f == [Focus(c) EXCEPT !.local = fcShared]
               g == [SetFocusWindow(c, f, w) EXCEPT !.told = w]
    <3>1. f \in FocusRecs BY <2>1 DEF FocusRecs, FcTypeOK
    <3>2. Leaves(c, f) \/ Leaves(c, g)
      BY <2>5, Zenon DEF ClickToFocus
    <3>3. UNCHANGED <<fcLive, fcMapped, fcUp, fcRevert, fcCopies>>
      BY <2>5 DEF ClickToFocus
    <3>4. g \in FocusRecs
      <4> HIDE DEF f
      <4>1. SetFocusWindow(c, f, w) \in FocusRecs BY <3>1, FocusMoved DEF FcTargets
      <4> QED  BY <4>1 DEF FocusRecs
    <3> HIDE DEF f, g
    <3>5. fcLocal' \in [FcClients -> FcTargets] /\ fcShared' \in FcTargets
          /\ fcTold' \in FcWins \cup {"none"}
      BY <3>1, <3>2, <3>4, LeavesType
    <3> QED  BY <3>3, <3>5 DEF FcTypeOK
  <2>6. ASSUME NEW w \in FcWins, NetActiveWindow(c, w) PROVE FcTypeOK'
    <3>1. SetFocusWindow(c, Focus(c), w) \in FocusRecs BY <2>1, FocusMoved DEF FcTargets
    <3>2. Leaves(c, SetFocusWindow(c, Focus(c), w)) BY <2>6 DEF NetActiveWindow
    <3>3. fcLocal' \in [FcClients -> FcTargets] /\ fcShared' \in FcTargets
          /\ fcTold' \in FcWins \cup {"none"}
      BY <3>1, <3>2, LeavesType
    <3> QED  BY <2>6, <3>3 DEF NetActiveWindow, FcTypeOK
  <2>7. ASSUME NEW w \in FcWins, FcMap(c, w) PROVE FcTypeOK'
    <3>1. SetFocusWindow(c, Focus(c), w) \in FocusRecs BY <2>1, FocusMoved DEF FcTargets
    <3>2. Leaves(c, SetFocusWindow(c, Focus(c), w)) \/ UNCHANGED <<fcLocal, fcShared, fcTold>>
      BY <2>7, Zenon DEF FcMap
    <3>3. fcLocal' \in [FcClients -> FcTargets] /\ fcShared' \in FcTargets
          /\ fcTold' \in FcWins \cup {"none"}
      BY <3>1, <3>2, LeavesType DEF FcTypeOK
    <3> QED  BY <2>7, <3>3 DEF FcMap, FcTypeOK
  <2>8. ASSUME NEW w \in FcWins, FcUnmap(c, w) PROVE FcTypeOK'
    <3>1. RevertFocusFrom(c, Focus(c), w) \in FocusRecs BY <2>1, FocusReverted
    <3>2. Leaves(c, RevertFocusFrom(c, Focus(c), w)) BY <2>8 DEF FcUnmap
    <3>3. fcLocal' \in [FcClients -> FcTargets] /\ fcShared' \in FcTargets
          /\ fcTold' \in FcWins \cup {"none"}
      BY <3>1, <3>2, LeavesType
    <3> QED  BY <2>8, <3>3 DEF FcUnmap, FcTypeOK
  <2>9. ASSUME NEW w \in FcWins, FcDestroy(c, w) PROVE FcTypeOK'
    <3> DEFINE gone == {w} \cup ToSet(Below(w))
    <3>1. DestroyReverts(c, w) \in FocusRecs BY DestroyReverted
    <3>2. Leaves(c, DestroyReverts(c, w)) /\ fcLive' = fcLive \ gone /\ fcMapped' = fcMapped \ gone
          /\ fcCopies' = [fcCopies EXCEPT ![c] = @ \ gone] /\ UNCHANGED <<fcUp, fcRevert>>
      BY <2>9 DEF FcDestroy
    <3> HIDE DEF gone
    <3>3. fcLocal' \in [FcClients -> FcTargets] /\ fcShared' \in FcTargets
          /\ fcTold' \in FcWins \cup {"none"}
      BY <3>1, <3>2, LeavesType
    <3> QED  BY <3>2, <3>3 DEF FcTypeOK
  <2>10. ASSUME NEW w \in FcWins, FcDestroySubwindows(c, w) PROVE FcTypeOK'
    <3> DEFINE gone == ToSet(Below(w))
               f == IF fcLocal[c] \in gone THEN RevertFocusFrom(c, Focus(c), fcLocal[c]) ELSE Focus(c)
    <3>1. f \in FocusRecs BY <2>1, FocusReverted
    <3>2. Leaves(c, f) /\ fcLive' = fcLive \ gone /\ fcMapped' = fcMapped \ gone
          /\ fcCopies' = [fcCopies EXCEPT ![c] = @ \ gone] /\ UNCHANGED <<fcUp, fcRevert>>
      BY <2>10 DEF FcDestroySubwindows
    <3> HIDE DEF gone, f
    <3>3. fcLocal' \in [FcClients -> FcTargets] /\ fcShared' \in FcTargets
          /\ fcTold' \in FcWins \cup {"none"}
      BY <3>1, <3>2, LeavesType
    <3> QED  BY <3>2, <3>3 DEF FcTypeOK
  <2>11. ASSUME NEW w \in FcWins, FcLookUp(c, w) PROVE FcTypeOK'
    BY <2>11 DEF FcLookUp, FcTypeOK
  <2> QED  BY <2>2, <2>3, <2>4, <2>5, <2>6, <2>7, <2>8, <2>9, <2>10, <2>11
<1> QED  BY <1>0, <1>00

LEMMA FocusSound == FcTypeOK => FocusEventsComplete /\ KeysFindSelector
<1> SUFFICES ASSUME FcTypeOK PROVE FocusEventsComplete /\ KeysFindSelector
  OBVIOUS
<1>1. fcLive \subseteq FcWins
  BY DEF FcTypeOK
<1> QED  BY <1>1, FocusEventsHold, KeysFind

-----------------------------------------------------------------------------
(***************************************************************************)
(* The input components together.                                          *)
(***************************************************************************)
InputInv ==
    /\ GrabsInv /\ PointerInv /\ FcTypeOK /\ KeysInv
    /\ CnInv /\ SettingsInv /\ RecordInv

LEMMA InputInitInv == InInit => InputInv
  BY GrabsInit, PointerInit, FocusInit, KeysInitInv, CnInitInv, SettingsInit, RecordInit
     DEF InInit, InputInv

LEMMA InputStepInv == InputInv /\ [InNext]_inVars => InputInv'
<1> SUFFICES ASSUME InputInv, [InNext]_inVars PROVE InputInv'
  OBVIOUS
<1>1. /\ [GrNext]_grVars /\ [PtNext]_ptVars /\ [FcNext]_fcVars /\ [KbNext]_kbVars
      /\ [CnNext]_cnVars /\ [SeNext]_seVars /\ [RcNext]_rcVars
  BY DEF InNext, inVars
<1>2. GrabsInv' /\ PointerInv' /\ FcTypeOK' /\ KeysInv'
  BY <1>1, GrabsStep, PointerStep, FocusStep, KeysStepInv DEF InputInv
<1>3. CnInv' /\ SettingsInv' /\ RecordInv'
  BY <1>1, CnStep, SettingsStep, RecordStep DEF InputInv
<1> QED  BY <1>2, <1>3 DEF InputInv

(* The input components keep the types of their state, for any windows,       *)
(* clients, devices, barriers, mappings and record contexts: above all, a     *)
(* frozen device's queue, the windows the pointer is inside of, the focus     *)
(* after any chain of reversions and the counters of a connection stay within *)
(* what the handlers that read them expect.                                   *)
THEOREM InputTypesKept == InSpec => []InputTypeOK
<1>1. InputInv => InputTypeOK
  BY PointerSound, KeysInvSound, CnInvType, RecordSound
     DEF InputInv, InputTypeOK, GrabsInv, SettingsInv
<1> QED  BY <1>1, InputInitInv, InputStepInv, PTL DEF InSpec

(* Input goes where it is meant to, for any tree of windows, selections of    *)
(* events, grabs, barriers and order of requests: focus events reach every    *)
(* window that loses or gains the focus once and in order, a key reaches the  *)
(* nearest selecting ancestor, no window misses the EnterNotify that precedes *)
(* its events, no barrier is crossed, no key stays down in the modifiers of a *)
(* keyboard nobody holds, every client knows the mapping in force, and both   *)
(* copies of a recording agree.                                               *)
THEOREM InputGoesWhereMeant == InSpec => []InputRouting
<1>1. InputInv => InputRouting
  <2> SUFFICES ASSUME InputInv PROVE InputRouting
    OBVIOUS
  <2>1. FocusRouting /\ PointerRouting
    BY FocusSound, PointerSound DEF InputInv, FocusRouting, PointerRouting
  <2>2. KeyboardSane /\ MappingsKnown
    BY KeysInvSound, ModifiersBack DEF InputInv, KeyboardSane, MappingsKnown, SettingsInv
  <2>3. RecordingSound
    BY RecordSound DEF InputInv, RecordingSound
  <2> QED  BY <2>1, <2>2, <2>3 DEF InputRouting
<1> QED  BY <1>1, InputInitInv, InputStepInv, PTL DEF InSpec

=============================================================================
