------------------------------- MODULE XRecord -------------------------------
(***************************************************************************)
(* The RECORD extension: a client makes contexts that say whose traffic    *)
(* and which protocol elements it wants to hear of.  A context is kept     *)
(* twice, on the connection that made it and in a table every connection   *)
(* reads when one of its own requests, replies, errors or events passes;   *)
(* what matches goes to the recording connection through its channel.     *)
(*                                                                         *)
(* Abstracted: the copied bytes, time stamps and sequence numbers of the   *)
(* data replies; a client stands for its resource base.  Context ids come  *)
(* from the range of the client that makes the context.                    *)
(***************************************************************************)
EXTENDS Naturals, Sequences, SequencesExt, FiniteSets

CONSTANTS RcClients,    \* connections; each comes and goes once
          RcUntrusted,  \* those the SECURITY extension does not trust
          RcRanges,     \* the ranges of the requests
          RcSpecs,      \* the sets of client specs of the requests
          RcElements,   \* protocol elements of ordinary traffic
          RcMaxSteps    \* bound on connects, requests and events

RcMagic == {"current", "future", "all"}

ASSUME RcAssumption ==
    /\ IsFiniteSet(RcClients) /\ RcMaxSteps \in Nat
    /\ RcSpecs \subseteq SUBSET (RcMagic \cup RcClients)

RcCategories == {"data", "started", "died"}
RcContexts == [on : BOOLEAN, specs : SUBSET (RcMagic \cup RcClients), ranges : SUBSET RcRanges]

VARIABLES
    rcUp,       \* rcUp[c]: "new", "up" or "down"
    rcLocal,    \* rcLocal[c][x]: {} or {context}: the contexts of the connection
    rcShared,   \* rcShared[x]: {} or {[by, ctx, tx]}: the table of all connections
    rcQueue,    \* rcQueue[c]: the channel wm_events of c
    rcPend,     \* rcPend[c]: pending_events of c
    rcOut,      \* rcOut[c]: RECORD data written to c (history)
    rcTold,     \* rcTold[c]: contexts c had a StartOfData of, since they were made (history)
    rcForeign,  \* contexts a client that did not make them has acted on (history)
    rcSteps

rcVars == <<rcUp, rcLocal, rcShared, rcQueue, rcPend, rcOut, rcTold, rcForeign, rcSteps>>

\* A context is named after the client that made it: one per client.
RcIds == RcClients
RcMessages == [ctx : RcIds, of : RcClients, what : RcCategories]
RcEntries == [by : RcClients, ctx : RcContexts, tx : RcClients]

RcInit ==
    /\ rcUp = [c \in RcClients |-> "new"]
    /\ rcLocal = [c \in RcClients |-> [x \in RcIds |-> {}]]
    /\ rcShared = [x \in RcIds |-> {}]
    /\ rcQueue = [c \in RcClients |-> <<>>] /\ rcPend = rcQueue /\ rcOut = rcQueue
    /\ rcTold = [c \in RcClients |-> {}] /\ rcForeign = {} /\ rcSteps = 0

RcStep == rcSteps < RcMaxSteps /\ rcSteps' = rcSteps + 1

(***************************************************************************)
(* Which elements a context hears of.                                      *)
(***************************************************************************)
CoreMax == 127
EventCodes == 2..34

\* A range with a zero in it is no range.
InRange(p, n) == p[1] # 0 /\ p[2] # 0 /\ p[1] <= n /\ n <= p[2]
InExtRange(t, e) == t[1] # 0 /\ e.major = t[1] /\ t[2] <= e.minor /\ e.minor <= t[3]

RangeMatches(r, e) ==
    CASE e.kind = "request" ->
            IF e.major <= CoreMax THEN InRange(r.coreRequests, e.major) ELSE InExtRange(r.extRequests, e)
      [] e.kind = "reply"   ->
            IF e.major <= CoreMax THEN InRange(r.coreReplies, e.major) ELSE InExtRange(r.extReplies, e)
      [] e.kind = "error"   -> InRange(r.errors, e.major)
      [] e.kind = "event"   -> InRange(r.delivered, e.major) \/ InRange(r.device, e.major)

\* Events sent by clients carry a flag that puts their code out of the codes looked at.
Matches(ctx, e) ==
    /\ e.kind = "event" => e.major \in EventCodes
    /\ \E r \in ctx.ranges : RangeMatches(r, e)

\* The three magic specs mean everybody but the client that made the context.
ShouldInterceptClient(ctx, by, s) ==
    ctx.on /\ \E p \in ctx.specs : IF p \in RcMagic THEN s # by ELSE p = s

RcMessage(x, s, what) == [ctx |-> x, of |-> s, what |-> what]

\* Data for the contexts of the connection itself, on its own traffic.
InterceptLocal(local, s, e) ==
    SetToSeq({RcMessage(x, s, "data") : x \in
        {i \in RcIds : \E k \in local[s][i] : ShouldInterceptClient(k, s, s) /\ Matches(k, e)}})

\* A channel takes messages as long as its connection lives.
SendAll(queue, shared, xs, s, what) ==
    [c \in RcClients |->
        queue[c] \o (IF rcUp[c] = "up"
                     THEN SetToSeq({RcMessage(x, s, what) : x \in
                                       {i \in xs : \E n \in shared[i] : n.tx = c}})
                     ELSE <<>>)]

InterceptShared(queue, shared, s, e) ==
    SendAll(queue, shared,
            {x \in RcIds : \E n \in shared[x] :
                ShouldInterceptClient(n.ctx, n.by, s) /\ Matches(n.ctx, e)}, s, "data")

(***************************************************************************)
(* Connections.                                                            *)
(***************************************************************************)
WantsLife(ctx, started) ==
    /\ ctx.on /\ {"future", "all"} \cap ctx.specs # {}
    /\ \E r \in ctx.ranges : IF started THEN r.started ELSE r.died

\* Told to every context that wants to know but those the client made itself.
LifeSent(s, started) ==
    SendAll(rcQueue, rcShared,
            {x \in RcIds : \E n \in rcShared[x] : n.by # s /\ WantsLife(n.ctx, started)},
            s, IF started THEN "started" ELSE "died")

NotifyClientStarted(c) ==
    /\ rcUp[c] = "new" /\ RcStep
    /\ rcUp' = [rcUp EXCEPT ![c] = "up"] /\ rcQueue' = LifeSent(c, TRUE)
    /\ UNCHANGED <<rcLocal, rcShared, rcPend, rcOut, rcTold, rcForeign>>

\* The connection is closed by its client: contexts that listen hear of it, its own
\* ones through the stream that is still open.  Unless resources are retained its
\* contexts go from the table.
Hangup(c, retained) ==
    /\ rcUp[c] = "up" /\ rcPend[c] = <<>> /\ RcStep
    /\ rcUp' = [rcUp EXCEPT ![c] = "down"]
    /\ rcOut' = [rcOut EXCEPT ![c] = @ \o SetToSeq({RcMessage(x, c, "died") : x \in
                    {i \in RcIds : \E k \in rcLocal[c][i] : WantsLife(k, FALSE)}})]
    /\ rcQueue' = [LifeSent(c, FALSE) EXCEPT ![c] = <<>>]
    /\ rcLocal' = [rcLocal EXCEPT ![c] = [x \in RcIds |-> {}]]
    /\ rcShared' = IF retained THEN rcShared
                   ELSE [x \in RcIds |-> {n \in rcShared[x] : n.by # c}]
    /\ UNCHANGED <<rcPend, rcTold, rcForeign>>

\* The connection is lost: its task returns at once, and what is shared stays.
Lost(c) ==
    /\ rcUp[c] = "up" /\ RcStep
    /\ rcUp' = [rcUp EXCEPT ![c] = "down"]
    /\ rcQueue' = [rcQueue EXCEPT ![c] = <<>>] /\ rcPend' = [rcPend EXCEPT ![c] = <<>>]
    /\ rcLocal' = [rcLocal EXCEPT ![c] = [x \in RcIds |-> {}]]
    /\ UNCHANGED <<rcShared, rcOut, rcTold, rcForeign>>

(***************************************************************************)
(* Traffic.                                                                *)
(***************************************************************************)
Heard(c, e) ==
    /\ rcUp[c] = "up" /\ RcStep
    /\ rcPend' = [rcPend EXCEPT ![c] = @ \o InterceptLocal(rcLocal, c, e)]
    /\ rcQueue' = InterceptShared(rcQueue, rcShared, c, e)
    /\ UNCHANGED <<rcUp, rcLocal, rcShared, rcOut, rcTold, rcForeign>>

RequestPasses(c, e) == e.kind = "request" /\ Heard(c, e)
ResponsePasses(c, e) == e.kind \in {"reply", "error"} /\ Heard(c, e)

\* Pending events go out with a delivered one, then what was recorded of it.
EventDelivered(c, e) ==
    /\ e.kind = "event" /\ rcUp[c] = "up" /\ RcStep
    /\ rcOut' = [rcOut EXCEPT ![c] = @ \o rcPend[c] \o InterceptLocal(rcLocal, c, e)]
    /\ rcPend' = [rcPend EXCEPT ![c] = <<>>]
    /\ rcQueue' = InterceptShared(rcQueue, rcShared, c, e)
    /\ UNCHANGED <<rcUp, rcLocal, rcShared, rcTold, rcForeign>>

\* The requests read at once have been handled: pending events are written.
EndBatch(c) ==
    /\ rcUp[c] = "up" /\ rcPend[c] # <<>>
    /\ rcOut' = [rcOut EXCEPT ![c] = @ \o rcPend[c]] /\ rcPend' = [rcPend EXCEPT ![c] = <<>>]
    /\ UNCHANGED <<rcUp, rcLocal, rcShared, rcQueue, rcTold, rcForeign, rcSteps>>

\* The channel is read between batches.
ChannelRead(c) ==
    /\ rcUp[c] = "up" /\ rcPend[c] = <<>> /\ rcQueue[c] # <<>>
    /\ rcOut' = [rcOut EXCEPT ![c] = Append(@, Head(rcQueue[c]))]
    /\ rcQueue' = [rcQueue EXCEPT ![c] = Tail(@)]
    /\ UNCHANGED <<rcUp, rcLocal, rcShared, rcPend, rcTold, rcForeign, rcSteps>>

(***************************************************************************)
(* The requests of the extension.  They pass the contexts like any other:  *)
(* the request before it is handled, its answer after.                     *)
(***************************************************************************)
RecordMajor == 154
AccessError == [kind |-> "error", major |-> 10, minor |-> 0]
RcElement(kind, minor) == [kind |-> kind, major |-> RecordMajor, minor |-> minor]

\* The request with that minor code, answered by nothing ({}) or one element.
RecordRequest(c, minor, answer, local, shared) ==
    LET q == RcElement("request", minor)
        asked == InterceptShared(rcQueue, rcShared, c, q)
    IN  /\ rcUp[c] = "up" /\ RcStep
        /\ rcLocal' = local /\ rcShared' = shared
        /\ rcPend' = [rcPend EXCEPT ![c] = @ \o InterceptLocal(rcLocal, c, q)
                \o (IF answer = {} THEN <<>> ELSE InterceptLocal(local, c, CHOOSE a \in answer : TRUE))]
        /\ rcQueue' = IF answer = {} THEN asked
                      ELSE InterceptShared(asked, shared, c, CHOOSE a \in answer : TRUE)
        /\ UNCHANGED <<rcUp, rcOut>>

LocalPut(c, x, S) == [rcLocal EXCEPT ![c][x] = S]
Noted(c, x) == rcForeign' = IF c = x THEN rcForeign ELSE rcForeign \cup {x}

CreateContext(c, specs, ranges) ==
    LET k == [on |-> FALSE, specs |-> specs, ranges |-> ranges]
    IN  IF c \in RcUntrusted
        THEN /\ RecordRequest(c, 1, {AccessError}, rcLocal, rcShared)
             /\ UNCHANGED <<rcTold, rcForeign>>
        ELSE /\ RecordRequest(c, 1, {}, LocalPut(c, c, {k}),
                    [rcShared EXCEPT ![c] = {[by |-> c, ctx |-> k, tx |-> c]}])
             /\ rcTold' = [d \in RcClients |-> rcTold[d] \ {c}]
             /\ rcForeign' = rcForeign \ {c}

\* A slip: the table keeps the context as it was.
CopiedNever(x, S) == rcShared
\* The context as the connection now has it, copied over the one in the table.
Copied(x, S) ==
    [rcShared EXCEPT ![x] = {[n EXCEPT !.ctx = CHOOSE k \in S : TRUE] : n \in @}]

\* A connection that does not have the context changes nothing.
Changed(c, x, minor, S) ==
    /\ IF S = {} THEN RecordRequest(c, minor, {}, rcLocal, rcShared)
                 ELSE RecordRequest(c, minor, {}, LocalPut(c, x, S), Copied(x, S))
    /\ UNCHANGED <<rcTold, rcForeign>>

RegisterClients(c, x, specs, ranges) ==
    Changed(c, x, 2, {[k EXCEPT !.specs = @ \cup specs, !.ranges = @ \cup ranges] : k \in rcLocal[c][x]})

UnregisterClients(c, x, specs) ==
    Changed(c, x, 3, {LET left == k.specs \ specs
                      IN  [k EXCEPT !.specs = left, !.ranges = IF left = {} THEN {} ELSE @] :
                      k \in rcLocal[c][x]})

\* A slip: the channel stays the one of the client that made the context.
EntryEnabledInPlace(n, c) == [n EXCEPT !.ctx.on = TRUE]
\* The data go to whoever enabled the context.
EntryEnabled(n, c) == [n EXCEPT !.ctx.on = TRUE, !.tx = c]

\* StartOfData answers, known or not.
EnableContext(c, x) ==
    /\ RecordRequest(c, 5, {RcElement("reply", 5)},
            LocalPut(c, x, {[k EXCEPT !.on = TRUE] : k \in rcLocal[c][x]}),
            [rcShared EXCEPT ![x] = {EntryEnabled(n, c) : n \in @}])
    /\ rcTold' = [rcTold EXCEPT ![c] = @ \cup {x}] /\ Noted(c, x)

\* EndOfData answers the client that asks, known or not.
DisableContext(c, x) ==
    /\ RecordRequest(c, 6, {RcElement("reply", 6)},
            LocalPut(c, x, {[k EXCEPT !.on = FALSE] : k \in rcLocal[c][x]}),
            [rcShared EXCEPT ![x] = {[n EXCEPT !.ctx.on = FALSE] : n \in @}])
    /\ Noted(c, x) /\ UNCHANGED rcTold

FreeContext(c, x) ==
    /\ RecordRequest(c, 7, {}, LocalPut(c, x, {}), [rcShared EXCEPT ![x] = {}])
    /\ Noted(c, x) /\ UNCHANGED rcTold

RcNext ==
    \E c \in RcClients :
        \/ NotifyClientStarted(c) \/ Hangup(c, TRUE) \/ Hangup(c, FALSE) \/ Lost(c)
        \/ EndBatch(c) \/ ChannelRead(c)
        \/ \E e \in RcElements : RequestPasses(c, e) \/ ResponsePasses(c, e) \/ EventDelivered(c, e)
        \/ \E specs \in RcSpecs, r \in RcRanges : CreateContext(c, specs, {r})
        \/ \E x \in RcIds :
              \/ \E specs \in RcSpecs : UnregisterClients(c, x, specs)
              \/ \E specs \in RcSpecs, r \in RcRanges : RegisterClients(c, x, specs, {r})
              \/ EnableContext(c, x) \/ DisableContext(c, x) \/ FreeContext(c, x)

(***************************************************************************)
(* Properties.                                                             *)
(***************************************************************************)
\* The state of the extension has its type.
RcTypeOK ==
    /\ rcUp \in [RcClients -> {"new", "up", "down"}]
    /\ rcLocal \in [RcClients -> [RcIds -> SUBSET RcContexts]]
    /\ \A c \in RcClients, x \in RcIds : Cardinality(rcLocal[c][x]) <= 1
    /\ rcShared \in [RcIds -> SUBSET RcEntries] /\ \A x \in RcIds : Cardinality(rcShared[x]) <= 1
    /\ \A q \in {rcQueue, rcPend, rcOut} : q \in [RcClients -> Seq(RcMessages)]
    /\ rcTold \in [RcClients -> SUBSET RcIds] /\ rcForeign \subseteq RcIds
    /\ rcSteps \in 0..RcMaxSteps

\* Whoever gets the data of an enabled context (EnableContext puts its channel in the
\* table, Register and Unregister copy the switch over it) has had its StartOfData.
RecordingAnnounced ==
    \A x \in RcIds : \A n \in rcShared[x] : n.ctx.on => x \in rcTold[n.tx]

\* The two copies of a context nobody else acted on agree, whatever its client did.
CopiesAgree ==
    \A c \in RcClients : rcUp[c] = "up" /\ c \notin rcForeign =>
        rcShared[c] = {[by |-> c, ctx |-> k, tx |-> c] : k \in rcLocal[c][c]}

\* In what a context tells, nothing of a client comes before its ClientStarted or
\* after its ClientDied, though three tasks and a channel lie in between.
LifeBracketed ==
    \A c \in RcClients :
        LET s == rcOut[c] \o rcPend[c] \o rcQueue[c]
        IN  \A i, j \in DOMAIN s :
                i < j /\ s[i].ctx = s[j].ctx /\ s[i].of = s[j].of
                => s[i].what # "died" /\ s[j].what # "started"
=============================================================================
