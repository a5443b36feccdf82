---------------------------- MODULE MediaChannel ----------------------------
(***************************************************************************)
(* Pixels from the backend to one browser: the PutImage path of            *)
(* dispatch_sidecar_msg with its pixel cache, the replay task of           *)
(* handle_frontend_ws, the WebRTC driver (backend/src/rtc.rs), the chunker *)
(* (backend/src/chunking.rs) and the browser's Reassembler                 *)
(* (frontend/src/rtcReassembler.ts).                                       *)
(*                                                                         *)
(* Three backend tasks meet here: a sidecar's receive loop caches a frame  *)
(* and then fans it out, the replay task queues the whole cache once the   *)
(* channel opens, and the driver drains the queue keeping only the newest  *)
(* entry.  The network loses, reorders and repeats chunks.                 *)
(***************************************************************************)
EXTENDS Integers, Sequences, FiniteSets, SequencesExt, Functions

CONSTANTS
  Windows,    \* windows, each painted by a sidecar of its own
  Tiles,      \* the pixels of a window
  MaxParts,   \* the largest number of chunks of a frame
  IdSpace,    \* values of msg_id: 2^32 in the code
  NetCap,     \* chunks str0m's send buffer and the network hold
  MaxFrames,  \* bound: frames painted
  None

ASSUME IdSpaceAssumption == IdSpace \in Nat /\ IdSpace > 2 /\ IdSpace % 2 = 0
ASSUME PartsAssumption == MaxParts \in Nat \ {0}
ASSUME BoundsAssumption == MaxFrames \in Nat /\ NetCap \in Nat

VARIABLES
  cache,       \* AppState.pixel_buffers: newest frame per window, or None
  unsent,      \* windows whose frame is cached and not yet fanned out
  channel,     \* media_channel_id and dc_open: "new", "open", "closed"
  replay,      \* the replay task: "waiting", "notified", "running", "done"
  toReplay,    \* cached windows it has still to queue
  queue,       \* dc_tx / dc_rx
  nextId,      \* Chunker.next_msg_id
  pending,     \* chunks of the current message not yet written
  net,         \* chunks written and not yet gone
  latestSeen,  \* Reassembler.latestSeen, None for null
  partials,    \* Reassembler.partials
  surfaced,    \* chunk contents of the message last assembled
  painted,     \* frames painted so far (MaxFrames)
  handed,      \* history: newest frame queued per window
  cur,         \* history: the message last chunked
  holed,       \* history: a chunk of cur was lost
  shown        \* frame on screen per window, 0 for none

hubVars  == <<cache, unsent, replay, toReplay, painted>>
sendVars == <<nextId, pending, cur>>
recvVars == <<latestSeen, partials, surfaced, shown>>
vars == <<hubVars, channel, queue, handed, sendVars, net, holed, recvVars>>

Frame == [n : 1..MaxFrames, win : Windows, area : SUBSET Tiles,
          parts : 1..MaxParts]
Chunk == [id : 0..(IdSpace - 1), idx : 0..(MaxParts - 1),
          total : 1..MaxParts, body : Frame]

ASSUME NoneAssumption == None \notin Frame \cup (0..(IdSpace - 1))

Init ==
  /\ cache = [w \in Windows |-> None]
  /\ unsent = {} /\ painted = 0
  /\ channel = "new" /\ replay = "waiting" /\ toReplay = {}
  /\ queue = <<>> /\ handed = [w \in Windows |-> 0]
  /\ nextId = 0 /\ pending = <<>> /\ cur = None
  /\ net = {} /\ holed = FALSE
  /\ latestSeen = None /\ partials = <<>> /\ surfaced = <<>>
  /\ shown = [w \in Windows |-> 0]

-----------------------------------------------------------------------------
(* Regression forms of definitions below, used by mutation checks only. *)

OlderPlain(a, b) == a < b

StaleNever(c) == FALSE

EvictedNothing(c) == {}

ReplayNothing == {}

-----------------------------------------------------------------------------
(* The hub. *)

Enqueue(f) ==
  /\ queue' = Append(queue, f)
  /\ handed' = [handed EXCEPT ![f.win] = f.n]

(* First half of a PutImage: the cache is written under its lock, which the *)
(* replay task holds for reading while it runs.                             *)
Paint(w, area, parts) ==
  /\ painted < MaxFrames /\ w \notin unsent /\ replay # "running"
  /\ painted' = painted + 1
  /\ cache' = [cache EXCEPT ![w] =
       [n |-> painted + 1, win |-> w, area |-> area, parts |-> parts]]
  /\ unsent' = unsent \cup {w}
  /\ UNCHANGED <<replay, toReplay, channel, queue, handed, sendVars, net,
                 holed, recvVars>>

(* Second half: sent to the frontend if its dc_open is set by now. *)
FanOut(w) ==
  /\ w \in unsent
  /\ unsent' = unsent \ {w}
  /\ IF channel = "open" THEN Enqueue(cache[w]) ELSE UNCHANGED <<queue, handed>>
  /\ UNCHANGED <<cache, painted, replay, toReplay, channel, sendVars, net,
                 holed, recvVars>>

(* cleanup_sidecar: the session of w's sidecar ended, perhaps in the middle *)
(* of a PutImage, and its cached frames are dropped.                        *)
SidecarGone(w) ==
  /\ cache[w] # None /\ replay # "running"
  /\ cache' = [cache EXCEPT ![w] = None]
  /\ unsent' = unsent \ {w}
  /\ UNCHANGED <<painted, replay, toReplay, channel, queue, handed, sendVars,
                 net, holed, recvVars>>

(* Event::ChannelOpen: dc_open is set, then the replay task is notified. *)
ChannelOpen ==
  /\ channel = "new"
  /\ channel' = "open"
  /\ replay' = "notified"
  /\ UNCHANGED <<cache, unsent, painted, toReplay, queue, handed, sendVars,
                 net, holed, recvVars>>

Replayable == {w \in Windows : cache[w] # None}

ReplayBegin ==
  /\ replay = "notified"
  /\ toReplay' = Replayable
  /\ replay' = IF Replayable = {} THEN "done" ELSE "running"
  /\ UNCHANGED <<cache, unsent, painted, channel, queue, handed, sendVars,
                 net, holed, recvVars>>

ReplayOne(w) ==
  /\ replay = "running" /\ w \in toReplay
  /\ Enqueue(cache[w])
  /\ toReplay' = toReplay \ {w}
  /\ replay' = IF toReplay = {w} THEN "done" ELSE "running"
  /\ UNCHANGED <<cache, unsent, painted, channel, sendVars, net, holed,
                 recvVars>>

-----------------------------------------------------------------------------
(* The driver. *)

Room == Cardinality(net) < NetCap

Older(a, b) == a # b /\ (b - a) % IdSpace < IdSpace \div 2

(* Serial numbers only compare within half the id space: nothing in the     *)
(* network, and nothing the receiver remembers, is 2^31 messages old.       *)
Recent ==
  \A i \in {c.id : c \in net} \cup ({latestSeen} \ {None}) :
    (nextId - i) % IdSpace < IdSpace \div 2

Chunks(f) == [i \in 1..f.parts |->
  [id |-> nextId, idx |-> i - 1, total |-> f.parts, body |-> f]]

(* dc_rx.recv, then try_recv to the end: the newest frame replaces          *)
(* everything, the unwritten chunks of the frame before it included.        *)
Drain ==
  /\ queue # <<>>
  /\ pending = <<>> \/ ~Room
  /\ queue' = <<>>
  /\ IF channel = "open"
       THEN /\ Recent
            /\ pending' = Chunks(Last(queue))
            /\ cur' = Last(queue)
            /\ nextId' = (nextId + 1) % IdSpace
            /\ holed' = FALSE
       ELSE UNCHANGED <<sendVars, holed>>
  /\ UNCHANGED <<hubVars, channel, handed, net, recvVars>>

(* drain_pending, one chunk. *)
Write ==
  /\ channel = "open" /\ pending # <<>> /\ Room
  /\ net' = net \cup {Head(pending)}
  /\ pending' = Tail(pending)
  /\ UNCHANGED <<hubVars, channel, queue, handed, nextId, cur, holed, recvVars>>

ChannelClose ==
  /\ channel = "open"
  /\ channel' = "closed"
  /\ pending' = <<>>
  /\ UNCHANGED <<hubVars, queue, handed, nextId, cur, net, holed, recvVars>>

-----------------------------------------------------------------------------
(* The network and Reassembler.onChunk. *)

Stale(c) == latestSeen # None /\ Older(c.id, latestSeen)

(* Partial messages given up because c is newer than anything before it. *)
Evicted(c) ==
  IF latestSeen = None \/ Older(latestSeen, c.id)
    THEN {i \in DOMAIN partials : Older(i, c.id)} ELSE {}

Fresh(total) == [total |-> total, got |-> <<>>]

(* got is chunks: a function from the indices received to their contents. *)
OnChunk(c) ==
  IF Stale(c) THEN UNCHANGED recvVars
  ELSE
    LET kept == Restrict(partials, DOMAIN partials \ Evicted(c))
        p == IF c.id \in DOMAIN kept THEN kept[c.id] ELSE Fresh(c.total)
        got == [i \in DOMAIN p.got \cup {c.idx} |->
                  IF i \in DOMAIN p.got THEN p.got[i] ELSE c.body]
        without == Restrict(kept, DOMAIN kept \ {c.id})
        with(q) == [i \in DOMAIN kept \cup {c.id} |->
                      IF i = c.id THEN q ELSE kept[i]]
    IN /\ latestSeen' = IF latestSeen = None \/ Older(latestSeen, c.id)
                          THEN c.id ELSE latestSeen
       /\ IF p.total = c.total /\ Cardinality(DOMAIN got) = p.total
            THEN /\ partials' = without
                 /\ surfaced' = got
                 /\ shown' = [shown EXCEPT ![got[0].win] = got[0].n]
            ELSE /\ partials' = IF p.total = c.total
                                  THEN with([p EXCEPT !.got = got])
                                  ELSE without
                 /\ UNCHANGED <<surfaced, shown>>

Deliver(c) ==
  /\ OnChunk(c)
  /\ net' = net \ {c}
  /\ UNCHANGED <<hubVars, channel, queue, handed, sendVars, holed>>

Duplicate(c) ==
  /\ OnChunk(c)
  /\ UNCHANGED <<net, hubVars, channel, queue, handed, sendVars, holed>>

Lose(c) ==
  /\ net' = net \ {c}
  /\ holed' = (holed \/ c.id = (nextId - 1) % IdSpace)
  /\ UNCHANGED <<hubVars, channel, queue, handed, sendVars, recvVars>>

-----------------------------------------------------------------------------
Next ==
  \/ \E w \in Windows, A \in SUBSET Tiles \ {{}}, k \in 1..MaxParts :
       Paint(w, A, k)
  \/ \E w \in Windows : FanOut(w) \/ ReplayOne(w) \/ SidecarGone(w)
  \/ ChannelOpen \/ ReplayBegin \/ ChannelClose \/ Drain \/ Write
  \/ \E c \in net : Deliver(c) \/ Duplicate(c) \/ Lose(c)

Spec == Init /\ [][Next]_vars

(* The backend tasks are polled and the network makes progress: every chunk *)
(* is delivered or lost in the end.                                         *)
Fairness ==
  /\ WF_vars(\E w \in Windows : FanOut(w))
  /\ WF_vars(ReplayBegin) /\ WF_vars(\E w \in Windows : ReplayOne(w))
  /\ WF_vars(Drain) /\ WF_vars(Write)
  /\ WF_vars(\E c \in net : Deliver(c))

FairSpec == Spec /\ Fairness

-----------------------------------------------------------------------------
TypeOK ==
  /\ cache \in [Windows -> Frame \cup {None}]
  /\ unsent \subseteq Windows /\ toReplay \subseteq Windows
  /\ channel \in {"new", "open", "closed"}
  /\ replay \in {"waiting", "notified", "running", "done"}
  /\ queue \in Seq(Frame) /\ pending \in Seq(Chunk) /\ net \subseteq Chunk
  /\ nextId \in 0..(IdSpace - 1)
  /\ latestSeen \in 0..(IdSpace - 1) \cup {None}
  /\ DOMAIN partials \subseteq {latestSeen}
  /\ cur \in Frame \cup {None}
  /\ painted \in 0..MaxFrames
  /\ shown \in [Windows -> 0..MaxFrames] /\ handed \in [Windows -> 0..MaxFrames]

(* Whatever the network loses, repeats or reorders, and across the          *)
(* wrap-around of msg_id, onChunk only surfaces a message made of exactly   *)
(* the chunks of one frame.                                                 *)
WholeFrames ==
  surfaced # <<>> => surfaced = [i \in 0..(surfaced[0].parts - 1) |-> surfaced[0]]

(* "the receiver only ever surfaces the freshest fully-arrived frame, never *)
(* a stale one" (rtcReassembler.ts): no window's picture goes back in time, *)
(* though cache, fan-out and replay feed the queue from different tasks.    *)
NeverGoesBack == [][\A w \in Windows : shown'[w] >= shown[w]]_vars

(* The race of the replay with painting and with the channel opening: once  *)
(* the replay is over, the newest frame of every window has been queued or  *)
(* is about to be (while the channel is up).                                *)
ReplayCovers ==
  replay = "done" /\ channel = "open" =>
    \A w \in Windows :
      cache[w] = None \/ w \in unsent \/ handed[w] = cache[w].n

(* If painting stops and the channel stays up, the frame sent last reaches  *)
(* the screen unless the network lost a part of it: neither wrap-around nor *)
(* older chunks arriving late can make the receiver refuse it.              *)
LastFrameArrives ==
  <>[](channel = "open") =>
    <>[](cur = None \/ holed \/ shown[cur.win] >= cur.n)

Cells(f) == {<<f.win, t>> : t \in f.area}

(* "New PutImage frames REPLACE the queue (latest-frame-wins ... old chunks *)
(* would just produce a stale frame anyway)" (rtc.rs): what a drain throws  *)
(* away is painted over by the frame it keeps.                              *)
OnlyStaleDropped ==
  [][channel = "open" /\ queue # <<>> /\ queue' = <<>> =>
       \A f \in Range(Front(queue)) \cup {c.body : c \in Range(pending)} :
         Cells(f) \subseteq Cells(Last(queue))]_vars

=============================================================================
