----------------------------- MODULE XSelection -----------------------------
(***************************************************************************)
(* The CLIPBOARD selection and the properties its data travels through.    *)
(* Ownership is kept twice: in a map that all connections share and in a   *)
(* map of each connection.  The data of the last answered request is       *)
(* cached, and when its owner leaves, the server takes the selection over  *)
(* and serves the cache, in chunks (INCR) when it is large.                *)
(*                                                                         *)
(* The locks of the shared map and of the cache are separate, so taking    *)
(* the selection and leaving are two steps each.                           *)
(*                                                                         *)
(* Abstracted: one selection, one text target, one requestor window and    *)
(* one property per client; a client starts a conversion only when the     *)
(* property is absent, as the ICCCM asks.  An owner writes its answer in   *)
(* one request (an owner's own INCR is a matter between the two clients);  *)
(* TIMESTAMP and MULTIPLE are left out.                                    *)
(***************************************************************************)
EXTENDS Naturals, Sequences, SequencesExt, FiniteSets

CONSTANTS SlClients,    \* connections
          SlLarge,      \* clients whose data is above INCR_THRESHOLD
          SlMaxSteps    \* bound on changes of ownership and conversions

\* What client c copies: one chunk, or three.
Content(c) == IF c \in SlLarge THEN [i \in 1..3 |-> <<c, i>>] ELSE <<<<c, 1>>>>

VARIABLES
    slUp,      \* connected clients
    slShared,  \* owner in the shared map: a client, "server" or "none"
    slLocal,   \* clients whose own map says that they own the selection
    slThinks,  \* clients that took the selection and were not told they lost it
    slDoing,   \* slDoing[c]: "idle", "taking", "leaving" or "handing over"
    slSaved,   \* persistent_clipboard: {} or {the cached data}
    slAsks,    \* SelectionRequests queued: <<owner, requestor>>
    slPhase,   \* slPhase[c]: how far c's conversion is
    slMine,    \* slMine[c]: the property in c's own copy: {} or {value}
    slTheirs,  \* slTheirs[c]: the property in the shared copy
    slIncr,    \* slIncr[c]: c's INCR transfer: {} or {[data, off]}
    slFrom,    \* what the answer c waits for consists of (history)
    slGot,     \* what c has read of it (history)
    slSteps    \* steps counted by the bound

slOwners == <<slShared, slLocal, slThinks, slSaved>>
slPaste == <<slPhase, slMine, slTheirs, slIncr, slFrom, slGot>>
slVars == <<slUp, slOwners, slDoing, slAsks, slPaste, slSteps>>

Incr == <<<<"INCR", 0>>>>      \* the marker a transfer starts with

SlTypeOK ==
    /\ slUp \subseteq SlClients
    /\ slShared \in SlClients \cup {"server", "none"}
    /\ slLocal \subseteq SlClients /\ slThinks \subseteq SlClients
    /\ slDoing \in [SlClients -> {"idle", "taking", "leaving", "handing over"}]
    /\ slSaved \subseteq {Content(c) : c \in SlClients} /\ Cardinality(slSaved) <= 1
    /\ slAsks \subseteq SlClients \X SlClients
    /\ slPhase \in [SlClients -> {"idle", "asked", "told", "incr", "done"}]
    /\ \A c \in SlClients : Cardinality(slMine[c]) <= 1 /\ Cardinality(slTheirs[c]) <= 1
    /\ \A c \in SlClients : \A t \in slIncr[c] : t.off \in 0..Len(t.data)

SlInit ==
    /\ slUp = SlClients
    /\ slShared = "none" /\ slLocal = {} /\ slThinks = {} /\ slSaved = {}
    /\ slDoing = [c \in SlClients |-> "idle"]
    /\ slAsks = {}
    /\ slPhase = [c \in SlClients |-> "idle"]
    /\ slMine = [c \in SlClients |-> {}] /\ slTheirs = [c \in SlClients |-> {}]
    /\ slIncr = [c \in SlClients |-> {}]
    /\ slFrom = [c \in SlClients |-> <<>>] /\ slGot = [c \in SlClients |-> <<>>]
    /\ slSteps = 0

Ready(c) == c \in slUp /\ slDoing[c] = "idle"
SlCounted == slSteps < SlMaxSteps /\ slSteps' = slSteps + 1

(***************************************************************************)
(* Ownership.                                                              *)
(***************************************************************************)

\* The owner as c sees it: its own map first, then the shared one.
GetSelectionOwner(c) == IF c \in slLocal THEN c ELSE slShared

\* SetSelectionOwner, first half: SelectionClear goes to the owner c sees, if
\* it is another client; the cache is superseded.
TakeBegin(c) ==
    /\ Ready(c) /\ SlCounted
    /\ slThinks' = slThinks \ ({GetSelectionOwner(c)} \ {c})
    /\ slSaved' = {}
    /\ slDoing' = [slDoing EXCEPT ![c] = "taking"]
    /\ UNCHANGED <<slUp, slShared, slLocal, slAsks, slPaste>>

\* Second half: both maps name c.
TakeEnd(c) ==
    /\ c \in slUp /\ slDoing[c] = "taking"
    /\ slShared' = c
    /\ slLocal' = slLocal \cup {c}
    /\ slThinks' = slThinks \cup {c}
    /\ slDoing' = [slDoing EXCEPT ![c] = "idle"]
    /\ UNCHANGED <<slUp, slSaved, slAsks, slPaste, slSteps>>

\* SetSelectionOwner(None): both entries go, whoever the shared one names.
Release(c) ==
    /\ Ready(c) /\ SlCounted
    /\ slShared' = "none"
    /\ slLocal' = slLocal \ {c}
    /\ slThinks' = slThinks \ {c, GetSelectionOwner(c)}
    /\ UNCHANGED <<slUp, slSaved, slDoing, slAsks, slPaste>>

\* ConvertSelection to DELETE, and the notification that it is done.
DeleteSelection(c) ==
    /\ Ready(c) /\ SlCounted
    /\ slShared' = "none"
    /\ slLocal' = slLocal \ {c}
    /\ slSaved' = {}
    /\ UNCHANGED <<slUp, slThinks, slDoing, slAsks, slPaste>>

\* A clean end of the connection: is c the owner, and is there a cache?
LeaveBegin(c) ==
    /\ Ready(c)
    /\ slDoing' = [slDoing EXCEPT ![c] =
                       IF slShared = c /\ slSaved # {} THEN "handing over" ELSE "leaving"]
    /\ UNCHANGED <<slUp, slOwners, slAsks, slPaste, slSteps>>

\* Then the shared entry goes to the server, or away.
LeaveEnd(c) ==
    /\ slDoing[c] \in {"leaving", "handing over"}
    /\ slShared' = CASE slDoing[c] = "handing over" -> "server"
                     [] slDoing[c] = "leaving" /\ slShared = c -> "none"
                     [] OTHER -> slShared
    /\ slLocal' = slLocal \ {c}
    /\ slThinks' = slThinks \ {c}
    /\ slUp' = slUp \ {c}
    /\ slDoing' = [slDoing EXCEPT ![c] = "idle"]
    /\ UNCHANGED <<slSaved, slAsks, slPaste, slSteps>>

\* A read or write error ends the task without any of this.
SlBreak(c) ==
    /\ Ready(c)
    /\ slUp' = slUp \ {c}
    /\ slThinks' = slThinks \ {c}
    /\ UNCHANGED <<slShared, slLocal, slSaved, slDoing, slAsks, slPaste, slSteps>>

(***************************************************************************)
(* Conversions.                                                            *)
(***************************************************************************)

\* serve_persistent_clipboard: a small value is written at once, a large one
\* is announced and registered as a transfer.
ServePersistent(c, data) ==
    /\ slMine' = [slMine EXCEPT ![c] = {IF Len(data) > 1 THEN Incr ELSE data}]
    /\ slIncr' = [slIncr EXCEPT ![c] = IF Len(data) > 1 THEN {[data |-> data, off |-> 0]}
                                       ELSE @]
    /\ slPhase' = [slPhase EXCEPT ![c] = "told"]
    /\ slFrom' = [slFrom EXCEPT ![c] = data]
    /\ UNCHANGED slAsks

\* The request goes to the owner c sees, or fails at once.
Forward(c) ==
    LET o == GetSelectionOwner(c) IN
    /\ slAsks' = IF o \in slUp THEN slAsks \cup {<<o, c>>} ELSE slAsks
    /\ slPhase' = [slPhase EXCEPT ![c] = IF o \in SlClients THEN "asked" ELSE "idle"]
    /\ UNCHANGED <<slMine, slIncr, slFrom>>

ConvertSelection(c) ==
    /\ Ready(c) /\ SlCounted
    /\ slPhase[c] \in {"idle", "done"} /\ slMine[c] = {} /\ slTheirs[c] = {}
    /\ slGot' = [slGot EXCEPT ![c] = <<>>]
    /\ IF slShared = "server" /\ slSaved # {}
       THEN \E data \in slSaved : ServePersistent(c, data)
       ELSE Forward(c)
    /\ UNCHANGED <<slUp, slOwners, slDoing, slTheirs>>

\* The owner writes the property of the requestor's window (its own copy of it
\* and the shared one) and sends SelectionNotify, from which the server caches
\* the data.
Answer(o, r) ==
    /\ Ready(o) /\ <<o, r>> \in slAsks
    /\ slAsks' = slAsks \ {<<o, r>>}
    /\ slMine' = IF o = r THEN [slMine EXCEPT ![r] = {Content(o)}] ELSE slMine
    /\ slTheirs' = IF r \in slUp THEN [slTheirs EXCEPT ![r] = {Content(o)}] ELSE slTheirs
    /\ slSaved' = {Content(o)}
    /\ slPhase' = [slPhase EXCEPT ![r] = "told"]
    /\ slFrom' = [slFrom EXCEPT ![r] = Content(o)]
    /\ UNCHANGED <<slUp, slShared, slLocal, slThinks, slDoing, slIncr, slGot, slSteps>>

\* The owner refuses: SelectionNotify with property None.
Refuse(o, r) ==
    /\ Ready(o) /\ <<o, r>> \in slAsks
    /\ slAsks' = slAsks \ {<<o, r>>}
    /\ slPhase' = [slPhase EXCEPT ![r] = "idle"]
    /\ UNCHANGED <<slUp, slOwners, slDoing, slMine, slTheirs, slIncr, slFrom, slGot, slSteps>>

\* Mutant: the transfer ends when the last chunk is due, not after it.
EndsEarly(c, t) ==
    IF t.off + 1 = Len(t.data)
    THEN /\ slMine' = [slMine EXCEPT ![c] = {<<>>}]
         /\ slIncr' = [slIncr EXCEPT ![c] = {}]
    ELSE /\ slMine' = [slMine EXCEPT ![c] = {<<t.data[t.off + 1]>>}]
         /\ slIncr' = [slIncr EXCEPT ![c] = {[t EXCEPT !.off = @ + 1]}]

\* advance_incr_transfer, after the property was deleted: the next chunk, or
\* the empty value that ends the transfer.
AdvanceIncr(c, t) ==
    IF t.off = Len(t.data)
    THEN /\ slMine' = [slMine EXCEPT ![c] = {<<>>}]
         /\ slIncr' = [slIncr EXCEPT ![c] = {}]
    ELSE /\ slMine' = [slMine EXCEPT ![c] = {<<t.data[t.off + 1]>>}]
         /\ slIncr' = [slIncr EXCEPT ![c] = {[t EXCEPT !.off = @ + 1]}]

\* GetProperty with delete: the value of c's own copy, else of the shared one;
\* both copies lose it, and a transfer moves on.
Value(c) == IF slMine[c] # {} THEN slMine[c] ELSE slTheirs[c]

GetProperty(c) ==
    /\ Ready(c) /\ slPhase[c] \in {"told", "incr"}
    /\ \E v \in Value(c) :
         /\ slGot' = [slGot EXCEPT ![c] = IF v = Incr THEN @ ELSE @ \o v]
         /\ slPhase' = [slPhase EXCEPT ![c] = IF v = Incr \/ (@ = "incr" /\ v # <<>>)
                                              THEN "incr" ELSE "done"]
    /\ slTheirs' = [slTheirs EXCEPT ![c] = {}]
    /\ IF slIncr[c] = {}
       THEN slMine' = [slMine EXCEPT ![c] = {}] /\ UNCHANGED slIncr
       ELSE \E t \in slIncr[c] : AdvanceIncr(c, t)
    /\ UNCHANGED <<slUp, slOwners, slDoing, slAsks, slFrom, slSteps>>

\* cleanup_stale_incr_transfers, on a timer: a transfer whose requestor has read
\* nothing for five seconds is dropped, as is one above the limit when it starts.
\* The property keeps what it holds and the requestor is not told.
CleanupStale(c) ==
    /\ c \in slUp /\ slIncr[c] # {}
    /\ slIncr' = [slIncr EXCEPT ![c] = {}]
    /\ UNCHANGED <<slUp, slOwners, slDoing, slAsks, slPhase, slMine, slTheirs, slFrom, slGot, slSteps>>

SlNext ==
    \E c \in SlClients :
        \/ TakeBegin(c) \/ TakeEnd(c) \/ Release(c) \/ DeleteSelection(c)
        \/ LeaveBegin(c) \/ LeaveEnd(c) \/ SlBreak(c)
        \/ ConvertSelection(c) \/ GetProperty(c) \/ CleanupStale(c)
        \/ \E r \in SlClients : Answer(c, r) \/ Refuse(c, r)

SlSpec == SlInit /\ [][SlNext]_slVars

-----------------------------------------------------------------------------
(* What a client reads of an answer (GetProperty, advance_incr_transfer) is *)
(* always a prefix of the data that was answered, and all of it once the   *)
(* empty chunk or the single value was read: no matter who takes, releases *)
(* or deletes the selection meanwhile, or which copy holds the property.   *)
(* A transfer that is dropped for its age stops in the middle: its end is  *)
(* never read, and nothing is taken for the whole.                         *)
PasteDelivers ==
    \A c \in SlClients :
        /\ slPhase[c] \in {"told", "incr"} => IsPrefix(slGot[c], slFrom[c])
        /\ slPhase[c] = "done" => slGot[c] = slFrom[c]

=============================================================================
