------------------------- MODULE MediaChannelProofs -------------------------
(***************************************************************************)
(* The media channel, for any windows, frames, chunk counts and (even)     *)
(* number of message ids: types, what the replay covers, that onChunk only *)
(* surfaces whole frames, and that no window's picture goes back in time.  *)
(***************************************************************************)
EXTENDS MediaChannel, FiniteSetTheorems, TLAPS

Ids == 0..(IdSpace - 1)
Half == IdSpace \div 2

(* How many messages ago the id i was given out when n is the next one.     *)
Age(n, i) == (n - i) % IdSpace

(* Serial numbers compare: i is one of the last Half ids given out. *)
NearBy(n, i) == i \in Ids /\ Age(n, i) >= 1 /\ Age(n, i) <= Half

(* What was received of the message made of f: the chunks with indices K.   *)
Message(f, K) == [total |-> f.parts, got |-> [k \in K |-> f]]

(* The chunks C written or still to be written, the next id nx, and the     *)
(* receiver's latestSeen la and partials ps: chunks with one id are of one  *)
(* frame, and so are the chunks received of the only message in progress.   *)
Wire(C, nx, la, ps) ==
  /\ \A c \in C : /\ NearBy(nx, c.id)
                  /\ c.total = c.body.parts /\ c.idx < c.body.parts
  /\ \A c, e \in C : c.id = e.id => c.body = e.body
  /\ la # None => NearBy(nx, la)
  /\ la = None => DOMAIN ps = {}
  /\ DOMAIN ps \subseteq {la}
  /\ \A i \in DOMAIN ps :
       \E f \in Frame : \E K \in SUBSET (0..(f.parts - 1)) :
         /\ ps[i] = Message(f, K)
         /\ \A c \in C : c.id = i => c.body = f

Sent == net \cup Range(pending)

WireInv == Wire(Sent, nextId, latestSeen, partials)

(* The hub: what is to be queued is in the cache. *)
HubTyped ==
  /\ \A w \in Windows : cache[w] # None => cache[w].win = w
  /\ \A w \in unsent : cache[w] # None
  /\ \A w \in toReplay : cache[w] # None
  /\ toReplay # {} => replay = "running"
  /\ channel = "new" => replay = "waiting"

Typed == TypeOK /\ HubTyped /\ WireInv

(* Once the replay began, the newest frame of a window it has not still to  *)
(* queue has been queued or is about to be.                                 *)
Covered ==
  replay \in {"running", "done"} /\ channel = "open" =>
    \A w \in Windows \ toReplay :
      cache[w] = None \/ w \in unsent \/ handed[w] = cache[w].n

(* The frames of each window keep their order from the cache ca through the *)
(* queue Q and the chunks C to the picture sh; pa frames were painted.      *)
Ordered(C, Q, ca, sh, la, nx, pa) ==
  /\ \A c, e \in C :
       c.body.win = e.body.win /\ Age(nx, c.id) > Age(nx, e.id) => c.body.n <= e.body.n
  /\ \A c \in C : c.body.n <= pa
  /\ \A g \in Q : g.n <= pa /\ sh[g.win] <= g.n
  /\ \A c \in C, g \in Q : c.body.win = g.win => c.body.n <= g.n
  /\ \A w \in Windows : ca[w] # None =>
       /\ sh[w] <= ca[w].n /\ ca[w].n <= pa
       /\ \A c \in C : c.body.win = w => c.body.n <= ca[w].n
       /\ \A g \in Q : g.win = w => g.n <= ca[w].n
  /\ \A w \in Windows : sh[w] <= pa
  /\ \A c \in C : la = None \/ Age(nx, c.id) <= Age(nx, la) =>
       sh[c.body.win] <= c.body.n

OrderInv ==
  Ordered(Sent, Range(queue), cache, shown, latestSeen, nextId, painted)

-----------------------------------------------------------------------------
(* Serial numbers. *)

(* % IdSpace on the differences of two ids and on the next id. *)
LEMMA ModIds ==
  ASSUME NEW x \in Int, -IdSpace <= x, x <= IdSpace
  PROVE  /\ x >= 0 /\ x < IdSpace => x % IdSpace = x
         /\ x < 0 => x % IdSpace = x + IdSpace
         /\ x = IdSpace => x % IdSpace = 0
  BY IdSpaceAssumption

LEMMA HalfIds == Half \in Nat /\ 2 * Half = IdSpace /\ Half >= 2
  BY IdSpaceAssumption DEF Half

(* The age of an id, without the remainder. *)
LEMMA AgeIs ==
  ASSUME NEW n \in Ids, NEW i \in Ids
  PROVE  /\ Age(n, i) \in Ids
         /\ n >= i => Age(n, i) = n - i
         /\ n < i => Age(n, i) = n - i + IdSpace
<1>1. n - i \in Int /\ -IdSpace <= n - i /\ n - i < IdSpace
  BY IdSpaceAssumption DEF Ids
<1> QED  BY <1>1, ModIds, IdSpaceAssumption DEF Age, Ids

(* Giving out an id makes the earlier ones older by one, and the new one is *)
(* the youngest.                                                            *)
LEMMA AgeStep ==
  ASSUME NEW n \in Ids
  PROVE  /\ (n + 1) % IdSpace \in Ids
         /\ Age((n + 1) % IdSpace, n) = 1
         /\ \A i \in Ids : Age(n, i) < Half =>
              Age((n + 1) % IdSpace, i) = Age(n, i) + 1
<1> DEFINE m == (n + 1) % IdSpace
<1>1. /\ n + 1 < IdSpace => m = n + 1
      /\ n + 1 = IdSpace => m = 0
  BY ModIds, IdSpaceAssumption DEF Ids
<1>2. n + 1 < IdSpace \/ n + 1 = IdSpace
  BY IdSpaceAssumption DEF Ids
<1>3. m \in Ids
  BY <1>1, <1>2, IdSpaceAssumption DEF Ids
<1> HIDE DEF m
<1>a. ASSUME NEW j \in Ids
      PROVE  /\ Age(m, j) \in Int
             /\ m >= j => Age(m, j) = m - j
             /\ m < j => Age(m, j) = m - j + IdSpace
             /\ Age(n, j) \in Int
             /\ n >= j => Age(n, j) = n - j
             /\ n < j => Age(n, j) = n - j + IdSpace
  <2>1. Age(m, j) \in Ids /\ Age(n, j) \in Ids
    BY <1>3, <1>a, AgeIs
  <2>2. Age(m, j) \in Int /\ Age(n, j) \in Int
    BY <2>1, IdSpaceAssumption DEF Ids
  <2> QED  BY <1>3, <1>a, <2>2, AgeIs
<1>b. n \in Int /\ m \in Int /\ 0 <= n /\ IdSpace \in Int
  BY <1>3, IdSpaceAssumption DEF Ids
<1>4. Age(m, n) = 1
  <2>1. n \in Ids
    OBVIOUS
  <2>2. m >= n => Age(m, n) = m - n
    BY <2>1, <1>a
  <2>3. m < n => Age(m, n) = m - n + IdSpace
    BY <2>1, <1>a
  <2> QED  BY <1>1, <1>2, <1>b, <2>2, <2>3, IdSpaceAssumption
<1>5. ASSUME NEW i \in Ids, Age(n, i) < Half
      PROVE  Age(m, i) = Age(n, i) + 1
  <2>1. i \in Int /\ 0 <= i /\ i < IdSpace
    BY IdSpaceAssumption DEF Ids
  <2>2. Half \in Int /\ 2 * Half = IdSpace
    BY HalfIds
  <2> QED  BY <1>1, <1>2, <1>a, <1>b, <1>5, <2>1, <2>2
<1> QED  BY <1>3, <1>4, <1>5 DEF m

(* isOlder of rtcReassembler.ts is right for ids that are near by: it holds *)
(* exactly when the first was given out earlier, wrap-around or not.        *)
LEMMA OlderAge ==
  ASSUME NEW n \in Ids, NEW a, NEW b, NearBy(n, a), NearBy(n, b)
  PROVE  /\ Older(a, b) <=> Age(n, a) > Age(n, b)
         /\ Age(n, a) = Age(n, b) => a = b
<1>1. /\ a \in Ids /\ b \in Ids /\ Age(n, a) >= 1 /\ Age(n, b) >= 1
      /\ Age(n, a) <= Half /\ Age(n, b) <= Half
  BY DEF NearBy
<1>2. /\ n \in Int /\ a \in Int /\ b \in Int /\ IdSpace \in Int
      /\ 0 <= a /\ a < IdSpace /\ 0 <= b /\ b < IdSpace
  BY <1>1, IdSpaceAssumption DEF Ids
<1>3. /\ Age(n, a) \in Int /\ (n >= a => Age(n, a) = n - a)
      /\ n < a => Age(n, a) = n - a + IdSpace
  BY <1>1, AgeIs, IdSpaceAssumption DEF Ids
<1>4. /\ Age(n, b) \in Int /\ (n >= b => Age(n, b) = n - b)
      /\ n < b => Age(n, b) = n - b + IdSpace
  BY <1>1, AgeIs, IdSpaceAssumption DEF Ids
<1>5. Age(n, a) = Age(n, b) => a = b
  BY <1>2, <1>3, <1>4
<1> DEFINE d == (b - a) % IdSpace
<1>6. d \in Int /\ (b >= a => d = b - a) /\ (b < a => d = b - a + IdSpace)
  BY <1>2, ModIds, IdSpaceAssumption
<1>7. /\ Age(n, a) > Age(n, b) => d < Half
      /\ Age(n, a) < Age(n, b) => ~(d < Half)
  <2> HIDE DEF d
  <2>1. Half \in Int /\ 2 * Half = IdSpace
    BY HalfIds
  <2> QED  BY <1>1, <1>2, <1>3, <1>4, <1>6, <2>1
<1>8. Older(a, b) <=> (a # b /\ d < Half)
  BY DEF Older, Half
<1> QED  BY <1>3, <1>4, <1>5, <1>7, <1>8

-----------------------------------------------------------------------------
(* Reassembler.onChunk. *)

(* What onChunk does with a chunk of the wire: nothing when it is stale;    *)
(* else it becomes the newest seen and completes its message, which is the  *)
(* frame, or joins the chunks of its own frame received before.             *)
LEMMA Received ==
  ASSUME nextId \in Ids, latestSeen \in Ids \cup {None},
         NEW C, C \subseteq Chunk, NEW c \in C, OnChunk(c),
         Wire(C, nextId, latestSeen, partials)
  PROVE  \/ UNCHANGED recvVars
         \/ /\ latestSeen' = c.id
            /\ latestSeen # None =>
                 Age(nextId, c.id) <= Age(nextId, latestSeen)
            /\ \/ /\ DOMAIN partials' = {}
                  /\ surfaced' = [k \in 0..(c.body.parts - 1) |-> c.body]
                  /\ shown' = [shown EXCEPT ![c.body.win] = c.body.n]
               \/ /\ \E K \in SUBSET (0..(c.body.parts - 1)) :
                       /\ DOMAIN partials' = {c.id}
                       /\ partials'[c.id] = Message(c.body, K)
                  /\ UNCHANGED <<surfaced, shown>>
<1> SUFFICES ASSUME ~Stale(c)
             PROVE  /\ latestSeen' = c.id
                    /\ latestSeen # None =>
                         Age(nextId, c.id) <= Age(nextId, latestSeen)
                    /\ \/ /\ DOMAIN partials' = {}
                          /\ surfaced' = [k \in 0..(c.body.parts - 1) |-> c.body]
                          /\ shown' = [shown EXCEPT ![c.body.win] = c.body.n]
                       \/ /\ \E K \in SUBSET (0..(c.body.parts - 1)) :
                               /\ DOMAIN partials' = {c.id}
                               /\ partials'[c.id] = Message(c.body, K)
                          /\ UNCHANGED <<surfaced, shown>>
  BY DEF OnChunk
<1> DEFINE kept == Restrict(partials, DOMAIN partials \ Evicted(c))
           p == IF c.id \in DOMAIN kept THEN kept[c.id] ELSE Fresh(c.total)
           got == [i \in DOMAIN p.got \cup {c.idx} |->
                     IF i \in DOMAIN p.got THEN p.got[i] ELSE c.body]
           without == Restrict(kept, DOMAIN kept \ {c.id})
           with(q) == [i \in DOMAIN kept \cup {c.id} |->
                         IF i = c.id THEN q ELSE kept[i]]
<1>1. /\ latestSeen' = IF latestSeen = None \/ Older(latestSeen, c.id)
                         THEN c.id ELSE latestSeen
      /\ IF p.total = c.total /\ Cardinality(DOMAIN got) = p.total
           THEN /\ partials' = without
                /\ surfaced' = got
                /\ shown' = [shown EXCEPT ![got[0].win] = got[0].n]
           ELSE /\ partials' = IF p.total = c.total
                                 THEN with([p EXCEPT !.got = got])
                                 ELSE without
                /\ UNCHANGED <<surfaced, shown>>
  BY DEF OnChunk
<1>2. /\ c.body \in Frame /\ c.body.parts \in Nat /\ c.body.parts >= 1
      /\ c.idx \in 0..(c.body.parts - 1) /\ c.total = c.body.parts
      /\ NearBy(nextId, c.id)
  <2>1. c \in Chunk
    OBVIOUS
  <2>2. c.total = c.body.parts /\ c.idx < c.body.parts /\ NearBy(nextId, c.id)
    BY DEF Wire
  <2>3. c.body \in Frame /\ c.idx \in Nat
    BY <2>1, PartsAssumption DEF Chunk
  <2>4. c.body.parts \in 1..MaxParts
    BY <2>3 DEF Frame
  <2> QED  BY <2>2, <2>3, <2>4, PartsAssumption
<1>3. latestSeen # None =>
        /\ NearBy(nextId, latestSeen)
        /\ Age(nextId, c.id) <= Age(nextId, latestSeen)
        /\ ~Older(latestSeen, c.id) => latestSeen = c.id
        /\ latestSeen # c.id => Older(latestSeen, c.id)
  <2> SUFFICES ASSUME latestSeen # None
               PROVE  /\ NearBy(nextId, latestSeen)
                      /\ Age(nextId, c.id) <= Age(nextId, latestSeen)
                      /\ ~Older(latestSeen, c.id) => latestSeen = c.id
                      /\ latestSeen # c.id => Older(latestSeen, c.id)
    OBVIOUS
  <2>1. NearBy(nextId, latestSeen)
    BY DEF Wire
  <2>2. ~Older(c.id, latestSeen)
    BY DEF Stale
  <2>3. Age(nextId, c.id) \in Int /\ Age(nextId, latestSeen) \in Int
    <3>1. Age(nextId, c.id) \in Ids /\ Age(nextId, latestSeen) \in Ids
      BY <1>2, <2>1, AgeIs DEF NearBy
    <3> QED  BY <3>1, IdSpaceAssumption DEF Ids
  <2>4. Age(nextId, c.id) <= Age(nextId, latestSeen)
    BY <1>2, <2>1, <2>2, <2>3, OlderAge
  <2>5. ~Older(latestSeen, c.id) => latestSeen = c.id
    BY <1>2, <2>1, <2>3, <2>4, OlderAge
  <2> QED  BY <2>1, <2>4, <2>5
<1>4. latestSeen' = c.id
  BY <1>1, <1>3
<1>5. DOMAIN kept \subseteq {c.id} /\ \A i \in DOMAIN kept : kept[i] = partials[i] /\ i \in DOMAIN partials
  <2>1. DOMAIN kept = DOMAIN partials \ Evicted(c)
    BY DEF Restrict
  <2>2. \A i \in DOMAIN kept : kept[i] = partials[i] /\ i \in DOMAIN partials
    BY <2>1 DEF Restrict
  <2>3. DOMAIN partials \subseteq {latestSeen} /\ (latestSeen = None => DOMAIN partials = {})
    BY DEF Wire
  <2>4. DOMAIN partials \ Evicted(c) \subseteq {c.id}
    BY <1>3, <2>3 DEF Evicted
  <2> QED  BY <2>1, <2>2, <2>4
<1>6. PICK K \in SUBSET (0..(c.body.parts - 1)) : p = Message(c.body, K)
  <2>1. CASE c.id \in DOMAIN kept
    <3>1. p = partials[c.id] /\ c.id \in DOMAIN partials
      BY <2>1, <1>5
    <3>2. PICK f \in Frame : \E J \in SUBSET (0..(f.parts - 1)) :
            /\ partials[c.id] = Message(f, J)
            /\ \A e \in C : e.id = c.id => e.body = f
      BY <3>1 DEF Wire
    <3> QED  BY <3>1, <3>2
  <2>2. CASE c.id \notin DOMAIN kept
    <3>1. p = Fresh(c.total)
      BY <2>2
    <3>2. [k \in {} |-> c.body] = <<>>
      OBVIOUS
    <3>3. p = Message(c.body, {})
      BY <1>2, <3>1, <3>2 DEF Fresh, Message
    <3> QED  BY <3>3
  <2> QED  BY <2>1, <2>2
<1> DEFINE J == K \cup {c.idx}
<1>7. J \in SUBSET (0..(c.body.parts - 1)) /\ 0..(c.body.parts - 1) # {}
  BY <1>2
<1> HIDE DEF kept, p
<1>8. /\ p.total = c.total /\ p.total = c.body.parts /\ p.got = [k \in K |-> c.body]
      /\ DOMAIN p.got = K
  BY <1>2, <1>6 DEF Message
<1>9. got = [k \in J |-> c.body]
  BY <1>8
<1> HIDE DEF J
<1>10. DOMAIN without = {}
  BY <1>5 DEF Restrict
<1>11. CASE Cardinality(DOMAIN got) = p.total
  <2>1. Cardinality(J) = c.body.parts
    BY <1>8, <1>9, <1>11
  <2>2. J = 0..(c.body.parts - 1)
    <3>1. /\ IsFiniteSet(0..(c.body.parts - 1))
          /\ Cardinality(0..(c.body.parts - 1)) = c.body.parts
      BY <1>2, FS_Interval
    <3> QED  BY <1>7, <2>1, <3>1, FS_Subset
  <2>3. got = [k \in 0..(c.body.parts - 1) |-> c.body]
    BY <1>9, <2>2
  <2>4. got[0] = c.body
    BY <1>2, <2>3
  <2>5. /\ partials' = without /\ surfaced' = got
        /\ shown' = [shown EXCEPT ![got[0].win] = got[0].n]
    BY <1>1, <1>8, <1>11
  <2> QED  BY <1>3, <1>4, <1>10, <2>3, <2>4, <2>5
<1>12. CASE Cardinality(DOMAIN got) # p.total
  <2>1. partials' = with([p EXCEPT !.got = got]) /\ UNCHANGED <<surfaced, shown>>
    BY <1>1, <1>8, <1>12
  <2>2. [p EXCEPT !.got = got] = Message(c.body, J)
    BY <1>6, <1>9 DEF Message
  <2>3. DOMAIN partials' = {c.id} /\ partials'[c.id] = Message(c.body, J)
    BY <1>5, <2>1, <2>2
  <2> QED  BY <1>3, <1>4, <1>7, <2>1, <2>3
<1> QED  BY <1>11, <1>12

-----------------------------------------------------------------------------
(* How the chunks on the wire change. *)

(* Chunks may go: delivered, lost, dropped. *)
LEMMA WireShrink ==
  ASSUME NEW C, NEW D \in SUBSET C, NEW nx, NEW la, NEW ps, Wire(C, nx, la, ps)
  PROVE  Wire(D, nx, la, ps)
<1>1. \A i \in DOMAIN ps :
        \E f \in Frame : \E K \in SUBSET (0..(f.parts - 1)) :
          /\ ps[i] = Message(f, K)
          /\ \A c \in D : c.id = i => c.body = f
  <2> SUFFICES ASSUME NEW i \in DOMAIN ps
               PROVE  \E f \in Frame : \E K \in SUBSET (0..(f.parts - 1)) :
                        /\ ps[i] = Message(f, K)
                        /\ \A c \in D : c.id = i => c.body = f
    OBVIOUS
  <2>1. PICK f \in Frame : \E K \in SUBSET (0..(f.parts - 1)) :
          /\ ps[i] = Message(f, K)
          /\ \A c \in C : c.id = i => c.body = f
    BY DEF Wire
  <2> QED  BY <2>1
<1> QED  BY <1>1 DEF Wire

(* onChunk, with the chunk still on the wire (a duplicate may follow). *)
LEMMA WireReceive ==
  ASSUME nextId \in Ids, latestSeen \in Ids \cup {None},
         NEW C, C \subseteq Chunk, NEW c \in C, OnChunk(c),
         Wire(C, nextId, latestSeen, partials)
  PROVE  Wire(C, nextId, latestSeen', partials')
<1>1. CASE UNCHANGED recvVars
  BY <1>1 DEF recvVars
<1>2. CASE /\ latestSeen' = c.id
           /\ \/ DOMAIN partials' = {}
              \/ \E K \in SUBSET (0..(c.body.parts - 1)) :
                   /\ DOMAIN partials' = {c.id}
                   /\ partials'[c.id] = Message(c.body, K)
  <2>1. c.body \in Frame /\ c.id \in Ids /\ NearBy(nextId, c.id)
    BY DEF Wire, NearBy, Chunk
  <2>2. /\ \A e \in C : /\ NearBy(nextId, e.id)
                        /\ e.total = e.body.parts /\ e.idx < e.body.parts
        /\ \A d, e \in C : d.id = e.id => d.body = e.body
    BY DEF Wire
  <2>3. c.id # None
    BY <2>1, NoneAssumption DEF Ids
  <2>4. DOMAIN partials' \subseteq {c.id}
    BY <1>2
  <2>5. ASSUME NEW i \in DOMAIN partials'
        PROVE  \E f \in Frame : \E K \in SUBSET (0..(f.parts - 1)) :
                 /\ partials'[i] = Message(f, K)
                 /\ \A e \in C : e.id = i => e.body = f
    BY <1>2, <2>1, <2>2, <2>5
  <2> QED  BY <1>2, <2>1, <2>2, <2>3, <2>4, <2>5 DEF Wire
<1> QED
  <2>1. UNCHANGED recvVars \/
        /\ latestSeen' = c.id
        /\ \/ DOMAIN partials' = {}
           \/ \E K \in SUBSET (0..(c.body.parts - 1)) :
                /\ DOMAIN partials' = {c.id}
                /\ partials'[c.id] = Message(c.body, K)
    BY Received
  <2> QED  BY <1>1, <1>2, <2>1

(* The chunks D of the next message join the ones written, C; the ids must  *)
(* not be half the id space old (Recent).                                   *)
LEMMA WireNext ==
  ASSUME NEW nx \in Ids, NEW C, NEW D, NEW la, NEW ps, NEW f \in Frame,
         Wire(C, nx, la, ps),
         \A c \in C : Age(nx, c.id) < Half,
         la # None => Age(nx, la) < Half,
         \A c \in D : /\ c.id = nx /\ c.body = f
                      /\ c.total = f.parts /\ c.idx < f.parts
  PROVE  Wire(C \cup D, (nx + 1) % IdSpace, la, ps)
<1> DEFINE m == (nx + 1) % IdSpace
<1>1. ASSUME NEW i \in Ids, NearBy(nx, i), Age(nx, i) < Half
      PROVE  NearBy(m, i) /\ i # nx
  <2>1. Age(m, i) = Age(nx, i) + 1
    BY <1>1, AgeStep
  <2>2. Age(nx, i) \in Int /\ Age(nx, i) >= 1
    <3>1. Age(nx, i) \in Ids
      BY AgeIs
    <3> QED  BY <1>1, <3>1, IdSpaceAssumption DEF Ids, NearBy
  <2>3. Age(nx, nx) = 0
    <3>1. nx \in Int
      BY IdSpaceAssumption DEF Ids
    <3> QED  BY <3>1, AgeIs
  <2>4. i # nx
    BY <2>2, <2>3
  <2>5. Age(m, i) >= 1 /\ Age(m, i) <= Half
    BY <1>1, <2>1, <2>2, HalfIds
  <2> QED  BY <2>4, <2>5 DEF NearBy
<1>2. NearBy(m, nx)
  BY AgeStep, HalfIds DEF NearBy
<1> HIDE DEF m
<1>3. \A c \in C : NearBy(m, c.id) /\ c.id # nx
  BY <1>1 DEF Wire, NearBy
<1>4. \A c \in C \cup D : /\ NearBy(m, c.id)
                          /\ c.total = c.body.parts /\ c.idx < c.body.parts
  BY <1>2, <1>3 DEF Wire
<1>5. \A c, e \in C \cup D : c.id = e.id => c.body = e.body
  BY <1>3 DEF Wire
<1>6. la # None => NearBy(m, la) /\ la # nx
  BY <1>1 DEF Wire, NearBy
<1>7. DOMAIN ps \subseteq {la} /\ (la = None => DOMAIN ps = {})
  BY DEF Wire
<1>8. ASSUME NEW i \in DOMAIN ps
      PROVE  \E g \in Frame : \E K \in SUBSET (0..(g.parts - 1)) :
               /\ ps[i] = Message(g, K)
               /\ \A c \in C \cup D : c.id = i => c.body = g
  <2>1. i # nx
    BY <1>6, <1>7, <1>8
  <2>2. PICK g \in Frame : \E K \in SUBSET (0..(g.parts - 1)) :
          /\ ps[i] = Message(g, K)
          /\ \A c \in C : c.id = i => c.body = g
    BY <1>8 DEF Wire
  <2> QED  BY <2>1, <2>2
<1>9. Wire(C \cup D, m, la, ps)
  BY <1>4, <1>5, <1>6, <1>7, <1>8 DEF Wire
<1> QED  BY <1>9 DEF m

-----------------------------------------------------------------------------
(* Queues. *)

LEMMA RangeAppend ==
  ASSUME NEW S, NEW s \in Seq(S), NEW x \in S
  PROVE  Append(s, x) \in Seq(S) /\ Range(Append(s, x)) = Range(s) \cup {x}
<1>1. Append(s, x) \in Seq(S)
  OBVIOUS
<1>2. Range(Append(s, x)) \subseteq Range(s) \cup {x}
  BY DEF Range
<1>3. x \in Range(Append(s, x))
  <2>1. Len(s) + 1 \in DOMAIN Append(s, x) /\ Append(s, x)[Len(s) + 1] = x
    OBVIOUS
  <2> QED  BY <2>1 DEF Range
<1>4. Range(s) \subseteq Range(Append(s, x))
  <2> SUFFICES ASSUME NEW i \in DOMAIN s
               PROVE  s[i] \in Range(Append(s, x))
    BY DEF Range
  <2>1. i \in DOMAIN Append(s, x) /\ Append(s, x)[i] = s[i]
    OBVIOUS
  <2> QED  BY <2>1 DEF Range
<1> QED  BY <1>1, <1>2, <1>3, <1>4

LEMMA RangeTail ==
  ASSUME NEW S, NEW s \in Seq(S), s # <<>>
  PROVE  /\ Head(s) \in S /\ Tail(s) \in Seq(S)
         /\ Head(s) \in Range(s) /\ Range(Tail(s)) \subseteq Range(s)
<1>1. Head(s) \in S /\ Tail(s) \in Seq(S)
  OBVIOUS
<1>2. Head(s) \in Range(s)
  <2>1. 1 \in DOMAIN s /\ Head(s) = s[1]
    OBVIOUS
  <2> QED  BY <2>1 DEF Range
<1>3. ASSUME NEW i \in DOMAIN Tail(s)
      PROVE  Tail(s)[i] \in Range(s)
  <2>1. i + 1 \in DOMAIN s /\ Tail(s)[i] = s[i + 1]
    BY <1>3
  <2> QED  BY <2>1 DEF Range
<1> QED  BY <1>1, <1>2, <1>3 DEF Range

LEMMA RangeLast ==
  ASSUME NEW S, NEW s \in Seq(S), s # <<>>
  PROVE  Last(s) \in Range(s) /\ Last(s) \in S
<1>1. Len(s) \in DOMAIN s
  OBVIOUS
<1> QED  BY <1>1 DEF Range, Last

LEMMA RangeOf ==
  ASSUME NEW S, NEW s \in Seq(S)
  PROVE  Range(s) \subseteq S
  BY DEF Range

LEMMA RangeEmpty == Range(<<>>) = {}
  BY DEF Range

(* Chunker: the chunks of a frame, all with the next id. *)
LEMMA ChunksOf ==
  ASSUME nextId \in Ids, NEW f \in Frame
  PROVE  /\ Chunks(f) \in Seq(Chunk)
         /\ \A c \in Range(Chunks(f)) : /\ c.id = nextId /\ c.body = f
                                        /\ c.total = f.parts /\ c.idx < f.parts
<1>1. f.parts \in 1..MaxParts
  BY DEF Frame
<1>2. f.parts \in Nat
  BY <1>1, PartsAssumption
<1>3. ASSUME NEW i \in 1..f.parts
      PROVE  /\ [id |-> nextId, idx |-> i - 1, total |-> f.parts, body |-> f] \in Chunk
             /\ i - 1 < f.parts
  <2>1. i - 1 \in 0..(MaxParts - 1) /\ i - 1 < f.parts
    BY <1>1, <1>2, PartsAssumption
  <2> QED  BY <1>1, <2>1 DEF Chunk, Ids
<1>4. Chunks(f) \in [1..f.parts -> Chunk]
  BY <1>3 DEF Chunks
<1>5. Chunks(f) \in Seq(Chunk)
  BY <1>2, <1>4
<1>6. ASSUME NEW c \in Range(Chunks(f))
      PROVE  /\ c.id = nextId /\ c.body = f
             /\ c.total = f.parts /\ c.idx < f.parts
  <2>1. PICK i \in 1..f.parts : c = Chunks(f)[i]
    BY <1>4, <1>6 DEF Range
  <2>2. c = [id |-> nextId, idx |-> i - 1, total |-> f.parts, body |-> f]
    BY <2>1 DEF Chunks
  <2> QED  BY <1>3, <2>2
<1> QED  BY <1>5, <1>6

-----------------------------------------------------------------------------
(* Types. *)

LEMMA TypedInit == Init => Typed
<1> SUFFICES ASSUME Init PROVE Typed
  OBVIOUS
<1> USE DEF Init
<1>1. TypeOK
  BY IdSpaceAssumption, BoundsAssumption DEF TypeOK
<1>2. HubTyped
  BY DEF HubTyped
<1>3. Sent = {}
  BY RangeEmpty DEF Sent
<1>4. WireInv
  BY <1>3 DEF WireInv, Wire
<1> QED  BY <1>1, <1>2, <1>4 DEF Typed

(* The wire does not change with the hub. *)
LEMMA WireSame ==
  ASSUME WireInv, UNCHANGED <<net, pending, nextId, latestSeen, partials>>
  PROVE  WireInv'
  BY DEF WireInv, Sent

LEMMA TypedPaint ==
  ASSUME Typed, NEW w \in Windows, NEW A \in SUBSET Tiles, NEW k \in 1..MaxParts,
         Paint(w, A, k)
  PROVE  Typed'
<1> DEFINE f == [n |-> painted + 1, win |-> w, area |-> A, parts |-> k]
<1>1. TypeOK /\ HubTyped /\ WireInv
  BY DEF Typed
<1>2. painted + 1 \in 1..MaxFrames /\ painted + 1 \in 0..MaxFrames
  BY <1>1, BoundsAssumption DEF TypeOK, Paint
<1>3. f \in Frame /\ f.win = w
  BY <1>2 DEF Frame
<1>4. cache' = [cache EXCEPT ![w] = f]
  BY DEF Paint
<1> HIDE DEF f
<1>5. f # None
  BY <1>3, NoneAssumption
<1>6. cache' \in [Windows -> Frame \cup {None}]
  BY <1>1, <1>3, <1>4 DEF TypeOK
<1>7. TypeOK'
  BY <1>1, <1>2, <1>6 DEF TypeOK, Paint, sendVars, recvVars
<1>8. HubTyped'
  BY <1>1, <1>3, <1>4, <1>5 DEF TypeOK, HubTyped, Paint
<1>9. WireInv'
  BY <1>1, WireSame DEF Paint, sendVars, recvVars
<1> QED  BY <1>7, <1>8, <1>9 DEF Typed

(* A frame of the cache is queued. *)
LEMMA EnqueueTyped ==
  ASSUME Typed, NEW w \in Windows, cache[w] # None, Enqueue(cache[w])
  PROVE  /\ cache[w] \in Frame /\ cache[w].win = w
         /\ queue' \in Seq(Frame) /\ Range(queue') = Range(queue) \cup {cache[w]}
         /\ handed' = [handed EXCEPT ![w] = cache[w].n]
         /\ handed' \in [Windows -> 0..MaxFrames]
<1>1. TypeOK /\ HubTyped
  BY DEF Typed
<1>2. cache[w] \in Frame /\ cache[w].win = w
  BY <1>1 DEF TypeOK, HubTyped
<1>3. cache[w].n \in 0..MaxFrames
  BY <1>2, BoundsAssumption DEF Frame
<1>4. queue \in Seq(Frame) /\ queue' = Append(queue, cache[w])
  BY <1>1 DEF TypeOK, Enqueue
<1>5. queue' \in Seq(Frame) /\ Range(queue') = Range(queue) \cup {cache[w]}
  BY <1>2, <1>4, RangeAppend
<1>6. handed' = [handed EXCEPT ![w] = cache[w].n]
  BY <1>2 DEF Enqueue
<1> QED  BY <1>1, <1>2, <1>3, <1>5, <1>6 DEF TypeOK

LEMMA TypedFanOut ==
  ASSUME Typed, NEW w \in Windows, FanOut(w)
  PROVE  Typed'
<1>1. TypeOK /\ HubTyped /\ WireInv
  BY DEF Typed
<1>2. cache[w] # None
  BY <1>1 DEF HubTyped, FanOut
<1>3. queue' \in Seq(Frame) /\ handed' \in [Windows -> 0..MaxFrames]
  <2>1. CASE channel = "open"
    BY <1>2, <2>1, EnqueueTyped DEF FanOut
  <2>2. CASE channel # "open"
    BY <1>1, <2>2 DEF FanOut, TypeOK
  <2> QED  BY <2>1, <2>2
<1>4. TypeOK'
  BY <1>1, <1>3 DEF TypeOK, FanOut, sendVars, recvVars
<1>5. HubTyped'
  BY <1>1 DEF HubTyped, FanOut
<1>6. WireInv'
  BY <1>1, WireSame DEF FanOut, sendVars, recvVars
<1> QED  BY <1>4, <1>5, <1>6 DEF Typed

LEMMA TypedReplayOne ==
  ASSUME Typed, NEW w \in Windows, ReplayOne(w)
  PROVE  Typed'
<1>1. TypeOK /\ HubTyped /\ WireInv
  BY DEF Typed
<1>2. cache[w] # None
  BY <1>1 DEF HubTyped, ReplayOne
<1>3. queue' \in Seq(Frame) /\ handed' \in [Windows -> 0..MaxFrames]
  BY <1>2, EnqueueTyped DEF ReplayOne
<1>4. TypeOK'
  BY <1>1, <1>3 DEF TypeOK, ReplayOne, sendVars, recvVars
<1>5. HubTyped'
  BY <1>1 DEF HubTyped, ReplayOne
<1>6. WireInv'
  BY <1>1, WireSame DEF ReplayOne, sendVars, recvVars
<1> QED  BY <1>4, <1>5, <1>6 DEF Typed

LEMMA TypedHub ==
  ASSUME Typed,
         \/ \E w \in Windows : SidecarGone(w)
         \/ ChannelOpen \/ ReplayBegin
  PROVE  Typed'
<1>1. TypeOK /\ HubTyped /\ WireInv
  BY DEF Typed
<1>2. WireInv'
  BY <1>1, WireSame DEF SidecarGone, ChannelOpen, ReplayBegin, sendVars, recvVars
<1>3. ASSUME NEW w \in Windows, SidecarGone(w)
      PROVE  TypeOK' /\ HubTyped'
  <2>1. TypeOK'
    BY <1>1, <1>3 DEF TypeOK, SidecarGone, sendVars, recvVars
  <2>2. toReplay = {}
    BY <1>1, <1>3 DEF HubTyped, SidecarGone
  <2>3. HubTyped'
    BY <1>1, <1>3, <2>2 DEF TypeOK, HubTyped, SidecarGone
  <2> QED  BY <2>1, <2>3
<1>4. CASE ChannelOpen
  <2>1. TypeOK'
    BY <1>1, <1>4 DEF TypeOK, ChannelOpen, sendVars, recvVars
  <2> QED  BY <1>1, <1>4, <2>1, <1>2 DEF HubTyped, ChannelOpen, Typed
<1>5. CASE ReplayBegin
  <2>1. TypeOK'
    BY <1>1, <1>5 DEF TypeOK, ReplayBegin, Replayable, sendVars, recvVars
  <2>2. HubTyped'
    BY <1>1, <1>5 DEF HubTyped, ReplayBegin, Replayable
  <2> QED  BY <2>1, <2>2, <1>2 DEF Typed
<1> QED  BY <1>2, <1>3, <1>4, <1>5 DEF Typed

LEMMA TypedDrain ==
  ASSUME Typed, Drain
  PROVE  Typed'
<1>1. TypeOK /\ HubTyped /\ WireInv
  BY DEF Typed
<1>2. HubTyped'
  BY <1>1 DEF HubTyped, Drain, hubVars
<1>3. nextId \in Ids /\ queue \in Seq(Frame) /\ queue # <<>>
  BY <1>1 DEF TypeOK, Ids, Drain
<1>4. Last(queue) \in Frame
  BY <1>3, RangeLast
<1>5. CASE channel # "open"
  <2>1. UNCHANGED <<sendVars, net, recvVars>> /\ queue' = <<>>
    BY <1>5 DEF Drain
  <2>2. WireInv'
    BY <1>1, <2>1, WireSame DEF sendVars, recvVars
  <2>3. TypeOK'
    BY <1>1, <2>1 DEF TypeOK, Drain, hubVars, sendVars, recvVars
  <2> QED  BY <1>2, <2>2, <2>3 DEF Typed
<1>6. CASE channel = "open"
  <2> DEFINE f == Last(queue)
  <2>1. /\ Recent /\ pending' = Chunks(f) /\ cur' = f
        /\ nextId' = (nextId + 1) % IdSpace
        /\ queue' = <<>> /\ UNCHANGED <<hubVars, channel, handed, net, recvVars>>
    BY <1>6 DEF Drain
  <2> HIDE DEF f
  <2>2. f \in Frame
    BY <1>4 DEF f
  <2>3. pending' \in Seq(Chunk)
    BY <1>3, <2>1, <2>2, ChunksOf
  <2>4. nextId' \in 0..(IdSpace - 1)
    BY <1>3, <2>1, AgeStep DEF Ids
  <2>5. TypeOK'
    BY <1>1, <2>1, <2>2, <2>3, <2>4 DEF TypeOK, hubVars, recvVars
  <2>6. Wire(net, nextId, latestSeen, partials)
    <3>1. net \in SUBSET Sent
      BY DEF Sent
    <3> QED  BY <1>1, <3>1, WireShrink DEF WireInv
  <2>7. /\ \A c \in net : Age(nextId, c.id) < Half
        /\ latestSeen # None => Age(nextId, latestSeen) < Half
    BY <2>1 DEF Recent, Age, Half
  <2>8. Wire(net \cup Range(Chunks(f)), nextId', latestSeen, partials)
    BY <1>3, <2>1, <2>2, <2>6, <2>7, ChunksOf, WireNext
  <2>9. WireInv'
    BY <2>1, <2>8 DEF WireInv, Sent, recvVars
  <2> QED  BY <1>2, <2>5, <2>9 DEF Typed
<1> QED  BY <1>5, <1>6

LEMMA TypedWrite ==
  ASSUME Typed, Write \/ ChannelClose
  PROVE  /\ Typed'
         /\ Sent' \subseteq Sent
<1>1. TypeOK /\ HubTyped /\ WireInv
  BY DEF Typed
<1>2. HubTyped'
  BY <1>1 DEF HubTyped, Write, ChannelClose, hubVars
<1>3. net' \subseteq Chunk /\ pending' \in Seq(Chunk) /\ Sent' \subseteq Sent
  <2>1. CASE Write
    <3>1. pending \in Seq(Chunk) /\ pending # <<>>
      BY <1>1, <2>1 DEF TypeOK, Write
    <3>2. /\ Head(pending) \in Chunk /\ Tail(pending) \in Seq(Chunk)
          /\ Head(pending) \in Range(pending) /\ Range(Tail(pending)) \subseteq Range(pending)
      BY <3>1, RangeTail
    <3> QED  BY <1>1, <2>1, <3>2 DEF TypeOK, Write, Sent
  <2>2. CASE ChannelClose
    <3>1. pending' = <<>> /\ net' = net
      BY <2>2 DEF ChannelClose
    <3>2. pending' \in Seq(Chunk)
      BY <3>1
    <3>3. Sent' = net
      BY <3>1, RangeEmpty DEF Sent
    <3> QED  BY <1>1, <3>1, <3>2, <3>3 DEF TypeOK, Sent
  <2> QED  BY <2>1, <2>2
<1>4. TypeOK'
  BY <1>1, <1>3 DEF TypeOK, Write, ChannelClose, hubVars, recvVars
<1>5. UNCHANGED <<nextId, latestSeen, partials>>
  BY DEF Write, ChannelClose, recvVars
<1>6. Wire(Sent', nextId, latestSeen, partials)
  BY <1>1, <1>3, WireShrink DEF WireInv
<1>7. WireInv'
  BY <1>5, <1>6 DEF WireInv
<1> QED  BY <1>2, <1>3, <1>4, <1>7 DEF Typed

LEMMA TypedNet ==
  ASSUME Typed, NEW c \in net, Deliver(c) \/ Duplicate(c) \/ Lose(c)
  PROVE  /\ Typed'
         /\ Sent' \subseteq Sent
<1>1. TypeOK /\ HubTyped /\ WireInv
  BY DEF Typed
<1>2. HubTyped'
  BY <1>1 DEF HubTyped, Deliver, Duplicate, Lose, hubVars
<1>3. net' \subseteq net /\ UNCHANGED <<pending, nextId>>
  BY DEF Deliver, Duplicate, Lose, sendVars
<1>4. Sent' \subseteq Sent /\ Sent \subseteq Chunk /\ c \in Sent
  BY <1>1, <1>3, RangeOf DEF Sent, TypeOK
<1>5. nextId \in Ids /\ latestSeen \in Ids \cup {None}
  BY <1>1 DEF TypeOK, Ids
<1>6. CASE Lose(c)
  <2>1. UNCHANGED recvVars
    BY <1>6 DEF Lose
  <2>2. TypeOK'
    BY <1>1, <1>6 DEF TypeOK, Lose, hubVars, sendVars, recvVars
  <2>3. Wire(Sent', nextId, latestSeen, partials)
    BY <1>1, <1>4, WireShrink DEF WireInv
  <2>4. WireInv'
    BY <1>3, <2>1, <2>3 DEF WireInv, recvVars
  <2> QED  BY <1>2, <1>4, <2>2, <2>4 DEF Typed
<1>7. CASE OnChunk(c) /\ ~Lose(c)
  <2>1. Wire(Sent, nextId, latestSeen', partials')
    BY <1>1, <1>4, <1>5, <1>7, WireReceive DEF WireInv
  <2>2. Wire(Sent', nextId, latestSeen', partials')
    BY <1>4, <2>1, WireShrink
  <2>3. WireInv'
    BY <1>3, <2>2 DEF WireInv
  <2>4. shown' \in [Windows -> 0..MaxFrames]
    <3>1. c.body \in Frame
      BY <1>4 DEF Chunk
    <3>2. c.body.win \in Windows /\ c.body.n \in 0..MaxFrames
      BY <3>1, BoundsAssumption DEF Frame
    <3>3. shown' = shown \/ shown' = [shown EXCEPT ![c.body.win] = c.body.n]
      BY <1>1, <1>4, <1>5, <1>7, Received DEF WireInv, recvVars
    <3> QED  BY <1>1, <3>2, <3>3 DEF TypeOK
  <2>5. latestSeen' \in 0..(IdSpace - 1) \cup {None} /\ DOMAIN partials' \subseteq {latestSeen'}
    BY <2>1 DEF Wire, NearBy, Ids
  <2>6. UNCHANGED <<hubVars, channel, queue, handed, sendVars>>
    BY <1>7 DEF Deliver, Duplicate
  <2>7. TypeOK'
    BY <1>1, <1>3, <2>4, <2>5, <2>6 DEF TypeOK, hubVars, sendVars
  <2> QED  BY <1>2, <1>4, <2>3, <2>7 DEF Typed
<1> QED  BY <1>6, <1>7 DEF Deliver, Duplicate

LEMMA TypedQuiet ==
  ASSUME Typed, UNCHANGED vars
  PROVE  Typed'
<1>1. TypeOK' /\ HubTyped'
  BY DEF Typed, TypeOK, HubTyped, vars, hubVars, sendVars, recvVars
<1>2. WireInv'
  BY WireSame DEF Typed, vars, sendVars, recvVars
<1> QED  BY <1>1, <1>2 DEF Typed

LEMMA TypedStep ==
  ASSUME Typed, [Next]_vars
  PROVE  Typed'
<1>1. ASSUME NEW w \in Windows, NEW A \in SUBSET Tiles \ {{}}, NEW k \in 1..MaxParts,
             Paint(w, A, k)
      PROVE  Typed'
  BY <1>1, TypedPaint
<1>2. ASSUME NEW w \in Windows, FanOut(w) \/ ReplayOne(w) \/ SidecarGone(w)
      PROVE  Typed'
  BY <1>2, TypedFanOut, TypedReplayOne, TypedHub
<1>3. CASE ChannelOpen \/ ReplayBegin
  BY <1>3, TypedHub
<1>4. CASE Drain
  BY <1>4, TypedDrain
<1>5. CASE Write \/ ChannelClose
  BY <1>5, TypedWrite
<1>6. ASSUME NEW c \in net, Deliver(c) \/ Duplicate(c) \/ Lose(c)
      PROVE  Typed'
  BY <1>6, TypedNet
<1>7. CASE UNCHANGED vars
  BY <1>7, TypedQuiet
<1> QED  BY <1>1, <1>2, <1>3, <1>4, <1>5, <1>6, <1>7 DEF Next

(* The media channel keeps its types, what is to be queued is in the cache, *)
(* chunks on the wire with one id are of one frame, their ids are among the *)
(* last half of the id space given out, and the only message in progress at *)
(* the receiver holds chunks of one frame.                                  *)
THEOREM MediaTypedAlways == Spec => []Typed
<1>1. Init => Typed
  BY TypedInit
<1>2. Typed /\ [Next]_vars => Typed'
  BY TypedStep
<1> QED  BY <1>1, <1>2, PTL DEF Spec

(* The media channel is type correct; in particular the receiver has at     *)
(* most one message in progress, the newest it has seen.                    *)
THEOREM MediaTypeCorrect == Spec => []TypeOK
<1>1. Typed => TypeOK
  BY DEF Typed
<1> QED  BY <1>1, MediaTypedAlways, PTL

-----------------------------------------------------------------------------
(* The replay. *)

LEMMA CoveredStep ==
  ASSUME Typed, Covered, [Next]_vars
  PROVE  Covered'
<1>1. TypeOK /\ HubTyped
  BY DEF Typed
<1> SUFFICES ASSUME replay' \in {"running", "done"}, channel' = "open",
                    NEW w \in Windows, w \notin toReplay'
             PROVE  cache'[w] = None \/ w \in unsent' \/ handed'[w] = cache'[w].n
  BY DEF Covered
<1>2. CASE UNCHANGED <<replay, channel, toReplay, cache, unsent, handed>>
  BY <1>2 DEF Covered
<1>3. ASSUME NEW v \in Windows, NEW A \in SUBSET Tiles, NEW k \in 1..MaxParts,
             Paint(v, A, k)
      PROVE  cache'[w] = None \/ w \in unsent' \/ handed'[w] = cache'[w].n
  BY <1>1, <1>3 DEF Covered, Paint, TypeOK
<1>4. ASSUME NEW v \in Windows, FanOut(v)
      PROVE  cache'[w] = None \/ w \in unsent' \/ handed'[w] = cache'[w].n
  <2>1. /\ unsent' = unsent \ {v} /\ v \in unsent
        /\ UNCHANGED <<cache, replay, toReplay, channel>>
        /\ channel = "open" /\ Enqueue(cache[v])
    BY <1>4 DEF FanOut
  <2>2. cache[v] # None
    BY <1>1, <2>1 DEF HubTyped
  <2>3. handed' = [handed EXCEPT ![v] = cache[v].n]
    BY <2>1, <2>2, EnqueueTyped
  <2> QED  BY <1>1, <2>1, <2>3 DEF Covered, TypeOK
<1>5. ASSUME NEW v \in Windows, SidecarGone(v)
      PROVE  cache'[w] = None \/ w \in unsent' \/ handed'[w] = cache'[w].n
  BY <1>1, <1>5 DEF Covered, SidecarGone, TypeOK
<1>6. ASSUME NEW v \in Windows, ReplayOne(v)
      PROVE  cache'[w] = None \/ w \in unsent' \/ handed'[w] = cache'[w].n
  <2>1. /\ toReplay' = toReplay \ {v} /\ v \in toReplay /\ replay = "running"
        /\ UNCHANGED <<cache, unsent, channel>> /\ Enqueue(cache[v])
    BY <1>6 DEF ReplayOne
  <2>2. cache[v] # None
    BY <1>1, <2>1 DEF HubTyped
  <2>3. handed' = [handed EXCEPT ![v] = cache[v].n]
    BY <2>1, <2>2, EnqueueTyped
  <2> QED  BY <1>1, <2>1, <2>3 DEF Covered, TypeOK
<1>7. CASE ChannelOpen
  BY <1>7 DEF ChannelOpen
<1>8. CASE ReplayBegin
  BY <1>8 DEF ReplayBegin, Replayable
<1>9. CASE ChannelClose
  BY <1>9 DEF ChannelClose
<1>10. CASE Drain \/ Write \/ \E c \in net : Deliver(c) \/ Duplicate(c) \/ Lose(c)
  BY <1>2, <1>10 DEF Drain, Write, Deliver, Duplicate, Lose, hubVars
<1>11. CASE UNCHANGED vars
  BY <1>2, <1>11 DEF vars, hubVars
<1> QED
  BY <1>3, <1>4, <1>5, <1>6, <1>7, <1>8, <1>9, <1>10, <1>11 DEF Next

(* Once the replay is over and while the channel is up, the newest frame of *)
(* every window has been queued or is about to be, in whatever order the    *)
(* painting, the fan-out, the channel opening and the replay happened.      *)
THEOREM MediaReplayCovers == Spec => []ReplayCovers
<1>1. Init => Covered
  BY DEF Init, Covered
<1>2. Typed /\ Covered /\ [Next]_vars => Covered'
  BY CoveredStep
<1>3. Typed /\ Covered => ReplayCovers
  BY DEF Typed, HubTyped, Covered, ReplayCovers
<1> QED  BY <1>1, <1>2, <1>3, MediaTypedAlways, PTL DEF Spec

-----------------------------------------------------------------------------
(* Whole frames. *)

(* Whatever is lost, repeated or reordered, and across the wrap-around of   *)
(* msg_id, what onChunk surfaces is exactly the chunks of one frame.        *)
THEOREM MediaWholeFrames == Spec => []WholeFrames
<1> DEFINE Whole == \/ surfaced = <<>>
                    \/ \E f \in Frame : surfaced = [k \in 0..(f.parts - 1) |-> f]
<1>1. Init => Whole
  BY DEF Init
<1>2. ASSUME Typed, Whole, [Next]_vars
      PROVE  Whole'
  <2>1. CASE UNCHANGED surfaced
    BY <1>2, <2>1
  <2>2. ASSUME NEW c \in net, OnChunk(c)
        PROVE  Whole'
    <3>1. TypeOK /\ WireInv
      BY <1>2 DEF Typed
    <3>2. c \in Sent /\ Sent \subseteq Chunk
      BY <3>1, RangeOf DEF Sent, TypeOK
    <3>3. nextId \in Ids /\ latestSeen \in Ids \cup {None}
      BY <3>1 DEF TypeOK, Ids
    <3>4. \/ UNCHANGED surfaced
          \/ surfaced' = [k \in 0..(c.body.parts - 1) |-> c.body]
      BY <2>2, <3>1, <3>2, <3>3, Received DEF WireInv, recvVars
    <3>5. c.body \in Frame
      BY <3>2 DEF Chunk
    <3> QED  BY <2>1, <3>4, <3>5
  <2>3. CASE UNCHANGED vars
    BY <2>1, <2>3 DEF vars, recvVars
  <2> QED
    BY <1>2, <2>1, <2>2, <2>3
    DEF Next, Paint, FanOut, SidecarGone, ChannelOpen, ReplayBegin, ReplayOne,
        Drain, Write, ChannelClose, Deliver, Duplicate, Lose, recvVars
<1>3. Whole => WholeFrames
  <2> SUFFICES ASSUME NEW f \in Frame, surfaced = [k \in 0..(f.parts - 1) |-> f]
               PROVE  WholeFrames
    BY DEF WholeFrames
  <2>1. f.parts \in 1..MaxParts
    BY DEF Frame
  <2>2. surfaced[0] = f
    BY <2>1, PartsAssumption
  <2> QED  BY <2>2 DEF WholeFrames
<1> HIDE DEF Whole
<1>4. Typed /\ Whole /\ [Next]_vars => Whole'
  BY <1>2
<1> QED  BY <1>1, <1>3, <1>4, MediaTypedAlways, PTL DEF Spec

-----------------------------------------------------------------------------
(* Order.  In these lemmas C stands for the chunks on the wire, Q for the   *)
(* frames queued, ca for the cache, sh for the picture shown per window.    *)

LEMMA FrameNumbers ==
  /\ \A f \in Frame : f.n \in Int /\ f.n >= 1 /\ f.win \in Windows
  /\ \A c \in Chunk : c.id \in Ids /\ c.body \in Frame
  BY BoundsAssumption DEF Frame, Chunk, Ids

LEMMA OrderedShrink ==
  ASSUME NEW C, NEW D \in SUBSET C, NEW Q, NEW P \in SUBSET Q, NEW ca, NEW sh,
         NEW la, NEW nx, NEW pa, Ordered(C, Q, ca, sh, la, nx, pa)
  PROVE  Ordered(D, P, ca, sh, la, nx, pa)
  BY DEF Ordered

(* Paint: the new frame of w is newer than all there are. *)
LEMMA OrderedPaint ==
  ASSUME NEW C \in SUBSET Chunk, NEW Q \in SUBSET Frame,
         NEW ca \in [Windows -> Frame \cup {None}], NEW sh \in [Windows -> Int],
         NEW la, NEW nx, NEW pa \in Int, Ordered(C, Q, ca, sh, la, nx, pa),
         NEW w \in Windows, NEW f \in Frame, f.n = pa + 1,
         NEW cb, cb = [ca EXCEPT ![w] = f]
  PROVE  Ordered(C, Q, cb, sh, la, nx, pa + 1)
<1>1. /\ \A c \in C : c.body.n \in Int /\ c.body.n <= pa
      /\ \A g \in Q : g.n \in Int /\ g.n <= pa
      /\ \A v \in Windows : sh[v] \in Int /\ sh[v] <= pa
      /\ \A v \in Windows : ca[v] # None => ca[v].n \in Int /\ ca[v].n <= pa
  BY FrameNumbers DEF Ordered
<1>2. \A v \in Windows : cb[v] # None =>
        /\ sh[v] <= cb[v].n /\ cb[v].n <= pa + 1
        /\ \A c \in C : c.body.win = v => c.body.n <= cb[v].n
        /\ \A g \in Q : g.win = v => g.n <= cb[v].n
  <2> SUFFICES ASSUME NEW v \in Windows, cb[v] # None
               PROVE  /\ sh[v] <= cb[v].n /\ cb[v].n <= pa + 1
                      /\ \A c \in C : c.body.win = v => c.body.n <= cb[v].n
                      /\ \A g \in Q : g.win = v => g.n <= cb[v].n
    OBVIOUS
  <2>1. CASE v = w
    <3>1. cb[v] = f
      BY <2>1
    <3> QED  BY <1>1, <3>1
  <2>2. CASE v # w
    <3>1. cb[v] = ca[v]
      BY <2>2
    <3>2. /\ sh[v] <= ca[v].n
          /\ \A c \in C : c.body.win = v => c.body.n <= ca[v].n
          /\ \A g \in Q : g.win = v => g.n <= ca[v].n
      BY <3>1 DEF Ordered
    <3> QED  BY <1>1, <3>1, <3>2
  <2> QED  BY <2>1, <2>2
<1>3. /\ \A c \in C : c.body.n <= pa + 1
      /\ \A g \in Q : g.n <= pa + 1 /\ sh[g.win] <= g.n
      /\ \A v \in Windows : sh[v] <= pa + 1
  BY <1>1 DEF Ordered
<1> QED  BY <1>2, <1>3 DEF Ordered

LEMMA OrderedGone ==
  ASSUME NEW C, NEW Q, NEW ca \in [Windows -> Frame \cup {None}], NEW sh,
         NEW la, NEW nx, NEW pa, Ordered(C, Q, ca, sh, la, nx, pa),
         NEW w \in Windows, NEW cb, cb = [ca EXCEPT ![w] = None]
  PROVE  Ordered(C, Q, cb, sh, la, nx, pa)
<1>1. \A v \in Windows : cb[v] # None => cb[v] = ca[v]
  OBVIOUS
<1> QED  BY <1>1 DEF Ordered

(* The frame cached for w joins the queue. *)
LEMMA OrderedEnqueue ==
  ASSUME NEW C \in SUBSET Chunk, NEW Q \in SUBSET Frame,
         NEW ca \in [Windows -> Frame \cup {None}], NEW sh \in [Windows -> Int],
         NEW la, NEW nx, NEW pa \in Int, Ordered(C, Q, ca, sh, la, nx, pa),
         NEW w \in Windows, ca[w] # None, ca[w].win = w
  PROVE  Ordered(C, Q \cup {ca[w]}, ca, sh, la, nx, pa)
<1>1. /\ ca[w].n \in Int /\ sh[w] <= ca[w].n /\ ca[w].n <= pa
      /\ \A c \in C : c.body.win = w => c.body.n <= ca[w].n
      /\ \A g \in Q : g.win = w => g.n <= ca[w].n
  BY FrameNumbers DEF Ordered
<1>2. /\ \A g \in Q \cup {ca[w]} : g.n <= pa /\ sh[g.win] <= g.n
      /\ \A c \in C, g \in Q \cup {ca[w]} : c.body.win = g.win => c.body.n <= g.n
  BY <1>1 DEF Ordered
<1>3. \A v \in Windows : ca[v] # None =>
        \A g \in Q \cup {ca[w]} : g.win = v => g.n <= ca[v].n
  BY <1>1 DEF Ordered
<1> QED  BY <1>2, <1>3 DEF Ordered

(* A queued frame g is chunked under the next id: D are its chunks.         *)
LEMMA OrderedNext ==
  ASSUME NEW nx \in Ids, NEW C \in SUBSET Chunk, NEW Q \in SUBSET Frame,
         NEW ca, NEW sh, NEW la, NEW pa,
         Ordered(C, Q, ca, sh, la, nx, pa), NEW g \in Q,
         la # None => la \in Ids /\ Age(nx, la) < Half,
         \A c \in C : Age(nx, c.id) < Half /\ Age(nx, c.id) >= 1,
         NEW D, \A c \in D : c.id = nx /\ c.body = g
  PROVE  Ordered(C \cup D, {}, ca, sh, la, (nx + 1) % IdSpace, pa)
<1> DEFINE m == (nx + 1) % IdSpace
<1>1. /\ \A c \in C : /\ Age(m, c.id) = Age(nx, c.id) + 1
                      /\ Age(nx, c.id) \in Int /\ Age(nx, c.id) >= 1
      /\ \A c \in D : Age(m, c.id) = 1
      /\ la # None => Age(m, la) = Age(nx, la) + 1 /\ Age(nx, la) \in Int
  <2>1. \A i \in Ids : Age(nx, i) \in Int
    BY AgeIs, IdSpaceAssumption DEF Ids
  <2> QED  BY <2>1, AgeStep, FrameNumbers
<1> HIDE DEF m
<1>2. ASSUME NEW c \in C \cup D, NEW e \in C \cup D,
             c.body.win = e.body.win, Age(m, c.id) > Age(m, e.id)
      PROVE  c.body.n <= e.body.n
  <2>1. CASE c \in C /\ e \in C
    <3>1. Age(nx, c.id) > Age(nx, e.id)
      BY <1>1, <1>2, <2>1
    <3> QED  BY <1>2, <2>1, <3>1 DEF Ordered
  <2>2. CASE c \in C /\ e \in D
    BY <1>2, <2>2 DEF Ordered
  <2>3. CASE c \in D
    <3>1. e \notin D
      BY <1>1, <1>2, <2>3
    <3> QED  BY <1>1, <1>2, <2>3, <3>1
  <2> QED  BY <2>1, <2>2, <2>3
<1>3. ASSUME NEW c \in C \cup D, la = None \/ Age(m, c.id) <= Age(m, la)
      PROVE  sh[c.body.win] <= c.body.n
  <2>1. CASE c \in C
    <3>1. la = None \/ Age(nx, c.id) <= Age(nx, la)
      BY <1>1, <1>3, <2>1
    <3> QED  BY <2>1, <3>1 DEF Ordered
  <2>2. CASE c \in D
    BY <2>2 DEF Ordered
  <2> QED  BY <2>1, <2>2
<1>4. \A c \in C \cup D : c.body.n <= pa
  BY DEF Ordered
<1>5. \A w \in Windows : ca[w] # None =>
        /\ sh[w] <= ca[w].n /\ ca[w].n <= pa
        /\ \A c \in C \cup D : c.body.win = w => c.body.n <= ca[w].n
  BY DEF Ordered
<1>6. Ordered(C \cup D, {}, ca, sh, la, m, pa)
  BY <1>2, <1>3, <1>4, <1>5 DEF Ordered
<1> QED  BY <1>6 DEF m

(* A chunk c that is not stale arrives and completes its message or not.    *)
LEMMA OrderedReceive ==
  ASSUME NEW nx \in Ids, NEW C \in SUBSET Chunk, NEW Q \in SUBSET Frame,
         NEW ca \in [Windows -> Frame \cup {None}], NEW sh \in [Windows -> Int],
         NEW la \in Ids \cup {None}, NEW pa, Ordered(C, Q, ca, sh, la, nx, pa),
         NEW c \in C, la # None => Age(nx, c.id) <= Age(nx, la),
         \A d, e \in C : Age(nx, d.id) = Age(nx, e.id) => d.body = e.body,
         NEW si, si = sh \/ si = [sh EXCEPT ![c.body.win] = c.body.n]
  PROVE  Ordered(C, Q, ca, si, c.id, nx, pa)
<1>1. /\ \A e \in C : /\ Age(nx, e.id) \in Int /\ e.body.n \in Int
                      /\ e.body.win \in Windows
      /\ la # None => Age(nx, la) \in Int
  <2>1. \A i \in Ids : Age(nx, i) \in Int
    BY AgeIs, IdSpaceAssumption DEF Ids
  <2> QED  BY <2>1, FrameNumbers
<1>2. \A w \in Windows : si[w] = sh[w] \/ (w = c.body.win /\ si[w] = c.body.n)
  OBVIOUS
<1>3. ASSUME NEW e \in C, Age(nx, e.id) <= Age(nx, c.id)
      PROVE  si[e.body.win] <= e.body.n
  <2>1. sh[e.body.win] <= e.body.n
    <3>1. la = None \/ Age(nx, e.id) <= Age(nx, la)
      BY <1>1, <1>3
    <3> QED  BY <3>1 DEF Ordered
  <2>2. e.body.win = c.body.win => c.body.n <= e.body.n
    <3>1. CASE Age(nx, c.id) > Age(nx, e.id)
      BY <3>1 DEF Ordered
    <3>2. CASE Age(nx, c.id) = Age(nx, e.id)
      BY <1>1, <3>2
    <3> QED  BY <1>1, <1>3, <3>1, <3>2
  <2> QED  BY <1>1, <1>2, <2>1, <2>2
<1>4. \A g \in Q : g.win \in Windows
  BY FrameNumbers
<1>5. \A g \in Q : g.n <= pa /\ si[g.win] <= g.n
  BY <1>2, <1>4 DEF Ordered
<1>6. \A w \in Windows : ca[w] # None => si[w] <= ca[w].n
  BY <1>2 DEF Ordered
<1>7. \A w \in Windows : si[w] <= pa
  BY <1>2 DEF Ordered
<1>8. c.id # None
  BY FrameNumbers, NoneAssumption DEF Ids
<1> QED  BY <1>3, <1>5, <1>6, <1>7, <1>8 DEF Ordered

(* The types the lemmas above ask for. *)
LEMMA OrderTypes ==
  ASSUME Typed
  PROVE  /\ Sent \in SUBSET Chunk /\ Range(queue) \in SUBSET Frame
         /\ cache \in [Windows -> Frame \cup {None}] /\ shown \in [Windows -> Int]
         /\ latestSeen \in Ids \cup {None} /\ nextId \in Ids /\ painted \in Int
         /\ WireInv /\ HubTyped
<1>1. TypeOK /\ WireInv /\ HubTyped
  BY DEF Typed
<1>2. Sent \in SUBSET Chunk /\ Range(queue) \in SUBSET Frame
  BY <1>1, RangeOf DEF TypeOK, Sent
<1>3. shown \in [Windows -> Int] /\ painted \in Int
  BY <1>1, BoundsAssumption DEF TypeOK
<1> QED  BY <1>1, <1>2, <1>3 DEF TypeOK, Ids

LEMMA OrderHub ==
  ASSUME Typed, OrderInv,
         \/ \E w \in Windows, A \in SUBSET Tiles, k \in 1..MaxParts : Paint(w, A, k)
         \/ \E w \in Windows : FanOut(w) \/ ReplayOne(w) \/ SidecarGone(w)
         \/ ChannelOpen \/ ReplayBegin
  PROVE  OrderInv' /\ UNCHANGED shown
<1>1. /\ Sent \in SUBSET Chunk /\ Range(queue) \in SUBSET Frame
      /\ cache \in [Windows -> Frame \cup {None}] /\ shown \in [Windows -> Int]
      /\ painted \in Int /\ HubTyped
  BY OrderTypes
<1>2. UNCHANGED <<net, pending, shown, latestSeen, nextId>>
  BY DEF Paint, FanOut, ReplayOne, SidecarGone, ChannelOpen, ReplayBegin,
         sendVars, recvVars
<1>3. Sent' = Sent
  BY <1>2 DEF Sent
<1>4. Ordered(Sent, Range(queue), cache, shown, latestSeen, nextId, painted)
  BY DEF OrderInv
<1>5. ASSUME NEW w \in Windows, NEW A \in SUBSET Tiles, NEW k \in 1..MaxParts,
             Paint(w, A, k)
      PROVE  OrderInv'
  <2> DEFINE f == [n |-> painted + 1, win |-> w, area |-> A, parts |-> k]
  <2>1. painted + 1 \in 1..MaxFrames
    BY <1>5, BoundsAssumption DEF Typed, TypeOK, Paint
  <2>2. f \in Frame /\ f.n = painted + 1
    BY <2>1 DEF Frame
  <2>3. /\ cache' = [cache EXCEPT ![w] = f] /\ painted' = painted + 1
        /\ queue' = queue
    BY <1>5 DEF Paint
  <2> HIDE DEF f
  <2>4. Ordered(Sent, Range(queue), cache', shown, latestSeen, nextId, painted + 1)
    BY <1>1, <1>4, <2>2, <2>3, OrderedPaint
  <2> QED  BY <1>2, <1>3, <2>3, <2>4 DEF OrderInv
<1>6. ASSUME NEW w \in Windows, cache[w] # None, Enqueue(cache[w]),
             UNCHANGED <<cache, painted>>
      PROVE  OrderInv'
  <2>1. cache[w].win = w /\ Range(queue') = Range(queue) \cup {cache[w]}
    BY <1>6, EnqueueTyped
  <2>2. Ordered(Sent, Range(queue) \cup {cache[w]}, cache, shown, latestSeen,
                nextId, painted)
    BY <1>1, <1>4, <1>6, <2>1, OrderedEnqueue
  <2> QED  BY <1>2, <1>3, <1>6, <2>1, <2>2 DEF OrderInv
<1>7. CASE UNCHANGED <<queue, cache, painted>>
  BY <1>2, <1>3, <1>4, <1>7 DEF OrderInv
<1>8. ASSUME NEW w \in Windows, FanOut(w)
      PROVE  OrderInv'
  <2>1. cache[w] # None
    BY <1>1, <1>8 DEF HubTyped, FanOut
  <2> QED  BY <1>6, <1>7, <1>8, <2>1 DEF FanOut
<1>9. ASSUME NEW w \in Windows, ReplayOne(w)
      PROVE  OrderInv'
  <2>1. cache[w] # None
    BY <1>1, <1>9 DEF HubTyped, ReplayOne
  <2> QED  BY <1>6, <1>9, <2>1 DEF ReplayOne
<1>10. ASSUME NEW w \in Windows, SidecarGone(w)
       PROVE  OrderInv'
  <2>1. cache' = [cache EXCEPT ![w] = None] /\ UNCHANGED <<queue, painted>>
    BY <1>10 DEF SidecarGone
  <2>2. Ordered(Sent, Range(queue), cache', shown, latestSeen, nextId, painted)
    BY <1>1, <1>4, <2>1, OrderedGone
  <2> QED  BY <1>2, <1>3, <2>1, <2>2 DEF OrderInv
<1>11. CASE ChannelOpen \/ ReplayBegin
  BY <1>7, <1>11 DEF ChannelOpen, ReplayBegin
<1> QED  BY <1>2, <1>5, <1>8, <1>9, <1>10, <1>11

LEMMA OrderDrain ==
  ASSUME Typed, OrderInv, Drain
  PROVE  OrderInv' /\ UNCHANGED shown
<1>1. /\ Sent \in SUBSET Chunk /\ Range(queue) \in SUBSET Frame
      /\ nextId \in Ids /\ WireInv
  BY OrderTypes
<1>2. /\ queue' = <<>> /\ Range(queue') = {} /\ net' = net
      /\ UNCHANGED <<cache, shown, latestSeen, painted>>
  BY RangeEmpty DEF Drain, hubVars, recvVars
<1>3. Ordered(net, Range(queue), cache, shown, latestSeen, nextId, painted)
  BY OrderedShrink DEF OrderInv, Sent
<1>4. CASE channel # "open"
  <2>1. UNCHANGED <<pending, nextId>>
    BY <1>4 DEF Drain, sendVars
  <2>2. Sent' = Sent
    BY <1>2, <2>1 DEF Sent
  <2>3. Ordered(Sent, {}, cache, shown, latestSeen, nextId, painted)
    BY OrderedShrink DEF OrderInv
  <2> QED  BY <1>2, <2>1, <2>2, <2>3 DEF OrderInv
<1>5. CASE channel = "open"
  <2> DEFINE f == Last(queue)
             D == Range(Chunks(f))
  <2>1. Recent /\ pending' = Chunks(f) /\ nextId' = (nextId + 1) % IdSpace
    BY <1>5 DEF Drain
  <2>2. f \in Frame /\ f \in Range(queue)
    BY RangeLast DEF Typed, TypeOK, Drain
  <2> HIDE DEF f
  <2>3. \A c \in D : c.id = nextId /\ c.body = f
    BY <1>1, <2>2, ChunksOf
  <2>4. Sent' = net \cup D
    BY <1>2, <2>1 DEF Sent
  <2> HIDE DEF D
  <2>5. \A c \in net : Age(nextId, c.id) < Half /\ Age(nextId, c.id) >= 1
    <3>1. \A c \in net : Age(nextId, c.id) < Half
      BY <2>1 DEF Recent, Age, Half
    <3>2. \A c \in net : NearBy(nextId, c.id)
      BY <1>1 DEF WireInv, Wire, Sent
    <3> QED  BY <3>1, <3>2 DEF NearBy
  <2>6. latestSeen # None => latestSeen \in Ids /\ Age(nextId, latestSeen) < Half
    <3>1. latestSeen # None => Age(nextId, latestSeen) < Half
      BY <2>1 DEF Recent, Age, Half
    <3>2. latestSeen # None => latestSeen \in Ids
      BY OrderTypes
    <3> QED  BY <3>1, <3>2
  <2>7. net \in SUBSET Chunk
    BY <1>1 DEF Sent
  <2>8. Ordered(net \cup D, {}, cache, shown, latestSeen, (nextId + 1) % IdSpace, painted)
    BY <1>1, <1>3, <2>2, <2>3, <2>5, <2>6, <2>7, OrderedNext
  <2> QED  BY <1>2, <2>1, <2>4, <2>8 DEF OrderInv
<1> QED  BY <1>2, <1>4, <1>5

LEMMA OrderWire ==
  ASSUME Typed, OrderInv, Write \/ ChannelClose \/ \E c \in net : Lose(c)
  PROVE  OrderInv' /\ UNCHANGED shown
<1>1. Sent' \in SUBSET Sent
  BY TypedWrite, TypedNet
<1>2. UNCHANGED <<queue, cache, shown, latestSeen, nextId, painted>>
  BY DEF Write, ChannelClose, Lose, hubVars, sendVars, recvVars
<1>3. Ordered(Sent', Range(queue), cache, shown, latestSeen, nextId, painted)
  BY <1>1, OrderedShrink DEF OrderInv
<1> QED  BY <1>2, <1>3 DEF OrderInv

(* onChunk never shows a window an older frame than it has on screen. *)
LEMMA OrderOnChunk ==
  ASSUME Typed, OrderInv, NEW c \in net, Deliver(c) \/ Duplicate(c)
  PROVE  OrderInv' /\ \A w \in Windows : shown'[w] >= shown[w]
<1>1. /\ Sent \in SUBSET Chunk /\ Range(queue) \in SUBSET Frame
      /\ cache \in [Windows -> Frame \cup {None}] /\ shown \in [Windows -> Int]
      /\ latestSeen \in Ids \cup {None} /\ nextId \in Ids /\ WireInv
  BY OrderTypes
<1>2. Sent' \in SUBSET Sent /\ c \in Sent
  BY TypedNet DEF Sent
<1>3. UNCHANGED <<queue, cache, nextId, painted>> /\ OnChunk(c)
  BY DEF Deliver, Duplicate, hubVars, sendVars
<1>4. Ordered(Sent, Range(queue), cache, shown, latestSeen, nextId, painted)
  BY DEF OrderInv
<1>5. CASE UNCHANGED <<latestSeen, shown>>
  <2>1. Ordered(Sent', Range(queue), cache, shown, latestSeen, nextId, painted)
    BY <1>2, <1>4, OrderedShrink
  <2>2. \A w \in Windows : shown'[w] >= shown[w]
    BY <1>1, <1>5
  <2> QED  BY <1>3, <1>5, <2>1, <2>2 DEF OrderInv
<1>6. CASE /\ latestSeen' = c.id
           /\ latestSeen # None => Age(nextId, c.id) <= Age(nextId, latestSeen)
           /\ shown' = shown \/ shown' = [shown EXCEPT ![c.body.win] = c.body.n]
  <2>1. \A d, e \in Sent : Age(nextId, d.id) = Age(nextId, e.id) => d.body = e.body
    <3>1. /\ \A d \in Sent : NearBy(nextId, d.id)
          /\ \A d, e \in Sent : d.id = e.id => d.body = e.body
      BY <1>1 DEF WireInv, Wire
    <3>2. \A d, e \in Sent : Age(nextId, d.id) = Age(nextId, e.id) => d.id = e.id
      BY <1>1, <3>1, OlderAge
    <3> QED  BY <3>1, <3>2
  <2>2. Ordered(Sent, Range(queue), cache, shown', c.id, nextId, painted)
    BY <1>1, <1>2, <1>4, <1>6, <2>1, OrderedReceive
  <2>3. Ordered(Sent', Range(queue), cache, shown', c.id, nextId, painted)
    BY <1>2, <2>2, OrderedShrink
  <2>4. OrderInv'
    BY <1>3, <1>6, <2>3 DEF OrderInv
  <2>5. shown[c.body.win] <= c.body.n
    BY <1>2, <1>4, <1>6 DEF Ordered
  <2>6. c.body.n \in Int /\ c.body.win \in Windows
    BY <1>1, <1>2, FrameNumbers
  <2>7. \A w \in Windows : shown'[w] >= shown[w]
    BY <1>1, <1>6, <2>5, <2>6
  <2> QED  BY <2>4, <2>7
<1>7. \/ UNCHANGED <<latestSeen, shown>>
      \/ /\ latestSeen' = c.id
         /\ latestSeen # None => Age(nextId, c.id) <= Age(nextId, latestSeen)
         /\ shown' = shown \/ shown' = [shown EXCEPT ![c.body.win] = c.body.n]
  BY <1>1, <1>2, <1>3, Received DEF WireInv, recvVars
<1> QED  BY <1>5, <1>6, <1>7

LEMMA OrderStep ==
  ASSUME Typed, OrderInv, [Next]_vars
  PROVE  OrderInv' /\ \A w \in Windows : shown'[w] >= shown[w]
<1>1. shown \in [Windows -> Int]
  BY OrderTypes
<1>2. UNCHANGED shown => \A w \in Windows : shown'[w] >= shown[w]
  BY <1>1
<1>3. CASE UNCHANGED vars
  <2>1. OrderInv'
    BY <1>3 DEF OrderInv, Sent, vars, hubVars, sendVars, recvVars
  <2> QED  BY <1>2, <1>3, <2>1 DEF vars, recvVars
<1>4. CASE Drain
  BY <1>2, <1>4, OrderDrain
<1>5. ASSUME NEW c \in net, Deliver(c) \/ Duplicate(c) \/ Lose(c)
      PROVE  OrderInv' /\ \A w \in Windows : shown'[w] >= shown[w]
  BY <1>2, <1>5, OrderOnChunk, OrderWire
<1>6. CASE Write \/ ChannelClose
  BY <1>2, <1>6, OrderWire
<1>7. CASE \/ \E w \in Windows, A \in SUBSET Tiles \ {{}}, k \in 1..MaxParts :
                Paint(w, A, k)
           \/ \E w \in Windows : FanOut(w) \/ ReplayOne(w) \/ SidecarGone(w)
           \/ ChannelOpen \/ ReplayBegin
  BY <1>2, <1>7, OrderHub
<1> QED  BY <1>3, <1>4, <1>5, <1>6, <1>7 DEF Next

(* No window's picture goes back in time: cache, fan-out and replay feed    *)
(* the queue from different tasks, the network reorders and repeats, ids    *)
(* wrap around, and a frame is still only ever replaced by a newer one.     *)
THEOREM MediaNeverGoesBack == Spec => NeverGoesBack
<1>1. Init => OrderInv
  <2> SUFFICES ASSUME Init PROVE OrderInv
    OBVIOUS
  <2>1. Sent = {} /\ Range(queue) = {}
    BY RangeEmpty DEF Init, Sent
  <2> QED  BY <2>1 DEF Init, OrderInv, Ordered
<1>2. Typed /\ OrderInv /\ [Next]_vars => OrderInv'
  BY OrderStep
<1>3. Typed /\ OrderInv /\ [Next]_vars =>
        [\A w \in Windows : shown'[w] >= shown[w]]_vars
  BY OrderStep
<1> QED  BY <1>1, <1>2, <1>3, MediaTypedAlways, PTL DEF Spec, NeverGoesBack

=============================================================================
