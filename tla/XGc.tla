-------------------------------- MODULE XGc --------------------------------
(***************************************************************************)
(* Graphics contexts: their attributes, the clip that is kept three ways   *)
(* (the id of a mask pixmap, a copy of its bits, and the rectangles every  *)
(* drawing routine tests), and the walk along a dash pattern.              *)
(*                                                                         *)
(* Abstracted: one axis; of the plain attributes, only the function stands *)
(* for the others.                                                         *)
(***************************************************************************)
EXTENDS Integers, Sequences, FiniteSets

CONSTANTS GcIds,       \* ids of graphics contexts
          GcDashes,    \* dash patterns a client sends
          GcMaxSteps   \* bound on the number of requests

ASSUME GcAssumption == GcDashes \subseteq Seq(Nat)

GcOrigins == {0, 1}
GcBits == SUBSET {0, 1}

VARIABLES
    gcs,        \* gcs[g]: {} or {the context}
    gcMask,     \* the mask pixmap: {} or {its set bits}
    gcPartial,  \* contexts whose rectangles were last replaced apart from their mask: by a
                \* copy of a part of the clip, or by a region (history)
    gcSteps

gcVars == <<gcs, gcMask, gcPartial, gcSteps>>

Attr(g) == CHOOSE r \in gcs[g] : TRUE
Default == [fn |-> "copy", mask |-> FALSE, bits |-> {}, org |-> 0, rects |-> {},
            dashes |-> <<>>, off |-> 0]

GcInit == gcs = [g \in GcIds |-> {}] /\ gcMask = {} /\ gcPartial = {} /\ gcSteps = 0

GcStep == gcSteps < GcMaxSteps /\ gcSteps' = gcSteps + 1
Becomes(g, r) == gcs' = [gcs EXCEPT ![g] = {r}]

\* A slip: the origin is left out.
ToClipRectsUnmoved(bits, org) == UNION bits

\* The pixmap's bits at this moment, if it exists: later drawing does not show.
ResolveClipMask == gcMask
\* One rectangle per run of set bits, moved to the clip origin.
ToClipRects(bits, org) == {i + org : i \in UNION bits}

\* Attributes named in a request; a mask is resolved, a new origin moves the bits
\* that are already known.
ApplyAux(r, fn, mask, org) ==
    LET withFn == IF fn = {} THEN r ELSE [r EXCEPT !.fn = CHOOSE f \in fn : TRUE]
        at == IF org = {} THEN r.org ELSE CHOOSE o \in org : TRUE
        bits == CASE mask = {} -> r.bits [] mask = {TRUE} -> ResolveClipMask [] OTHER -> {}
    IN  [withFn EXCEPT !.org = at, !.bits = bits,
                       !.mask = IF mask = {} THEN @ ELSE mask = {TRUE},
                       !.rects = CASE mask # {} -> ToClipRects(bits, at)
                                   [] mask = {} /\ org # {} /\ bits # {} -> ToClipRects(bits, at)
                                   [] OTHER -> @]

Given(S) == {{}} \cup {{v} : v \in S}

CreateGC(g, fn, mask, org) ==
    /\ GcStep /\ gcs[g] = {}
    /\ Becomes(g, ApplyAux(Default, fn, mask, org))
    /\ gcPartial' = gcPartial \ {g} /\ UNCHANGED gcMask

ChangeAttributes(g, fn, mask, org) ==
    /\ GcStep /\ gcs[g] # {}
    /\ Becomes(g, ApplyAux(Attr(g), fn, mask, org))
    /\ gcPartial' = IF mask # {} \/ (org # {} /\ Attr(g).bits # {}) THEN gcPartial \ {g} ELSE gcPartial
    /\ UNCHANGED gcMask

\* The rectangles are copied with any part of the clip, the mask and the origin
\* only with their own.
CopyGC(s, d, parts) ==
    LET a == Attr(s)
        b == Attr(d)
    IN  /\ GcStep /\ gcs[s] # {} /\ gcs[d] # {}
        /\ Becomes(d, [fn |-> IF "fn" \in parts THEN a.fn ELSE b.fn,
                       mask |-> IF "mask" \in parts THEN a.mask ELSE b.mask,
                       bits |-> IF "mask" \in parts THEN a.bits ELSE b.bits,
                       org |-> IF "org" \in parts THEN a.org ELSE b.org,
                       rects |-> IF parts \cap {"mask", "org"} # {} THEN a.rects ELSE b.rects,
                       dashes |-> IF "dashes" \in parts THEN a.dashes ELSE b.dashes,
                       off |-> IF "off" \in parts THEN a.off ELSE b.off])
        /\ gcPartial' = CASE Cardinality(parts \cap {"mask", "org"}) = 1 -> gcPartial \cup {d}
                          [] {"mask", "org"} \subseteq parts -> IF s \in gcPartial THEN gcPartial \cup {d}
                                                                ELSE gcPartial \ {d}
                          [] OTHER -> gcPartial
        /\ UNCHANGED gcMask

\* An empty list and a zero length are refused.
SetDashes(g, dashes, off) ==
    /\ GcStep /\ gcs[g] # {} /\ dashes # <<>> /\ \A i \in DOMAIN dashes : dashes[i] > 0
    /\ Becomes(g, [Attr(g) EXCEPT !.dashes = dashes, !.off = off])
    /\ UNCHANGED <<gcMask, gcPartial>>

SetClipRectangles(g, cols, org) ==
    /\ GcStep /\ gcs[g] # {}
    /\ Becomes(g, [Attr(g) EXCEPT !.org = org, !.rects = {i + org : i \in cols},
                                  !.mask = FALSE, !.bits = {}])
    /\ gcPartial' = gcPartial \ {g} /\ UNCHANGED gcMask

\* SetGCClipRegion of XFIXES: a region, or none, replaces the rectangles and the
\* origin; the mask and its bits stay, and return when the origin is next changed.
SetGCClipRegion(g, region, org) ==
    LET at == IF region = {} THEN 0 ELSE org
    IN  /\ GcStep /\ gcs[g] # {}
        /\ Becomes(g, [Attr(g) EXCEPT !.org = at, !.rects = ToClipRects(region, at)])
        /\ gcPartial' = gcPartial \cup {g} /\ UNCHANGED gcMask

FreeGC(g) ==
    /\ GcStep /\ gcs[g] # {}
    /\ gcs' = [gcs EXCEPT ![g] = {}] /\ gcPartial' = gcPartial \ {g} /\ UNCHANGED gcMask

\* The mask pixmap is created, drawn on or freed.
MaskChanges(bits) == GcStep /\ gcMask # bits /\ gcMask' = bits /\ UNCHANGED <<gcs, gcPartial>>

GcNext ==
    \/ \E g \in GcIds, fn \in Given({"xor"}), mask \in Given(BOOLEAN), org \in Given(GcOrigins) :
          CreateGC(g, fn, mask, org) \/ ChangeAttributes(g, fn, mask, org)
    \/ \E s, d \in GcIds, parts \in SUBSET {"fn", "mask", "org", "dashes"} : CopyGC(s, d, parts)
    \/ \E g \in GcIds, dashes \in GcDashes, off \in {0, 3} : SetDashes(g, dashes, off)
    \/ \E g \in GcIds, cols \in GcBits, org \in GcOrigins : SetClipRectangles(g, cols, org)
    \/ \E g \in GcIds, region \in Given(GcBits), org \in GcOrigins : SetGCClipRegion(g, region, org)
    \/ \E g \in GcIds : FreeGC(g)
    \/ \E bits \in Given(GcBits) : MaskChanges(bits)

GcSpec == GcInit /\ [][GcNext]_gcVars

\* A slip: a dash that ends exactly at the offset is not left.
DashStartLate(pat, off) ==
    LET n == Len(pat)
        walk[z \in [skip : 0..off, index : 0..(n - 1), on : BOOLEAN]] ==
            LET dash == pat[z.index + 1]
            IN  IF z.skip <= dash THEN [index |-> z.index, left |-> dash - z.skip + 1, on |-> z.on]
                ELSE walk[[skip |-> z.skip - dash, index |-> (z.index + 1) % n, on |-> ~z.on]]
    IN  walk[[skip |-> off, index |-> 0, on |-> TRUE]]

(***************************************************************************)
(* Dashes: a walk from the dash offset, one pixel at a time.               *)
(***************************************************************************)
DashStart(pat, off) ==
    LET n == Len(pat)
        walk[z \in [skip : 0..off, index : 0..(n - 1), on : BOOLEAN]] ==
            LET dash == pat[z.index + 1]
            IN  IF z.skip < dash THEN [index |-> z.index, left |-> dash - z.skip, on |-> z.on]
                ELSE walk[[skip |-> z.skip - dash, index |-> (z.index + 1) % n, on |-> ~z.on]]
    IN  walk[[skip |-> off, index |-> 0, on |-> TRUE]]

DashAdvance(pat, st) ==
    IF st.left > 1 THEN [st EXCEPT !.left = @ - 1]
    ELSE LET j == (st.index + 1) % Len(pat)
         IN  [index |-> j, left |-> IF pat[j + 1] = 0 THEN 1 ELSE pat[j + 1], on |-> ~st.on]

DashOn(pat, off, k) ==
    LET at[i \in 0..k] == IF i = 0 THEN DashStart(pat, off) ELSE DashAdvance(pat, at[i - 1])
    IN  at[k].on

\* The pattern the rasteriser is given: an odd one is repeated to be even.
BuildDash(pat) == IF Len(pat) % 2 = 0 THEN pat ELSE pat \o pat

(***************************************************************************)
(* Properties.                                                             *)
(***************************************************************************)
GcTypeOK ==
    /\ \A g \in GcIds : Cardinality(gcs[g]) <= 1
    /\ \A g \in GcIds : gcs[g] # {} =>
          /\ Attr(g).fn \in {"copy", "xor"} /\ Attr(g).org \in GcOrigins
          /\ Attr(g).rects \subseteq 0..2 /\ Cardinality(Attr(g).bits) <= 1
    /\ gcPartial \subseteq {g \in GcIds : gcs[g] # {}}

\* The rectangles drawing tests are those of the mask's bits at the clip origin,
\* whatever was changed, copied or freed since.  The exceptions are contexts that
\* were last given a part of another's clip, or a region by SetGCClipRegion.
ClipCoherent ==
    \A g \in GcIds : gcs[g] # {} /\ g \notin gcPartial /\ Attr(g).bits # {} =>
        Attr(g).rects = {i + Attr(g).org : i \in UNION Attr(g).bits}

\* The walk is on exactly in the odd dashes of the repeated pattern, so that lines
\* drawn point by point and lines given to the rasteriser have the same dashes.
DashesAgree ==
    \A pat \in GcDashes \ {<<>>}, off \in 0..4, k \in 0..7 : (\A i \in DOMAIN pat : pat[i] > 0) =>
        LET even == BuildDash(pat)
            upTo[i \in 0..Len(even)] == IF i = 0 THEN 0 ELSE upTo[i - 1] + even[i]
            pos == (off + k) % upTo[Len(even)]
        IN  DashOn(pat, off, k) <=>
                \E i \in 1..Len(even) : i % 2 = 1 /\ pos >= upTo[i - 1] /\ pos < upTo[i]
=============================================================================
