------------------------------ MODULE XProperty ------------------------------
(***************************************************************************)
(* The properties of one window.  They are kept several times: in the      *)
(* owner's connection, in the shared window map, and in the copy of every  *)
(* client that has pulled the window from there.  A request changes the    *)
(* copy of its own connection and usually the shared one; what other       *)
(* connections hold changes only when they synchronise, and then only to   *)
(* fill gaps.                                                              *)
(*                                                                         *)
(* Abstracted: a value is its format and a short sequence of units; the    *)
(* type is not told apart from the format.  Events are left out.           *)
(***************************************************************************)
EXTENDS Integers, Sequences

CONSTANTS PrOwner,     \* the client the window belongs to
          PrReader,    \* another client
          PrAtoms,     \* property names
          PrChanges,   \* the changes clients ask for: [atom, mode, fmt, data]
          PrMaxSteps   \* bound on the number of requests

PrClients == {PrOwner, PrReader}
PrFmts == {8, 16, 32}
PrUnits == {1, 2}
PrMaxLen == 2          \* bound on the length of a value
PrValues == [fmt : PrFmts, data : UNION {[1..n -> PrUnits] : n \in 0..PrMaxLen}]

ASSUME PrAssumption ==
    /\ \A r \in PrChanges : r.atom \in PrAtoms /\ r.fmt \in PrFmts /\ r.data \in Seq(PrUnits)
    /\ PrMaxSteps \in Nat

VARIABLES
    prCopy,     \* prCopy[c][a]: {} or {value}, in the connection of c
    prKnown,    \* the clients whose connection holds the window
    prShared,   \* prShared[a]: {} or {value}, in the shared window map
    prField,    \* prField[c]: what c's copy of the window derives from properties
    prTitle,    \* the title last told to the backend
    prForeign,  \* atoms whose shared value is not the owner's any more (history)
    prSteps

prVars == <<prCopy, prKnown, prShared, prField, prTitle, prForeign, prSteps>>

PrNothing == [a \in PrAtoms |-> {}]
PrNoField == [strut |-> {}, hints |-> {}, menu |-> {}]

PrInit ==
    /\ prCopy = [c \in PrClients |-> PrNothing] /\ prShared = PrNothing
    /\ prKnown = {PrOwner}
    /\ prField = [c \in PrClients |-> PrNoField]
    /\ prTitle = {} /\ prForeign = {} /\ prSteps = 0

PrStep == prSteps < PrMaxSteps /\ prSteps' = prSteps + 1

\* Only the properties c has no value for are taken; its own window is left alone.
PrPulled(c, copy, shared) ==
    IF c = PrOwner THEN copy
    ELSE IF c \notin prKnown THEN shared
    ELSE [a \in PrAtoms |-> IF copy[a] = {} THEN shared[a] ELSE copy[a]]

\* A push writes every property of the copy and removes none.
PrPushed(copy, shared) == [a \in PrAtoms |-> IF copy[a] = {} THEN shared[a] ELSE copy[a]]

\* Every request ends with a synchronisation: the handler of c left its copy,
\* the shared properties, and perhaps the window marked dirty.  Whether the
\* copies are compared with the shared map depends on the other windows: their
\* number, and one key of the map.
PrSync(c, copy, shared, dirty) ==
    \E pull \in BOOLEAN :
        LET mine == IF pull THEN PrPulled(c, copy, shared) ELSE copy
            out  == IF dirty THEN PrPushed(mine, shared) ELSE shared
        IN  /\ prCopy' = [prCopy EXCEPT ![c] = mine]
            /\ prShared' = out
            /\ prKnown' = IF pull THEN prKnown \cup {c} ELSE prKnown

\* What is behind after such a synchronisation, when the handler wrote the atoms
\* of `wrote` in its own copy alone.  A push by the owner brings up to date all
\* that its copy holds; one by another client may put its own values there.
PrBehind(c, dirty, wrote) ==
    IF c # PrOwner THEN prForeign \cup {a \in PrAtoms : prShared'[a] # prShared[a]}
    ELSE IF dirty THEN {a \in prForeign \cup wrote : prCopy'[c][a] = {}}
    ELSE prForeign \cup wrote

(***************************************************************************)
(* ChangeProperty.                                                         *)
(***************************************************************************)
\* Appending and prepending need the same format, otherwise the value is replaced.
Combined(old, r) ==
    LET fits == \E v \in old : v.fmt = r.fmt
        was  == IF fits THEN (CHOOSE v \in old : TRUE).data ELSE <<>>
    IN  [fmt |-> r.fmt, data |->
            CASE fits /\ r.mode = "Prepend" -> r.data \o was
              [] fits /\ r.mode = "Append"  -> was \o r.data
              [] OTHER -> r.data]

\* The title goes to the backend when it is not empty: the bytes of the request,
\* even when they were appended.
Title(r) == IF r.atom = "NAME" /\ r.fmt = 8 /\ r.data # <<>> THEN {r.data} ELSE prTitle

\* WM_TRANSIENT_FOR, the sync counter, the window type and the struts are read
\* from 32-bit data when they are set; deleting the property undoes nothing.
WithStrut(f, r) ==
    IF r.atom = "STRUT" /\ r.fmt = 32 /\ r.data # <<>> THEN [f EXCEPT !.strut = {r.data}] ELSE f
WithHints(f, r) ==
    IF r.atom = "HINTS" /\ r.fmt = 32 /\ r.data # <<>> THEN [f EXCEPT !.hints = {r.data}] ELSE f
\* The paths of an exported menu.
WithMenu(f, r) ==
    IF r.atom = "MENU" /\ r.fmt = 8 THEN [f EXCEPT !.menu = {r.data}] ELSE f

\* A slip: the shared map keeps what it had.
RepublishedNot(shared, a, v) == shared
Republished(shared, a, v) == [shared EXCEPT ![a] = {v}]

\* The window must be one this connection holds.
ChangeProperty(c, r) ==
    LET v == Combined(prCopy[c][r.atom], r)
    IN  /\ c \in prKnown /\ Len(v.data) <= PrMaxLen /\ PrStep
        /\ PrSync(c, [prCopy[c] EXCEPT ![r.atom] = {v}],
                  Republished(prShared, r.atom, v), FALSE)
        /\ prField' = [prField EXCEPT ![c] = WithMenu(WithHints(WithStrut(@, r), r), r)]
        /\ prTitle' = Title(r)
        /\ prForeign' = IF c = PrOwner THEN prForeign \ {r.atom} ELSE prForeign \cup {r.atom}

(***************************************************************************)
(* Deleting, reading and rotating.                                         *)
(***************************************************************************)
\* Both copies lose the property, whether or not it was there.
DeleteProperty(c, a) ==
    /\ PrStep
    /\ PrSync(c, [prCopy[c] EXCEPT ![a] = {}], [prShared EXCEPT ![a] = {}], FALSE)
    /\ prForeign' = IF c = PrOwner THEN prForeign \ {a} ELSE prForeign \cup {a}
    /\ UNCHANGED <<prField, prTitle>>

\* The connection's own copy answers, the shared one only if it has none.
Answers(c, a) == IF c \in prKnown /\ prCopy[c][a] # {} THEN prCopy[c][a] ELSE prShared[a]

\* A slip: what is left is counted as if nothing had been skipped.
PartOfWhole(n, off, len) ==
    LET available == IF n > off THEN n - off ELSE 0
        given     == IF available < len THEN available ELSE len
    IN  [from |-> off, given |-> given, after |-> n - given]

\* The part of n bytes a request for len bytes from offset off gets, and what
\* is left after it.
Part(n, off, len) ==
    LET available == IF n > off THEN n - off ELSE 0
        given     == IF available < len THEN available ELSE len
    IN  [from |-> off, given |-> given, after |-> available - given]

\* With delete the property goes when the answer reaches its end.
ReadProperty(c, a, off, len) ==
    \E v \in Answers(c, a) :
        /\ PrStep
        /\ IF Part(Len(v.data), off, len).after = 0
           THEN /\ PrSync(c, [prCopy[c] EXCEPT ![a] = {}], [prShared EXCEPT ![a] = {}], FALSE)
                /\ prForeign' = IF c = PrOwner THEN prForeign \ {a} ELSE prForeign \cup {a}
           ELSE PrSync(c, prCopy[c], prShared, FALSE) /\ UNCHANGED prForeign
        /\ UNCHANGED <<prField, prTitle>>

\* Only this connection's copy is rotated; a property that is missing is skipped.
RotateProperties(c, a, b) ==
    LET m == prCopy[c]
        rot(x, y) == IF m[y] = {} THEN m[x] ELSE m[y]
    IN  /\ c \in prKnown /\ a # b /\ PrStep
        /\ PrSync(c, [m EXCEPT ![a] = rot(a, b), ![b] = rot(b, a)], prShared, FALSE)
        /\ prForeign' = PrBehind(c, FALSE, {a, b})
        /\ UNCHANGED <<prField, prTitle>>

\* The server writes a property itself: WM_STATE, _NET_WM_STATE, the frame
\* extents, the time of the last input, the answer to a selection request.  It
\* writes the copy of the connection that does it and nothing else; only a map or
\* an unmap, which marks the window, passes it on.
ServerWrites(c, a, u, marks) ==
    /\ c \in prKnown /\ PrStep
    /\ PrSync(c, [prCopy[c] EXCEPT ![a] = {[fmt |-> 32, data |-> <<u>>]}], prShared, marks)
    /\ prForeign' = PrBehind(c, marks, {a})
    /\ UNCHANGED <<prField, prTitle>>

\* A slip: what is marked is not passed on.
MarkWindowLocally(c) ==
    /\ c \in prKnown /\ PrStep
    /\ PrSync(c, prCopy[c], prShared, FALSE)
    /\ prForeign' = PrBehind(c, TRUE, {})
    /\ UNCHANGED <<prField, prTitle>>

\* Any other request that marks the window: configure, change attributes.
MarkWindow(c) ==
    /\ c \in prKnown /\ PrStep
    /\ PrSync(c, prCopy[c], prShared, TRUE)
    /\ prForeign' = PrBehind(c, TRUE, {})
    /\ UNCHANGED <<prField, prTitle>>

\* Any other request, or a turn of the connection without one.
PrTurn(c) ==
    /\ PrSync(c, prCopy[c], prShared, FALSE)
    /\ UNCHANGED <<prField, prTitle, prForeign, prSteps>>

PrNext ==
    \E c \in PrClients :
        \/ \E r \in PrChanges : ChangeProperty(c, r)
        \/ \E a \in PrAtoms : DeleteProperty(c, a) \/ ReadProperty(c, a, 0, 1)
        \/ \E a, b \in PrAtoms : RotateProperties(c, a, b)
        \/ \E a \in PrAtoms, u \in PrUnits, marks \in BOOLEAN : ServerWrites(c, a, u, marks)
        \/ MarkWindow(c)
        \/ PrTurn(c)

PrSpec == PrInit /\ [][PrNext]_prVars

(***************************************************************************)
(* Properties.                                                             *)
(***************************************************************************)
PrTypeOK ==
    /\ \A a \in PrAtoms : prShared[a] \subseteq PrValues
    /\ \A c \in PrClients, a \in PrAtoms : prCopy[c][a] \subseteq PrValues
    /\ prKnown \subseteq PrClients /\ PrOwner \in prKnown
    /\ prForeign \subseteq PrAtoms /\ prSteps \in 0..PrMaxSteps

\* What the owner wrote last is what every client finds in the shared map.  The
\* two copies differ only where another client wrote, or where RotateProperties or
\* the server itself wrote the owner's copy alone; and there only until the owner
\* writes the property again or marks its window.
OwnerCoherent == \A a \in PrAtoms \ prForeign : prCopy[PrOwner][a] = prShared[a]

\* Reading a property piece by piece gives every byte once, and only the last
\* piece says that nothing is left (so only it deletes the property).
PiecesWhole ==
    \A n \in 0..9, len \in 1..4 :
        LET at(k) == Part(n, (k - 1) * len, len)
            last == IF n = 0 THEN 1 ELSE (n + len - 1) \div len
        IN  \A k \in 1..last :
                /\ at(k).given = (IF k < last THEN len ELSE n - (last - 1) * len)
                /\ at(k).after = 0 <=> k = last
=============================================================================
