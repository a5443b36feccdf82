------------------------------ MODULE XSettings ------------------------------
(***************************************************************************)
(* The settings clients share, or believe they share: the keyboard mapping *)
(* (kept once, in the server), the modifier and pointer mappings and the   *)
(* keyboard control (one copy per connection), and the access list (a copy *)
(* per connection that overwrites the shared one).                         *)
(*                                                                         *)
(* A client reads the keyboard mapping again when a MappingNotify arrives; *)
(* the change itself is two steps, as other connections run in between.    *)
(***************************************************************************)
EXTENDS Integers, Sequences, XWalks

CONSTANTS SeClients,
          SeCodes,     \* key codes
          SeRows,      \* the rows of keysyms clients set: sequences of numbers
          SeHosts,     \* host addresses
          SeMaxSteps   \* bound on the number of requests

ASSUME SeAssumption == SeRows \subseteq Seq(Nat) /\ SeMaxSteps \in Nat

SeDefault == <<8, 9>>        \* keycode_to_keysym: normal and shifted
SeLeds == 1..3

VARIABLES
    seKeymap,   \* custom_keymap, shared: seKeymap[k] is {} or {row}
    seTelling,  \* the clients that changed the map and have not told yet
    seNotify,   \* seNotify[c]: a MappingNotify for the keyboard is on its way
    seRead,     \* seRead[c]: the mapping c read last
    seUntold,   \* history: clients an XKB SetMap passed over since they read
    sePointer,  \* sePointer[c]: the connection's copy of the pointer mapping
    seHosts,    \* seHosts[c]: the connection's copy of the access list
    seShared,   \* the access list new connections are checked against
    seLed,      \* seLed[c]: LEDs lit in the connection's copy of the control
    seClick,    \* seClick[c]: its key click volume
    seSteps

seVars == <<seKeymap, seTelling, seNotify, seRead, seUntold, sePointer, seHosts, seShared,
            seLed, seClick, seSteps>>
seRest == <<sePointer, seHosts, seShared, seLed, seClick>>

\* The widest row decides how many keysyms every key code has, at least four.
KeysymsPerKeycode(map) ==
    LET lens == {Len(r) : r \in UNION {map[k] : k \in DOMAIN map}} \cup {4}
    IN  CHOOSE n \in lens : \A m \in lens : m <= n

\* The row of a key code: its own keysyms, or the two of the built-in table,
\* and NoSymbol.
KeyboardRow(map, k) ==
    LET row == IF map[k] = {} THEN SeDefault ELSE CHOOSE r \in map[k] : TRUE
    IN  [j \in 1..KeysymsPerKeycode(map) |-> IF j <= Len(row) THEN row[j] ELSE 0]

GetKeyboardMapping(map) == [k \in SeCodes |-> KeyboardRow(map, k)]

SeInit ==
    /\ seKeymap = [k \in SeCodes |-> {}] /\ seTelling = {}
    /\ seNotify = [c \in SeClients |-> FALSE] /\ seUntold = {}
    /\ seRead = [c \in SeClients |-> GetKeyboardMapping(seKeymap)]
    /\ sePointer = [c \in SeClients |-> <<1, 2, 3>>]
    /\ seHosts = [c \in SeClients |-> {}] /\ seShared = {}
    /\ seLed = [c \in SeClients |-> {}] /\ seClick = [c \in SeClients |-> 0]
    /\ seSteps = 0

\* One request of a connection is handled to its end before its next.
SeRequest(c) == c \notin seTelling /\ seSteps < SeMaxSteps /\ seSteps' = seSteps + 1

\* The row replaces the one before; it must not be empty.
ChangeKeyboardMapping(c, k, row) ==
    /\ SeRequest(c) /\ row # <<>>
    /\ seKeymap' = [seKeymap EXCEPT ![k] = {row}] /\ seTelling' = seTelling \cup {c}
    /\ UNCHANGED <<seNotify, seRead, seUntold>> /\ UNCHANGED seRest

\* XKB SetMap writes rows of the same shared map, empty ones too.  Nobody gets
\* a MappingNotify; this client gets an XkbMapNotify if it selected them.
SetMap(c, k, row, selected) ==
    /\ SeRequest(c)
    /\ seKeymap' = [seKeymap EXCEPT ![k] = {row}]
    /\ seNotify' = [seNotify EXCEPT ![c] = @ \/ selected]
    /\ seUntold' = seUntold \cup (IF selected THEN SeClients \ {c} ELSE SeClients)
    /\ UNCHANGED <<seTelling, seRead>> /\ UNCHANGED seRest

\* A slip: the client that made the change is the only one told.
ToldOnlyHere(c) == {c}
ToldOf(c) == SeClients

\* MappingNotify, to this client and to all others.
TellMapping(c) ==
    /\ c \in seTelling /\ seTelling' = seTelling \ {c}
    /\ seNotify' = [d \in SeClients |-> seNotify[d] \/ d \in ToldOf(c)]
    /\ UNCHANGED <<seKeymap, seRead, seUntold, seSteps>> /\ UNCHANGED seRest

\* The client's part: the event arrives, the mapping is asked for and read.
ReadMapping(c) ==
    /\ seNotify[c] /\ c \notin seTelling
    /\ seNotify' = [seNotify EXCEPT ![c] = FALSE]
    /\ seRead' = [seRead EXCEPT ![c] = GetKeyboardMapping(seKeymap)] /\ seUntold' = seUntold \ {c}
    /\ UNCHANGED <<seKeymap, seTelling, seSteps>> /\ UNCHANGED seRest

\* Only this connection's buttons change, though everybody is told.
SetPointerMapping(c, map) ==
    /\ SeRequest(c) /\ Len(map) <= Len(sePointer[c])
    /\ sePointer' = [sePointer EXCEPT ![c] =
                        [b \in DOMAIN @ |-> IF b <= Len(map) THEN map[b] ELSE @[b]]]
    /\ UNCHANGED <<seKeymap, seTelling, seNotify, seRead, seUntold, seHosts, seShared, seLed, seClick>>

\* The connection's copy, which began empty, is edited and becomes the shared list.
ChangeHosts(c, insert, h) ==
    /\ SeRequest(c)
    /\ seHosts' = [seHosts EXCEPT ![c] = IF insert THEN @ \cup {h} ELSE @ \ {h}]
    /\ seShared' = seHosts'[c]
    /\ UNCHANGED <<seKeymap, seTelling, seNotify, seRead, seUntold, sePointer, seLed, seClick>>

\* The values before a bad LED mode are kept, those after it are not read.
ChangeKeyboardControl(c, click, mode, led) ==
    /\ SeRequest(c)
    /\ seClick' = [seClick EXCEPT ![c] = IF click > 100 THEN 100 ELSE click]
    /\ seLed' = [seLed EXCEPT ![c] =
                    CASE mode > 1 -> @
                      [] mode = 1 -> IF led = {} THEN SeLeds ELSE @ \cup (led \cap SeLeds)
                      [] mode = 0 -> IF led = {} THEN {} ELSE @ \ led]
    /\ UNCHANGED <<seKeymap, seTelling, seNotify, seRead, seUntold, sePointer, seHosts, seShared>>

\* Bell: a percentage of 0 is the base volume, one above 100 a signed byte
\* that raises or lowers it; division truncates towards zero.
BellPercent(base, p) ==
    LET cut(n) == IF n < 0 THEN -((-n) \div 100) ELSE n \div 100
        v == base + cut(base * (IF p < 128 THEN p ELSE p - 256))
    IN  CASE p = 0 -> base
          [] p \in 1..100 -> p
          [] OTHER -> IF v < 0 THEN 0 ELSE IF v > 100 THEN 100 ELSE v

\* The modifier map keeps the key codes that are not 0, eight lists; it is read
\* back as rows of one width, at least two.
ModifierMap(rows) == [m \in DOMAIN rows |-> Kept(rows[m], Nat \ {0})]
ModifierRows(map) ==
    LET lens == {Len(map[m]) : m \in DOMAIN map} \cup {2}
        n == CHOOSE x \in lens : \A y \in lens : y <= x
    IN  [m \in DOMAIN map |-> [j \in 1..n |-> IF j <= Len(map[m]) THEN map[m][j] ELSE 0]]

SeNext ==
    \E c \in SeClients :
        \/ \E k \in SeCodes, row \in SeRows : ChangeKeyboardMapping(c, k, row)
        \/ \E k \in SeCodes, row \in SeRows, selected \in BOOLEAN : SetMap(c, k, row, selected)
        \/ TellMapping(c)
        \/ ReadMapping(c)
        \/ \E map \in {<<3>>, <<2, 1, 3>>} : SetPointerMapping(c, map)
        \/ \E insert \in BOOLEAN, h \in SeHosts : ChangeHosts(c, insert, h)
        \/ \E click \in {50, 200}, mode \in 0..2, led \in {{}, {1}, {4}} :
              ChangeKeyboardControl(c, click, mode, led)

SeSpec == SeInit /\ [][SeNext]_seVars

(***************************************************************************)
(* Properties.                                                             *)
(***************************************************************************)
SeTypeOK ==
    /\ seKeymap \in [SeCodes -> SUBSET SeRows] /\ seTelling \subseteq SeClients
    /\ seNotify \in [SeClients -> BOOLEAN] /\ DOMAIN seRead = SeClients /\ seUntold \subseteq SeClients
    /\ seHosts \in [SeClients -> SUBSET SeHosts] /\ seShared \subseteq SeHosts
    /\ seLed \in [SeClients -> SUBSET SeLeds] /\ seClick \in [SeClients -> 0..100]
    /\ sePointer \in [SeClients -> [1..3 -> 1..3]]
    /\ seSteps \in 0..SeMaxSteps

\* A client that reads the mapping again at every notice has the current one,
\* unless a notice is on its way or an XKB SetMap, which tells nobody else,
\* passed it over since it read: no interleaving of two clients' changes, their
\* notices and the reads loses the last change, and one that SetMap left behind
\* is current again after the next notice.
MappingCurrent ==
    \A c \in SeClients \ seUntold :
        seTelling = {} /\ ~seNotify[c] => seRead[c] = GetKeyboardMapping(seKeymap)

\* What is set as modifier mapping is read back: every key code that is not 0,
\* in its order, whatever width the rows had; and the bell stays a percentage.
ModifiersReadBack ==
    /\ \A rows \in [1..2 -> [1..3 -> 0..2]], m \in 1..2 :
           Kept(ModifierRows(ModifierMap(rows))[m], Nat \ {0}) = Kept(rows[m], Nat \ {0})
    /\ \A base \in 0..100, p \in {0, 1, 100, 101, 127, 128, 156, 255} : BellPercent(base, p) \in 0..100
=============================================================================
