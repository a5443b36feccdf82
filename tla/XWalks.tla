------------------------------- MODULE XWalks -------------------------------
(***************************************************************************)
(* Walks along a function and parts of a sequence: the handlers climb from *)
(* a window to its parent, descend to its topmost child and filter lists,  *)
(* and every component that does so writes it with these operators.        *)
(***************************************************************************)
EXTENDS Naturals, Sequences

\* Where n steps along g lead from x.
Iterate(g, x) ==
    LET at[n \in Nat] == IF n = 0 THEN x ELSE g[at[n-1]]
    IN  at

\* The walk along g from x to the first member of End, which is at most N steps away.
Walk(g, x, End, N) ==
    LET at == Iterate(g, x)
        n == CHOOSE i \in 0..N : at[i] \in End /\ \A j \in 0..N : at[j] \in End => i <= j
    IN  [i \in 1..(n + 1) |-> at[i-1]]

\* The members of s that are in S, in their order.
Kept(s, S) ==
    LET part[n \in 0..Len(s)] ==
            IF n = 0 THEN <<>> ELSE IF s[n] \in S THEN Append(part[n-1], s[n]) ELSE part[n-1]
    IN  part[Len(s)]

\* Where x is in s first.
IndexIn(s, x) == CHOOSE i \in DOMAIN s : s[i] = x /\ \A j \in DOMAIN s : s[j] = x => i <= j

\* The tree of parents with its root: every climb ends there within N steps.
Upwards(parent, root) == [v \in DOMAIN parent \cup {root} |-> IF v = root THEN v ELSE parent[v]]
IsTree(parent, root, N) ==
    \E depth \in [DOMAIN parent \cup {root} -> 0..N] :
        \A w \in DOMAIN parent : depth[parent[w]] < depth[w]
=============================================================================
