----------------------------- MODULE MCXWindows -----------------------------
(***************************************************************************)
(* The components of the X11 server that keep windows: the registries, the *)
(* stacking order, selections, properties and the requests to the window   *)
(* manager, explored one after the other in a single run: winPart chooses  *)
(* the component, the others stay in their initial states.                 *)
(***************************************************************************)
EXTENDS XRegistry, XStacking, XSelection, XProperty, XEwmh, TLC

VARIABLE winPart

\* Each of the two clients has the id of one window.
MCRegOwner == "a" :> "c1" @@ "b" :> "c2"

\* Two windows of one layer, one of them transient for the other, and one above.
MCStLayerOf == "w1" :> 2 @@ "w2" :> 2 @@ "w3" :> 3
MCStTransient == "w2" :> "w1"
MCStPlace == "w1" :> 1
MCStHints == [min |-> 2, max |-> 4, inc |-> 2, base |-> 0]

\* Changes of two properties, one of them with two formats.
MCChange(atom, mode, fmt, n) == [atom |-> atom, mode |-> mode, fmt |-> fmt, data |-> <<n>>]
MCPrChanges == {MCChange("NAME", "Replace", 8, 1), MCChange("NAME", "Append", 8, 2),
                MCChange("NAME", "Prepend", 32, 1),
                MCChange("STRUT", "Replace", 32, 1), MCChange("STRUT", "Append", 32, 2)}

WinInit ==
    /\ winPart \in {"registry", "stacking", "selection", "property", "ewmh"}
    /\ RegInit /\ SlInit /\ PrInit
    /\ EwInit /\ (winPart # "ewmh" => ewGeo = [x |-> 1, w |-> 2] /\ ewScreen = 4)
    /\ StInit /\ (winPart # "stacking" => stOrder = <<"w1", "w2", "w3">>)

WinNext ==
    /\ UNCHANGED winPart
    /\ \/ winPart = "registry"  /\ RegNext /\ UNCHANGED <<stVars, slVars, prVars, ewVars>>
       \/ winPart = "stacking"  /\ StNext  /\ UNCHANGED <<regVars, slVars, prVars, ewVars>>
       \/ winPart = "selection" /\ SlNext  /\ UNCHANGED <<regVars, stVars, prVars, ewVars>>
       \/ winPart = "property"  /\ PrNext  /\ UNCHANGED <<regVars, stVars, slVars, ewVars>>
       \/ winPart = "ewmh"      /\ EwNext  /\ UNCHANGED <<regVars, stVars, slVars, prVars>>

winVars == <<winPart, regVars, stVars, slVars, prVars, ewVars>>
WinSpec == WinInit /\ [][WinNext]_winVars

\* The state of every component has its type.
WindowsTypeOK ==
    /\ winPart = "registry"  => RegTypeOK
    /\ winPart = "stacking"  => StTypeOK
    /\ winPart = "selection" => SlTypeOK
    /\ winPart = "property"  => PrTypeOK
    /\ winPart = "ewmh"      => EwTypeOK

\* What is kept about a window stays whole: its owner's properties and their shared
\* copies agree and are read back in pieces without loss, an enlarged window comes
\* back to its place, its pixels fit it, and an event finds the nearest window that
\* selected it.
WindowDataCoherent ==
    /\ winPart = "property" => OwnerCoherent /\ PiecesWhole
    /\ winPart = "ewmh"     => GeometryRestored /\ FramebufferFits /\ DeliveredNearest
=============================================================================
