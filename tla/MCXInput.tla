------------------------------ MODULE MCXInput ------------------------------
(***************************************************************************)
(* The components of the X11 server through which input and the traffic of *)
(* clients pass, explored one after the other in a single run: inPart      *)
(* chooses the component, the others stay in their initial states.         *)
(***************************************************************************)
EXTENDS XGrabs, XPointer, XFocus, XKeyboard, XConn, XSettings, XRecord, TLC

VARIABLE inPart

\* Grabs: a is mapped, b inside it is not.
MCGrParent == "a" :> "r" @@ "b" :> "a"
MCGrPassives == {[win |-> "a", own |-> "Sync", other |-> "Async", code |-> 0, mods |-> "any"],
                 [win |-> "b", own |-> "Async", other |-> "Sync", code |-> 1, mods |-> "none"]}

\* Pointer: a with b inside it, and c to their right.
MCPtParent == "a" :> "r" @@ "b" :> "a" @@ "c" :> "r"
MCPtStack == <<"a", "b", "c">>
MCPtArea == "a" :> {0, 1} @@ "b" :> {1} @@ "c" :> {2}
MCPtModal == "c" :> "a"
MCPtGrabs == {[win |-> "a", owner |-> TRUE, sel |-> TRUE, confine |-> {}],
              [win |-> "b", owner |-> FALSE, sel |-> FALSE, confine |-> {1, 2}]}
MCPtOffset == "a" :> 0 @@ "b" :> 1 @@ "c" :> 2
MCPtPoints == {<<0, 0>>, <<1, 0>>, <<2, 0>>, <<2, 1>>}
MCPtKeyMoves == {<<1, -1>>}
\* Closed barriers: an upright one over row 0, and a level one.
MCPtBarriers == {[axis |-> 1, at |-> 1, from |-> 0, to |-> 0, dirs |-> {}],
                 [axis |-> 2, at |-> 0, from |-> 1, to |-> 2, dirs |-> {}]}

\* Focus: a belongs to one client, its child b and e to the other.
MCFcParent == "a" :> "r" @@ "b" :> "a" @@ "e" :> "r"
MCFcOwner == "a" :> "c1" @@ "b" :> "c2" @@ "e" :> "c2"
MCFcOrder == <<"a", "b", "e">>
MCFcLookUps == {<<"c1", "b">>}

\* Keyboard: a shift key, a lock key and a keypad key.
MCKbMod == "s" :> {"S"} @@ "l" :> {"L"} @@ "k" :> {}
MCKbLatchReqs == {[locks |-> <<{"L"}, {}>>, latches |-> <<{"S"}, {"S"}>>,
                   lockGroup |-> {}, latchGroup |-> {1}]}

\* Keysym rows: one keysym, and more than the first four.
MCSeRows == {<<>>, <<1>>, <<1, 2, 3, 4, 5>>}

\* Ranges: requests of RECORD itself and the lives of clients, and one core request.
MCRange(core, ext, events, errors, life) ==
    [coreRequests |-> core, coreReplies |-> core, extRequests |-> ext, extReplies |-> ext,
     delivered |-> events, device |-> <<0, 0>>, errors |-> errors, started |-> life, died |-> life]
MCRcRanges == {MCRange(<<0, 9>>, <<154, 2, 6>>, <<2, 34>>, <<10, 10>>, TRUE),
               MCRange(<<8, 8>>, <<0, 0, 0>>, <<0, 0>>, <<0, 0>>, FALSE)}
MCRcElements == {[kind |-> "request", major |-> 8, minor |-> 0],
                 [kind |-> "reply", major |-> 8, minor |-> 0],
                 [kind |-> "event", major |-> 2, minor |-> 0],
                 [kind |-> "event", major |-> 130, minor |-> 0]}

InInit ==
    /\ inPart \in {"grabs", "pointer", "focus", "keyboard", "conn", "settings", "record"}
    /\ GrInit /\ PtInit /\ FcInit /\ KbInit /\ CnInit /\ SeInit /\ RcInit

InNext ==
    /\ UNCHANGED inPart
    /\ \/ inPart = "grabs"    /\ GrNext /\ UNCHANGED <<ptVars, fcVars, kbVars, cnVars, seVars, rcVars>>
       \/ inPart = "pointer"  /\ PtNext /\ UNCHANGED <<grVars, fcVars, kbVars, cnVars, seVars, rcVars>>
       \/ inPart = "focus"    /\ FcNext /\ UNCHANGED <<grVars, ptVars, kbVars, cnVars, seVars, rcVars>>
       \/ inPart = "keyboard" /\ KbNext /\ UNCHANGED <<grVars, ptVars, fcVars, cnVars, seVars, rcVars>>
       \/ inPart = "conn"     /\ CnNext /\ UNCHANGED <<grVars, ptVars, fcVars, kbVars, seVars, rcVars>>
       \/ inPart = "settings" /\ SeNext /\ UNCHANGED <<grVars, ptVars, fcVars, kbVars, cnVars, rcVars>>
       \/ inPart = "record"   /\ RcNext /\ UNCHANGED <<grVars, ptVars, fcVars, kbVars, cnVars, seVars>>

inVars == <<inPart, grVars, ptVars, fcVars, kbVars, cnVars, seVars, rcVars>>
InSpec == InInit /\ [][InNext]_inVars

\* The state of every component has its type.
InputTypeOK ==
    /\ inPart = "grabs"    => GrTypeOK
    /\ inPart = "pointer"  => PtTypeOK
    /\ inPart = "focus"    => FcTypeOK
    /\ inPart = "keyboard" => KbTypeOK
    /\ inPart = "conn"     => CnTypeOK
    /\ inPart = "settings" => SeTypeOK
    /\ inPart = "record"   => RcTypeOK

\* Focus events and key events reach the windows they are meant for.
FocusRouting == inPart = "focus" => FocusEventsComplete /\ KeysFindSelector

\* The pointer: crossings are complete and barriers hold.
PointerRouting == inPart = "pointer" => EntersNotMissed /\ BarriersHold

\* The keyboard: nothing is stuck, and a listener follows.
KeyboardSane == inPart = "keyboard" => NoStuckKeys /\ ListenerFollows

\* The mappings: every client was told of the keyboard mapping in force, and the
\* modifier map is read back as it was set.
MappingsKnown == inPart = "settings" => MappingCurrent /\ ModifiersReadBack

\* Recording: the two copies of a context agree, and the client that enabled it was
\* told so and hears of other clients in order.
RecordingSound == inPart = "record" => RecordingAnnounced /\ CopiesAgree /\ LifeBracketed

\* Input reaches the windows it is meant for, under the mappings clients know, and the
\* clients that record it.
InputRouting == FocusRouting /\ PointerRouting /\ KeyboardSane /\ MappingsKnown /\ RecordingSound

=============================================================================
