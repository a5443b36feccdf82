---------------------------- MODULE MCXResources ----------------------------
(***************************************************************************)
(* The components of the X11 server that keep drawables and the resources  *)
(* around them, explored one after the other in a single run: part chooses *)
(* the component, the others stay in their initial states.                 *)
(***************************************************************************)
EXTENDS XDraw, XGc, XRender, XGlx, XSync, XRegion, XColor

VARIABLE part

\* Graphics contexts: plain, reversible, and with a clip, a pattern or a plane mask.
MCGc(fn, all, clip, style, lw, inferiors) ==
    [fn |-> fn, all |-> all, clip |-> clip, style |-> style, lw |-> lw, inferiors |-> inferiors]
MCDrGcs == {MCGc("copy", TRUE, {}, "solid", 1, FALSE),
            MCGc("xor", TRUE, {}, "stippled", 1, TRUE),
            MCGc("copy", TRUE, {<<1, 1>>}, "tiled", 1, FALSE),
            MCGc("copy", TRUE, {<<0, 0>>}, "opaque", 3, FALSE),
            MCGc("invert", FALSE, {<<0, 1>>}, "solid", 1, FALSE)}
MCDrXs == {-1, 1}
MCDrRegions == {{}, {<<1, 1>>}, {<<-1, 2>>, <<5, 1>>}}

\* Dash lists: none, of even and odd length, with an empty dash.
MCGcDashes == {<<>>, <<1, 2>>, <<2>>, <<0, 1>>, <<1, 2, 1>>}

\* A large rectangle, one inside it, an empty one, and one across its edge.
MCRect(x, y, w, h) == [x |-> x, y |-> y, w |-> w, h |-> h]
MCRgRects == {MCRect(0, 0, 3, 3), MCRect(1, 1, 1, 1), MCRect(1, 0, 0, 2), MCRect(-1, 1, 3, 1)}

\* Numbers of colours and planes: one of them a multiple of the u16 range.
MCClCounts == {<<1, 0>>, <<1, 1>>, <<1, 16>>, <<3, 0>>}

MCParts == {"draw", "gc", "render", "glx", "sync", "region", "color"}

MCInit ==
    /\ part \in MCParts
    /\ DrInit /\ (part # "draw" => drGc = MCGc("copy", TRUE, {}, "solid", 1, FALSE))
    /\ GcInit /\ RnInit /\ GlInit /\ SyInit /\ RgInit
    /\ ClInit /\ (part # "color" => clPix = [p \in ClPixmaps |-> {}])

MCNext ==
    /\ UNCHANGED part
    /\ \/ part = "draw"   /\ DrNext /\ UNCHANGED <<gcVars, rnVars, glVars, syVars, rgVars, clVars>>
       \/ part = "gc"     /\ GcNext /\ UNCHANGED <<drVars, rnVars, glVars, syVars, rgVars, clVars>>
       \/ part = "render" /\ RnNext /\ UNCHANGED <<drVars, gcVars, glVars, syVars, rgVars, clVars>>
       \/ part = "glx"    /\ GlNext /\ UNCHANGED <<drVars, gcVars, rnVars, syVars, rgVars, clVars>>
       \/ part = "sync"   /\ SyNext /\ UNCHANGED <<drVars, gcVars, rnVars, glVars, rgVars, clVars>>
       \/ part = "region" /\ RgNext /\ UNCHANGED <<drVars, gcVars, rnVars, glVars, syVars, clVars>>
       \/ part = "color"  /\ ClNext /\ UNCHANGED <<drVars, gcVars, rnVars, glVars, syVars, rgVars>>

mcVars == <<part, drVars, gcVars, rnVars, glVars, syVars, rgVars, clVars>>

MCSpec == MCInit /\ [][MCNext]_mcVars

\* The state of every component has its type.
ResourcesTypeOK ==
    /\ part = "draw"   => DrTypeOK
    /\ part = "gc"     => GcTypeOK
    /\ part = "render" => RnTypeOK
    /\ part = "glx"    => GlTypeOK
    /\ part = "sync"   => SyTypeOK
    /\ part = "region" => RgTypeOK
    /\ part = "color"  => ClTypeOK

\* No pixel of a window changes unseen: whatever core drawing, RENDER or GLX change
\* is marked for the browser, and the damage of a client covers it.
EveryChangeMarked ==
    /\ part = "draw"   => PixelsReported /\ DamageCovers
    /\ part = "render" => RnReported
    /\ part = "glx"    => GlReported

\* The computations of the drawing requests agree with their definitions: clips
\* follow the graphics context, dashes and exposures are exact, region lists cover
\* what they stand for, compositing stays within its range, and GLX commands are
\* taken from a buffer one after the other by decoders that read no further.
DrawingAlgorithms ==
    /\ part = "draw"   => ExposuresExact
    /\ part = "gc"     => ClipCoherent /\ DashesAgree
    /\ part = "render" => ZeroSafe /\ ColourWithinAlpha /\ RepeatInside
    /\ part = "region" => RegionExact /\ ShapeOpsExact
    /\ part = "glx"    => WalkContiguous /\ DecodersInside

\* Colour cells are handed out once and show the colour asked for.
ColourCells == part = "color" => ColoursShown /\ CellsSound /\ CursorsKnown

\* Resources live through their states: context tags stay distinct, nobody waits for
\* what has come, and an alarm without a delta fires once.
ResourceLifecycles ==
    /\ part = "glx"    => TagsDistinct
    /\ part = "sync"   => WaitsJustified /\ AlarmsOnce
=============================================================================
