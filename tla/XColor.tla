------------------------------- MODULE XColor -------------------------------
(***************************************************************************)
(* Colormaps and cursors of one connection.  A colormap has a class; the   *)
(* indexed classes keep a table of cells of which some are allocated, and  *)
(* a position where the next search starts.  A cursor is kept twice, by    *)
(* its name in cursors and by its picture in cursor_info.                  *)
(*                                                                         *)
(* Abstracted: a colour is one channel of two digits to base four, 0..15;  *)
(* a pixel of the direct classes is its upper digit, as the upper byte is  *)
(* in the code.  Tables have four cells.  A cursor's picture is one pixel. *)
(* The numbers of colours and planes keep the width of the code.           *)
(***************************************************************************)
EXTENDS Integers, FiniteSets, Sequences

CONSTANTS ClMaps,        \* colormap ids of the client
          ClRoot,        \* ROOT_COLORMAP, which has no entry of its own
          ClClasses,     \* classes of the visuals in use
          ClColours,     \* colours of the requests
          ClCounts,      \* <<colours, planes>> of the cell requests
          ClMaxMaps,     \* resource_limits.max_colormaps
          ClCursors,     \* cursor ids
          ClPixmaps,     \* pixmap ids
          ClMaxSteps     \* bound on the number of requests

VisualClasses ==
    {"static_gray", "gray_scale", "static_color", "pseudo_color", "true_color", "direct_color"}

\* A colour has sixteen values, and the requests carry numbers that are not negative.
ASSUME ClAssumption ==
    /\ ClClasses \subseteq VisualClasses
    /\ ClColours \subseteq 0..15 /\ ClCounts \subseteq Nat \X Nat

ClCells == 0..3

VARIABLES
    clMap,        \* clMap[m]: {} or {[class, entry, alloc, next]}
    clInstalled,  \* installed_colormaps
    clNotes,      \* the ColormapNotify events of the last request
    clCss,        \* the keys of cursors
    clInfo,       \* clInfo[c]: {} or {[src, mask, fg, bg, image, name]}
    clBare,       \* cursors named after an animation none of whose frames was known (history)
    clPix,        \* clPix[p]: {} or {the pixel of the bitmap}
    clSteps

clVars == <<clMap, clInstalled, clNotes, clCss, clInfo, clBare, clPix, clSteps>>

(***************************************************************************)
(* One colormap.                                                           *)
(***************************************************************************)
Writable(c) == c.class \in {"gray_scale", "pseudo_color", "direct_color"}

\* The ramp of the indexed classes; StaticColor's table is coarser.
InitialEntry(class) ==
    [i \in ClCells |-> IF class = "static_color" THEN ((i \div 2) * 15) ELSE (i * 15) \div 4]

NewColormap(class) ==
    [class |-> class, entry |-> InitialEntry(class), next |-> 0,
     alloc |-> IF class \in {"static_gray", "static_color"} THEN ClCells ELSE {}]

\* The colour of a pixel: through the table, or its digit doubled.
Lookup(c, pixel) == IF c.class = "true_color" THEN pixel * 5 ELSE c.entry[pixel]

Distance(a, b) == IF a > b THEN a - b ELSE b - a
LeastCell(S) == CHOOSE i \in S : \A j \in S : i <= j

Nearest(c, v) ==
    LeastCell({i \in ClCells : \A j \in ClCells : Distance(v, c.entry[i]) <= Distance(v, c.entry[j])})

\* A slip: the search position runs past the last cell.
TakenPastEnd(c, i, v) == [c EXCEPT !.entry[i] = v, !.alloc = @ \cup {i}, !.next = i + 1]

Taken(c, i, v) == [c EXCEPT !.entry[i] = v, !.alloc = @ \cup {i}, !.next = (i + 1) % 4]

\* The pixel of a colour, with the colormap afterwards; got is {} when every
\* cell is in use.
AllocColor(c, v) ==
    LET same == {i \in c.alloc : c.entry[i] = v}
        free == {k \in ClCells : (c.next + k) % 4 \notin c.alloc}
        i == (c.next + LeastCell(free)) % 4
    IN  CASE c.class \in {"true_color", "direct_color"}  -> [map |-> c, got |-> {v \div 4}]
          [] c.class \in {"static_gray", "static_color"} -> [map |-> c, got |-> {Nearest(c, v)}]
          [] OTHER -> IF same # {} THEN [map |-> c, got |-> {LeastCell(same)}]
                      ELSE IF free = {} THEN [map |-> c, got |-> {}]
                      ELSE [map |-> Taken(c, i, v), got |-> {i}]

\* The first n free cells; fewer when there are not so many.
FirstFree(c, n) ==
    {i \in ClCells \ c.alloc : Cardinality({j \in ClCells \ c.alloc : j < i}) < n}

\* A slip: the cells of a failed allocation stay marked.
AllocCellsKeeps(c, n) ==
    LET cells == FirstFree(c, n)
        marked == [c EXCEPT !.alloc = @ \cup cells]
    IN  IF ~ Writable(c) THEN [map |-> c, got |-> {}]
        ELSE IF Cardinality(cells) < n THEN [map |-> marked, got |-> {}]
        ELSE [map |-> marked, got |-> {cells}]

\* Cells are marked as they are found, and given back when they are too few.
AllocCells(c, n) ==
    LET cells == FirstFree(c, n)
        marked == [c EXCEPT !.alloc = @ \cup cells]
    IN  IF ~ Writable(c) THEN [map |-> c, got |-> {}]
        ELSE IF Cardinality(cells) < n THEN [map |-> [marked EXCEPT !.alloc = @ \ cells], got |-> {}]
        ELSE [map |-> marked, got |-> {cells}]

\* The first run of n free cells.
AllocCellsContiguous(c, n) ==
    LET starts == {s \in ClCells : s + n <= 4 /\ s..(s + n - 1) \cap c.alloc = {}}
        s == LeastCell(starts)
    IN  IF ~ Writable(c) THEN [map |-> c, got |-> {}]
        ELSE IF n = 0 THEN [map |-> c, got |-> {{}}]
        ELSE IF starts = {} THEN [map |-> c, got |-> {}]
        ELSE [map |-> [c EXCEPT !.alloc = @ \cup (s..(s + n - 1))], got |-> {s..(s + n - 1)}]

\* The number of cells is computed in full and passed on as a u16.
TotalColors(n, planes) == (n * 2 ^ planes) % 65536

(***************************************************************************)
(* Requests on colormaps.  The root colormap is valid everywhere and keeps *)
(* nothing.                                                                *)
(***************************************************************************)
ClStep == clSteps < ClMaxSteps /\ clSteps' = clSteps + 1
ClQuiet == clNotes' = <<>>
clCursorVars == <<clCss, clInfo, clBare, clPix>>

ClInit ==
    /\ clMap = [m \in ClMaps |-> {}] /\ clInstalled = {ClRoot} /\ clNotes = <<>>
    /\ clCss = {} /\ clInfo = [c \in ClCursors |-> {}] /\ clBare = {}
    /\ clPix \in [ClPixmaps -> {{}, {0}, {1}}]
    /\ clSteps = 0

Live == {m \in ClMaps : clMap[m] # {}}
Known(m) == m \in {ClRoot} \cup Live
MapTo(m, c) == clMap' = [clMap EXCEPT ![m] = {c}]

\* An id in use is not refused: the colormap is replaced.
CreateColormap(m, class, all) ==
    /\ ClStep /\ ClQuiet
    /\ Cardinality(Live) < ClMaxMaps
    /\ LET c == NewColormap(class)
       IN  MapTo(m, IF all /\ Writable(c) THEN [c EXCEPT !.alloc = ClCells] ELSE c)
    /\ UNCHANGED <<clInstalled, clCursorVars>>

FreeColormap(m) ==
    /\ ClStep /\ ClQuiet
    /\ Known(m)
    /\ clMap' = [k \in ClMaps |-> IF k = m THEN {} ELSE clMap[k]]
    /\ clInstalled' = clInstalled \ {m}
    /\ UNCHANGED clCursorVars

\* The copy is made first, so a copy onto the source frees the copy's cells too.
CopyColormapAndFree(m, src) ==
    /\ ClStep /\ ClQuiet
    /\ Known(src)
    /\ LET copies == IF src = ClRoot THEN {NewColormap("true_color")} ELSE clMap[src]
           copied == [clMap EXCEPT ![m] = copies]
       IN  clMap' = [k \in ClMaps |->
                        IF k = src THEN {[c EXCEPT !.alloc = {}] : c \in copied[k]} ELSE copied[k]]
    /\ UNCHANGED <<clInstalled, clCursorVars>>

InstallColormap(m) ==
    /\ ClStep /\ Known(m)
    /\ clInstalled' = clInstalled \cup {m}
    /\ clNotes' = <<<<m, "Installed">>>>
    /\ UNCHANGED <<clMap, clCursorVars>>

\* The root colormap stays installed, though its removal is reported.
UninstallColormap(m) ==
    /\ ClStep /\ Known(m)
    /\ clInstalled' = IF m = ClRoot THEN clInstalled ELSE clInstalled \ {m}
    /\ clNotes' = <<<<m, "Uninstalled">>>>
                  \o (IF m = ClRoot THEN <<>> ELSE <<<<ClRoot, "Installed">>>>)
    /\ UNCHANGED <<clMap, clCursorVars>>

\* AllocColor of the root colormap and AllocNamedColor change nothing.
AllocColorIn(m, v) ==
    /\ ClStep /\ ClQuiet
    /\ \E c \in clMap[m] : MapTo(m, AllocColor(c, v).map)
    /\ UNCHANGED <<clInstalled, clCursorVars>>

AllocColorCells(m, n, planes, contiguous) ==
    /\ ClStep /\ ClQuiet
    /\ n # 0 /\ planes <= 24
    /\ \E c \in clMap[m] :
          /\ Writable(c)
          /\ MapTo(m, IF contiguous THEN AllocCellsContiguous(c, TotalColors(n, planes)).map
                      ELSE AllocCells(c, TotalColors(n, planes)).map)
    /\ UNCHANGED <<clInstalled, clCursorVars>>

\* AllocColorPlanes: the planes of the three channels together.
AllocColorPlanes(m, n, planes, contiguous) == AllocColorCells(m, n, planes, contiguous)

\* Cells are not counted: one FreeColors frees a cell however often it was given.
FreeColors(m, i) ==
    /\ ClStep /\ ClQuiet
    /\ \E c \in clMap[m] : Writable(c) /\ MapTo(m, [c EXCEPT !.alloc = @ \ {i}])
    /\ UNCHANGED <<clInstalled, clCursorVars>>

\* Any cell of a writable colormap can be stored to, allocated or not.
StoreColors(m, i, v) ==
    /\ ClStep /\ ClQuiet
    /\ \E c \in clMap[m] : Writable(c) /\ MapTo(m, [c EXCEPT !.entry[i] = v])
    /\ UNCHANGED <<clInstalled, clCursorVars>>

\* StoreNamedColor: a name nobody knows is passed over.
StoreNamedColor(m, i, named) ==
    /\ ClStep /\ ClQuiet
    /\ \E c \in clMap[m] : Writable(c) /\ MapTo(m, IF named = {} THEN c ELSE [c EXCEPT !.entry[i] = 15])
    /\ UNCHANGED <<clInstalled, clCursorVars>>

(***************************************************************************)
(* Cursors.                                                                *)
(***************************************************************************)
clColourVars == <<clMap, clInstalled>>
ClNone == {}
ClClear == -1     \* a transparent pixel

\* The picture: {} without its bitmap, else the foreground or background where
\* the mask lets it through.  A mask that is gone lets everything through.
BuildCursorArgb(src, mask, fg, bg) ==
    {IF mask # ClNone /\ clPix[CHOOSE p \in mask : TRUE] = {0} THEN ClClear
     ELSE IF bit = 1 THEN fg ELSE bg : bit \in UNION {clPix[p] : p \in src}}

\* Cursor c is entered in both tables.
Entered(c, info) ==
    /\ clInfo' = [clInfo EXCEPT ![c] = {info}]
    /\ clCss' = clCss \cup {c} /\ clBare' = clBare \ {c}
    /\ UNCHANGED <<clColourVars, clPix>>

\* A picture of its own, without bitmaps to draw it from again.
OwnPicture(image, name) ==
    [src |-> {}, mask |-> {}, fg |-> 0, bg |-> 0, image |-> image, name |-> name]

\* src and mask are {} or {pixmap}.
CreateBitmapCursor(c, src, mask, fg, bg) ==
    /\ ClStep /\ ClQuiet
    /\ c \notin clCss /\ clInfo[c] = {}
    /\ \A p \in src \cup mask : clPix[p] # {}
    /\ Entered(c, [src |-> src, mask |-> mask, fg |-> fg, bg |-> bg,
                   image |-> BuildCursorArgb(src, mask, fg, bg), name |-> ""])

CreateGlyphCursor(c, fg, bg) ==
    /\ ClStep /\ ClQuiet
    /\ c \notin clCss /\ clInfo[c] = {}
    /\ Entered(c, [OwnPicture({}, "") EXCEPT !.fg = fg, !.bg = bg])

\* RENDER's CreateCursor asks for no free id; image is what the source picture
\* resolves to, {} when it does not.
RenderCursor(c, image) ==
    /\ ClStep /\ ClQuiet
    /\ Entered(c, OwnPicture(image, ""))

\* RENDER's CreateAnimCursor: the frames that have a picture, or else the entry of
\* the first one.  When that is unknown too, or there is no frame, the cursor
\* is entered by name only.
RenderAnimCursor(c, frames) ==
    LET pictured == {k \in DOMAIN frames : \E i \in clInfo[frames[k]] : i.image # {}}
        first == LeastCell(pictured)
        shown == IF pictured # {} THEN {OwnPicture(i.image, "") : i \in clInfo[frames[first]]}
                 ELSE IF frames # <<>> THEN clInfo[frames[1]] ELSE {}
    IN  /\ ClStep /\ ClQuiet
        /\ clInfo' = IF shown = {} THEN clInfo ELSE [clInfo EXCEPT ![c] = shown]
        /\ clCss' = clCss \cup {c}
        /\ clBare' = IF shown = {} THEN clBare \cup {c} ELSE clBare \ {c}
        /\ UNCHANGED <<clColourVars, clPix>>

FreeCursor(c) ==
    /\ ClStep /\ ClQuiet
    /\ c \in clCss
    /\ clCss' = clCss \ {c} /\ clInfo' = [clInfo EXCEPT ![c] = {}] /\ clBare' = clBare \ {c}
    /\ UNCHANGED <<clColourVars, clPix>>

\* A bitmap cursor is drawn again, from its pixmaps as they are now.
RecolorCursor(c, fg, bg) ==
    /\ ClStep /\ ClQuiet
    /\ c \in clCss
    /\ clInfo' = [clInfo EXCEPT ![c] =
                    {[i EXCEPT !.fg = fg, !.bg = bg,
                               !.image = IF i.src = {} THEN @ ELSE BuildCursorArgb(i.src, i.mask, fg, bg)]
                     : i \in @}]
    /\ UNCHANGED <<clColourVars, clCss, clBare, clPix>>

\* Naming a cursor nobody made makes an entry for it, without a picture.
SetCursorName(c, name) ==
    /\ ClStep /\ ClQuiet
    /\ clInfo' = [clInfo EXCEPT ![c] =
                    IF @ # {} THEN {[i EXCEPT !.name = name] : i \in @}
                    ELSE {OwnPicture({}, name)}]
    /\ UNCHANGED <<clColourVars, clCss, clBare, clPix>>

\* ds take over what src is; nothing happens when src is unknown.
Replaced(src, ds) ==
    /\ clInfo' = [c \in ClCursors |-> IF c \in ds /\ clInfo[src] # {} THEN clInfo[src] ELSE clInfo[c]]
    /\ clCss' = IF src \in clCss THEN clCss \cup ds ELSE clCss
    /\ clBare' = IF src \in clBare THEN clBare \cup ds ELSE clBare
    /\ UNCHANGED <<clColourVars, clPix>>

ChangeCursor(src, d) == ClStep /\ ClQuiet /\ Replaced(src, {d})

ChangeCursorByName(src, name) ==
    /\ ClStep /\ ClQuiet
    /\ Replaced(src, {c \in ClCursors : \E i \in clInfo[c] : i.name = name})

\* Drawing on, creating or freeing a bitmap, by the drawing requests.
ChangePixmap(p, bits) ==
    /\ ClStep /\ ClQuiet
    /\ clPix' = [clPix EXCEPT ![p] = bits]
    /\ UNCHANGED <<clColourVars, clCss, clInfo, clBare>>

ClMapNext ==
    \/ \E m \in ClMaps \cup {ClRoot} : FreeColormap(m) \/ InstallColormap(m) \/ UninstallColormap(m)
    \/ \E m \in ClMaps :
        \/ \E class \in ClClasses, all \in BOOLEAN : CreateColormap(m, class, all)
        \/ \E src \in ClMaps \cup {ClRoot} : CopyColormapAndFree(m, src)
        \/ \E v \in ClColours : AllocColorIn(m, v)
        \/ \E n \in ClCounts, contiguous \in BOOLEAN :
              AllocColorCells(m, n[1], n[2], contiguous) \/ AllocColorPlanes(m, n[1], n[2], contiguous)
        \/ \E i \in ClCells :
              FreeColors(m, i) \/ (\E v \in ClColours : StoreColors(m, i, v))
              \/ \E named \in {{}, {"red"}} : StoreNamedColor(m, i, named)

ClCursorNext ==
    \/ \E c \in ClCursors :
        \/ \E p \in ClPixmaps, mask \in {{}} \cup {{q} : q \in ClPixmaps} : CreateBitmapCursor(c, {p}, mask, 1, 2)
        \/ CreateGlyphCursor(c, 1, 2)
        \/ \E image \in {{}, {5}} : RenderCursor(c, image)
        \/ \E n \in 0..2 : \E frames \in [1..n -> ClCursors] : RenderAnimCursor(c, frames)
        \/ FreeCursor(c)
        \/ RecolorCursor(c, 3, 4)
        \/ SetCursorName(c, "n")
        \/ ChangeCursorByName(c, "n")
    \/ \E c, d \in ClCursors : ChangeCursor(c, d)
    \/ \E p \in ClPixmaps, bits \in {{}, {0}, {1}} : ChangePixmap(p, bits)

ClNext == ClMapNext \/ ClCursorNext

ClSpec == ClInit /\ [][ClNext]_clVars

(***************************************************************************)
(* Properties.                                                             *)
(***************************************************************************)
ClTypeOK ==
    /\ \A m \in ClMaps : Cardinality(clMap[m]) <= 1
    /\ \A m \in ClMaps : \A c \in clMap[m] :
          c.alloc \subseteq ClCells /\ c.next \in ClCells /\ \A i \in ClCells : c.entry[i] \in 0..15
    /\ clInstalled \subseteq ClMaps \cup {ClRoot}
    /\ clCss \subseteq ClCursors /\ clBare \subseteq clCss
    /\ \A c \in ClCursors : Cardinality(clInfo[c]) <= 1

\* Whatever was allocated, freed and stored before: a colour that is granted is the
\* colour its pixel shows, up to the precision of the class, and it is refused only
\* by a table that is full and does not have it.  A direct colour is never written
\* to the table it is looked up in: it shows while its cell has the ramp's colour,
\* and another one after a StoreColors into that cell.
ColoursShown ==
    \A m \in ClMaps : \A c \in clMap[m] : \A v \in ClColours :
        LET r == AllocColor(c, v)
        IN  CASE c.class = "true_color" -> \A p \in r.got : Distance(Lookup(r.map, p), v) < 4
              [] c.class \in {"static_gray", "static_color"} ->
                   \A p \in r.got, i \in ClCells : Distance(c.entry[p], v) <= Distance(c.entry[i], v)
              [] c.class = "direct_color" -> \A p \in r.got :
                   Distance(Lookup(r.map, p), v) < 5 \/ c.entry[p] # InitialEntry(c.class)[p]
              [] OTHER -> /\ \A p \in r.got : Lookup(r.map, p) = v /\ p \in r.map.alloc
                          /\ (r.got = {}) = (c.alloc = ClCells /\ \A i \in ClCells : c.entry[i] # v)

\* Cells that are handed out were free and are marked from then on; a refusal leaves
\* the colormap as it was and comes only when there is no room: too few free cells,
\* or no run of free cells that is long enough.
CellsSound ==
    \A m \in ClMaps : \A c \in clMap[m] : \A n \in 1..5 :
        LET free == ClCells \ c.alloc
            sound(r) == \/ r.got = {} /\ r.map = c
                        \/ \E cells \in r.got : /\ Cardinality(cells) = n /\ cells \subseteq free
                                                /\ r.map.alloc = c.alloc \cup cells
            a == AllocCells(c, n)
            b == AllocCellsContiguous(c, n)
        IN  Writable(c) => /\ sound(a) /\ (a.got = {} => Cardinality(free) < n)
                           /\ sound(b) /\ (b.got = {} => \A s \in ClCells :
                                              s + n > 4 \/ ~ (s..(s + n - 1) \subseteq free))

\* Only colormaps that exist are installed; a cursor that can be used by name has
\* its entry in cursor_info, unless it stands for an animation none of whose
\* frames was known; and what was drawn from bitmaps has only the two colours.
CursorsKnown ==
    /\ \A m \in clInstalled : Known(m)
    /\ \A c \in clCss : clInfo[c] # {} \/ c \in clBare
    /\ \A c \in ClCursors : \A i \in clInfo[c] :
          i.src # {} => i.image \subseteq {i.fg, i.bg, ClClear}
=============================================================================
