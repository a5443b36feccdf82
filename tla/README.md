# x11-web: a TLA+ verification project

x11-web puts the windows of X11, Wayland and macOS applications on a shared
canvas in the browser.  This directory holds TLA+ models of its concurrent
core and of its X11 server, the TLC runs that check them on small instances
and the TLAPS proofs that hold for every instance.

## 1. Inventory

    application --(X11 / Wayland / macOS)--> sidecar --(QUIC)--> backend
                                                  --(WS, RTC)--> browser

| Component | State it keeps | Operations | Talks to |
|---|---|---|---|
| Wayland compositor (`crates/wayland-server`) | window registry, surface buffers, damage, keyboard focus, `WindowRouter` (consuming flag, frame credit) | surface commit, role create/destroy, state requests, embedder commands, 16 ms render tick | the sidecar through an update channel, a command channel and the shared router |
| Wayland sidecar session (`crates/sidecar-wayland`) | the session's outgoing queue, the encoder, child processes, heartbeat | dial/redial, receive commands, encode and ship frames, return credit | compositor, backend |
| X11 sidecar (`crates/sidecar`) | as above, with pid history | as above | X server, backend |
| macOS sidecar (`crates/sidecar-macos`) | window enumeration, capture streams | enumerate, capture, inject input | WindowServer, backend |
| X11 server: connections (`xserver/connection`, `dispatch.rs`, `mod.rs`) | per connection a request buffer, sequence number, pending events, a blocked Await; the server grab | accept, read a batch, handle, tick, end | X clients, all other X11 parts |
| X11 server: window tree (`handlers/window`, `types/window.rs`, `client/sync_flush.rs`, `window_tree.rs`) | per connection a copy of the tree, one shared map, uuids, redirects; stacking order, geometry | create, destroy, reparent, map, configure, circulate, synchronise | sidecar (window messages) |
| X11 server: properties, selections, window management (`handlers/property*`, `types/selection.rs`, `connection/resize.rs`) | property copies and the fields derived from them; selection owners, the clipboard cache, INCR transfers; EWMH state | change/read/delete/rotate, own/convert/serve, client messages, browser actions | X clients, browser |
| X11 server: input (`grab.rs`, `input.rs`, `client/focus.rs`, `client/xkb_state.rs`, `handlers/input.rs`, `handlers/xkb*`) | grabs and frozen queues, pointer place, focus and its copies, modifiers, controls, mappings | browser input, grab/allow, focus, XTEST, mapping changes | browser, X clients |
| X11 server: drawing (`framebuffer`, `handlers/drawing*`, `handlers/render`, `handlers/glx`, `present.rs`, `shm.rs`, ...) | framebuffers with a dirty rectangle, graphics contexts, pictures, GLX contexts, damage objects | all drawing requests, frame flush | OSMesa, sidecar (pixels) |
| X11 server: resources (`handlers/sync`, `handlers/xfixes`, `shape.rs`, `types/colormap.rs`, `color.rs`) | counters, alarms, fences, regions, shapes, colormaps, cursors | their requests | X clients |
| X11 server: RECORD (`handlers/record.rs`, `client/record.rs`) | contexts, once per connection and once in a table all connections read | make, register, enable, disable, free; interception of all traffic | every X11 connection, through their channels |
| X11 server: other extensions (XI2, XIM, fonts, RandR, XVideo, menus, ...) | constant or last-set values, font files | see section 7 | X clients |
| Wire (`crates/wire`, `ws-wire`, `rtc-wire`) | connection, heartbeat, codec tables | handshake, framing, conversion | sidecars, backend, browser |
| Backend hub (`crates/backend/src/main.rs`, `quic.rs`) | sidecars, frontends, window list, process list, spawn origins, per-workspace documents, streaming refcounts, pixel and thumbnail buffers | dispatch of sidecar messages, frontend requests, attach/detach, reconcile, disconnect cleanup | every sidecar and browser |
| Workspace documents (`backend/src/workspace_doc.rs`) | a CRDT document and one sync state per peer | attach/detach of window nodes, sync generate/receive | hub, browsers |
| Media channel (`backend/src/rtc.rs`, `chunking.rs`, `frontend/.../rtcReassembler.ts`) | peer connection, pending chunks, message ids, partial reassemblies | offer/answer, latest-frame-wins drain, chunking, reassembly | hub, browser |
| Frontend (`frontend/src`) | window rows, canvases, document replica, socket | render, input, workspace editing, reconnect | backend |
| Auth, telemetry, pixel codec | tokens; spans; none | verify, export, encode | backend, sidecars |

What is hard about this system, and what the properties are aimed at:

* **two schedules meet in the router.**  The compositor ticks on its own
  thread; the session ships frames from async tasks and can die between any
  two of their steps.  Credit spent by one side must come back from the other,
  or a window freezes for good.
* **damage is consumed before it is delivered.**  A tick drains damage, and the
  frame made from it may be dropped (nobody consuming), delayed (stalled
  window) or lost (dead session).
* **every shared map of the hub has its own lock**, and handlers take several
  of them one after the other; two handlers may interleave between them.
* **the media channel drops, reorders and duplicates**, and the sender skips
  frames on purpose.
* **the X11 server has no single state.**  Every connection is a task with its
  own copy of the windows, properties, focus and settings, reconciled with
  shared maps at certain points; every write to a client is a point where
  other connections run.
* **an X client may end in three ways** (EOF, error, kill), and not all of them
  run the same clean-up.
* **input may be frozen, queued, replayed and thawed** on several paths, and a
  connection itself may stop in the middle of a batch (Await, server grab).
* **only marked pixels reach the browser**: each of some hundred drawing
  routines must mark what it wrote, at clipped, negative and empty extents.
* **lifecycle orders nobody wrote a test for**: a state request before the
  first buffer, a null commit racing a remap, focus on a window being
  destroyed, a process exiting before its X client connects, a selection taken
  over between two chunks of a transfer.

The hazards, each at its line and with the property that covers it, are listed
in `PROJECT.json`.

Properties that make each component correct, and where they are stated:

| Component | It is correct when | Stated in |
|---|---|---|
| Frame credit | frames in flight are bounded; no credit is held by a frame that is gone; no client waits for ever for its callback | `FrameCredit` |
| Wayland compositor | no repaint is lost; the far end converges; focus rests on a live toplevel; the credit scheme is implemented | `WaylandCompositor` |
| Sidecar and hub, spawning | a window lands in the workspace that asked for its program, and only there; it does land; what is destroyed stays gone | `SpawnAttach` |
| Hub, capture control | a macOS window is captured exactly while some document shows it, as long as recounts do not overlap | `StreamControl` |
| Hub, window list | tracker and stacking order agree; frontends end up with the current list | `WindowList` |
| Media channel | only whole frames surface, never an older one; the last one arrives; a joining browser gets every window | `MediaChannel` |
| X11 connections | what was read is handled; nothing passes an Await; sequence numbers do not go back | `XConn` |
| X11 window registries | every shared window is one the backend lists; a client names exactly its own windows; no dead client redirects | `XRegistry` |
| X11 stacking and geometry | the order is a permutation, sorted by layer once sorted; gravity is kept; sizes obey the hints | `XStacking` |
| X11 selections | a paste is the data of one answer, whole and in order, whoever leaves | `XSelection` |
| X11 properties | the owner's copy and the shared copy agree; reading in pieces loses nothing | `XProperty` |
| X11 window management | un-maximising returns to the old place; pixels fit the window; SendEvent reaches the nearest selecting window | `XEwmh` |
| X11 grabs | every input event is delivered once, waits once, or was dropped by a full queue | `XGrabs` |
| X11 pointer and focus | crossings are complete; barriers hold; focus events are complete; keys reach the nearest selecting window | `XPointer`, `XFocus` |
| X11 keyboard and settings | no modifier or repeat is stuck; a listener's idea of the state is the state; every client knows the mapping in force | `XKeyboard`, `XSettings` |
| X11 RECORD | the two copies of a context agree; whoever gets data was told so; nothing is heard of a client before its start or after its death | `XRecord` |
| X11 drawing | every changed pixel is marked; damage covers it; clips, dashes and exposures are exact | `XDraw`, `XGc` |
| RENDER, GLX | the same; blending stays in range; no command is read past its end; tags are distinct; commands reach the client's own context | `XRender`, `XGlxWire`, `XGlx` |
| SYNC, regions, colormaps | nobody waits for what has come; region lists are exact; cells are handed out once | `XSync`, `XRegion`, `XColor` |

## 2. Plan

The modules, in the order they were written, the most important behaviour
first:

1. `FrameCredit`, with `FrameCreditProofs`: the abstract specification of the
   flow control and its proofs.
2. `WaylandCompositor`, with `WaylandProofs`: the detailed compositor, shown to
   implement 1.
3. `MediaChannel` and 4. `SpawnAttach`, each with its `...Proofs`, 5.
   `StreamControl` and 6. `WindowList`, with `HubProofs`: the hub and what it
   exchanges with sidecars and browsers.
7. The X11 server's windows: `XRegistry`, `XStacking`, `XSelection`,
   `XProperty`, `XEwmh`, composed by `MCXWindows`.
8. Its input: `XConn`, `XGrabs`, `XPointer`, `XFocus`, `XKeyboard`,
   `XSettings`, `XRecord`, composed by `MCXInput`.
9. Its drawables and resources: `XDraw`, `XGc`, `XRender`, `XGlxWire`, `XGlx`,
   `XSync`, `XRegion`, `XColor`, composed by `MCXResources`.
10. The proofs about the X11 server: `XWindowsProofs` (the modules of 7),
    `XInputProofs` (those of 8) and `XResourcesProofs` (those of 9).  `XWalks` holds what their operators
    share: walks along parents and lists that are filtered.

Every invariant and every action property that a passing run checks is now
stated by a theorem.  What is worth doing next: a model of XI2's event
selection beside `XPointer`; the hello exchange and redial of `wire`; the second
axis of `XStacking`.

## 3. Modules and the code

`PROJECT.json` maps every definition to its lines.  In all modules one action
is one critical section or one run of code between two awaits that touches no
shared state in between; definitions keep the source's names where they can.
*Regression forms* (slips) stand before the definitions they alter: changes of
a single definition that the properties must catch.

### FrameCredit
The `WindowRouter` (`router.rs`) is shared by the compositor thread and the
sidecar's session.  `pending`, `consuming` are its fields, `streaming` is the
tick's memory of `consuming`.  A tick is split into its beginning (read the
flag, `clear_pending` on an edge), one step per window and its end (frame
callbacks), because the session's tasks run during it.  Client requests run
on the compositor thread and so never inside a tick.  A frame is a count: in
the update channel (`queued`), in the encoder (`coding`), in the session's
queue (`outgoing`).  `carried` is a history variable.

`DetachObserved`: a sidecar redials after `BACKEND_RECONNECT_DELAY` (5 s)
while the tick period is 16 ms, so a tick is taken to have seen
`consuming = FALSE` between two sessions.  The credit scheme depends on it
(the corresponding regression form breaks `CreditBacked`).

### WaylandCompositor
The same two threads with contents.  `entries` joins a `WindowEntry` and its
root `SurfaceBuffer`; pixels are a set of tiles and a frame carries the tiles
for which it is still current, so a commit makes tiles stale wherever a frame
is.  `told` is the map state last reported of a window and `shown` what the
far end has.  `TickUnmap`, `TickNoBuffer`, `TickCreate` and `TickPaint`
are the early returns and branches of the tick's loop body.  `Credit` maps
this state to `FrameCredit`; geometry, subsurfaces, popup placement, pointer
and text input are left out.

### MediaChannel
`Paint` and `FanOut` are the two halves of the hub's handling of a `PutImage`
(the cache is written under its lock, then the frame goes to each open
frontend); `ReplayBegin`, `ReplayOne` the task that waits for `dc_opened`;
`Drain` and `Write` the driver; `OnChunk` the browser's `Reassembler`.  `net`
is a set, so order is lost; `Duplicate` delivers without removing, `Lose`
removes without delivering.  `IdSpace` is the range of the 32-bit message id,
and `Recent` says that nothing 2^31 messages old is still in the network.  The
data channel is unordered and does not retransmit; SCTP does not duplicate
user messages, so `Duplicate` is a generalisation the reassembler also
survives.

### SpawnAttach
The operating system (`proc`), the X server's clients and windows, the
sidecar's two channels, its session and process manager, and the hub's maps.
`FindAncestor` is the bounded walk over `/proc`.  A handler of the hub is one
action: the messages of a session are handled one after another and each map
is read and written in one lock section, and the other writers of the same
maps (`Cleanup`, `Detach`, `Request`) are actions of their own.  `SessionDown`
drops the messages that were not handled: the hub handles a delivered message
before it can notice the end of the session.  An exited process is reaped at
once.  `client[c].ws`, `freed` and `gone` are history.

### StreamControl
`reconcile_streaming_after_change` as five steps, `Count`, `Compare`,
`Owners`, `Send`, `Done`, since the document lock, the refcount lock, the
owner map and each send are taken separately; a task per browser and the
sidecar's receive loop run it.  The enumerator is `Appear`, `Vanish` and
`Control`.  `crossed` is a history variable: some task recounted while another
was between its recount and its last send.

### WindowList
`apply_window_lifecycle` per message, then `Build` and `Broadcast` of the list
as further steps; `SidecarGone` may strike a receive loop at any of them, as
`handle_quic_session` drops the future.  A connecting frontend registers,
builds and sends its own first list.  `Retain` is `Vec::retain`, as a pass
over the list (`Kept`).

### X11 server

Every connection of the server is a task.  A request handler runs without
awaiting, so a request, with the synchronisation that ends it, is one action;
where the code locks twice, or writes to a client in between, the action is
split.  Requests refused with an error change nothing unless the module says
otherwise.

The components share little state, and a product of all of them would only
multiply their state spaces.  The three MC modules therefore explore them side
by side (`WinSpec` of `MCXWindows`, `InSpec` of `MCXInput`, `MCSpec` of
`MCXResources`): `winPart`, `inPart` or `part` is chosen in the initial state, the
chosen component moves and the others keep their initial states.  Each property
is about the components whose part it names.

Handlers climb from a window to its parent, descend to the topmost child and
filter lists; every module writes that with the operators of `XWalks` (`Iterate`,
`Walk`, `Kept`, `IndexIn`, `Upwards`, `IsTree`), which are recursive functions and
not recursive operators, so that they can be reasoned about.

| Module | Code | State and actions | Left out |
|---|---|---|---|
| `XRegistry` | `types/window.rs`, `sync_flush.rs`, `handlers/window/*` | `regLocal` is each connection's copy of the tree, `regShared` the shared map, `regListed` what the backend was told; every tree request, `KillClient` of a client and of all that is temporary, look-ups that copy a window, `sync_windows` as `Sync`, the three close-down modes and the ends of a client by EOF, error and panic; `regKilled` is history | geometry, events, focus |
| `XStacking` | `configure.rs`, `map.rs`, `window_tree.rs` | the children of the root in order with layers and transients; `ConfigureWindow` with every stack mode and every refusal, map with the position hint, unmap, circulate, state changes, size hints, gravity, visibility | second axis, borders |
| `XSelection` | `types/selection.rs`, `property/selection.rs`, `property.rs` | shared and local owners, the clipboard cache, the requestor's property; take, release, convert, answer, read, delete, INCR chunks and their time-out, leave | MULTIPLE, INCR run by an owner, other targets |
| `XProperty` | `property/crud.rs`, `sync_flush.rs` | the three copies and the derived fields; change in the three modes, delete, rotate, read with offset and length, push and pull; `ServerWrites` for what the server writes into one copy (WM_STATE, _NET_WM_STATE, frame extents, user time, selection answers); `prForeign` is history | types, events |
| `XEwmh` | `property/event.rs`, `connection/resize.rs`, `input.rs` | one managed window's states, geometry, saved geometry, framebuffer; the client messages, `ConfigureWindow` with its late refusals, browser resize, minimise, close; `SendEvent` as a function of a chain of windows | drag messages, ping |
| `XConn` | `connection/mod.rs`, `core.rs`, `event.rs` | per connection the socket, the batch, the sequence number, the Await and the event queue; the server grab; read, gate, handle one, tick, write, end | byte order, lengths |
| `XGrabs` | `grab.rs` | modes of active grabs, passive grabs, frozen queues, pending list, wire; grab, ungrab, `AllowEvents` in eight modes, input, automatic release, the end of a batch that drops the oldest pending events | event fields |
| `XPointer` | `input.rs`, `xfixes/barrier.rs`, `client/helpers.rs` | where the pointer is, the last window entered, what the client was told, grabs and barriers; the browser's motion and buttons in coordinates of its window, the motion that is skipped for a later one, `WarpPointer`, XTEST and MouseKeys, map, unmap, destroy; `ptLeak`, `ptMisled` are history | XI2 |
| `XFocus` | `client/focus.rs`, `handlers/input.rs` | shared focus and each client's copy, the browser's idea; set, revert, click, look-ups that copy a window, destroy; focus events as operators | |
| `XKeyboard` | `client/xkb_state.rs`, `handlers/xkb*`, `xtest.rs` | keys and MouseKeys buttons down, base/latched/locked modifiers and group, controls, repeat, compose buffer; `kbClean` is history | keymap tables |
| `XSettings` | `handlers/input.rs`, `security.rs` | keyboard mapping, changed by core requests and by XKB SetMap, modifier and pointer mappings, keyboard control, access list; `seUntold` is history | |
| `XRecord` | `handlers/record.rs`, `client/record.rs`, `connection/mod.rs` | contexts on the connection and in the table, channels and pending events; the five requests that change a context, each intercepted before and its answer after it is handled; traffic, connect, close and loss of a connection | bytes, sequence numbers |
| `XDraw` | `framebuffer/*`, `handlers/drawing/*`, `present.rs`, `dbe.rs`, `shm.rs`, `composite.rs`, `damage.rs` | a window with its outline and what backing store kept of it, its child, a pixmap and a back buffer with dirty intervals, what the browser shows, one connection's damage; each drawing request by the columns it may change and marks; `drMissed` collects what is changed without being marked (below) | fill rules, arcs, glyph bitmaps |
| `XGc` | `drawing/gc.rs`, `types/gc.rs` | graphics contexts and the three forms of the clip, a region of XFIXES among the ways to set it; the dash walk | plain attributes but one |
| `XRender` | `handlers/render/*`, `xc_misc.rs` | pictures, fills, gradients, glyph sets, the window's pixels, recycled ids; compositing as arithmetic on one channel | filters, transforms |
| `XGlxWire` | `handlers/glx/render/*`, `single_query.rs` | the walk over commands; a table of what each decoder requires, reads and hands to the GL, for counts of either sign | what a command means |
| `XGlx` | `handlers/glx/*`, `osmesa/mod.rs` | contexts, tags, drawables, pictures, what each thread has current; a request runs on some thread, and OSMesa may be missing or refuse (`ok`) | the GL itself |
| `XSync` | `handlers/sync/*` | counters with wrapping values, alarms, fences, Await | priorities |
| `XRegion` | `xfixes/region.rs`, `types/region.rs`, `shape.rs` | lists of rectangles in two dimensions beside the set of points they stand for | |
| `XColor` | `types/colormap.rs`, `color.rs`, `xfixes/cursor.rs`, `render/picture.rs` | cells, hints, the installed list, cursors of core, XFIXES and RENDER and their pictures | named colours |

## 4. Runs

All states of each instance are explored.  Bounds (`Max...`, `NetCap`,
`Losses`) only cap inputs.  Runs whose inputs run out stop, hence
`CHECK_DEADLOCK FALSE` there; `FrameCredit` and `WaylandCompositor` keep
ticking and are checked for deadlock.

| Run | Instance | Result |
|---|---|---|
| `frame_credit` | 2 windows, credit 2, 2 sessions | `InFlightBounded`, `CreditBacked`, `CallbackReleased` hold |
| `wayland` | 2 toplevels, 1 tile, 2 sizes, credit 1, 2 sessions, 5 inputs | `NoLostDamage`, `FocusValid`, `Converges`, `ImplementsFrameCredit` hold |
| `media_channel` | 1 window, frames of 1-2 chunks, 4 ids, 4 frames | `WholeFrames`, `ReplayCovers`, `NeverGoesBack`, `LastFrameArrives` hold |
| `only_stale_dropped` | 2 windows | violated: draining to the newest entry drops another window's frame |
| `spawn_attach` | 2 pids, 1 client, 1 window, 2 workspaces, 2 requests, 2 sessions | `NoCrossPollination`, `RaceCaughtUp`, `GoneStaysGone`, `ReachesCanvas` hold |
| `stream_control` | 1 browser and the receive loop, 2 workspaces, 2 windows, 3 edits | `SerialCaptureMatches`, `CaptureFollows` hold |
| `capture_matches` | 2 browsers, 1 workspace | violated: an older recount compared last |
| `window_list` | 2 sidecars, 2 windows each, 2 frontends, 5 messages, 2 losses | `OrderConsistent`, `ListFollows` hold |
| `x_windows` | registry: 2 clients, 2 windows, 5 requests; stacking: 3 windows, unbounded requests; selection: 3 clients, 4 steps; properties: 2 clients, 2 names, 4 requests; window manager: 4 requests | `RegistryCoherent`, `PasteDelivers`, `WindowDataCoherent`, `StackingKept` hold (728,723 states) |
| `x_input` | grabs: 2 windows, 3 events, queue of 1, pending list of 2; pointer: 3 windows, one of them away from the origin, 4 points, 2 closed barriers on the two axes; focus: 2 clients, 3 windows of which one belongs to the other client; keyboard: 3 keys, 2 default buttons, 6 steps; connections: 2 clients, 2 requests each; settings: 2 clients, 3 requests; RECORD: 2 clients, one of them untrusted, 7 steps | `EveryEventOnce`, `InputRouting`, `NothingForgotten`, `ConnectionOrder` hold |
| `x_resources` | 3 drawing requests over 5 graphics contexts; 4 requests of RENDER, SYNC, graphics contexts and colormaps each; 5 of GLX by 2 clients on 2 threads; 3 of regions | `EveryChangeMarked`, `DrawingAlgorithms`, `ColourCells`, `ResourceLifecycles` hold (1,181,348 states) |
| `commands_stay_home` | 2 clients, 1 thread | violated: a client without a context renders into another client's |

Each passing run checks its type invariant too.

Why these bounds are enough for the cases in question: two sessions let one
session's leftovers meet the next; two sizes and an unmap give every order of
resize and remap; four ids and four frames (a replay repeats one) make the id
wrap within a run, and the half-space comparison is exercised on both sides of
the wrap; two pids let a launcher fork once, the shortest lineage in which the
ancestor differs from the peer; two workspaces are needed to be in the wrong
one; two windows let the receive loop recount for one of them while a browser
changes the other.  In the registry five requests
suffice for create, redirect, reparent, destroy by the parent's owner and the
end of a client; a selection needs an owner, a requestor and a usurper; a
queue of one is full with the second event; a batch of two requests has one
behind an Await; a thread of two clients has one client's context current
while the other runs, and a second thread lets a context be destroyed away from
where it is current; one barrier on each axis can be met in either order; three
rectangles of a region list overlap, contain and
miss each other; a three-bit counter wraps within four requests;
seven steps let one client make and enable a RECORD context, another enable
and disable it, and the first change it again.

The operator checks among the properties range over inputs of their own rather
than over reachable states: `PiecesWhole` (values of up to nine units read in
pieces of up to four), `DeliveredNearest` (all chains of three windows),
`DashesAgree` and `ExposuresExact`, `ZeroSafe`, `ColourWithinAlpha` (all
operators of the three families, eight-bit channels at chosen levels) and
`RepeatInside`, `WalkContiguous` (all buffers of short commands),
`DecodersInside` (every decoder of the tables at every length up to 140 and every
count from -5 to 5), `ModifiersReadBack`.

The violated properties are quoted from comments of the code; the `findings`
of `PROJECT.json` give the lines.  Two passing properties are narrower than
what the comments say because the wider claim does not hold:
`SerialCaptureMatches` and `CaptureFollows` are about recounts that do not
overlap (with two browsers, or with one and a second window that vanishes, they
may), and `ListFollows` is about frontends that are already connected, one
sidecar and no loss.

Properties of the X11 server have exceptions where the code does not keep the
plain claim.  Each exception is a history variable or a named case of the model,
it ends where the code makes up for it, and everything outside it is checked:

| Property | Exception |
|---|---|
| `SharedListed`, `UuidsFollowOwn` | windows their own client killed (`regKilled`), until they are created again |
| `EastGravityKept` | the step of a `ConfigureWindow` refused after the width (`StHalfDone`) |
| `FramebufferFits` | after such a request or `_NET_MOVERESIZE_WINDOW` (`ewLoose`), until the next resize |
| `OwnerCoherent` | properties written into one copy by the server or by another client (`prForeign`), until the owner writes them or marks the window |
| `EntersNotMissed` | windows a warp said the pointer left (`ptMisled`), until they hear an Enter |
| `BarriersHold` | motions in coordinates of a window that is not at the origin; MouseKeys, which asks no barrier; spans a motion did not ask for and another barrier pushed it into |
| `NoStuckKeys` | after a control or the default button was changed under a pressed key (`kbClean`) |
| `MappingCurrent` | clients an XKB SetMap did not tell (`seUntold`), until the next notice |
| `PixelsReported`, `DamageCovers` | columns changed without a mark (`drMissed`), until they are marked |
| `ClipCoherent` | contexts last given part of another's clip, or a region (`gcPartial`) |
| `ShapeOpsExact` | an operation without a point left removes the shape |
| `DecodersInside` | sizes handed to the GL unchecked; counts -4 to -1 of glPixelMap (`Unchecked`, `Panics`) |
| `ColoursShown` | a direct colour whose cell was stored into |
| `CursorsKnown` | animations without a known frame (`clBare`) |
| `TagsDistinct` | contexts OSMesa refused (`refused`) |

### Regression forms

Each property of a passing run is shown to bite by a slip of one definition,
listed in `PROJECT.json`.  Where a property joins several ideas, further slips
of the same kind stay beside the definition they alter; with each of them in
place the named property fails under the run's own configuration:

| Slip | Module | Property |
|---|---|---|
| `UnmappedKeepsSize` | `WaylandCompositor` | `NoLostDamage` |
| `PartOfWhole`, `MarkWindowLocally` | `XProperty` | `WindowDataCoherent` |
| `EnlargeAgain`, `PropagateLate` | `XEwmh` | `WindowDataCoherent` |
| `ReleaseKeepsRepeat` | `XKeyboard` | `InputRouting` |
| `FrameTickForgets` | `XConn` | `NothingForgotten` |
| `EntryEnabledInPlace`, `CopiedNever` | `XRecord` | `InputRouting` |
| `RemainderNone` | `XDraw` | `EveryChangeMarked` |
| `BlitMarksLess` | `XGlx` | `EveryChangeMarked` |
| `MarkedByBox` | `XRender` | `EveryChangeMarked` |
| `ToClipRectsUnmoved`, `DashStartLate` | `XGc` | `DrawingAlgorithms` |
| `BlendChanWraps`, `ZeroSrcForgetsOut` | `XRender` | `DrawingAlgorithms` |
| `WalkUnchecked`, `DrawMapsShort` | `XGlxWire` | `DrawingAlgorithms` |
| `AfterFiringAgain` | `XSync` | `ResourceLifecycles` |

### Observations made while modelling, which no run checks

The models keep these behaviours as they are; a property that would contradict
one of them is stated so that it does not depend on it.

Hub, sidecars, browser:

* `InFlightBounded` has the term `carried` because `MAX_FRAMES_IN_FLIGHT`
  alone is not a bound on un-shipped frames, as `router.rs:46` would have it:
  what a dead session left in `display_rx` is no longer counted after
  `clear_pending`.
* `emit_state` (`windows.rs:728`) does not ask whether the window was
  announced, so a state requested before the first buffer is reported too
  early for the frontend to apply it, and never again.
* A minimised Wayland window whose `wm_state` changes before it is restored is
  not restored (`input.rs:398`-408): restoring asks for the state `Minimized`.
* `spawned_pid_history` is said to resolve launchers that fork, exit and are
  reaped (`sidecar/src/main.rs:51`).  Once the launcher has exited its child
  belongs to pid 1 and the walk of `find_ancestor_pid` never meets the
  launcher's pid; the window is not attached.
* `pending_spawns` and `spawn_origin` keep the entries of failed spawns and
  lost sessions (`backend/src/main.rs:318`); `spawn_origin` is said to be freed
  on disconnect (`:360`), and `cleanup_sidecar` does not touch it.
* Windows created before a reconnect are dropped by `cleanup_sidecar`
  (`backend/src/main.rs:574`) and not announced again by their sidecar.
* `NoCrossPollination` is checked with `PidReuse = FALSE`.  With `TRUE` it
  fails: both ends keep a pid after its process was reaped, and when the
  kernel hands it out again within the session the window of one program
  resolves to the workspace of another.
* A connecting frontend registers before it builds its first list
  (`backend/src/main.rs:57`, `:805`-810), so an older list may be queued behind
  a newer one; two sidecars broadcasting at once invert their lists in the same
  way; and a session lost between the removal of its last window and the
  broadcast leaves that window on every list, because `cleanup_sidecar`
  (`:609`) then has nothing to drop and skips the broadcast.
* The control channel may open before or after `OpenWorkspace` binds the
  frontend (`backend/src/main.rs:721`); each side skips its sync kick when the
  other has not happened yet.
* After a lost WebSocket `startRtc` returns early while the old
  `RTCPeerConnection` object exists (`useBackendSocket.ts:156`), so the new
  backend session gets no offer.

X11 server, windows and clients:

* The window manager's own `MapWindow` of a redirected window is redirected
  again (`map.rs:55`, against the comment at `map.rs:80`).
* A reparent may close a cycle of parents across two copies of the tree, on
  which the ancestor walks do not end (the status `"hung"` of `XRegistry`);
  `DestroyWindow` of the root is not refused.
* A client that ends by an I/O error leaves its windows listed, its selections
  owned and its router entries in place; an error path may leave the server
  grab held.
* `KillClient` does not end a client (`handlers/input.rs:1141`): it takes the
  client's windows out of the caller's copy and, when the caller kills itself, from
  its uuids and routes, and says they are destroyed, but the shared map keeps them and
  the next synchronisation brings them back without uuids.  Of
  `AllTemporary` (`:1096`) nothing marked is spared, neither the root nor windows
  of clients that are connected, since `RetainTemporary` marks every window of the
  leaving client's copy.  `RetainPermanent` (`connection/mod.rs:921`) leaves routes and
  lists as they were.
* The redirect is looked up before the request runs and may be gone when the
  event is sent; `shared_focus` may name a destroyed window.
* `ConfigureWindow` refuses a width of zero ("width must be non-zero",
  `configure.rs:412`) and may then set one: rounding down to `width_inc` without a
  base or a minimum turns a width below one step into zero
  (`configure.rs:419`-441).  The type invariant of `XStacking` allows for it.
* The Expose count underflows for a resize without exposed rectangles
  (`configure.rs:1113`); `ConfigureWindow` may fail after it has changed part
  of the window (`:448`, `:487`): children do not follow the new width and
  the framebuffer keeps the old one; mapping and circulating do not recompute the visibility of
  siblings.
* The deferred path of BIG-REQUESTS neither strips the extended length nor
  synchronises windows.
* The previous owner of a selection is not told when two clients take it at
  once; MULTIPLE notifies before the owner answered; an answer that comes late
  re-creates a clipboard cache that was superseded; a transfer dropped after five
  seconds, or above the limit of a hundred, stops a paste without a word to the
  requestor (`client/helpers.rs:103`).
* `RotateProperties` stays local; `GetProperty` with delete tells only the
  reader; a copy pushed by another client resurrects deleted properties;
  derived fields outlive the property they came from; what the server writes into
  one copy (`event.rs:177`, `focus.rs:458`, `connection/mod.rs:1878`) stays there until
  a map, an unmap or a change by the owner marks the window.
* `_NET_MOVERESIZE_WINDOW` leaves the framebuffer's size; client messages do
  not update `WM_STATE`; the work area is computed per connection.

X11 server, input:

* `UngrabPointer` leaves a keyboard its grab froze frozen; a later asynchronous
  grab overtakes the frozen queue; the server grab does not exclude a batch
  that is already running.
* Focus that moves across the tree enters the ancestors of the new window from
  the inside out: the path built at `client/focus.rs:340`-348 already leads down to it
  and the loop at `:154` reverses it.  `FocusEventsComplete` is therefore about
  which windows are told, each once, and in the order the code has.  Both loops also
  run over the whole path, so that windows above the old focus hear a FocusIn too.
* Toggling StickyKeys or MouseKeys while a key is down leaves a latched
  modifier or a repeat; changing `mk_dflt_btn` while KP_5 is down leaves the old
  button pressed (`controls.rs:183`, `connection/mod.rs:1442` against `:1559`).
* The browser's motion is relative to its window (`input.rs:1045`), and barriers and
  confinement compare it with root coordinates as it is; a motion that is
  skipped for a later one stores the relative coordinates as the pointer's
  (`connection/mod.rs:1299`).  MouseKeys takes the root coordinates for relative ones, so
  that each motion or click shifts the pointer by the window's place, and asks
  no barrier.
* Barriers are taken in the order of a hash map: a motion that an upright barrier
  changes may then end beyond a level one that was looked at first.
* A warp within `last_entered_window` reports a bare Leave of the window under the
  pointer (`input.rs:540`-584), which nothing takes back.
* When more events are pending than the limit, the oldest are dropped, input
  included (`connection/mod.rs:1134`-1142).
* XKB SetMap changes the keyboard mapping all clients share and tells only the
  caller (`xkb/map.rs:392`-403).
* The pointer and modifier mappings are per connection though MappingNotify
  goes to all; `ChangeHosts` overwrites the shared access list with a
  connection's copy (`security.rs:21`); `ChangeKeyboardControl` keeps the
  values before the one it refuses.
* An Await on a counter only the waiting client can change waits for ever;
  relative thresholds of Await and alarms are taken as absolute; `SERVERTIME`
  may be set and destroyed.
* RECORD: `RegisterClients` copies the maker's switch over the table
  (`record.rs:442`), so a context enabled from a second connection, the usual
  arrangement, stops when the first registers another client; `EndOfData` goes
  to the client that disables and not to the one that records, and data still
  in the channel follow it; a client that lists itself hears its own traffic
  twice, once for each copy; events sent by clients are never recorded
  (`client/record.rs:17`); the channel's reader replaces the sequence number of
  `EnableContext` that `record.rs:302` promises by the current one; contexts of
  a client lost by an I/O error stay in the table.
* XIM: the reply to `XIM_OPEN` is addressed to a connection stored with window
  0 and dropped, and a forwarded event is longer than the client message that
  would carry it, so neither reaches its handler's end.

X11 server, drawing and resources:

* `PutImage` of a depth other than 24 and of XY formats, arc outlines, mitred
  polylines, projecting caps of wide diagonals (`framebuffer/mod.rs:855` against the
  pad at `drawing.rs:67`), ParentRelative backgrounds, pixels restored from an old
  backing store or with backing planes (`map.rs:205`-211) and a new outline by SHAPE
  change what is to be seen and do not mark it: these are the columns `XDraw`
  collects in `drMissed`.
* `SetGCClipRegion` leaves the bits of the clip mask, which come back when the
  origin is next changed (`xfixes/region.rs:368`-392).
* A clip whose rectangles are all empty, or whose mask is all zero, clips
  nothing; `CopyArea` within one drawable ignores the function; DBE swaps with
  the wrong stride; `ShmPutImage` ignores the graphics context and DAMAGE;
  `PresentPixmap` indexes `copy_rects[0]` (`present.rs:380`); exposures of a
  copy starting right of the source are misplaced (`primitives.rs:213`-218).
* `FreePicture` leaves state of the picture behind (`picture.rs:355`), which a
  recycled id inherits; `ReferenceGlyphSet` copies; triangles, glyphs and
  `AddTraps` report no damage.
* GLX: opcodes 4116 and 4117 are decoded twice, and the decoder of
  `render_draw.rs:1007`/1106 shadows that of `render_texture.rs:616`/640;
  `RenderLarge` requests are not reassembled; a picture keeps its old size after a
  resize; `WaitX` copies BGRA as RGBA; share lists are not shared.
* GLX: the counts -4 to -1 of glPixelMap, cast to `usize`, wrap the sum they are
  checked by in a release build and then ask for a vector nobody can have
  (`render_state.rs:559`-563); the numbers of glCallLists, glDrawArrays, glDrawElements
  and the sizes of images go to the GL without being compared with what came.
* GLX: without OSMesa, or when it refuses a context or a size, a context is bound to its
  drawable and has no picture (`context.rs:205`-207, `osmesa/mod.rs:198`-223); its
  commands go to whatever the thread has current.  A context destroyed on one thread
  stays current on another (`osmesa/mod.rs:292`-299); a command there uses a context
  that was freed, which the model takes to change no picture.
* SHAPE: a union with an unshaped window loses the window's rectangle
  (`shape.rs:373`, against the comment at `:397`), and an empty result counts
  as unshaped; the event selection is keyed by the sequence number.
* `AllocColorCells` truncates colours times planes to 16 bits, so one colour
  with sixteen planes is granted no cell; `FreeColormap` of the root map
  uninstalls it; a direct colour shows what was last stored into its cell and not
  what was granted (`colormap.rs:146`-196); an animated cursor of frames nobody knows
  is entered by name and has no `cursor_info` (`picture.rs:476`-514); a cursor
  recoloured after its pixmap was freed becomes empty.

## 5. Fairness

* Compositor: the 16 ms timer fires and the tick's steps do not block, so
  `TickBegin`, the visits and `TickEnd` are weakly fair.
* Session: its loops are polled by the runtime; `Encoded` and `Ship` are
  weakly fair, `Encode(w)` strongly in `FrameCredit`, which has no queue order
  (in `WaylandCompositor` the channel is a FIFO and weak fairness is enough).
* Media channel: backend tasks are polled, and a chunk in the network is
  delivered or lost.  `LastFrameArrives` excuses the frames the network lost.
* Spawning and capture control: the loops of the running session, the
  backend's receive loop, the reconciling tasks and the enumerator.
* Nothing is fair about users, clients, sessions ending or sessions coming
  back; liveness is stated for the case that the session lasts.
* The modules of the X11 server state no fairness: their properties are
  invariants and action properties, and what must happen eventually (a batch
  behind an Await) is stated as an invariant about where it waits.

## 6. Proofs

TLAPS checks every step.  The theorems hold for every value of the constants
that the named assumptions allow; TLC evaluates the assumptions in the runs.
Almost none of the properties is inductive as it stands; what had to be added
is given for each.

**`FrameCreditProofs`** (`MaxInFlightAssumption`, `MaxSessionsAssumption`,
`NoneAssumption`): `TypeCorrect`, in particular no counter goes below zero;
`CreditInvariant`, action by action, and from it `FlowBounded` and
`NoOrphanCredit`.  `InFlightBounded` is not inductive: emitting a frame is
allowed by `pending`, not by the frames in flight, so `CreditInv` adds that
frames in flight are at most `pending + carried` and `pending` at most the
limit.  For the latter the first frame of a window, which skips the credit
check, needs that an unannounced window has no debt.  `CreditBacked` is vacuous
between sessions; to start the next one with it, `CreditInv` adds that
`pending` is zero whenever the tick does not stream, which with
`DetachObserved` covers `SessionUp`.

**`WaylandProofs`** (`KindsDisjoint`, `SizesPositive`, `WmStatesKnown`,
`BoundsAssumption`, `NoneAssumption`): `WaylandTypeCorrect`,
`WaylandFocusValid`, `WaylandNothingLost`, `WaylandRefinesCredit`, and through
the refinement `WaylandFlowBounded` and `WaylandCreditBacked`.

* `NoLostDamage` is shown tile by tile: each step keeps a tile that is shown,
  damaged or in a current frame in one of the three.  It needs `Announced` (a
  mapped window was announced) and `Fitted` (the framebuffer has the size that
  was reported), without which the frame of a resized window would not cover
  all of it.
* The refinement maps the queues of frames to counts.  Each action of the
  compositor is one of `FrameCredit` or a stutter under `TypeOK` and
  `Untracked` (no credit was spent on a window that is not created); the
  lemmas about `Count` say what sending and receiving does to a count.  Only
  the safety part is refined: `ImplementsFrameCredit` has no fairness.
* `Flow == INSTANCE FrameCreditProofs WITH ...` brings `FrameCredit`'s theorems
  over, so the two bounds hold of the compositor's own queues.

**`SpawnAttachProofs`** (`DepthAssumption`, `ReuseAssumption`,
`BoundsAssumption`, `NoneAssumption`): `SpawnTypeCorrect`,
`SpawnGoneStaysGone`, `SpawnRaceCaughtUp`, `SpawnNoCrossPollination`.

* `GoneStaysGone` rests on the order of messages: `Pipeline` says that the two
  channels in a row never hold a window's creation behind its destruction,
  `Truthful` that what they say has happened, `Forgotten` that the tracker of
  the running session has dropped a window that is gone.
* `RaceCaughtUp` needs that the origin of a program is known by the time a
  client of it is reported (`OriginFirst`), which rests on a request being
  answered once (`OneAnswer`); then `CaughtUp` is kept by either order of the
  two messages.
* `NoCrossPollination` has the hypothesis `~PidReuse`, without which it is false
  (section 4).  `Lineage` says that a program, its parent and the client it
  connects stem from one request, `Provenance` that messages and maps name pids
  of that request, `WindowsMade` that a canvas shows only windows of its own
  requests.  The walk of `FindAncestor` ends at a pid of the history and of the
  same lineage, for any depth (`AncestorRelated`): the first step that left the
  lineage would have to go from a program to a parent of another request.

**`MediaChannelProofs`** (`IdSpaceAssumption`: an even number of ids above two,
as 2^32 is; `PartsAssumption`, `BoundsAssumption`, `NoneAssumption`):
`MediaTypeCorrect`, `MediaReplayCovers`, `MediaWholeFrames`, and the action
property `MediaNeverGoesBack`.

* `Wire` is the heart: every chunk under way has one of the last half of the
  ids given out, chunks with one id are of one frame, and the one message in
  progress is `latestSeen`'s.  `AgeStep` and `OlderAge` turn the code's
  comparison modulo `IdSpace` into an order of ages, on both sides of the wrap.
* `Ordered` says that each window's frames keep their order from the cache
  through queue and chunks to the picture.
* `Covered` says of a running replay what `ReplayCovers` says of a finished one.

**`HubProofs`**, of `StreamControl` (`TasksAssumption`, `EditsAssumption`):
`StreamTypeCorrect`, which includes that only tracked windows are captured, and
`SerialRecountsMatch`, `Spec => []SerialCaptureMatches`, for any number of
browsers.  The invariant `CaptureInv`: while no recounts overlapped, one task at
a time is between recount and last send (`OneSection`); the counts are what the
enumerator will have done once the outstanding commands are sent and the channel
is read (`Foreseen`); and unless a recount is due they are those of the
documents (`Settled`).  `Roster` adds that a window believed shown and still
tracked has an owner, so that the owner lookup skips none of its commands, and
`Prepared` that no task holds a Start and a Stop of one window.  The theorem
says that overlap, which the run `capture_matches` shows to break the claim, is
all that can.

**`HubProofs`**, of `WindowList` (`EarlyAssumption`, `FiniteAssumption`: finitely many
sidecars and windows; `BoundsAssumption`): `WindowListTypeCorrect`,
`WindowOrderConsistent`, `WindowListFollows`.  `Hub` says that the order is a
list without repetitions, of windows of connected sidecars, that holds every
tracked one.  What `Retain` computes is proved first (`RetainKeeps`).  The
induction principles of the library take an operator and cannot be used with
the provers at hand; `SetInduction` derives the form about a set of numbers from
`WFMin`, and that form can.  `FollowInv` says of the broadcast under way what
`ListFollows` says of a hub at rest.

**`XWindowsProofs`** (`RegAssumption`, `StAssumption`, `PrAssumption`, which say what
the constants are): `RegistriesCoherent`, `PastesWhole`; of `WinSpec`, which the run
`x_windows` checks, `WindowTypesKept`, `LayersStacked`, `WindowDataKept`; and about
operators `PiecesAlwaysWhole` and `SentToNearest`.

* For `RegistryCoherent`, `RegHeld` says that a connected client's ids are those
  of the windows it owns and holds, that the backend knows them all, and that its
  windows in the shared map are among them, so that a pull never brings one back
  that it destroyed; `regKilled` says which windows the exception is about, and
  creating one again ends it.
* For `PasteDelivers`, `Conversion` gives for each phase of a conversion what the
  two copies of the property, the transfer and the requestor's buffer may be:
  before the last value the property holds the chunk after those read, and the
  transfer stands just behind it.
* `StackingKept` is an action property.  Its core is that every restacking yields
  the same windows in another order and that the stable sort by layer leaves no
  window under one of a lower layer; both are proved of the operators, by
  induction over positions, for any number of windows.  For the gravity of the child
  each request is shown to move it or to leave the width alone, but for the
  refused one.
* `WindowDataCoherent` is, with the types, inductive of properties (`PrInv`, with
  `OwnerCoherent`) and of window management (`EwInv`, with `GeometryRestored` and
  `FramebufferFits`).  Its two checks of operators are instances of theorems without
  bounds: `PiecesAlwaysWhole`, that values of any length read in pieces of any length
  come out whole, and `SentToNearest`, that `SendEvent` climbs a chain of any length
  to the nearest window that selects the event and lets it pass.

**`XInputProofs`** (`CnAssumption`, `GrAssumption`, `PtAssumption`, `FcAssumption`,
`KbAssumption`, `SeAssumption`, `RcAssumption`: what the constants are, that the
windows of pointer, focus and grabs form a tree, that the screen is finite):
`GrabsKeepEvents`, `ReadRequestsHandled`, `ConnectionsOrdered` (from `AwaitBlocks` and
`HeardForward`), `CnTypeCorrect`; and of `InSpec`, which the run `x_input` checks,
`InputTypesKept` and `InputGoesWhereMeant`.  It extends `XWindowsProofs` for its lemmas
about numbers, sequences and finite orders.

* For `EveryEventOnce`, `Shared` says that the wire, the two frozen queues and
  the dropped events partition the events that arrived, each list without
  repetitions; thawing, replaying and releasing move events between the parts.
* `CnInv` is `NothingForgotten` with `CnBasic`, the types without the bounds that
  only follow from the order of requests; `CnCounted`, that a connection's grabs,
  events and the number last heard never exceed the requests it handled, which
  `HeardInOrder` rests on; and `CnUnread`, that nothing was read before the
  handshake was over, without which a connection let through the gate could hold
  requests nobody looks at.
* For the pointer, the live windows are closed under parents, the barriers are
  finitely many, and `Believed` holds: every ancestor of the last window entered,
  below the root, was entered before or is one a warp misled the client about.  That
  closed barriers hold is proved of `EnforceBarriers` for every order in which they
  are taken.  Focus needs no more than its types; the
  argument is about two paths to the root, cut where they meet (`XWalks`).
* For the keyboard, `KeysInv` adds to `ListenerFollows` that what a client was told
  of an event it deselected is forgotten.  For RECORD, `RecordInv` says of each
  context that whoever gets its data was told so, also when only the maker's copy is
  switched on, as the next change copies that switch over the table's; and of each
  connection that what it wrote, what is pending and what is in its channel form
  one bracketed history.

**`XResourcesProofs`** (`ClAssumption`: sixteen colours, six visual classes,
numbers that are not negative; `DrAssumption`, `GcAssumption`, `RgAssumption`,
`SyAssumption`: integers and naturals where the wire has them, finite lists of
rectangles; `RnAssumption`: the requests of the state machine use operators that
have no family): `ResourceTypesKept`, `ResourcesLive`, `ColoursHold`,
`ChangesMarked`, `AlgorithmsAgree`, all about `MCSpec`, which the run
`x_resources` checks; and about the operators for arguments of any size
`SubtractExact`, `IntersectExact`, `DecodersStayInside`, `WalkStaysInside`,
`CompositeStaysIn`, `NothingComposited`, `ExposuresAreExact`, `DashesAlwaysAgree`.

* For `ResourceLifecycles`, `GlInv` says that the tags of a client's contexts are
  below the next one and pairwise different, that a context bound to a drawable has its
  Mesa buffer unless it was refused, and `Bound` that a thread's binding carries a tag
  that was given out, whose context, if it still exists, has its buffer; nothing a request
  does to a context changes its tag (`ContextsKept`), and a context dropped on one
  thread leaves the others with a tag no later context gets.  `WaitInv` adds to
  `WaitsJustified` only that waits name
  counters: a request is handled only while nothing is waited for
  (`NothingAwaited`), so that waits meet nothing but the frontend's resize and the
  timer.  `AlarmInv` says that an active alarm without a delta was not told of.
* For `ColourCells`, `MapInv` says that every colormap is a table of four colours
  with a search position inside it.  The claims about allocation are proved of
  every such table and not only of those the run meets: the search from any
  position meets every cell (`SearchMeetsAll`), some cell is nearest
  (`NearestIs`), the first n free cells are n or all (`FirstFreeCount`, where
  `CellCount` writes a cardinality as a sum of four bits).  `CursorInv` adds to
  `CursorsKnown` the form of an entry and that only usable cursors are excepted.
* For `EveryChangeMarked`, `DrInv` says that framebuffers keep their shape
  (`DrShapes`), that what backing store kept of the
  whole of an unmapped window differs from its framebuffer only where that is dirty or
  known to be missed (`SavedKnown`), and that what DAMAGE
  was told lies inside the window (`TouchedInside`).  One relation carries
  the whole proof: every routine lets a framebuffer *grow* (`Grows`): it keeps the
  size, forgets nothing that is dirty and marks what it changes, the
  columns of `drMissed` excepted.  Growing composes, so that a request is a chain of
  routines, and the fold over the rectangles of a clip is an induction on their
  number.  Framebuffers are two or three columns wide, as in the model; contexts,
  clips, positions and widths of requests are arbitrary.  GLX needs
  its types besides; what RENDER reports is inductive itself.
* For `DrawingAlgorithms`: a context whose clip was never copied in part holds
  exactly the rectangles of its bits at its origin (`GcInv`), and every region is a
  finite list that covers exactly its history `rgArea` (`RgInv`: subtraction is a
  fold over the second list, extents are the ends of finite sets, coalescing an
  iteration).  `DashesAlwaysAgree` says that a walk over an odd list of dashes
  stands for a place in the doubled, even one.  `DecodersStayInside` reduces every
  row of the decoders' tables to a few ways of reading that are sound at every
  length and count.  `ExposuresAreExact` has the hypothesis that the copy does not start
  right of the source, where exposures are misplaced (section 4).
* For `ResourcesTypeOK` the types of most variables rest on more than types:
  of counters on one wait at a time (`WaitInv`); of cursors and colormaps on ids
  being used once; of the window's pixels on every source RENDER composes with, a
  solid fill, a gradient, a window or a pixmap, read inside or repeated, being
  premultiplied, so that `CompositeStaysIn` keeps them in range; of the recycled
  ids on those that are free being distinct and unused.

What attempting the proofs changed.  The width that `ConfigureWindow` sets may be
zero, so the type of a width is a natural number; focus events that cross the tree
come in another order than the property used to say, which the instance of the
run was too shallow to show and now is not; the columns a mitred polyline may
leave unmarked depend on the line width, where the model had a constant that is
right for widths one and two only.

Only model-checked: everything that needs fairness (`CallbackReleased`,
`Converges`, `LastFrameArrives`, `ReachesCanvas`, `CaptureFollows`).  Liveness and
`ENABLED` are beyond this version of the prover.

## 7. Not modelled

* XI2 repeats the core event routing with other layouts; XIM is a protocol of
  its own inside client messages, whose replies are lost (see above); fonts are file
  parsing; RandR, VidMode, DPMS,
  the screen saver, Xinerama and X-Resource answer from constants or a
  client's last setting; XVideo copies bytes; the menu tracker talks
  D-Bus; atoms are an insert-only table.
* Within the modelled extensions: raster arithmetic inside the marked extents
  (arc angles, fill rules, glyph bitmaps, filters), the meaning of GL commands
  and the generated bindings, the tables of XKB.
* The pixel codec, authentication (no state between requests), telemetry, the
  Cap'n Proto conversions and the hello exchange, which compares two version
  strings; macOS framework calls.
* Automerge's sync protocol is a library's; the hub's two sync kicks around it
  are described above.  The React canvas and the browser's socket handling are
  a handful of callbacks around rendering.
