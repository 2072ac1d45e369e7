# Formal models of wow_client

TLA+ models of the parts of the client that are hard to test: the threads that
load, cull, draw and delete what a frame needs, the reference counts they share,
the life of a tile of the terrain across three threads, the instances of the buildings
and the mutexes taken around them, the order in which a frame
and the shutdown go through them, the connections to the two servers with the
scripts that open and close them in the middle of a tick, and the frames of the
interface with the scripts that change them in the middle of a walk. TLC checks the models
on small instances; TLAPS proves every safety property the passing runs check, and the refinement, for all instances.

Paths below are relative to the repository; `src/` of the repository holds the
client (72,000 lines of C), `shaders/` its shaders and a shader compiler.

## 1. The system

### Threads

| thread | code | what it does |
|---|---|---|
| main | `wow.c:loop` | one frame after another: draws, handles packets and events, initialises what was loaded (it alone has the graphics context), frees |
| 6 workers | `loader.c:loader_run` | read and parse files, delete condemned objects |
| 1 cull thread | `loader.c:loader_cull_run` | moves units, asks for tiles, fills the lists of the next frame |
| audio | `snd/stream.c` | callback of the audio library |

### Components

| component | state | operations | talks to | what makes it correct |
|---|---|---|---|---|
| loader (`loader.c`) | task queues by type, initialisation queues and their buffer, three gc slots, `running` | `loader_push`, `find_task`, `execute_task`, `loader_init_*`, `loader_gc_*`, `loader_tick`, `loader_has_*` | resources, caches, main loop | no task on freed memory, every load ends, every condemned object is deleted once, the shutdown ends |
| cull handshake (`loader.c`) | `cull_ready`, `cull_ended`, mutex, two conditions | `loader_start_cull`, `loader_wait_cull`, `loader_cull_run` | map, frame ring | one culler at a time, no missed wakeup, thread ended before the loader is freed |
| caches (`cache.c`) | per type two maps, key to entry and address to entry; counts | `cache_ref_by_key`, `cache_ref_by_ref`, `cache_unref_by_ref`, with and without the lock | constructors and destructors of resources | count = number of owners; destructor exactly once; a key never names a dying object |
| textures, models, WMOs, groups (`blp.c`, `gx/m2.c`, `gx/wmo.c`, `gx/wmo_group.c`) | `load_asked`, `loading`, `loaded`, `initialized`, instances | new, `ask_load`, load, initialize, `ask_unload`, delete | loader, caches | loaded once, alive while being loaded, not drawn before initialised |
| frame ring (`gx/frame.c`) | three frames: render lists, backrefs, garbage lists with a recursive mutex | `render_add_*`, `render_release_obj`, `render_clear_scene`, `render_gc_*`, `render_gc` | main, cull thread, workers | nothing freed while a list that will be used names it; everything collected is freed; mutexes balanced |
| main loop (`wow.c`) | `current_frame`, the ids and pointers of the three frames | the frame, the shutdown | all | the order of the steps |
| building instances (`gx/wmo.c`, `gx/wmo_group.c`, `map/tile.c`) | list of the instances of a WMO, their doodads, the handle of a building of the map, the mutexes of three caches and of the garbage lists | making, placing and telling an instance, the end of a load, `gx_wmo_instance_gc`, `render_gc` | caches, loader, map, frame ring | no deadlock, nobody misses the end of a load, an instance lives while a tile has it, the list is whole |
| map and tiles (`map/`) | tile table, flags of a tile, instances of doodads | `map_load_tick`, `map_tile_ask_load/ask_unload/load/initialize`, `map_setid` | loader, caches, frame ring | no unload during a load, flags consistent across threads |
| world objects (`obj/`) | `g_wow->objects`, fields, models of units and their items | creation, update and destruction by packets, `unit_physics`, `worldobj_add_to_render` | network, frame ring, cull thread | object alive while a thread walks the table |
| network (`net/`) | sockets, read and write buffers, header cipher, phase of the login | tick, receive, send, framing, handlers | everything, through handlers | framing survives partial reads, cipher in step with the stream, one connection at a time, session key of the right login, a socket is not deleted in use |
| interface (`ui/`, `xml/`, `itf/`, `lua/`) | tree of frames, flags of the pointer, listeners of events, active input, Lua state | inputs, drawing, events, scripts, change of screen, layout | main thread only, but every walk runs scripts that change what it walks | the lists and the frames agree, walks by index miss and repeat nothing they should not, one frame is under the pointer, one input takes the characters |
| rest (`snd/`, `ppe/`, `font/`, `game/`, `phys/`, databases, tools) | | | | sequential, or geometry and sound |

### What is hard

The threads share structures with few locks and rely on timing (two frames pass
before anything is freed), on counts (a load owns a reference) and on the order
of the queues. Every one of these arguments is implicit in the code. On the main thread alone, scripts run
in the middle of ticks and walks and may call back into them. The list of
hazards with their lines is in `PROJECT.json`; the ones that no property covers
yet say why.

## 2. The modules

| module | models | instances, correspondence |
|---|---|---|
| `Loader` | loader, caches, textures, M2s, WMOs, groups, shutdown loop | one incarnation of a resource is one element of `Blp`, `M2`, `Wmo`, `Group` |
| `Resource` | what the loader promises: a resource exists exactly while it is needed | abstract; `Loader` implements it |
| `Frames` | ring of frames, garbage lists, cull thread, shutdown of the loader | an instance is an element of `Units`, `Doodads`, `Details` |
| `Tile` | tiles of the terrain: `map/tile.c`, `map_load_tick` and `map_delete`, their tasks and lists in the loader, the shutdown loop | a tile is an element of `Tiles`, a place of the map a number |
| `Instances` | instances of a WMO: `gx_wmo_instance_*`, the parts of `load_childs`, `gx_wmo_load`, `gx_wmo_group_load`, `gx_m2_post_load`, `render_gc` that make, tell and delete them | an instance has the name of the tile, or of the map, it was made for |
| `WorldSocket` | a connection to a world: `net/buffer.c`, `net/socket.c`, `net/world_socket.c` | a byte is its place in its stream |
| `Login` | `net/network.c`, `net/auth_socket.c`, the scripts that call them, the answer to the challenge of a world | a login and a socket are numbers |
| `Interface` | frames of the user interface: `ui/frame.c`, `ui/region.c`, `ui/edit_box.c`, the walks, events and focus of `itf/interface.c`, the change of screen | a frame is a number; an edit box is an element of `Inputs` |
| `MCLoader`, `MCFrames`, `MCTile`, `MCInstances`, `MCInterface` | instances for TLC (`WorldSocket` and `Login` need none) | |
| `Occurrences` | how often a queue names something; used by `Loader` and `Tile` | |
| `OccurrencesProofs`, `LoaderProofs`, `FramesProofs`, `TileProofs`, `InstancesProofs`, `WorldSocketProofs`, `LoginProofs`, `InterfaceProofs` | theorems | |

The modules meet at the loader: `Loader` has the queues for the resources with counts,
`Tile` those of tiles, and both have the same order of a tick, the same slots of
the ring and the same shutdown loop. `Frames` has the ring itself, `Instances` what hangs on a
building that stays loaded, which `Loader` takes for one count. `Login` treats
what a connection to a world does with bytes as a choice; `WorldSocket` is that
connection in detail. `Interface` is what `Login` calls a script, seen from the other side: the
activations it runs in, and what it may do to the tree.

### Loader

A *resource* is an address. `KeyOf` gives the file name it is cached under, so two
addresses with one key are two successive incarnations of one file; addresses are
not reused, which makes every use of freed memory visible: `Touch(site, S)`
records such uses in the history variable `stale` instead of crashing.

- **Users** are threads that own references: those in `FrameUsers` (main thread
  and cull thread) run between two ticks, the others are workers that load a
  tile. `RefByKey`, `AskCheck`/`AskMark`/`AskRef`/`AskPush`, `AskLocked` and
  `Release` are `cache_ref_by_key_*`, the halves of `*_ask_load` without the lock
  of the cache, `*_ask_load` under it, and the deletion of an instance.
  `gx_m2_ask_load` queues before it references, the others reference first.
- **Workers** run `FindTask` (`find_task` under the mutex: first queue in the
  order of the enumeration that has a task it does not pass over) and one action
  per lock-delimited part of `execute_task`. `Outcomes` are what a file may be:
  fine, missing (`nofile`), unparsable (`badfile`), or refused by the load
  (`loadfail`). The early exits differ by kind and are kept: a missing file clears
  `loading`, an unparsable WMO does not.
- **The main thread** runs `Tick`, `InitObject`* , `InitEnd`, `GcObject`*,
  `GcEnd`, `NextFrame`: `loader_tick` = `do_init` then `do_gc` of the slot drawn.
  The time budget of `do_init` is abstracted to "at least one turn, then any
  number".
- **The shutdown** is `Quit`, `StartDrain`, `DrainTick`, `DrainEnd`, `AsyncWait`,
  `AsyncEnd`: the loop of `wow_main` on `loader_has_loading`, `loader_has_gc`,
  `loader_has_async`.

The cache is reduced to `refs`: 0 when it has no entry. The last `UnrefWith` erases
the entry and parks the object (`Condemned`) in the gc slot of the frame being
culled, as the destructors in `cache.c` do; the mutex of the gc lists is what makes
it wait for `do_gc`.

### Frames

`slot` is the frame drawn; the culled one is the next and the garbage one the
previous, as `wow_frame_id(1)` and `wow_frame_id(-1)`. One action per stage of
`wow.c:loop`: `NewFrame`, `AddUnits`, `StartCull`, `Draw`, `Spawn`/`Destroy`
(packets), `NetEnd`, `WaitCull`, `LoaderTick`, `RenderGc`. `map_cull` is
`LoadTick` (tiles unloaded), then any of `UnloadDetail`, `LoadDetail`, `ListObject`,
then `ReleaseObjects`, run by either thread. `culled_async` is chosen anew each
frame because a key toggles it.

The cull thread owns `cull_mutex` between its two tests (`cull.at = "ready"`), which
is when `StartCull` and `WaitCull` must wait; a wait on the condition is `blocked`
and may end spuriously. The walk of the objects takes a pointer (`PickUnit`) and
uses it later (`MoveUnit`).

A worker that deletes a tile collects its ground doodads; `render_gc_m2` evaluates
`g_wow->gc_frame` at the lock, at the push and at the unlock: `GcAim` fixes the first
value, `GcPush` and `GcUnlock` use the current one. `depth` counts the recursive
locks; unlocking a mutex one does not own changes nothing; a push to a list whose
mutex is not held may be lost.

### Tile

A tile is created by the cull thread (`LoadTile`), filled by a worker, initialised by
the main thread, drawn by the cull thread, condemned by it (`Condemn`, `AskUnload`,
`AskObjects`) and deleted by a worker. Nothing locks its flags or its lists of objects.
The steps are cut where another thread can see the difference:

- a worker ends a load with a read and a write of the flags (`ReadFlags`, `WriteFlags`),
  and `map_tile_ask_unload` begins with the same (`Condemn` reads, `AskUnload` writes);
- `map_tile_load_childs` stores the counts of the objects before their lists (`StoreNb`,
  `StoreLists`), and `map_tile_ask_unload` goes by the counts (`AskObjects`);
- `find_task` marks a tile as loading, whoever has asked for its unload.

`cut` is a history field: where the load of a tile was when its unload began. The
properties use it to say which tiles can be hurt. `hidden` holds the tiles that will
not be drawn for a reason the code has: their load failed, or a worker wrote back
flags it had read before the main thread set `MAP_TILE_INIT`. Undefined behaviour is
recorded in `faults`, by where it happens and to which tile, and ends the behaviour:
what a freed tile does afterwards is anybody's guess.

A slot of the ring is named by its distance from the frame drawn, and the ring turns
when a frame begins; this halves the states and is what `wow_frame_id` computes. The
cull thread runs between `loader_start_cull` and `loader_wait_cull`; culling on the main thread is the
same with fewer interleavings and is not repeated. The time budget of `do_init` is a choice
between `InitTile` and `InitOver`.

### Instances

A building of a tile is held three times over: the tile has a handle of `cache->map_wmo` (keyed by
`unique_id`, so tiles share it), the handle has the instance, the WMO has the instance in its list.
`handle` is the cache, `list` the list, `stage` where an instance is in its life, `told`, `grouped` and
`doodads` what it has been told of the loads of its building, its group and the models of its doodads.

- **A worker that loads a tile** is `LoadTile`, `RefHandle`, `NewInstance`, `Place`: the instance is made and
  put into the list under one hold of the mutex of the WMOs, and gets its place under another.
- **To tell an instance** (`gx_wmo_instance_on_load`) is `NewDoodad`, `SettleDoodad`, `TellInstance`,
  `TellGroup`; a doodad takes the mutex of the models twice. It is called by `Place` when the building
  is loaded, and for each instance of the list by the load (`WalkOn`). `Subject` is the instance it is called for.
- **The loads** are `TakeTask`, then `WalkOn` along the list and `WalkEnd` for the building and
  its group, `PostLoad` for the model. Files are found: what a load that fails does is in `Loader`.
- **The frames** (main thread and cull thread, which wait for each other) give handles back
  (`Release`, `UnrefHandle`, `Collect`), open and leave a map that is one building
  (`OpenMap` ... `LeaveMap`), and empty a garbage list (`StartGc` ... `GcEnd`). That
  a list is emptied two frames later is left out: it may be emptied at any time, which allows more.

A thread that needs a mutex is at its next step with `wait` set; `Lock` gives it the mutex, the
step itself unlocks. An action is what the code does under one hold, or between two.

### WorldSocket

A buffer is an interval of the stream: `[taken, arrived)` is the read buffer,
`[passed, written)` the write buffer. `Recv`, `NoPacket`, `HandlePacket` and `SocketSend` are the stages of
`net_world_socket_tick`; `send` takes any part of what it is given, `recv` gives any part of
what was sent. A packet is numbered by its place; a header that is deciphered at a place
other than the one it was enciphered at, or before it has arrived, gives `Garbled`.
The server (external) sends the challenge first, ciphers from the answer on, and may close. Since it waits for the
answer, nothing is behind the challenge in the read buffer when the cipher is switched on; in the write buffer there may be packets. A
challenge that is too short for its salt is dropped (`Ignore`); the failures of the hash after that (`net/pkt/auth.c:31`, `:79`) are those of a library and left out.

### Login

All of it runs on the main thread, but events run scripts at once, in the middle of
`net_tick`, and the scripts may call `DefaultServerLogin`, `ChangeRealm` and
`DisconnectFromServer`. A step is what the program does between two such calls: `Raise`
puts the tick at `"script"`, any number of `ScriptCall`s follow, `ScriptReturns` goes
on at `then`. `tick.socket` is the socket the tick was given, which need not be the
network's any more; `Uses` is where it is dereferenced after a script.

The server of accounts (external) says anything in any order: a good or a bad
challenge, a proof, a refusal of three bytes or a longer one, a list of realms that is
whole, empty or cut short. `proved` and `listed` are histories of what it has
proved and of the logins that came to their end. The arithmetic of SRP is reduced to
what it promises: a proof is accepted when it belongs to the key of this login.

### Interface

One thread, and yet its steps interleave: the C functions that deliver an input, draw, tell an
event or change the visibility walk lists by index and run a script for each frame they visit;
the script may call back, which starts another walk, or change the list of one below. `stack` is
the C stack reduced to what matters: a walk (`Loop`: the list, the index it has reached), a script
(`Script`), or the point between two scripts at which a function goes on (`"click"`, `"release"`,
`"pressed"`, `"focus"`, `"gain"`, `"conceal"`, `"entering"`). Only the top moves. A step of a
script is a call it makes (`Calls`) or its return; `MaxCalls` bounds the calls of a behaviour, and a script
that can make no more of them is left out. `Trees` is what the XML may load.

- **Walks.** `LoopTurn`, `LoopEnd`; backwards for the pointer, whose handlers run
  after those of the children (`MoveSelf`, `DownSelf`, `UpSelf`), forwards to draw, to show, to hide
  and for an event. A walk forwards compares with the present size of the list, a walk backwards takes
  the size when it begins: an array that shrinks under it would be read past its end, which is why
  the frames that a script can take out of a list (only to put them back, at another rank) matter.
- **The tree.** `rank` is strata and level in one number, two values of it; the roots are one list and
  not one per strata, since a frame without a parent keeps its place in it. `CreateFrame` makes buttons
  and edit boxes, which have the mouse enabled.
- **The pointer.** Where frames are is open: a frame may be hit or not (`Pointed`). `hovered` and
  `clicked` are flags of the region. Histories say which of them the program may be wrong about:
  `lapsed` (hovered, but a motion may not come: hidden, mouse disabled, or passed over by a walk whose list
  changed), `stuck` (the same of a release), `pressed` (clicked by a press since the last release).
- **The focus.** `interface_set_active_input` is `Focus`, the script OnEditFocusLost, `Gain`, the script
  OnEditFocusGained. Escape disables the active input and leaves it active. `strayed` holds those given the focus
  while another was losing it.
- **A change of screen** (`SwitchScreen`, `Entering`) clears the interface: frames take themselves out of the
  lists that are being walked, so every other one is passed over (`Deleted`), as are those inside it. What is left
  (`gone` but not `freed`) is in no list of the interface; the history `orphans` holds those of them that were passed
over in the list of a frame that was deleted, and still point to it. Scripts call no frame that is gone.

`update_visibility` chooses OnShow or OnHide by the flag of the very frame it visits: hiding a frame runs OnShow
on its children, which are not hidden themselves (the others are passed over), and showing it runs OnHide on those that are. The
model has these scripts run and does not say which of the two each is.

## 3. The runs

| run | instance | distinct states | question |
|---|---|---|---|
| `loader` | 2 addresses of one texture, or 1 model, or 1 building with its group; 2 workers, a frame user and a tile user; all outcomes of a file | 398 k | are references those of their holders, is everything condemned deleted once, is no freed memory used but where it is known? |
| `loader_live` | 1 building with its group, may quit, fair | 32 k | does every load end, is everything condemned freed, does the shutdown end, and does `Loader` implement `Resource`? |
| `frames` | 1 unit, or 1 doodad of a tile and 1 ground doodad; 2 workers, may quit, fair | 356 k | is one culler at work, is nothing freed that a list in use names, do frames go on (no wakeup is missed), is everything collected freed, while a worker collects under the mutexes? |
| `world_socket` | a buffer of 10 bytes, bodies of 0 or 6 bytes down and 0 or 3 up, 3 packets down and 2 up | 64 k | does framing survive partial reads and writes, does the cipher stay in step, with packets that wait to be sent while it is switched on, is all that was sent handled, is a close noticed? |
| `tile` | 3 places, 2 tiles, 2 workers, 1 move of the camera | 1.7 M | does the map name live tiles only, are tiles deleted once, which tiles can be hurt by the races on their flags, which references can be lost? |
| `tile_live` | 2 places, 2 tiles, 1 worker, 1 move, fair | 173 k | is a condemned tile freed, is a near tile drawn? |
| `instances` | 2 tiles that share a building of the map, 1 map that is a building, 2 workers | 1.5 M | are mutexes taken in order, does an instance live while a tile has its handle, does nobody miss the end of a load, where is the list of instances not safe? |
| `login` | 4 calls of scripts, 4 messages of the server of accounts, fair | 333 k | is there one connection, is the key a world is answered with the one of its login, which sockets are used after they are freed, is what the server says taken? |
| `interface` | 3 frames, 2 of them edit boxes, one of these hidden when it is loaded, 4 trees; 2 calls of scripts, 1 change of screen | 2.2 M | do the lists and the frames agree, what does a change of screen leave behind, what do walks by index miss or repeat, what do the flags say of the pointer, which input takes the characters? |
| `loader_unref` | 2 addresses of one model, 2 workers | violation | `NoUnrefUnexisting`, see section 6 |
| `loader_shutdown` | 1 building, may quit | violation | `AsyncEnded`, see section 6 |
| `frames_join` | 1 ground doodad, 1 worker, may quit, fair | violation | `CullThreadsJoined`, see section 6 |

The runs with liveness are on instances one size down from those of safety alone: TLC
builds the behaviour graph of the whole instance, and each of them keeps the
actors the property is about (a load and its unload, the worker and the
main thread, both sides of the handshake).

### Bounds, and why they are enough

- **Loader.** Two addresses with one key are what a stale reference can be
  confused with: the entry that went and the one that came. Two workers are what
  `find_task` must keep apart. `OneKind` (an action constraint of the run `loader`)
  keeps textures, models and buildings in separate behaviours: they meet at the workers, not in a
  state either of them reads. Buildings and groups, which do meet, are alive together (`OneGroup`).
- **Frames.** One instance of each sort is enough since the lists are sets and
  instances do not interact: the properties of the ring are proved (`RingLongEnough`) for any number.
  `UnitsAlone` (an action constraint) keeps units and the instances of tiles in separate behaviours for the
  same reason; what they share, the ring and the handshake, is in both. With one ground doodad one worker at a time
  collects, so that the mutexes of the garbage lists are between a worker and the threads of the frames; two workers
  that compete for them are too many states for TLC, and are in `LocksStayBalanced` and `RingLongEnough`, for any number of them.
  The ring has its three slots. Behaviours are not bounded: `slot` turns for ever.
- **WorldSocket.** The buffer holds one packet and a header of the next, so a packet
  arrives in pieces, several arrive in one read, and the buffer is exactly full. Lengths
  are those of the smallest and the longest body that fits. `MaxDown`, `MaxUp`
  bound the packets; `PacketsInOrder` and `AlwaysRoom` are proved for any value of them.
- **Tile.** Two tiles are the one that goes and the one that comes: three places let
  the camera leave a tile that shares an object with its neighbour and one that does
  not. `MaxMoves` bounds the moves of the camera; the second tile is used up by one.
  `tile_live` has two places, since the third only adds sharing.
- **Instances.** Two tiles that share a handle are what its count is for; with a map that is the same
  WMO there are two instances in its list, so that one is erased, or made, while the other is told. Two
  workers let a tile be loaded during the load of its building. A tile is loaded once; how tiles
  come back is in `Tile`. The theorems are for any number of tiles, maps and workers.
- **Login.** A login needs four messages to end; four calls let it be replaced, begun
  again inside its own alerts, and a realm be changed while the first world answers. `MaxCalls` and
  `MaxMessages` bound both; the safety properties are proved for any value of them.
- **Interface.** The four trees (`FewTrees`) are a frame in another, alone, with a third beside them, next to the inner one
  (a parent with two children) or in it (a line of three); where it is not loaded, a script may create the third. A drawing
  or an event whose scripts call nothing is left out (`SomeCalls`), as it changes nothing. Two calls are a change of the tree in the middle of a walk
  and one in the middle of what that started, or a press, a hiding and a showing across two inputs. The inputs are not
  bounded. Every exception the properties make is reached in this instance, save that a frame which came
  makes a walk backwards miss another one, for which a fourth is needed. The theorems are for any number of frames and calls.

Every run checks for deadlock; `Interface` never stops, as an input can always come. Where the program really stops, the model says so by a
stuttering action with a name: `Torn` (`Loader`), `Gone` and `Hung` (`Frames`), `Ended` and
`Undefined` (`Tile`), `Over` and `Undefined` (`Instances`), `Undefined` (`Login`), `Closed` (`WorldSocket`).

### Fairness

- Each worker, and the main thread, goes on while it can (weak fairness): the threads are
  those of the operating system and none waits in a loop for another, except where the model has
  the wait. A user that began an `ask_load` ends it. What users decide (to load, to
  release, to move) is not fair, save that the users of a frame release what they hold at the shutdown, as
  the destructors in `wow_main` do.
- `StartCull` and `WaitCull` (`Frames`) are strongly fair: both need `cull_mutex`, which the
  cull thread takes and gives back; a mutex that is free again and again is taken.
- `InitTile` (`Tile`) is strongly fair: `do_init` runs at least one initialisation a tick
  whatever the budget, and the tick can instead end after it.
- `Recv` and `SocketSend` (`WorldSocket`) are strongly fair in the calls that move bytes: a
  network that is up delivers in the end. Nothing says when, or how much at once.
- `NoPacket` (`Login`) is strongly fair: a read buffer holds finitely many packets, so the
  loop of a tick over them ends.

### What a fault does

`Loader` and `Frames` go on after a use of freed memory and record it in `stale`;
`Tile`, `Instances` and `Login` stop at the first, since nothing the code does afterwards means
anything. `StaleUsesKnown` and `FaultsKnown` are closed lists: the uses the code
really has, each a hazard in `PROJECT.json`, and no other.

- `Loader`: a texture whose flag a worker clears after its file was refused
  (`loader.c:241`); the building a group names (`gx/wmo_group.c:434`); the initialisation of a
  deleted group; the release of a model referenced too late.
- `Frames`: the flags of an instance cleared when the list it is in is reset
  (`gx/frame.c:288`), where it was collected while that list was filled; the physics of a unit destroyed
  between its pick and its move (`loader.c:412`); the cull thread after the shutdown.
- `Tile`: only a tile whose unload began before its load was over (`cut`), and a tile
  that came back to a map that is gone.
- `Instances`: the load of a group that meets an instance without its arrays, because it has no place yet
  or because it belongs to a map that was opened when the building was loaded (`gx/wmo_group.c:437`,
  `map/map.c:585`); an instance erased from the list after the mutex was given back, while
  a worker is in it (`gx/wmo.c:529`). `LoadsTold` has the milder ones: an instance
  that is told twice, and makes its doodads twice, because its building was loaded before it had its place; the
  map that is never told.
- `Login`: a socket freed by a script that the alerts of the handshake, or the events of a
  world, have run; the name of a login that was ended before the world asked for it.

`Interface` runs no script of a frame that a change of screen deleted, and no list names one: `TreeOK` says so of the lists of the
interface and of those of what a change of screen left. The parents are another matter. The destructor of a frame passes over every other
child (`ui/frame.c:101`), and nothing clears the `parent` of one that was passed over: it lives on, with its Lua global, and
`GetParent` (`ui/region.c:1083`) would use the frame that was deleted. This is a fault of the code, and `LeftOK`, a
part of `TreeOK`, gives its extent: the frames whose parent was deleted are exactly the `orphans`, those passed over
in the list of a frame that was deleted; of what else is left, the lists and the parents agree. The other exceptions are in
the properties: what a walk misses after a frame left its list or another came, the frames that are hidden while they
are hovered or pressed (`ui/frame.c:702`), the input that strayed (`itf/interface.c:706`).

## 4. What is proved

All of it for every value of the constants, from the assumptions on them that the
modules name (kinds of resources are disjoint and a key names one kind, a group has one building,
the threads, and the tiles, are finitely many, bounds are natural numbers, a packet fits in the buffer) and that TLC evaluates in the runs.

- `LoaderProofs!TypeCorrect`: counts are never negative, and each queue (the
  code casts its elements without a tag) holds resources of its own kind only.
- `LoaderProofs!RefsAreAccounted` (`RefsAccounted`): the count of the cache is the number of those who
  will give a reference back. The invariant `Accounts` adds that an asker is among the holders, or is about to be
  (`AskersHold`), that a model referenced after its load had ended is dead and in no queue (`LateIsDead`), and that
  nothing is held before it exists (`HeldIsBorn`). Queues are sequences, so the proof counts places: `TimesConcat`,
  `TimesTail` and `TimesRemoveAt` (in `OccurrencesProofs`, which `TileProofs` uses too) say what an append, a pop and a removal in the middle do to `Times`, and
  `WorkerMoves` and the lemmas around it what one thread does to a count of threads.
- `RetiredExactlyOnce` (`CondemnedOnce`): what is condemned is in one place on its way to its deletion and
  everything else in none. `CondemnedOnce` counts the slots that name a resource and would be kept by a slot that names it
  twice, which the sweep of that slot would then queue twice: `RetiredOnce` counts every occurrence.
  `Retirement` adds that a group exists as soon as its building lists it, in the order of the file (`GroupsInOrder`,
  `GroupsMade`), since groups have no count of their own and are retired with their building.
- `FreedIsUsedOnlyThere` (`StaleUsesKnown`): the closed list of the uses of freed memory. `Tracked` adds that
  the load of a group is queued once (`GroupLoadedOnce`), so that no second load meets the group its first one let
  go, and that the flag `loading` is set while a worker loads (`LoadersMarked`), which is what makes
  `find_task` pass over the unload.
- `LoaderImplementsResource` (`ImplementsResource`): for textures and buildings, `Loader` implements `Resource` under the
  mapping of the module. `Counts` says that the count is that of the holders and of the loads asked
  for; it follows from `Accounts` and makes what the code does on a count of zero the `Free` of the abstract resource.
- `NeededStaysLive` and `NeededResourcesLive`: what somebody holds or loads exists. The first is proved of
  the abstract specification, whose invariant is inductive with its type (`ResourceTyped`); the second says it of the textures and
  buildings of `Loader`, by the refinement.
- `FramesProofs!TypeCorrect`, `CullersExclude` and `LocksStayBalanced`: two cullers never
  overlap, by the phases of the handshake on both sides; a mutex of the garbage lists is
  locked as often as it is unlocked unless a frame begins under it.
- `FramesProofs!RingTurns` and `RingLongEnough`: three slots suffice. What is collected leaves
  the lists in use before it is freed. `StaleUsesKnown` says nothing of the
  instances that are only collected, so it is not inductive: `RingInv` adds where an instance
  may be listed while it waits in each of the three garbage slots (`Ring`), that it
  is collected by one thread and once (`CollectedOnce`), that what waits for a worker to collect it
  is deleted by one worker and once (`ParkedOnce`), and that the cull thread is told to stop before the
  lists go (`Stopped`). It uses `CullersExclude`, since two cullers could list what one has collected.
- `WorldSocketProofs!TypeCorrect`, `PacketsInOrder`, `AlwaysRoom`: for any lengths of
  packets and any splitting of the stream, the handlers get each packet once, in order and
  deciphered at its place, and `recv` is never asked to fill a full buffer. The invariant
  `Inv` relates the cipher's place, the reader's place and the boundaries of packets; the room
  follows since a packet that is not complete is shorter than the buffer.
- `ServerGetsInOrder` (`ServerInOrder`), the other direction: `UpInv` says that the packets of the client follow one another
  in the stream (`UpChain`), that their headers are ciphered from the one after the session packet on, each
  a step after the one before (`UpCiphered`), and that a server that is open is at the boundary that follows
  the whole packets it has read, with the cipher as many steps on (`ServerReads`). A packet whose body was dropped
  for want of room ends what is claimed, since the server takes the next header for its body.
- `TileProofs!TypeCorrect` and `MapNamesLiveTiles`: the list and the array of the map name
  the same tiles, none of which is being deleted. The step that could break it is a worker
  that deletes a tile at any time; `CutOff` (everything queued for an unload, or in a
  worker's hands for it, or in a slot of the ring, has left the map) is what makes it
  inductive, with `Busy` (a worker that works has a tile, in the type its place
  needs).
- `CondemnedInOnePlace` (`CondemnedOnce`), `FaultsAreKnown` (`FaultsKnown`) and `RefsAreAccounted` (`RefsAccounted`) of `Tile`
  need what each thread may be at while another is somewhere, and share one invariant, `TileInv`. Its first half, `Threads`,
  says where the cull thread is when the main thread does what (`Handshake`), that a tile waits in one place to be
  deleted and that one which is being condemned is alive (`Deletion`), that one load of a tile is queued or
  under way, and none once it was over (`LoadedOnce`), and that the lists of a tile and their counts are there exactly
  from the step of its load that makes them to its condemnation (`ListsStored`). Its second half, `Known`, says that
  a tile which waits for the main thread was loaded by all that any thread has read of its flags (`InitsLoaded`), that
  a tile which was not condemned is on the map (`MapListed`), that what is drawn is on the map, or was
  condemned by the cull thread of this very frame and is still in the slot it fills (`DrawnLive`: this is where two frames turn out
  to be enough), and that the references to an object are told tile by tile (`RefsHeld`): one for each live tile
  that has it and listed it, plus one at most for each tile that was condemned before its load was over and is gone.
  `FaultsKnown` and `RefsAccounted` follow from them and are not inductive alone.
- `InstancesProofs!TypeCorrect`, `LocksAreRanked`, `NeverAllBlocked`, `HandlesAreKept`: `Owned` says that a
  thread has the mutexes of its place but the one it waits for, which is the last of them in the order of
  `Rank`; that no circle of waits is left follows since a thread that all wait behind would need a sixth mutex.
  `Counts` and `Lives` are the strengthening of `HandlesKept`: a handle without an instance is held by the worker that
  makes it and by nobody else, an instance that is collected has a handle nobody holds, and no
  handle names an instance that is in a garbage list. The type needs them too: a count that falls is that of a
  handle which the tile holds.
- `InstancesProofs!FaultsAreKnown` (`FaultsKnown`) and `LoadsAreTold` (`LoadsTold`) share a second invariant, `ToldInv`:
  the list of a building has each instance once, from its making to its deletion, and the place the eraser
  found is that of its own (`ListKept`); an instance without a place is about to get it from the thread that made it
  (`Settled`); a file is loaded by one worker and once, the group after the building, and a walk begins at the head of the
  list once it has the mutex (`Phased`); the load of the building has told exactly what lies before its
  place in the list (`Untold`), and the worker of a tile tells its instance only when the load met it before it
  had its place, or not at all (`ToldOnce`); what was told of the building is told of the group (`GroupTold`) and of
  the model (`ModelTold`). It is claimed until a fault, as what follows undefined behaviour is not modelled.
- `LoginProofs!TypeCorrect`, `NeverTwoConnections`, `KeysAreProved`, `FaultsAreKnown`,
  `TickClosesItsOwn`: for any number of calls and messages, in any order. `IInv` adds to
  the properties that the name of the login under way is its own and not that of a session (`OwnName`), that
  only a proved key is kept, and the one of the user when its login came to its end (`KeyProved`), that the
  tick and the network have the same socket until a script is run (`OwnSocket`), and that a
  world is only opened after a login (`LoggedIn`).

- `InterfaceProofs!TreeIsOK` (`TreeOK`), `LoopsServe` (`Served`), `PointerIsKnown` (`PointerKnown`) and `OneInputHolds`
  (`OneInput`): for any number of frames, any trees, any inputs and any number of calls, so for a stack of any
  depth. They share one invariant, `IInv`, since what a script does to a list is seen by the walks below it, and each of its parts is needed by another:
  - `Typed`: the variables have their types, and what is on the stack is an activation of the code. `Nested`: a frame is
    deeper than its parent, by some measure of depth, so that the chain of the parents of a frame ends (what `Line` and `Shown` go up).
  - `Listed` is `TreeOK` and what keeps it: the parent of a frame of the interface is of the interface too, a frame that is not born
    has no children, what a change of screen left still has its own children and no deleted one. `Behind` is the rest of `LeftOK`: the
    parent of what was left was left, and then has it in its list, or was deleted, and then the child is an orphan. It is kept since a
    frame is deleted when it is in `Deleted` of its parent and its parent is deleted too (`Line`).
  - `Stacked`: what runs is about a frame of the interface, and what gives the focus is about an edit box.
  - `Focused`: while an input is losing the focus no input takes characters but those that a script gave it in the middle
    of that, and all but the innermost of the functions in the middle of giving it are in scripts of another.
    `OneInput` says nothing of the middle, so it is not inductive.
  - `Walked` says of a loop that is not finished what `Served` says of one that is: what has been passed and what is before it
    make up the list as it was, and what was passed is not met again, unless the list changed (`Onward`, `Backward`).
    A change below a walk is what `Stirs` marks; `Inserted` and `Without` are shown to keep the order of the others (`InsertedIs`, `RemoveIs`).
  - `OneWalk`: a walk of the pointer is the bottom of the stack, since no call of a script starts another; so `used` is of that walk.
  - `Hovering` and `Clicking`: a frame that is hovered or clicked, and not excused by the histories, is shown and has its
    mouse; in the middle of a walk it is one that the walk has yet to come to (`ToCome`: through its own
    activation, or before one of them) or the one that took the pointer (`Left`, alone, and then `used` is set). That a walk comes to a frame whose
    ancestors are all shown, by the turn that goes into one of them, is `TurnComes`, and that other steps leave it so is `ToComeKept`; that a step that hides, moves or
    creates a frame excuses all those it makes the walk pass over is `FlagsIs`.

With these every invariant and action property of the passing runs, and the refinement, is proved. Only model-checked: all
liveness (`CondemnedFreed`, `LoadsEnd`, `ShutdownEnds`, `FramesGoOn`, `CollectedFreed`, `SentHandled`, `CloseNoticed`,
`NearDrawn`, `AnswerTaken`), since the prover has no rules for fairness and `ENABLED`; and the absence of deadlock of each model, which is about `ENABLED` too
(`NeverAllBlocked` proves it of the mutexes). What recursive functions
compute is not proved by induction either; no module here needs it.

## 5. What is not modelled

- Running out of memory, except where a table of the loader or a list of a tile cannot grow and the code goes on.
- The minimap's and the clouds' tasks of the loader: one file each, no count, no race but that of
  the tiles. `map_setid`, which deletes a map under the cull thread; the
  texts and the building instances in the ring, which go the way of the doodads.
- In `Instances`: that what is in a garbage list is deleted in the end (`Frames` has it); a second group or
  doodad of a building, which only repeat the first.
- The caches of fonts, databases and archives: used by one thread, or read only.
- The two maps of a cache, and that the first keeps a key when the second cannot grow (`cache.c:432`).
- The arithmetic of SRP and of the ciphers, and the failures of its numbers; the deletion of the
  network at the end.
- The handlers of packets that decode fields into objects (`net/packet/`, `obj/`): sequential
  code without a state of its own, whose correctness is the agreement with a server that
  is not here. What they do to the threads (create and destroy units) is `Spawn` and `Destroy`.
- Drawing (`gx/`, `shaders/`, `ppe/`), geometry (`phys/`), animation, sound, fonts, variables: arithmetic on reals and
  calls of libraries; nothing that interleaves.
- In the interface: where frames are (anchors, sizes, layout), the reading of XML, textures and texts, what is
  drawn; keys other than Escape and the wheel, which are delivered by walks of the same form; SetButtonState and what the other
  widgets add; scripts that go on calling a frame which a change of screen left, and so what `GetParent` of an orphan does. `SetParent` is not implemented
  by the code (`ui/region.c:1087`). A script that fails returns like another, by `pcall`.
- The minimap (`map/map.c:226`): one flag, that a failure leaves set, so that no minimap is computed again.
- The reuse of an address by the allocator: a new object has a new one.
- Abstractions of a step. In `Loader`, a building whose load failed half-way and is loaded again goes on at the next group, where the code
  makes them anew from the first (`gx/wmo.c:198`), at other addresses; and a building and its groups are condemned in one step, where the code takes
  the mutex of the slot for each (`gx/wmo.c:100`). In `Frames`, the table of the objects is a library's: a unit that is created
  during the walk of the cull thread (`loader.c:412`) may make it grow, which is not flagged, as the destruction of one is. In `Instances`,
  an instance that gets its place while its building is loaded goes through the groups without a mutex (`gx/wmo.c:693`), where only boxes are computed.

## 6. Where the code disagrees with itself

- `loader_unref` (`NoUnrefUnexisting`). `cache.c:445` asserts that `cache_unref_by_ref` is
  never given an object that the cache does not have. The assertion has its `!` inside the
  quotes and never fires. `gx_m2_ask_load` (`gx/m2.c:1244`) queues the
  load before it takes the reference: a worker may end the load, and release the last one, before it is taken.
- `loader_shutdown` (`AsyncEnded`). `wow_main` frees what the workers use when
  `loader_has_async` says there is nothing left; that function looks at the queues only, not at a
  task that a worker has taken off one.
- `frames_join` (`CullThreadsJoined`). `loader_delete` joins the cull threads; but
  `loader.c:476` reserves the array without setting its size, so the loop joins none.

## 7. Plan

Done: `Resource`, `Loader`, `Frames` with their composition of frame, ring and shutdown; `Tile`;
`Instances` with the order of the mutexes; `WorldSocket`; `Login`; `Interface`; theorems about each of these, for
all the safety properties of the runs.

Left, in this order: the two maps of a cache with the failures between them; the minimap and `map_setid` in `Tile`; the models of the items a unit holds (`obj/unit.c:929`).
