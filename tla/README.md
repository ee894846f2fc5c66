# node.gl in TLA+

node.gl renders animated scenes described as a graph of nodes. A client
(a C program, the Python binding, the viewer) builds the graph, hands its root
to a rendering context, and asks the context for frames at the times it likes,
in any order. The library decides at each frame which nodes are needed, starts
and stops them, updates them for the time of the frame and draws them.

What is hard in this library is not the drawing: it is that the graph is shared
(a node may be below several parents, in several scenes, in the hands of the
client and of several contexts), that each node goes through a life cycle driven
by walks over that graph, that a walk may fail anywhere, that times come in any
order while most nodes keep something of the last time they saw, and that
commands go through a worker thread. These modules are about that.

Paths are relative to `src/`, line numbers are those of the commit beside which
these modules are kept. The file `PROJECT.json` maps each definition to the lines
it models.

## Contents

1. The system: components, state, interactions, and what makes each one correct
2. The modules, and how their state and actions correspond to the code
3. The runs: what each one checks, its bounds and why they are enough
4. Fairness
5. The proofs
6. What is only model-checked
7. Where the code does something else than it says
8. What is left out, and why
9. The plan

Use: `tlc -config Ownership.cfg MCContext` checks a run, `tlapm ContextProofs.tla`
checks the proofs of a module. The runs take from a second to two minutes.

Beside the runs, each property has a mutant, one per run it is checked in: a wrong
version of one definition, an operator whose name has an underscore and whose comment
starts with "Mutant:", with which the run ends in a counterexample to that property.
`PROJECT.json` lists them. They are used by no specification.

## 1. The system

```
 client thread (controller)                      worker thread of a context
   ngl_node_create / param_set / unrefp
   ngl_configure, ngl_set_scene, ngl_draw, ...
        |  dispatch_cmd: lock, cond, wait  --->    worker_thread -> cmd_configure
        |                                                         cmd_set_scene
        |  <--- cmd_ret                                           cmd_prepare_draw
        v                                                         cmd_draw, cmd_stop
      nodes (shared)  <---- attach, visit, prefetch/release, update, draw ----
                             |            |                |
                           key frames   media frames     GL objects
```

| component | state | operations | made hard by |
|---|---|---|---|
| **Scene graph: attachment and references** (`nodes.c`) | `ctx`, `ctx_refcount`, `refcount`, `state` of each node | `node_set_ctx`, `node_init`, `node_uninit`, `ngl_node_ref`, `ngl_node_unrefp` | sharing: attach and detach run once per *path*; a failing init returns through all the callers without clean-up; two contexts compete for a node |
| **Scene graph: frames** (`nodes.c`, `node_group.c`, `node_userswitch.c`, `node_timerangefilter.c`) | `is_active`, `visit_time`, `last_update_time`, the list of visited nodes, the range a filter is in | `ngli_node_visit`, `ngli_node_honor_release_prefetch`, `ngli_node_update`, `ngli_node_draw` | four walks over the same graph that must choose the same children; visits pruned and updates skipped from recorded times; seeks |
| **Rendering contexts** (`api.c`) | `configured`, `backend`, `scene` | `ngl_create`, `ngl_configure`, `ngl_set_scene`, `ngl_draw`, `ngl_freep` | commands of several steps, each of which may fail |
| **Worker thread** (`api.c`) | `cmd_func`, `cmd_arg`, `cmd_ret`, a lock, two conditions | `dispatch_cmd`, `worker_thread`, `stop_thread` | lost signals, spurious wake-ups, results read after the unlock, destruction |
| **Animations** (`animation.c`, `node_animated.c`, `node_animkeyframe.c`) | the key frame the last search ended at | `ngli_animation_evaluate`, `ngl_anim_evaluate` | a cached search and times in any order; key frames shared by animations |
| **Parameters** (`params.c`) | the node lists and the references they hold | `ngli_params_set`, `ngli_params_add`, `ngli_params_free` | growth by `realloc`, references |
| **Textures, media and hardware upload** (`node_texture.c`, `node_media.c`, `hwupload*.c`, `hwconv.c`, `image.c`, `texture.c`) | the frame of a media, the upload class of a texture, its GL textures, its image | `media_update`, `ngli_hwupload_upload_frame`, `ngli_hwupload_uninit` | who holds a decoded frame; the class and the size change from a frame to the next; each step may fail |
| **Hash map** (`hmap.c`) | buckets of entries | set, get, delete, resize, iteration | deletion and resize during use |
| **Dynamic arrays and matrix stacks** (`darray.c`, the transform nodes) | count, capacity, data | push, pop, tail | capacity at its limit, balanced pushes and pops |
| **Blocks, buffers and uniforms** (`node_block.c`, `node_buffer.c`, `node_uniform.c`) | the data of each node, use counts, GPU buffers, the time of the last upload | `update`, `ngli_node_buffer_ref`, `ngli_node_block_ref`, their `upload` and `unref` | shared GPU buffers, copies of copies, uploads spared from recorded times |
| **Streamed variables** (`node_streamed.c`) | the last index found | search of a timestamp | the cached search of the animations |
| **Passes, pipelines and programs** (`pass.c`, `pipeline.c`, `program.c`) | registered nodes, pairs of locations and data, the program in use | `ngli_pass_init`, `_uninit`, `_update`, `_exec` | a failure between registrations; what one pipeline leaves to the next |
| **Geometries** (`node_geometry.c`, `node_quad.c`, ...) | vertices | init | arithmetic |
| **GL state and graphic configuration** (`glstate.c`, `node_graphicconfig.c`, `node_rtt.c`, `rendertarget.c`, `gctx.c`) | the state asked for, recorded and applied, the bound target, viewport, clear colour | honour, begin and end of a target | a cache of remote state; nesting |
| **GL contexts and backends** (`glcontext*.c`, `backend_gl.c`) | native handles | configure, destroy | I/O; a thread per context |
| **Serialisation** (`serialize.c`, `deserialize.c`, `dot.c`) | numbers given to nodes | serialise, deserialise | sharing; partial results on errors |
| **HUD and text** (`node_hud.c`, `node_text.c`) | windows of measurements, graphs, counts of draws | update, draw, export | sums and extremes kept by differences; counts shared by huds |
| **Android support** (`android_*.c`, `jni_utils.c`) | a handler thread, a surface | creation, a new frame | a thread that publishes a handler |
| **Utilities**, **Code generation** | | | arithmetic, generators |
| **Tools** (`ngl-tools/`) | the clock of the player | play, pause, seek | a clock and events |
| **Python binding**, **Python tools** | references, hook threads | | threads that share a file |

What makes each correct, in the terms of its users:

* *attachment*: a context owns exactly the nodes of its scene, a node has one
  owner, it is set up once and reset when the last path to it goes; references
  are exact whichever command failed;
* *frames*: what is drawn is ready and was updated for this very frame; what a
  frame does not need is released; a shared node is kept by any of its branches;
* *commands*: each runs once, returns its own result, and never blocks;
* *animations*: a value is a function of the key frames and the time;
* *uploads*: a decoded frame has one holder until it goes back, once; what a
  texture shows exists;
* *passes*: a GPU buffer exists exactly while something references it, what a draw
  reads is the data of the frame, and is its own, not that of the draw before;
* *state*: a node is drawn under the configuration, target and matrices its path in
  the tree asks for, and leaves no trace;
* *text*: the scene that is read is the scene that was written;
* *measures*: what a HUD shows is of the frame it is shown with.

`PROJECT.json` lists the components with what is modelled of each, and the
hazards of the code, each at its line with the properties that cover it.

## 2. The modules

### NodeGraph, NodeActivity, Context: contexts and the graph they share

`Context` EXTENDS `NodeActivity`, which EXTENDS `NodeGraph`. `ContextProperties`
states what they must satisfy and `NodeLifecycle` is the abstract specification
of one node's life.

The walks of `nodes.c` are recursive functions, and a hazard is what a callback
finds *in the middle* of one. So the call stack is a variable: `stack` is a
sequence of records, the running call first, each with its function, its node,
its arguments and `next`, the child it has reached. A recursive function becomes

| code | action |
|---|---|
| the statements before the loop over the children | `AttachEnter`, `DetachEnter`, `UnrefEnter`, `VisitEnter`, `UpdateEnter`, `DrawEnter` |
| the recursive call | `AttachChild`, `DetachChild`, ... |
| the statements after the loop | `AttachSucceeds`, `DetachLeave`, `UnrefLeave`, `VisitLeave`, `UpdateLeave`, ... |
| an early return | `VisitSkips`, `DetachSkipsOther`, `UpdateSkips` |
| an error return, through all the callers | `AttachFails`, `UpdateFails`: the stack is emptied |
| `ngli_assert` | sets `aborted`, after which nothing happens |

| variable | code |
|---|---|
| `children` | the node parameters of a node, in the order of its class's parameters |
| `refcount`, `ctx`, `ctx_refcount`, `state`, `is_active`, `visit_time`, `last_update_time` | the fields of `struct ngl_node` of the same name; `refcount` 0 is a freed node |
| `enabled`, `range` | the parameter of a UserSwitch; `current_range`, `drawme` of a TimeRangeFilter and the `updated` flags of its ranges |
| `activity` | `activitycheck_nodes` of each context |
| `alive`, `configured`, `backend`, `scene` | the contexts that exist, and the fields of `struct ngl_ctx` |
| `held` | the references of the client |
| `pc`, `cmd` | where the running command stands between two walks, and its arguments |

A node is `plain` (a Group, or any class that treats all its children alike), a
`switch` (UserSwitch) or a `filter` (TimeRangeFilter). The set `Prefetching` says
which classes have a prefetch callback (a class without one is ready as soon as
it is set up, `nodes.c`), the sets `...MayFail` which callbacks may fail.

A command is a first action of the client (`Configure`, `SetScene`, `Draw`,
`Free`), a walk, and then the actions of `Command` between the walks:
`BackendConfigured`, `BackendFails`, `SceneReattached` for `cmd_configure`;
`UnrefScene`, `AttachScene`, `SceneAttached`, `SceneRefused` for `cmd_set_scene`;
`HonorNext`, `UpdateScene`, `DrawScene` for `cmd_prepare_draw` and `cmd_draw`;
`FreeContext` for `cmd_stop`. The client also drops references (`NodeUnref`),
extends detached groups (`AddChild`), toggles a switch (`Toggle`) and creates
contexts again (`Create`). One client thread drives all the contexts, one command
at a time: `WorkerDispatch` shows that a command is synchronous.

### NodeLifecycle

The order `nodes.h` (lines 418-453) promises to a node class: init, prefetch,
release, uninit, per node, bound to one context from init to uninit. Four small
actions. `Context` implements it: property `Lifecycle` is `NodeLifecycle!Spec` with the
identity mapping on `state` and `ctx`.

### WorkerDispatch and SyncCall

`WorkerDispatch` has a controller (`dispatch_cmd`, `stop_thread`) and a worker
(`worker_thread`), with a step wherever a thread takes or releases the lock, waits,
or runs the command. A signal wakes the thread that waits and is lost otherwise;
`Spurious` ends a wait without a signal. `cmd_arg` is the number of the call whose
stack it points to and `cmd_ret` that of the call it is the result of, so that a
mixed-up result shows. `live` says whether the lock and the conditions exist.

`SyncCall` is what a caller of `nodegl.h` sees: request, execute once, respond.
`Synchronous` is `SyncCall!Spec` with `calls <- call`, `result <- cmd_ret`. The names of
the specification start with `Dispatch` (`DispatchInit`, `DispatchNext`, `DispatchSpec`),
since `BaseProofs` extends the module beside `Hmap` and `Animation`, whose names start with
`Animation` for the same reason.

### Animation

`KfId` is `get_kf_id`: the last key frame from a starting one on that is reached.
`CachedKfId` starts where the last search ended, and starts over when it finds
none. `Evaluation` is `ngli_animation_evaluate`: a copy of a key frame or a mix of
two of them, `crash` for a call through a NULL easing function, `garbage` for a list
that was moved. The values themselves (floats, easing) are not modelled: which key
frames are mixed is. `Draw` is the update of the attached animation, `Evaluate` is
`ngl_anim_evaluate`, `SetScene` the detach and the attach of the animations with their
key frames, `AddKeyFrame` is `ngl_node_param_add`.

### HwUpload

Texture and Media nodes with the callbacks of `node_texture.c` and `node_media.c`,
and the steps of `ngli_hwupload_upload_frame`: take the frame of the media, change
the class when its kind or its size changed, init, map, convert or use as is, give
the frame back or keep it. `out` is what the player has handed out, `media_frame`
and `hwupload[x].frame` who holds it, `frame` the local variable of the upload in
progress; `gl_textures` counts the GL textures that exist, `texture` and
`hwupload[x].planes` those the nodes know of. `image[x]` says what the image points
to and from which frame it is.

When the callbacks are called is the matter of `NodeActivity`: here `Visit` picks the
active textures, and the order of the prefetches, releases and uninits is that of
the visit list (children first) and of the detach (children last).

### GpuData and Passes: what the shaders read

`GpuData` is the data of the nodes that feed the shaders. Its operators map a
store `d`, a record with the data of each node, the mark of a live change, the last
index of a Streamed, the copies in the blocks, the references, content and last
upload of each GPU buffer, to the store that the function leaves: `UpdateNode` is
`ngli_node_update` on a node and its fields, `UploadBlock` is `ngli_node_block_upload`,
`Ref` and `Unref` are the counted creation and deletion of a buffer, `StreamedIndex` is
the cached search of `node_streamed.c`.

`Passes` EXTENDS it with the passes in the order of the tree. `PassInit` is
`ngli_pass_init`, which may fail at any of its stages and registers into `regs` what must be
given back; `PassUninit` gives it back. `UpdatePass` and `ExecPass` are one callback
each, `SkipPass` an update that is spared; `Reconfigure` and `SetScene` detach the scene and
attach the next. `program_id` is the program the context
recorded, `gl_program` the one GL has.

### DrawState: what is around a draw

The recursion of `ngli_node_draw` is the variable `stack`; entering and leaving a node
are two actions, `EnterConfig` and `LeaveConfig`, `EnterRtt` and `LeaveRtt`,
`EnterTransform`, `EnterCamera`, `EnterHud` and theirs, with the locals of the C
function in the call. `config` is `ctx->graphicconfig`, the state asked for; `recorded`
is `ctx->glstate`, the state believed applied; `gl` is what GL has. `Honoured` is
`honor_state`. `target`, `viewport`, `clear` are the fields of `gctx.c`; a matrix is the
sequence of its factors, so that a missing or doubled pop shows. Three fields stand for
the graphic state: `blend` for the fields that are always compared, `test` and `box` for
the scissor, where the rectangle depends on the test.

### Hmap and KeyMap

`Hmap` is `hmap.c`: `hm` has the buckets, each with its entries and whether its array is
null, allocated or freed; `ResizeFails` stops the doubling at any entry. `KeyMap` is
the abstract map: a finite map and the last call made on it. `last_set` has the key, the data and
the result of the last `ngli_hmap_set` in both modules, so that a step is tied to its
call: `Put` changes the map at the key of the call to the data of the call, `Remove` drops
that key and returns 1 only if there was one, `Refuse` fails on a key that is not there and changes nothing.
`IsAMap` is `KeyMap!Spec` with the lookups as the map and `last_set` as it is.

### SceneFile

Scenes as `params.c` builds them (`SetNode`, `SetEntry`, `AddNode`, `SetPlain`, with the
references they take and drop), `Serialized` as `serialize.c` writes them, `ReadLine` as
`deserialize.c` reads them. A line is a record: the class, the constructors and the
options, a node being its distance to the line that defines it (`RelNodeId`,
`AbsNode`). Strings are sequences of characters because escaping is part of the round
trip. `SetNodeParams` parses nothing of the line of a class without parameters
(`Identity`), as `deserialize.c:433`. The reader holds one reference to each node it made until `ReadEnds` or
`ReadFails` drops them. The module uses recursive operators and no theorem is stated of it.

### Textures and Pipelines: what a draw binds

`Textures` has the structures and the GL textures of `texture.c`: init, reset, binding,
and `SubImage`, which reads rows one by one or at once. `Pipelines` EXTENDS it with
`pipeline.c`: `Build` makes the pairs of a pipeline and its vertex array, `ExecPass` sets
its uniforms, buffers, textures and arrays (`SetUniforms`, `SetBuffers`, `SetTextures`,
`BindArrays`), `Drawn` puts the arrays back. `gl` is the state of GL: the uniforms of each
program, the bindings, the vertex arrays. `UpdateTexture` changes what the image of a
texture is made of between two draws, as the upload classes do.

### Hud

A frame is one step; the recursion through the huds is a fold over their children
with a record of what each measured. `RegisterTime`, `RegisterGraphValue`, the layout
(`Canvas`, `Widgets`), the sets of nodes each widget looks at, the refresh and the
exported line are those of `node_hud.c`. It uses recursive operators as well.

### DataTheorems, ...Proofs, MC...

`ContextProofs`, `FrameProofs`, `BaseProofs`, `HwUploadProofs`, `PassesProofs`, `DrawStateProofs`
and `PipelineProofs` hold the theorems. The contexts have two modules: `ContextProofs` is about
who owns, attaches and references what, and `FrameProofs`, which extends it, about what a frame
visits, prefetches, releases, updates and draws. `BaseProofs` is about what the rest of the library is
built on: the hash map, the dispatch of a call to the worker, and the evaluations that a client calls in its own
thread.

`DataTheorems` has the facts of mathematics that several of them need: sets of integers have a
first and a last element, counting up (`CountingUp`), the function a fold defines exists and
goes step by step (`FoldExists`, `LeftFoldSteps`), a walk to a greatest element exists
(`WalkExists`), sums over a finite set change as one of their terms (`SumChanges`), images
and unions of disjoint finite sets have the size one expects; the paths of a graph in the order
of a walk that takes a node after its children; what a stack of calls has below its top
(`CallsAbove`, `CallsOnTop`); and what a search of a graph has reached when part of it is on the
stack (`ReachedIn`, `Looks`). Its constants are the nodes of the graph, `Vertex`, and the calls of a walk,
`CallFrame`; it is instantiated by the others, with none of them where there is no graph. The `MC...`
modules define the small graphs, animations, streams, passes and scenes the configurations use.

## 3. The runs

Every run below ends without an error. The ones that end in a counterexample are in
section 7.

### Ownership (MCContext)

Two contexts; scenes n1 -> n2 -> n3, n1 -> n3 and n4 -> n3, so n3 is shared inside
a scene and by two scenes. The inits of n2 and n4 may fail, and the backend of c1.
The client drops its references on n1 and n3 and extends groups up to three
children. No frames (`Time` is empty). About a million states.

* `OwnerCounted`: a node has a context exactly while an attachment of it is counted, at
  every step of a walk;
* `CountsAreExact`, which is `SceneIsAttached` (between commands a context owns its
  scene and nothing else, failed commands included), `CountIsPaths` (`ctx_refcount` is the
  number of paths from the scene, stated as the sum over the parents), `RefcountExact`,
  `NoUseAfterFree` (no walk runs on a freed node) and `AssertsHold` (no assertion of
  `nodes.c` aborts);
* `ChildrenOutliveParents`: an initialised node has a context, and all its children
  initialised in that context, also in the middle of a walk;
* `SingleOwner`: no step moves a node from a context to another.

*Bounds.* Two contexts suffice for a node to be refused and for a shared node to be
left to the other one; the graph has a diamond, a node shared by scenes and a leaf that
fails after a sibling succeeded; three children let a node be a child twice of the same parent. `MaxRefs` 5
bounds the references on a scene; `MayReconfigure` is FALSE because a second
`ngl_configure` that fails breaks `SceneIsAttached` (section 7).

### Frames (MCContext)

n1 -> n2 -> n3 -> n4 and n1 -> n5 -> n4, where n2 and n5 are UserSwitches that the
client toggles between frames; n3 and n4 have resources. The prefetch of n4, the
updates of n2 and n4 and the backend may fail; the context may be configured again
and change scene (n1 or n2). Times 0 to 2, forward. About a million states.

* `DrawnAsUpdated`: what a draw reaches is ready, and updated for the time it was
  visited for (or for the render time of its once range), and no assertion aborts:
  nothing is stale after a failed prefetch, a failed update, a release or a toggle;
* `ActivityFollowsParents`: after a visit a node is active iff an active parent lets it
  be, whatever the order of the branches;
* `Lifecycle`: refinement of `NodeLifecycle`;
* `CommandReturns`: every command ends, with the scene attached.

*Bounds.* Three frames are needed for a node to be active, inactive and active again;
the four combinations of two switches make a shared node lose each branch in turn.
"forward" is per scene: a scene is not drawn twice at a time nor backwards, which
leaves out the deviation ReturnToTime of section 7 and the toggle of a paused scene of
section 8. Seeks are the matter of the next run.

### Filter (MCContext)

n1 -> n5 -> n2 -> n3 -> n4 and n1 -> n4; n5 and n2 are TimeRangeFilters, with
continuous, noop and once ranges; the once range of n2 is interrupted by a noop range
of n5. Ten times, in any order but never twice the same in a row; prefetch time 1 and
idle time 2, so the windows are inside the ranges. About 50,000 states.

* `TypeOK`: the type invariant, here with all the variables in use;
* `InactiveReleased`: at the end of a frame a node has its resources iff the frame needs
  it, though the visit prunes branches that were inactive already;
* `DrawnAsUpdated`: for filters, which includes that a once range that does not update
  its child again shows it at its render time (`OnceKeepsItsFrame`): the child was neither
  released nor updated for another time.

*Bounds.* Ten times put at least one time before, in and after each window of each
range; any order makes every pair of them a seek.

### WorkerDispatch (WorkerDispatch)

Up to eight calls, the last being `ngl_freep`. `ControllerWaits` (while a command runs
the controller is blocked for that very command), `DestroyedUnused` (the lock is
destroyed when the worker is done with it), `Synchronous` (refinement of `SyncCall`),
`CallReturns` (no call blocks forever). After the second call every call is like the
one before; the proofs hold for any `MaxCalls`. Deadlock is not checked because a
freed context stops.

### Animations (MCAnimation)

Two animations that share key frames, two of which have the same time; one is
evaluated by `ngl_anim_evaluate`, the other extended up to five key frames, in or out
of order. Times 0 to 6: before, at, between and after every key frame. `DrawExact` and
`EvaluateExact` (the value is that of the key frames at the time, whatever was searched
before), `RatioDefined` (`t1 - t0` is never zero).

### Uploads (MCHwUpload)

Two textures that share a media, or have one each; four platforms: software frames
(common class), Linux (VAAPI frames of two sizes and an unsupported format), Android
(MediaCodec, two sizes), iOS (VideoToolbox, two sizes); each texture samples layouts directly or
needs a conversion. Inits, maps and conversions may fail. About 840,000 states.

* `FrameConserved`: a frame handed out by the player has exactly one holder and goes
  back once; the player is freed with all its frames back;
* `TextureConserved`: the GL textures that exist are those the nodes know of;
* `ImageBacked`: an image points to planes that exist, and the decoder does not get back
  a surface that an image is mapped from;
* `ImageIsLatest`: a texture shows the last frame the player gave.

*Bounds.* Two frames of each kind are what a media and a texture can hold while the
player hands out the next one; two sizes are enough for a class to be set up again,
and a class that changes (VAAPI, unsupported) for the previous one to be reset.
The sets of failing steps leave out the failures of section 8. The second half of
`ImageBacked` and `ImageIsLatest` speak of textures whose last upload succeeded
(`failed`), the latter of textures that do not share their media: the first texture
updated takes the frame.

### Passes (MCPasses)

A Compute that stores to a field of a block, a Render that reads that field as an
attribute, a Render with the default program; they share two blocks, a vertex buffer, an
animated buffer and a texture. Four scenes, four sets of active passes, times 0 to 2 in
any order, one live change, four stages of `ngli_pass_init` that may fail, a Streamed
whose update may fail. About 230,000 states.

* `BuffersCounted`: a GPU buffer has a reference for each of its registrations by a pass,
  and exists exactly while there is one, whatever attachment failed;
* `ReadsAreCurrent`: a uniform, an attribute, a block or a texture that an executed pass
  reads has the value of the time of the frame, through the updates, copies and uploads
  that are spared (passes updated in part by a failed frame excepted, section 7);
* `StoresKept`: what a Compute stored in a block without dynamic fields stays there;
* `ProgramIsInUse`: the recorded program is the one GL uses, over deletions, names given
  again and new contexts.

*Bounds.* Three passes give each resource two users one of which is released first; three
times let each node be ahead of, at and behind the time of another.

### DrawState (MCDrawState)

Three scenes around the same Render: a config in a config, with one of them shared; rtts
in one another with configs inside and outside, one multisampled, one with its own clear
colour; a camera below an animated transform, with an rtt between two huds. OpenGL ES,
two window sizes, failures of the render targets, reconfigurations and resizes. About
15,000 states.

* `StateFollowsPath`: at each moment the state asked for, the target, the viewport, the
  clear colour, the depth of the matrix stacks and the timer are those of the path;
* `ContextKnowsGL`: what the context recorded of GL is what GL has, so a spared call
  would have changed nothing;
* `DrawnAsAsked`: a draw finds in GL the state, framebuffer, viewport and matrices its
  path asks for;
* `FrameIsWhole`: the frame begins and ends with the state of no node, in the framebuffer
  of the context.

*Bounds.* Each class of node occurs above and below each class that changes the same
field. A config sets the scissor test and its box together: section 7.

### Hmap (MCHmap)

Four keys, a map of one bucket that doubles to two and four, every allocation failing. 5,470 states.
`EntriesAreExact` (a walk meets each entry once, a datum given to the map is in one entry
until it is freed) and `IsAMap` (refinement of `KeyMap`: the lookups find for each key what the
last call on it that did not fail has set). Keys of a bucket part or stay
together when the map doubles; four entries do not fill four buckets, and being refused at
`SizeLimit` is the step of a resize that fails. `EmptiesBuckets` is FALSE: section 7.

### SceneFile (MCSceneFile)

Every scene of up to three nodes of five classes, with a parameter of each type and one class without parameters, built with
up to three calls (857,000 states), nodes shared, replaced and dropped, strings with an empty name, a name
that reads as an escape and a class name as label. `ReferencesCounted` (each
node has the references the client, the reader and the parameters hold, wherever reading
stops) and `RoundTrip` (the scene read is the scene written, with its sharing, its values and its
labels; a node of the class without parameters comes back with the default label: section 8). Three nodes
are enough for a shared node and a distance of two lines.

### Pipelines (MCPipelines)

Two Renders that share a program and give its sampler different textures, a Render
whose instanced attribute is at a location of theirs, a Render with an empty texture, a
Compute that samples a media and stores to an image. GL with all features, or without
vertex array objects and row lengths; frames of two layouts, one padded. About 75,000 states.

* `SamplesItsImages`: at a draw each sampler of the pass has a unit of its own on which the
  plane of its own image is bound;
* `DrawsItsOwn`: uniforms, blocks and arrays are those the pass was given;
* `RowsInPlace`: each row of a texture was read at its own offset.

*Bounds.* Three units are one more than a two plane image; the textures created are
capped by `MaxTextures`.

### Hud (MCHud)

Two huds, the second below the first and also beside it, over a switch, a config, an rtt
and passes; windows of two and three measures; frames at three times, drawn again, with a
failing update and failing exports; seven aspect ratios. About 12,000 states.

* `LatenciesAddUp`: the total of a latency is the sum of the window;
* `GraphsStayInside`: the extremes of a graph are those of its values, its bars stay in its
  rectangle, and the widgets do not overlap on any canvas;
* `LinesAreOfTheFrame`: after a frame the exported line is recent, and a line of this frame
  has the draws of this frame.

*Bounds.* A window of three wraps around within three frames and their redraws; the
ratios include the smallest, the square and extreme ones.

## 4. Fairness

*Context.* `WF_vars(Command \/ GraphWalk \/ ActivityWalk)`: a command that has started
goes on. It runs on a thread with nothing to wait for (the walks are recursion over a
finite graph without cycles, and the rest is straight code), so the only thing it
needs is the processor. The client is not fair: it may never call again.

*WorkerDispatch.* Weak fairness of each thread, and strong fairness of the steps that
take the lock: while a thread waits for the mutex the other one may, by spurious
wake-ups, take and release it again and again, so taking it is enabled infinitely
often without being enabled for ever; a scheduler that never grants it would be
unfair in the sense of POSIX threads. `Spurious` and `Dispatch` are not fair: no property
may rely on a wake-up nobody sent, and nobody is obliged to call.

The other modules make no liveness claim and have no fairness: their operations are
called by the walks of `Context`, whose commands end, or by the client, who need not call.

## 5. The proofs

Every theorem holds for all values of the constants under the named assumptions of
the modules (`NodeAssumption`, `ActivityAssumption`, `ContextAssumption`,
`CallsAssumption`, `AnimationAssumption`, `UploadAssumption`, `GpuDataAssumption`,
`PassesAssumption`, `HmapAssumption`, `DrawStateAssumption`, `TexturesAssumption`, `PipelinesAssumption`), which
TLC evaluates in the runs. They say that the model values are distinct, that ranges are
sorted (the init of a TimeRangeFilter refuses others), that a switch and a filter have
one child (their parameter is mandatory), that there are finitely many nodes, contexts
and medias, that a block a shader reads has fields, that a compute pass has neither indices nor attributes
and stores into blocks it was given. `PipelinesAssumption` says how names go: a uniform is not a sampler,
a name is given one texture (it is a key of a dictionary), no two uniform blocks of a program have the same binding
(`program.c:233` numbers them), the rows of a frame are at least as long as it is wide. The graph may have
cycles, except in `DrawState`: its `AcyclicAssumption` says that no node is below itself, since
the draw of a node inside of its own draw would overwrite what the node saved
(`node_graphicconfig.c:256`). The client cannot get such a scene drawn: attaching it would not return.

A theorem with a hypothesis of its own says so in its statement: an assumption on the constants
(`Conserving`, `Reclaiming`, `~EmptiesBuckets`, `~MayReconfigure`,
`ScissorsAreWhole`, `PlaysForward`, `PrefetchMayFail = {}`) or on the
behaviour (`[]Reattaches`, `[]FreesNoScene`, `[]UpdatesReady`, `[]VisitsAreNew`, `[]UpdatesAreNew`,
`[]NotNested`). Each of them excludes a
failure or a use that the code does not handle, and a configuration of section 7 or a
line of section 8 shows what happens then.

### ContextProofs

`Invariant == TypeOK /\ CommandOK /\ CallsOK /\ OwnerCounted`

`OwnerCounted` is not inductive: an attach that resumes after its children would
overwrite the context of a node that another context had taken meanwhile.
`CallsOK` excludes it: every attach on the stack is for the context of the command, and
each that has passed its check has a node that is free or of that context. That
in turn needs `CommandOK`, what the arguments of the command are at each point.

* `TypeCorrect`: `Spec => []TypeOK`. The stack is the delicate part: a call pushed by any
  walk has arguments of its type, the index of a range stays in the list
  (`RangeAtType`), the list of visited nodes is made of nodes.
* `OwnershipIsCounted`: `Spec => []OwnerCounted`.
* `NoNodeIsStolen`: `Spec => SingleOwner`, an action property, from the same invariant
  (`OwnerStep`: the only step that sets a context to another value than NULL is the end of
  an attach, and `CallsOK` says what was there).

`NextPreserves` is split as the code is: `GraphWalkPreserves`, `ActivityWalkPreserves`,
`ClientPreserves`, `CommandPreserves`, with a step per action. `StackTop`,
`StackOperations`, `StackStep`, `ChildStep`, `FirstCall` say once what a call, a child
call and a return do to the stack and the calls on it.

The other theorems need to know what a walk that is half way has done. Three more
invariants follow one another; TLC checked each on the graphs of the runs before it was proved.

* `Ordered`: all the calls on the stack are of one walk, for one context, at the point of the command
  that starts it; what that point implies of `configured`, `backend` and `scene`.
* `Attachment`: `node_set_ctx` visits paths, not nodes, so the ghost of the proof is, for each
  context, the set of *paths* it has attached and not detached (`Pathwise`). Between
  walks that is every path from its scene (`Whole`); during an attach or a detach it is, by
  `Shape`, what the position of the walk says: the paths that come before the trail on the stack,
  in the order of the children. `Accounted` ties it to the code's state: a node is in a context
  exactly if one of these paths ends at it, and its count is the number of those that do. `Tied` says the
  stack is a trail of the graph, `Tracked` that an initialised node has a context. A step of a
  walk adds or removes one path; an attach that fails leaves the paths before its
  trail, which is what the detach that follows it finds.
* `Balance`: who holds each reference. `refcount` of a node is the client's reference (`Own`),
  the parameters that name it of the nodes that are live or being freed and still have them to drop (`Kept`),
  the contexts that show it (`Uses`), and the one a release on the stack has taken over and not dropped
  (`Dropping`). `FreedOnce` and `Waiting` say what the releases on the stack are;
  `Walked` that every other walk runs on live nodes; `Halted` that only the update can abort.

From them:

* `ChildrenStayAttached`: `[]ChildrenOutliveParents`. A path that ends at a node goes on to its
  children, and `Shape` is closed under that, at every step of every walk.
* `LifecycleIsKept`: `Lifecycle`, the refinement of `NodeLifecycle`. The one delicate step is a
  prefetch, which does not check that the node is initialised.
* `PathsAreCounted`: between commands a node is in a context exactly if a path leads to
  it from the scene, and `ctx_refcount` is the number of these paths. That is the definition
  `CountIsPaths` paraphrases by a sum over the parents; `PathsByParent` proves them the same.
* `CountsStay`: `SceneIsAttached`, `CountIsPaths`, `RefcountExact`, `NoUseAfterFree`, and that the only assertion
  that can fail is the one of `ngli_node_update`. `DescendantsFound` shows that the rounds of
  `Descendants` find what the paths lead to. That a release never frees a node that has a
  context (`ngli_assert(!node->ctx)`) is where both counts meet: the context of
  a node has a path to it from its scene, along which every node is live, so its last parent
  holds a reference (`UnheldIsDetached`).
* `CountsStayExact`: `[]CountsAreExact` if the assertion of `ngli_node_update` holds (`UpdatesReady`).
* `ConfiguredOnceIsEnough`, `ConfiguredOnceLosesNothing`: a client that configures each context once
  meets the hypotheses below.

### FrameProofs

The frames: a visit, the prefetches and releases it queued, an update and a draw each choose
the children they go on with, from what the ones before them wrote. Each has an invariant of its own.

* `Visiting`: what the visit has decided so far (`Decides`). With `A` the nodes found active at this time and
  `O` those that let activity through: an active call on the stack was asked for
  by an active parent, which asks its children in turn (`Justified`); an active node has a reason
  (`Reasoned`); and what an active node asks for is active, or a call on the stack has yet to ask for it
  (`Heeded`). A node that another branch has visited already only ever goes from inactive to active, and what
  changes in `O` then is at the filters above it (`ActivityOpens`), which look at the activity of their one
  child. Once the stack is empty, `Reasoned` and `Heeded` are the two directions of
  `ActivityFollowsParents` (`ActivityComesDown`).
* `Queueing`: a node that was visited is on the list of its context, or is to be put there by
  the call that entered it, or has had its turn: prefetched if it is active, released if it is not.
* `Updating`: a call of an update is of an active, prefetched node and, as long as a filter is below, for
  the time of the frame. Its children are active, since what is updated there was let through
  (`UpdateOpens`). So the assertion of `ngli_node_update` holds (`UpdatesAreReady`) and
  `FramesCountExactly` has `CountsAreExact` without `UpdatesReady`.
* `Settling`: what the update has done so far (`Settles`), as `Decides` says it for the visit. With `D` the nodes
  updated for this time and `T` those a draw would go through: below a node that is done, each child a draw would
  take is done, or on the stack, or in the part of the graph without filters, where activity alone decides.
* `Drawing`: when the update succeeded there is a set of prefetched nodes that contains
  the scene and from which a draw leads nowhere else (`Drawable`); the draw stays in it
  (`DrawsAreReady`, for `DrawReady`, the first part of `DrawnAsUpdated`).

* `Found`, `Searching`, `Released`: what may still have resources. A visit does not look below a node that
  was and stays inactive (`nodes.c:409-412`), so `InactiveReleased` rests on the frames before. `Found`, which
  holds at every step: a node of a context that has resources (`Holding`) is reached from the scene through
  nodes whose `is_active` is set; while a visit runs, through those it has entered as well (`Stirred`).
  `Searching`: what the visit has entered has children that are inactive, entered, or still to
  be called by a call on the stack (`Looks`), and what it activated is reached from the scene. So
  when it returns, all that has resources has been entered and is, by `Queueing`, on the list, of which
  `ngli_node_honor_release_prefetch` prefetches what is active and releases the rest (`Released`); the update and the draw
  prefetch nothing. `ResourcesFollowActivity` has `InactiveReleased` from these, if no prefetch
  fails (`PrefetchMayFail = {}`): one that does abandons the rest of the list (`nodes.c:492`), which section 8 lists.
* `Visits`, `Updates`: why a client that plays forward (`PlaysForward`: `Playback` is "forward", the times are
  naturals, and the prefetch of a node used as a scene does not fail) never meets an old time. The scene itself
  keeps the time of its last frame, and no node of its context was visited later, nor, if it is above a filter,
  updated later. A node that changes hands has lost both times: the last detach resets them with the private data
  of the node, a release the time of the update, so a node just attached has neither. Between its
  last detach and the end of an attachment, and while a visit gives out the new time, this does not hold
  of the context at work (`Busy`), and holds of all the others, as their nodes are theirs alone
  (`OwnersStand`). A scene whose own prefetch fails forgets its time (`nodes.c:470`), and could be drawn at one that
  other nodes still bear: hence the last part of `PlaysForward`.

The hypotheses are about the behaviour. `VisitsAreNew`: a frame is asked for at a time at which no node
of the scene was visited before, as `ngli_node_visit` takes one that bears the time for visited (ReturnToTime).
`UpdatesAreNew`: no node above a filter was already updated for the time of the frame, as `ngli_node_update` would
skip it. For a client that plays forward both are proved (`VisitsHold`, `UpdatesHold`), so the theorems
`ForwardComesDown`, `ForwardDrawsAreReady` and `ForwardFollowsActivity` have `ActivityFollowsParents`, `DrawReady` and
`InactiveReleased` without them; `ForwardIsEnough` is for one that configures each context once as well, and says
of every behaviour of such a client, whatever else fails, that
activity follows the parents, and where no filter is nested, that the counts are exact and the draws ready. `NotNested`: no filter is below one that has a "once" range,
whose child is updated for another time (NestedFilters). `Reattaches`: no scene fails to be attached again in
`ngl_configure`, which drops it without detaching what was attached (FailedReattach).
`FreesNoScene`: `ngl_freep` does not find a scene on a context whose backend failed to configure,
as it never gives its reference back (FailedReconfigure). `UpdatesReady`: the update reaches ready nodes only,
which ReturnToTime and NestedFilters refute; it follows from `VisitsAreNew` and `NotNested`.
The run Ownership, which checks `CountsAreExact`, configures each context once; in Frames a
context is configured again and its backend may fail, but no init does, so `Reattaches` holds there as well.

### BaseProofs: WorkerDispatch

`DispatchInvariant == DispatchTypeOK /\ LockHeld /\ ControllerPhase /\ WorkerPhase`

`LockHeld`: the thread that works under the lock holds it. `ControllerPhase` and
`WorkerPhase` say what each thread may rely on at each point: how many commands have run, whose
result is in `cmd_ret`, and that a command is only set while its caller is in
`dispatch_cmd`.

* `ControllerIsBlocked`: `DispatchSpec => []ControllerWaits`;
* `SafeDestruction`: `DispatchSpec => []DestroyedUnused`;
* `CallsAreSynchronous`: `DispatchSpec => Synchronous`, the refinement: `Dispatch` is a request,
  `RunCommand` an execution, `ReturnResult` a response, every other step a stutter. That
  the response is that of the call follows from `ControllerPhase`, though `cmd_ret` is read
  outside the lock.

### BaseProofs: Animation

`AnimationInvariant == TypeOK /\ Accepted /\ RatioDefined`

`Accepted`: the lists in use are in order, and the scene has its own key frames,
all set up. `CacheIsHarmless` is the heart: in an ordered list a search from any starting
key frame that finds one finds the one a search from the start finds. With
`LastReached` and `EvaluationIsExact` it gives

* `DrawsAreExact`: `AnimationSpec => DrawExact`;
* `MixIsDefined`: `AnimationSpec => []RatioDefined`, so `t1 - t0` is positive.

`EvaluateExact` and `FunctionsAreSet` hold in the run only because `Evaluable` and
`Extensible` keep the deviations of sections 7 and 8 out; for all constants they are
false, so there is nothing to prove.

### HwUploadProofs

`Invariant == TypeOK /\ Control /\ HoldersAreReady /\ OneHolder /\ SomeHolder`

A frame has three possible holders: the media, an upload class, the upload in
progress. Counting them is not inductive, and cardinalities are hard to reason about;
the invariant says instead that who holds a frame holds one that is out
(`HoldersAreReady`), that no two hold the same (`OneHolder`) and that a frame that is out
has one (`SomeHolder`). `Control` relates them to the steps of the upload, and the
states of the nodes to the walks. `HoldersCounted` counts to one at the end.

* `FramesAreConserved`: `Conserving` implies `Spec => []FrameConserved`. `Conserving` excludes the
  two failures of section 8 that do lose a frame: a conversion that cannot be set up for
  a class that does not own its frames, and a frame of an unexpected format.
* `ImagesAreBacked`: `Conserving` implies `Spec => []ImageBacked`, with `Images` (what the
  image of a texture points to, at each step of an upload) and `KeptIsShown` (a class
  that keeps its frame shows that one).
* `LatestIsShown`: `Conserving` implies `Spec => []ImageIsLatest`. The frame the player handed
  out last is in the image, or in the media or the upload that is on its way to it (`Follows`).
* `TexturesAreConserved`: with `Reclaiming` as well, `Spec => []TextureConserved`. `gl_textures` is a
  sum over the nodes, and each step changes one term (`SumChanges`). `Counted` adds why a texture is
  not set up twice: software frames of one size, from a stream of one kind. `Reclaiming` excludes what
  section 8 lists as losing a GL texture: an init that fails half way, and a change of size.

### PassesProofs

`Control == Lists /\ Registrations /\ Visits`

`Control` is the type and the shape of the state: the lists of passes are without repetition and agree with
the phase, what a pass has registered is nothing, or a part of what it registers (`RegisteredBefore`)
if it failed on the way, or all of it. The functions of `GpuData` are folds over lists of nodes; each is
characterised once by what it leaves alone (`SameData`, `SameBuffers`, `Updates`, `Kept`) and what
it does step by step (`RefsStepwise`, `UpdatesStepwise`, ...).

* `ProgramsAreOwn`: `Spec => []ProgramIsInUse`, with `Programs`: the name recorded is the one in use in GL, a
  name that GL has given has one owner.
* `BuffersAreCounted`: `Spec => []BuffersCounted`. `refs` of a buffer is the sum over the passes of how
  often each has registered it (`TotalUses`); a pass adds its own or takes exactly them
  back, also when its init failed between two registrations (`Referenced`, `Unreferenced`).
  `Counted` includes `Fresh`: a block without dynamic fields that is marked changed was never uploaded.
* `StoresAreKept`: `Spec => []StoresKept`, with `Unspoilt`: what a compute pass stored is in the GL buffer, and
  a block without dynamic fields is not marked as changed once a ready pass has uploaded it.

### BaseProofs: Hmap

`Exact`: the map is closed and holds nothing, or it is a table of some size `n` (`Tables(n)`: every entry is
in the bucket of its hash modulo `n` and records that bucket) which is `Sound` (one
entry per key, as many as the count says), and the objects held are those of the entries.

* `EveryEntryIsMetOnce`: `Spec => []EntriesAreExact`. `Walk` follows `ngli_hmap_next`, which finds its place from
  the entry it last returned; that it ends, and meets each place once in order, is by the
  rank of a place (`WalkOf`).
* `IsTheMapOfItsClients`: `Spec => IsAMap`, the refinement of `KeyMap`, the last call included: an operation adds, replaces or
  deletes one pair (`Appended`, `Replaced`, `Deleted`), and a resize, which moves the entries one by one into the
  new buckets, none (`DoubledOf`, along the steps of its fold), whatever allocation fails.
* `FreedArraysAreLeftAlone`: `~EmptiesBuckets` implies `Spec => []NoFreedArrayUsed` (HmapDangling).

### DrawStateProofs

`Invariant == TypeOK /\ TargetPutBack /\ ContextKnowsGL`

`ContextKnowsGL` is about the framebuffer that is bound, and a framebuffer may be freed: the
release of an rtt that is the current target would leave a name of nothing.
`TargetPutBack` excludes it: in the chain of calls on the stack only an rtt has another
target below it than above it, and remembers that one, so at the bottom, and between
frames, the target is one that the context has of its own (`OwnTarget`).

* `DrawKnowsGL`: `Spec => []ContextKnowsGL`;
* `TargetIsOwn`: between commands the target is none or one of the context, for any scene.

`DrawInvariant == GoesDown /\ Named /\ Followed /\ MatricesFollow /\ MatricesOfFrame /\ TimerFollows /\ Settled`

What a path asks for is defined from the scene alone (`AskedConfig` and the others), as
the innermost node of a class on it, or as a fold for the matrix. The lemmas named
`...Grows` say how each of these changes when the path grows by one node; a step down then
follows from the lemma, read from left to right. A step up needs what was asked for at the
parent, which is no longer in the context but in the locals of the draw and in
the nodes: `Followed` (in `KeepsLocals`) says that each call on the stack holds the target, the
viewport and the clear colour that the path to its parent asks for, and that the
`saved` of each config on the stack is the configuration asked for there. This is why cycles are
excluded: `GoesDown` keeps the subtrees on the stack strictly inside of each other, so
no node is on it twice, and no config or hud is confused with itself.
`MatricesFollow` says of every level of the matrix stacks, not only of the last, that it is the matrix of
the path of that depth. `MatricesOfFrame` has what the update computed, `Named`
that the framebuffers of the rtts of the scene exist once the prefetch of a frame has
succeeded and that no two share a name (`PrefetchAll`, along the steps of two folds), and `Settled` that GL is
neutral between frames.

* `PathIsFollowed`: `Spec => []StateFollowsPath`;
* `FramesAreWhole`: `Spec => FrameIsWhole`, without any hypothesis on the scissors, since
  what counts between frames is that the test is off;
* `DrawsAreAsAsked`: `ScissorsAreWhole` implies `Spec => DrawnAsAsked`. The invariant it adds is
  `BoxKnown`: the box of GL is the one recorded, unless that one is the window's and the test is off.
  `ScissorsAreWhole` excludes the configs of StaleScissor (section 7), which set only one of test and box, and
  those that set the box of the whole window, which are hit in the same way after a resize; every other
  part of the property holds without it.

### PipelineProofs

`Inv == TexturesInv /\ BindingsInv`

`TexturesInv` is about the structures and GL's textures. `Sound`: a structure that has a name has one that GL knows
and that no other structure has, which is why deleting or binding one does not touch the rest; `Fits`: an
image with a layout has as planes the structures of its texture, each of them live, the class that is mapped
is that of the image, and the rows are those of the data of the last upload, with its stride (`RowsFit`).
Every action is one on the structures of one texture (`OneTexture`, `OthersKept`), and the operators of
`Textures` are each characterised by a lemma (`InitTextureFacts`, `ResetTexturesFacts`, `UploadFacts`...).

`BindingsInv` is about the rest of GL: `program_id` is the program in use; a pipeline that is built has the
pairs that its registration made, with the texture alone changed (`PairsFit`); with vertex array objects, the one
of a pipeline has exactly its arrays, for ever; without them, a location of the default one is `Idle`
(disabled, its rate 0) but for those the drawing pass has set. That `Drawn` gives the rate back is what keeps this.

What an execution sets is a fold over the pairs. `SetTexturesSteps` takes it step by step, and `SetTexturesBind`
carries along that what was bound so far stays bound (`BoundApart`): a sampler takes a unit that no earlier one
has, nor a storage image of the pass (`FreeUnit`, `BindingsApart`), so no later pair binds over it. `PairsFacts` is the same
for the registration: each sampler the program declares for a texture of the pass has one pair.
From there the three theorems are about the step of `ExecPass` alone, as nothing runs between it and the draw (`OnlyDrawn`).

* `RowsStayInPlace`: `Spec => []RowsInPlace`. `SubImageRows` has the arithmetic: when the rows go in one call, the
  alignment GL is told divides what one row and its padding take, so GL skips neither more nor less.
* `DrawsStayItsOwn`: `BlocksApart` implies `Spec => []DrawsItsOwn`. `BlocksApart`: the storage blocks a pass gives are at
  different bindings, which are those that the shader states.
* `SamplesStayItsImages`: `EnoughUnits` implies `Spec => []SamplesItsImages`. `EnoughUnits`: a pass has no more
  samplers than `Unit` has units; one that has more skips the rest (section 8).

## 6. What is only model-checked

Liveness (`CommandReturns`, `CallReturns`): ENABLED and fairness are out of the
prover's reach. Of the contexts, the conjuncts `DrawUpdated` and `OnceKeepsItsFrame` of `DrawnAsUpdated`: they
do not hold on every graph (the child of a once range that another branch updates for the time of the frame;
a node below two once ranges of the same render time, one of which another branch shares, which the update
skips though what is below it was updated for another time), so the shape of the graphs of the runs is
part of what they say. Of the passes, `ReadsAreCurrent`, which needs the time of every value a draw reads. `SceneFile` and `Hud` are
written with recursive operators, which the prover cannot read.

## 7. Where the code does something else than it says

Each of these has a configuration, which is not one of the runs of section 3 since it
ends in a counterexample: `tlc -config FailedReattach.cfg MCContext`, and so on.

| configuration | module | property | where |
|---|---|---|---|
| FailedReattach | MCContext | `AssertsHold` | `api.c:114` |
| FailedReconfigure | MCContext | `RefcountExact` | `api.c:431` |
| ReturnToTime | MCContext | `AssertsHold` | `nodes.c:421` |
| NestedFilters | MCContext | `AssertsHold` | `node_timerangefilter.c:220` |
| ResetKeyFrame | MCAnimation | `FunctionsAreSet` | `node_animated.c:192` |
| RedrawAfterFailure | MCPasses | `RedrawnIsCurrent` | `nodes.c:506` |
| StaleBlockField | MCPasses | `LiveFieldsReachShader` | `node_block.c:228` |
| StaleSampler | MCPipelines | `NoFreedTexture` | `pipeline.c:203` |
| StaleScissor | MCDrawState | `DrawnAsAsked` | `glstate.c:283` |
| RttUnderSibling | MCDrawState | `RttUnderItsPath` | `node_rtt.c:359` |
| HmapDangling | MCHmap | `NoFreedArrayUsed` | `hmap.c:91` |

* **FailedReattach**. `ngl_configure` detaches the scene and attaches
  it to the new backend. If that fails, the scene is dropped without being detached, so
  the nodes attached before the failure keep their context; unreferencing the
  scene to its end aborts (`ngli_assert(!node->ctx)`, `nodes.c:617`). `cmd_set_scene` does
  detach (`api.c:148-149`). `nodegl.h:386-389` promises to "re-allocate the ressources of
  any previously associated scene".
* **FailedReconfigure**. `ngl_freep` drops the scene only if the context
  is configured, and a refused `ngl_configure` has cleared that flag: the reference leaks.
  `tests/api.py:45-53` runs that sequence.
* **ReturnToTime**. A node released since its last visit still has
  the time of that visit; when the client comes back to that time the node is active but
  not queued, hence not prefetched, and its update aborts (`nodes.c:502`).
* **NestedFilters**. A once range visits its child at
  the time of the frame (`node_timerangefilter.c:192`) and updates it at its render time; a
  filter below may have something to show at the second only, and the update aborts.
* **ResetKeyFrame**. `ngl_anim_evaluate` initialises the key
  frames if the first one is not; a later one that another animation shared and
  reset has a NULL easing function (`animation.c:59`).
* **RedrawAfterFailure**. A node whose update failed keeps the mark of the last time it
  succeeded while its children have gone to the new time. The frame of the old time,
  drawn again, does not update the node, and so not its children: it is drawn with the
  data of the frame that failed. `nodegl.h:435` promises a draw "at the specified time".
* **StaleBlockField**. `uniform_update` clears `live_changed` (`node_uniform.c:145-150`)
  before `update_block_data` asks for it (`node_block.c:270-280`): a block
  keeps the old value of a uniform that was changed live. `libnodegl.md:726-757` says
  that a uniform may be changed live.
* **StaleSampler**. A pipeline points to the texture structures of the image it last
  updated from; `ngli_pass_exec` does not update the pointers when the image has no
  layout (`pass.c:733`), so after a media texture was released, or its class changed and a
  frame is missing, the pipeline binds a freed structure.
* **StaleScissor**. `honor_state` records a scissor rectangle while the test is disabled
  without applying it; once the test is enabled the comparison with the recorded one
  spares the call. `libnodegl.md:326` documents the two parameters as independent.
* **RttUnderSibling**. An rtt clears and resolves with whatever state the last honoured
  sibling left, a scissor included: the pending state is honoured before a draw
  (`pipeline.c:608`) and at the end of the frame (`backend_gl.c:388`), but not before a clear.
* **HmapDangling**. Deleting the last entry of a bucket frees its array and leaves the
  pointer in the bucket: the next addition to it reallocates freed memory.
  `test_hmap.c:75-90` deletes that way, and so does `params.c:472` when a
  dictionary entry is set to NULL.

## 8. What is left out, and why

### Deviations met while modelling and kept out of the passing runs

No configuration shows these; a named bound or the property itself keeps each out.

| behaviour | where | kept out by |
|---|---|---|
| a frame at time -1 is taken for a frame already visited or updated: -1 stands for "never" | `nodes.c:84` | `Time` has no negative number |
| the list of visited nodes is abandoned at the first prefetch that fails; later inactive nodes stay ready, and the next visit prunes them as if they were released | `nodes.c:492`, `409-412` | `InactiveReleased` is checked with `PrefetchMayFail = {}` |
| a switch enabled while the same time is drawn again draws a child that was released | `node_userswitch.c:58` | `Playback` |
| the `updated` flag of a once range is not reset by a seek before the first range | `node_timerangefilter.c:117` | the first range starts at the first time |
| `node_uninit` does not reset `is_active`: a scene set again with a noop range within its idle time starts an idle child | `nodes.c:228` | no property of such a start is claimed |
| `ngl_anim_evaluate` keeps the list of key frames it was set up with after a `realloc` moved it | `node_animated.c:182`, `params.c:602-609` | `Evaluable` and `Extensible` are disjoint |
| a conversion that cannot be set up never gives the frame back, for a class that does not own it | `hwupload.c:175-181` | `ConvMayFail` |
| an init that fails after its first plane leaves the class NULL, and the next uninit does not free the plane | `hwupload.c:159-163` | `HalfInitMayFail` |
| a change of size, or a return to the common class, sets `s->texture` up without reset and loses a GL texture | `hwupload_common.c:64` | the stream of software frames has one size; in `Pipelines`, `MaxTextures` |
| a frame of an unexpected format is refused once the last one is released and its pointer kept: it is released twice | `node_media.c:230-247` | no frame of `Platforms` is unexpected |
| a map that fails for a class that owns its frame leaves the image on the planes of the frame before, already released | `hwupload_vaapi.c` | `ImageBacked` does not claim failed uploads |
| an upload of a block goes over the fields a compute pass wrote, if another field is dynamic | `node_block.c:278` (a TODO there) | `StoresKept` is about blocks without dynamic fields |
| a block referenced only through the Buffers of its fields is uploaded but never updated | `node_buffer.c`, `pass.c` | `MCPasses` gives the block to the pass as well |
| the label of a node of a class without parameters (`Identity`) is written and not read back: the reader returns before it parses the options | `serialize.c:354`, `deserialize.c:433-434` | nothing: `RoundTrip` claims the default label for them |
| an index buffer that references a block is refused after a reference on it was taken and before it is registered: it is never given back | `pass.c:456-466` | no index of `Param` references a block |
| a pipeline that runs out of units skips its remaining textures and still draws | `pipeline.c:203-240` | `SamplesItsImages` is checked with enough units |
| a hud below a hud resets the draw counts the other one is to show | `node_hud.c:1126` | `LinesAreOfTheFrame` claims less of shared nodes |
| a failed update uses up the refresh of a hud: its line is lost | `node_hud.c` | `LinesAreOfTheFrame` excepts failed times |

### Met on the way, not modelled

Behaviours outside of the abstractions, noted for a reader of the code:

* `node_camera.c`: what the perspective and the up vector make necessary is computed at
  init only, though they may be changed live; a chain of transforms that ends in a type that
  is not allowed is walked for ever (`transforms.c:48`).
* `node_rtt.c:122-185` keeps pointers to elements of a dynamic array that grows.
* A context configured for a window after it was offscreen keeps `ctx->rendertarget`.
* The size of a block is not rounded up to 16 bytes.
* `node_streamed.c`: the init checks `timebase[1]` and the update divides by `timebase[0]`.
* A mat4 attribute is registered with one location (`pass.c:413-420`), and
  `pipeline.c:302` gives the pointers of all its columns to the first.
* `ngli_pipeline_reset` deletes a vertex array without checking the feature (`pipeline.c:629`);
  the units are bounded by 64 and not by `max_texture_image_units`.
* `texture.c:128` uploads rows of a 3D texture with the depth for a height of 1, in a
  branch no class reaches.
* `serialize.c`: a constructor string that is NULL is left out of the text, and
  what follows is read in its place; a label set to NULL reads back as the default. In
  `deserialize.c` a dictionary key of more than 63 characters or with a `=` is refused.
* `bstr.c`: failures of the prints are ignored.
* `params.c:441`: the old node of a parameter is unreferenced before the new one is referenced,
  which frees it if they are the same and nobody else has it.
* `node_hud.c`: the first refresh is late when the interval is more than a second; a draw
  at time -1 divides by a count of 0; an aspect ratio is not checked; an `open` that
  failed leaves descriptor 0 to be closed.

### Simplifications

*Everywhere*: memory allocation never fails, but in `Hmap` and `SceneFile`. GL calls,
the decoder (sxplayer) and the windowing systems are seen through what the code does
with their answers.

*Context*: one client thread. Ranges are data of their filter, not nodes; the
geometries, which attach a buffer of their own in their init, are plain nodes. Every
class is treated as if it had an update and a draw that go to its children; a class
update fails only after its children were updated. A frame on a context without a
scene does nothing. `ngl_resize`, the capture and the viewport are in `DrawState`;
`ngl_dot` changes nothing. The Apple path of `ngl_configure` is not modelled.

*Animation*: one animated node is the scene. The variants (float, vectors, colour,
quaternion, buffer) share the search, which is what is modelled.

*HwUpload*: the remapping of media time, the CoreVideo and EGL images, mipmaps and the
GPU are not modelled; `vt_darwin` has the ownership of VAAPI and no run of its own. The
branch of `common_map_frame` that sets a texture up again is dead for 2D textures:
`NeedsInit` has seen the new size before. A media whose init fails is the matter of
`NodeGraph`.

*Passes*: a value is the time it is of, or the number of a live change; a block is the
list of the values of its fields, without offsets. Which sampler reads which plane is
the matter of `Pipelines`, when the callbacks are called that of `NodeActivity`.

*DrawState*: three fields stand for the graphic state; matrices are their factors, so
what multiplying them gives is not modelled.

*Pipelines*: a shader is what it declares. Compilation, memory barriers and the
pixels are not modelled.

*Hud*: times spent are picked from `Cost`; fonts and colours are left out. A graph
whose extremes are equal draws nothing.

### Components without a module

Geometries, text (`node_text.c`) and the utilities are arithmetic or drawing; code
generation runs at build time; the GL loaders and the tools are I/O; the Android
support is JNI calls around one thread; the Python tools are a user interface. The
hazards of the last two are listed without a property.

## 9. The plan

| module | of | abstract specification | proved | left |
|---|---|---|---|---|
| NodeGraph, NodeActivity, Context | nodes.c, api.c | NodeLifecycle | TypeOK, OwnerCounted, SingleOwner, ChildrenOutliveParents, Lifecycle, CountsAreExact, ActivityFollowsParents, `DrawReady`, InactiveReleased | `DrawUpdated`, `OnceKeepsItsFrame` |
| WorkerDispatch | api.c | SyncCall | all but liveness | the Apple path of `api.c:263-286` |
| Animation | animation.c | the definition of `Expected` | DrawExact, RatioDefined | |
| HwUpload | hwupload.c, node_media.c, node_texture.c | | FrameConserved, ImageBacked, ImageIsLatest, TextureConserved | |
| GpuData, Passes | pass.c, node_block.c, node_buffer.c, ... | | ProgramIsInUse, BuffersCounted, StoresKept | `ReadsAreCurrent` |
| DrawState | glstate.c, node_rtt.c, node_graphicconfig.c, ... | | ContextKnowsGL, StateFollowsPath, FrameIsWhole, DrawnAsAsked | |
| Hmap | hmap.c | KeyMap | all | |
| SceneFile | params.c, serialize.c, deserialize.c | | | out of the prover's reach |
| Textures, Pipelines | pipeline.c, texture.c | | SamplesItsImages, DrawsItsOwn, RowsInPlace | |
| Hud | node_hud.c | | | out of the prover's reach |
| *HandlerThread* | android_handlerthread.c | | | not written |
