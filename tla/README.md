# Verification of the Starling DRM/KMS embedder

TLA+ models, TLC runs and TLAPS proofs about the part of this repository that
is Starling's own: the embedder in
`engine/src/flutter/shell/platform/linux_drm/` (7 500 lines of C++), which runs
a Flutter engine directly on the Linux kernel's display, input and session
interfaces, with no window system underneath.  The rest of `src/` is the
upstream Flutter engine and framework; the parts of it the embedder's
guarantees rest on are listed as components too.

Paths below are relative to `linux_drm/` unless they say otherwise.

1. [The system](#1-the-system) - parts, state, interactions, what makes each correct
2. [The modules](#2-the-modules) - which module models which part, and how
3. [The runs](#3-the-runs) - what each shows, its bounds, the fairness
4. [The proofs](#4-the-proofs) - theorems, assumptions, inductive invariants
5. [Where code and comments disagree](#5-where-code-and-comments-disagree)
6. [What is left out, and the plan](#6-what-is-left-out-and-the-plan)

## 1. The system

Threads.  The *platform thread* is the process's main thread, an epoll loop
(`fl_drm_view_run`, fl_drm_view.cc) that reads the DRM fd (flip events), udev
(hotplug), libinput, the task runner's timerfd and a wakeup pipe, and looks at
flags latched by signal handlers and other threads.  The engine's *raster
thread* presents frames and runs raster tasks.  Dispatch and encoder threads
call the public C API.  VT signals run in a handler on the platform thread.

| Component | State | Operations | Interacts with |
|---|---|---|---|
| Swap chain, `fl_drm_swap_chain` | current and previous buffer, `waiting_for_flip_`, `dropped_since_flip_`, mailbox mode | `Present`, flip event, `RestoreModeset`, `AbortFlipWait`, `take_dropped` | kernel CRTC and DRM fd; raster and platform thread; VT state |
| Outputs and views, `fl_drm_display`, `fl_drm_view` | output table (connector, CRTC, alive), chain and surfaces per slot, view-to-output map, pending teardowns, primary | rescan, hotplug, add view, remove view, set primary, flip bridge | engine `AddView`/`RemoveView`, input regions, cursor |
| Pointer and keyboard, `fl_drm_input` | regions, current and capture region, added/down flags, button mask, pressed keys | libinput events, injected pointer, `SetRegions`, `ReleaseAllKeys` | engine pointer converter, hotplug, session |
| One-shot window capture, `fl_drm_view` | a heap request with mutex, condition variable, `done`/`abandoned` | `fl_drm_view_capture_texture_once`, raster task | raster thread, caller's memory |
| Session: VT and seat, `fl_drm_view`, `fl_drm_seat` | DRM master, `vt_active`, latched release/acquire and disable/enable | signal handlers, libseat callbacks, recovery in the loop | swap chains, input, cursor, hotplug |
| Platform loop and wakeups, `fl_drm_view` | latched request flags, wakeup pipe, UI task queue, `running` | loop pass, setters, shutdown | everything |
| Task runner, `fl_drm_task_runner` | priority queue under a mutex, one-shot timerfd | `PostTask`, `DrainExpired` | engine threads, loop |
| Screen recording, `fl_drm_view` | session, PBO ring, writer queue, dmabuf ring with busy mask | start, stop, toggle, capture per present, slot release | raster, writer and encoder threads |
| X11 capture mirror, `fl_drm_view` | armed-frames counter, mirror buffer | arm, mirror, read | raster thread, app |
| Cursor, `fl_drm_cursor` | shape, image generation, position, CRTC | set, move, restore, snapshot | UI, platform, raster thread |
| Display set-up, EGL, GBM, engine glue | saved CRTCs, contexts, surfaces | start-up and exit | swap chain, outputs |
| Swift bridge, `lib/ui/swift` | engine registry, wrapped references | FFI wrappers, callbacks | UI runtime |
| Upstream shell, fml, lib/ui, flow, impeller | task queues, pipelines, layer trees | - | the embedder API |

What makes each part correct, and what is hard about it:

- **Swap chain.**  A buffer is destroyed, or rendered into, only when the panel
  no longer scans it out; every buffer is given back; the flag that gates the
  next frame is raised exactly while a flip is outstanding; `Present` always
  returns; a frame a mailbox chain drops is reported so that it is drawn again.
  Hard: the flip event may be read on the platform thread before the ioctl that
  queued the flip has returned on the raster thread; events get lost; a
  2000 ms watchdog races late events; a VT switch takes DRM master away at any
  point; the chain may be deleted with an event in the fd that carries its
  pointer.
- **Outputs and views.**  Live outputs never share a connector or a CRTC; a
  disconnected output's chain is deleted once, after the engine stopped
  presenting; views and outputs correspond one to one; usable outputs are lit
  and announced.  Hard: monitors bounce faster than the engine releases views,
  dead slots are reused, removal is asynchronous over two threads.
- **Input.**  The pointer is always on an output; a gesture stays with the view
  it began on; the engine's idea of "down" agrees with the embedder's; no key
  stays down that nobody holds.  Hard: regions change under the pointer and
  under a drag, two sources of buttons share one mask, releases are swallowed
  by another VT, and the VT may change in the middle of a batch of events.
- **One-shot capture.**  The call is atomic to its caller: after it returned,
  nothing writes the caller's buffer, and the return code says what is in it;
  the request is deleted once.  Hard: the timeout races the answer, and which
  side deletes depends on one flag.
- **Session.**  A session that comes back is resumed, and one that was given up
  stays dark.  Hard: VT signals run in handlers on any thread, libseat's events
  are reduced to two flags, and the loop takes all of these in a fixed order.
- **Platform loop, task runner.**  A request, a posted callback or a due task is
  never left behind while the loop blocks, and shutdown ends the loop.  Hard:
  `epoll_wait` has no timeout, so every producer must write to some fd *after*
  publishing its work, and every reader drain *before* taking it.
- **Recording.**  Every captured frame reaches the sink in order or is counted
  as dropped; a dmabuf slot is neither redrawn nor freed before the encoder
  released it; the primary stays put under a session; a stop ends it.  Hard: two
  families of requests from any thread are consumed at the next present, the
  writer and the encoder run at their own pace, and slots outlive sessions.

## 2. The modules

| Module | What it is |
|---|---|
| `SwapChain` | one output's chain, the kernel side it talks to, the VT |
| `PanelScanout` | abstract: a panel shows one whole frame at a time, in the order queued |
| `SwapChainProofs`, `MCSwapChain` | theorems; symmetry for TLC |
| `CaptureOnce` | callers, requests, raster task |
| `OneShot` | abstract: a call writes its buffer and answers, in one piece |
| `CaptureOnceProofs` | theorems |
| `Outputs` | output table, chains, views, removals, raster thread |
| `OutputsProofs`, `MCOutputs` | theorems; symmetry for TLC |
| `Input` | pointer, buttons, keys, VT as far as input sees it |
| `InputProofs`, `MCInput` | theorems; a small desktop of layouts |
| `EventLoop` | platform loop, wakeups, task queues, session changes, shutdown |
| `EventLoopProofs`, `MCEventLoop` | theorems; which stimuli meet in one behaviour |
| `Recording` | recording requests, presents, writer, encoder, primary switch |
| `FrameFeed` | abstract: a session hands its sink the frames in order, and gives one up only when the sink is behind or the frame could not be read back |
| `RecordingProofs`, `MCRecording` | theorems; which stimuli meet in one behaviour |

The components meet at narrow interfaces, and each module carries the
other side of its interface as an assumption that another module discharges:
`Outputs` lets a present end (fairness of `EndPresent`), which is `SwapChain`'s
`PresentReturns`; `SwapChain` lets its chain be deleted only while no present
runs on it (the guard of `BeginTeardown`), which is `Outputs`'
`NoChainDeletedUnderPresent` (with the two exceptions it names: see section 5); `Input` takes any list of regions at any time, whatever `Outputs` does.  `EventLoop` is the frame the platform-thread actions of
the others run in: that a latched VT acquire, a completed view removal or a
shutdown is looked at is a fairness assumption there and `RequestsAreServed`
here.  `Recording` takes the primary's moves from `Outputs`' `RetargetPrimary`; the
refusal that is `Recording`'s `CheckSwitch` is left out of `Outputs`' `MaySetPrimary`.

### SwapChain: fl_drm_swap_chain.cc, the flip path of fl_drm_view.cc

`pc` is where the presenting thread is in `Present`: `wait` (the flip wait and
its watchdog), `release` (destroy the displaced buffer), `check` (VT), `swap`
(eglSwapBuffers and lock), `raise` (the flag goes up *before* the ioctl),
`ioctl`, `failed`, `commit` (the assignments after it).  The platform thread's
`plat` is where it is in a flip event (`report`) or in a VT re-acquire
(`clear`, `activate`).  `chain` follows deletion.  The kernel's variables
(`onScreen`, `pending`, `events`, `master`) are external: one flip pending per
CRTC, `EBUSY` and `EACCES` as errors, one event per landed flip.  A buffer
object and its framebuffer id are one value `b`; `content` says what it holds.
`gaveUp` is a history variable: it records whether a wait was ended without its
event, because properties about the screen can hold only if none was ended
early.

### CaptureOnce: fl_drm_view_capture_texture_once, CaptureOnceTask

Callers and the raster thread's task, with the request's mutex `lock`.  A
request is a heap *address*: `new` may return one that was just freed, so a
use after free, or a double delete, shows as an invariant violation, and not
only as a missing object.  `dst` is the caller's buffer: `torn` while
glReadPixels writes it.  A step that holds the mutex and touches nothing but
the request is one action.

### Outputs: RescanConnectors, HandleDrmHotplug, BeginOutputRemoval, CompleteOutputTeardown, views, set_primary

The table (`conn`, `crtc`, `alive`) and what `FlDrmView` keeps beside it are
separate variables, since they disagree in between: `chain[s]` is the CRTC the
slot's chain was built for, `crtc[s]` the table's entry now.  A rescan visits
the connectors in any order, one at a time, and goes on through removals,
pipelines and the callback while the raster thread presents and the engine
releases views.  `leaving` is the queue of RemoveView requests in the engine,
`pending` the vector of pending teardowns.  `lit` is what the kernel scans out.
`fl_drm_view_set_primary_output` is three actions, since the raster thread may look
at the map between them: the displaced view leaves the map (`SetPrimaryOutput`,
under `view_map_mutex`), `primary` is set without a lock (`RetargetPrimary`), the implicit
view is mapped (`RouteImplicit`, under the mutex again); `plat` is `"displaced"` and
`"retargeted"` in between.  Elsewhere one action stands for what the code does in
one loop pass when nothing else can see the states in between.
`Drives[c]` is the set of CRTCs a connector's encoders reach, empty when no mode
suits or the filter refuses it; a rescan skips a connector none of whose CRTCs it
counts as free, and it counts as used those of the outputs it finds gone in the same pass.

Nothing in the model keeps monitors from bouncing.  Two history variables mark what
the code cannot keep up with.  A slot is in `early` when the rescan handed it out
while the teardown of its former output, or of an output that drove its new CRTC, was
still under way; it leaves when it is handed out again without one.  A present is
`unguarded` when no removal would wait for it: its output was handed out early, or
a primary switch took the view it presents off the output while it ran.  The
properties about scanout, callbacks and presents except exactly these; section 5
says what happens in them.

### Input: fl_drm_input.cc, the VT handlers of fl_drm_view.cc

Regions are lists of rectangles in whole logical units; `eps`, the distance the
code keeps from the far edge, is one unit.  Pointer events have no queue: any
event may come next, which covers lost releases, several mice, and any motion.  A report injected by
the app (`InjectPointerAbs`) sets the position to whatever it is given, relative to
the primary's region and without a clamp, as the code does; `stray` is a history
variable that says the position is that of a report off the primary's region, until
the next motion or layout.
Key events have one, since its content across a VT switch is the question.
`engine` is what the engine was told (down or not, for which view), `engineKeys`
which keys it was told are down, `held` the truth at the keyboard.  The VT
signals may come inside a batch of events (`plat = "events"`) and inside the
re-acquire (`plat = "acquire"`).

### EventLoop: PlatformThreadEntry, fl_drm_task_runner.cc, fl_drm_seat.cc, the setters

`plat` is where the platform thread is in a pass: `test` (`running`), one place
per latch in the order the loop looks at them (`release`, `teardown`, `disable`,
`enable`, `acquire`), `read`/`sample`/`take`/`run` for the three queues, `timeout`,
`wait`, `handle`.  A drain is the same code at the top of a pass and in an fd's
handler, told apart by `resume`.  `latched` holds the flags; `thread[t]` is how
far a setter or a signal handler has come: latch first, then the byte in the
pipe, with anything in between.  A queue is the set of tasks whose `place` is
that queue (the engine's tasks are ordered by target time, not by arrival).
`host` is where the loop runs: on the main thread with libdispatch, there without it,
or on a background thread.  Only in the first is the UI pipe in the epoll set
(`UiPolled`); UI tasks are drained, and count for the timeout, on the main thread only
(`OnMainThread`).
`timer` is the one-shot timerfd's target, readable from then on until it is
read or set again; `until` is the timeout of `epoll_wait`.  `session` and `events`
are the seat manager's or the kernel's side.  A VT signal before `run` has
installed the handlers is left out.

### Recording: RunCaptureHooks, fl_drm_view_recording_*, EnsureDmabufRing

`pres` is where the presenting thread is in `RunCaptureHooks`: it takes the
signal's toggle, the API's stop, then its start (`toggle`, `stop`, `start`),
chooses a sink, raises the flag, ends a session (`drain`, `join`) and captures a
frame (`capture`, `blit` or `draw`, `hand`).  `frameOf` is the output whose size
this present runs with.  A frame is its number in the session; `pbo`, `queue`
and `writing` say where the frames on their way are.  `busy` is the mask,
`held` what the encoder really has, each slot with the ring it is of.
`slipped` is a history variable: a session began while the primary was being
moved, in one of the three windows of section 5.  `unmapped` is another: it counts the
frames whose PBO `glMapBufferRange` would not map, which the code skips uncounted.  The frames on their way to the
sink (`Way`) are those of the PBOs, the queue and the writer together: with them as
the feed's `way`, and the counters as they are, `Recording` implements `FrameFeed`.

## 3. The runs

| Run | Shows | Instance |
|---|---|---|
| `SwapChainAll` | types; no buffer leaks on any path; nothing scanned out is unlocked; the flag tracks the flip; a drop has a carrier and is reported; no event is left for a deleted chain; the chain implements `PanelScanout`; `Present` returns | 2 buffers, 2 frames, 2 events, a mailbox chain, VT switches, lost and late events |
| `SwapChainLostEvent` | *violated*: a mailbox chain recovers from a lost event | 3 buffers, no VT switches |
| `SwapChainRestoreRace` | *violated*: a restore never puts a displaced buffer back | 3 buffers, VT switches, nothing lost |
| `CaptureOnceAll` | no deleted request is touched, none leaks; implements `OneShot`; calls return, abandoned requests are deleted | 2 callers, 3 addresses |
| `OutputsAny` | types; live outputs keep connectors and CRTCs of their own; teardowns are not forgotten; one view per output; usable outputs, the primary among them, scan out on a CRTC of their own; the app is told; no chain is deleted under a present | 3 connectors, 3 CRTCs, 2 slots, 1 view, 2 removals, VT and primary switches, failing pipelines |
| `OutputsLive` | plugs and unplugs take effect | 2 connectors, one with a single CRTC, 2 CRTCs, 2 slots, VT and primary switches |
| `OutputsWrongFlip` | *violated*: a flip is reported as its output's | 3 connectors, 3 slots |
| `OutputsBusySlot` | *violated*: a skipped slot is picked up by the next uevent | 2 connectors, 2 slots |
| `InputAny` | types; the pointer is on its region; a gesture keeps its view; the engine agrees on what is down; no key is held while the VT is away; no key sticks, and a key's release arrives | 2 views, 5 layouts, 3 motions, 2 reports, 3 buttons, 2 keys |
| `EventLoop` | types; the loop never blocks past its work; a session that returns is resumed; requests are taken and shutdown ends the loop; tasks run | 2 threads, 2 tasks, 2 instants, 7 mixes of stimuli, every host for those with UI tasks |
| `EventLoopSeatRace` | *violated*: an acknowledged disable stays in force | the same |
| `Recording` | types; the session implements `FrameFeed`; slots are the encoder's until it gives them back; the primary is frozen; a stop ends the session | 2 outputs, 2 PBOs, queue of 1, 2 slots, 3 frames, 3 mixes of stimuli |

`CHECK_DEADLOCK FALSE` is set where the modelled part may really come to rest:
the loop exits, the engine is shut down, nobody calls.

### Environments

Constants say what the surroundings may do, so that a property states what it
depends on.

- `SwapChain`: `VtSwitches`; `FlipsCanBeLost` (a flip lands, its event never
  comes); `PromptFlips` (an event that does come beats the 2000 ms watchdog:
  two seconds at 60 Hz are 120 refreshes); `StartsMailbox` (a secondary
  output's chain, `skip_when_busy_`).
- `Outputs`: `PipelineFails`; `PrimarySwitches`; `VtSwitches`; `Drives`.  Monitors come
  and go at any moment in every run.
- `Input`: `Layouts`, `Deltas`, `Reports` (the positions the app injects), `Mapped`/`Unmapped` buttons (with and without a
  Flutter flag), `Modifiers` (what makes any other key a VT-switch chord).
- `EventLoop` and `Recording`: `Mixes`, sets of stimuli of which `Init` chooses one for
  the whole behaviour, and `EventLoop`'s `Hosts`, from which it chooses the host of that
  mix.  Stimuli that share no state are not mixed: the seven of
  `MCEventLoop` pair each latch with the queues and with shutdown, and direct VT
  mode excludes libseat; the three of `MCRecording` are signal against API, signal
  against primary switch, and API with dmabuf and primary switches.

### Bounds, and why they are enough

- `SwapChain`: a chain holds at most two buffers at once (`NoBufferLeak`,
  `BuffersHeld`), which are symmetric; with two, every swap that finds both held
  fails, and a buffer comes back at once.  Two frames tell frames apart in the
  refinement.  `MaxEvents = 2` leaves room for the unread event of a flip whose
  wait was given up beside the event of the next.
- `CaptureOnce`: three addresses for two callers leave an abandoned request in
  the queue while both callers have new ones, and reuse of a freed address.
- `Outputs`: two slots and three connectors fill the table and hand a dead slot to
  another connector, early or not; once a primary switch has moved onto an output whose
  removal was under way, the other slot may get the CRTC of that removal.  A table of three
  slots, in which this takes no switch, is left to the theorems, and to `OutputsWrongFlip`.
  A connector with a single CRTC runs out of CRTCs (`OutputsLive`); a primary switch
  displaces the view of its target.
  `MaxRemovals` bounds the requests in the engine: a removal, or a switch with a view to
  displace, that finds the queue full waits.  Two of them let a switch displace the view of
  an output whose removal is still in the engine, so that what `early` and `unguarded`
  except does happen in `OutputsAny`: an early output goes dark, an early primary loses its
  chain, and a former primary is deleted under its present.
- `Input`: a tall and a small output make an inner corner, where clamping and
  sliding differ; the layouts swap indexes, overlap, swap the primary, and drop
  either output; one report is on the primary, one past its far corner, which is on the
  other output or on none.  Two mapped buttons and one unmapped tell the mask from the
  capture.  `MaxQueue = 1`: the queue is read in order, and what a switch does to
  it does not depend on its length.
- `EventLoop`: two setters overlap each other and the loop; two tasks are one
  that is queued while another is drained, due now or later (`MaxTime = 1`: two
  instants, which are before and at a target).  Only mixes with tasks tick.
  A second `fl_drm_view_shutdown` changes nothing and is left out.
- `Recording`: `PboRing`, `QueueBound` and `Slots` are 2, 1 and 2 for the code's 3, 8 and
  4: `MaxFrames = 3` frames then wrap the ring, fill the queue and overrun it, and
  the slots are all busy with one held over from an earlier session.  A dmabuf
  session's frames are not counted and not bounded.

The theorems of section 4 hold for every value of these constants.

### Fairness

- `SwapChain`: the presenting thread and the platform loop take their steps, the
  kernel lands queued flips, frames keep coming.  Reading the DRM fd has strong
  fairness: every pass of the loop reads it if it is readable, whatever else
  the pass does.  Nothing is assumed of VT switches, teardown or exit.
- `CaptureOnce`: the raster thread and each caller run; the timer fires.
- `Outputs`: the platform thread handles hotplug and finishes a primary switch it has
  begun; presents end.  Hotplug and the pending teardowns have strong fairness: the app's
  calls, which run on the same thread, disable them while they last, but every pass of the
  loop looks at both.  `ViewRemoved` has strong fairness too: it is a raster task,
  enabled only between presents, and the raster thread takes tasks in order, so endless
  presenting does not starve it.
- `Input`: the loop enters and leaves event handling, and finishes a re-acquire.
  Reading a key and looking at a latched flag have strong fairness: every pass
  looks at them, but a VT signal may come between two passes and disable them.
  Without it, `KeyUpArrives` would fail by starvation the loop does not have.
- `EventLoop`: time passes, the loop goes on, and a setter that has begun ends.
  Nothing is assumed of `Run`, requests, the seat or new tasks.
- `Recording`: presents of the primary go on and the writer runs.  The loop schedules a
  frame while a request waits (fl_drm_view.cc:2772), and "the shell's frame pump
  provides the damage while recording", as the comment there says; with the VT away
  nothing is presented and a stop waits until it returns.  The encoder need not
  give back slots, and nobody has to move the primary.

## 4. The proofs

Every theorem holds for any values of the constants that satisfy the module's
`ConstantsOK` (which says no more than: sentinels are not real values, bounds
are natural numbers, the rings have a slot, switches are Booleans, there is an
output to record, without which the embedder does not start
(fl_drm_display.cc:235), regions have positive size and one region per view).  Each proof module has one inductive invariant `IInv`, the lemmas
`Init => IInv` and `IInv /\ [Next]_vars => IInv'` (one case per action), and
theorems that follow from it.

| Module | Theorems |
|---|---|
| `SwapChainProofs` | `TypeCorrect`, `NoLeak`, `ReleaseSafety`, `NoTearing`, `FlagTracking`, `DropCarried`, `DeletedChainIsQuiet`, `SteadyChainInSync`, `Refinement` (the chain implements `PanelScanout`) |
| `CaptureOnceProofs` | `TypeCorrect`, `RequestsAreAlive`, `SingleOwner`, `NoLeak`, `TrueAnswers`, `ReturnedBuffers` (an action property), `Refinement` (implements `OneShot`) |
| `OutputsProofs` | `TypeCorrect`, `ConflictFreeCrtcs`, `NothingForgotten`, `OneViewEach`, `UsableIsLit`, `AppKnows`, `ChainOutlivesPresent` |
| `InputProofs` | `TypeCorrect`, `PointerStaysOnOutputs`, `UnionIfReportsAre`, `GestureIsOneViews`, `DownAgrees`, `NothingHeldAway`, `NoStuckKeys` |
| `EventLoopProofs` | `TypeCorrect`, `NothingIsSleptThrough`, `ReturnIsNotForgotten` |
| `RecordingProofs` | `TypeCorrect`, `NoFrameIsLost`, `EncoderKeepsItsSlots`, `SizeStaysThePrimarys`, `Refinement` (implements `FrameFeed`) |

Why the invariants are what they are:

- **SwapChain.**  "The displaced buffer is off the screen" is about one program
  point; what carries it is `PanelInStep`: in every state the panel shows the
  newest buffer, or the displaced one while the flip to the newest is pending.  It
  needs `FlagTracksFlip` (the wait at the start of `Present` really waited) and
  `BuffersHeld` (which buffers are held at which program point, and that they
  differ); that in turn needs `EventRoom`.  `DropInStep` follows a drop through
  `Present`.  `SteadySession` shows that without VT switches and with prompt
  events the premise `InSync` is always true, which makes the other theorems,
  and the refinement, unconditional there.
- **CaptureOnce.**  Ownership is a set of facts about where a request's pointer
  may be; on top of them, `ClientIsCaller` (the request points at its caller's
  buffer), `LockHeld` (who has the mutex, so that answer and timeout exclude
  each other), `InProgress` (an unfinished request is in the queue or being
  worked on) and `BufferTracks` (how far the buffer is written).
- **Outputs.**  Distinct CRTCs rest on `RescanKnows`: during a rescan `used`
  covers every live output's CRTC, and connectors already added are not visited again.
  The views stay one to one through a switch because of `SwitchKnows`: from its first
  step on its target has no view, and until its last one it is alive and has a chain.
  A second invariant, `CleanInv`, holds beside `IInv` and is about the outputs that were
  not handed out early.  At its root is `DeadOrEarly`: only dead outputs, and those handed
  out early, have a teardown under way.  `OwnResources` builds on it: a chain drives the
  CRTC its entry names until it is under teardown, and neither a chain nor an entry of
  another slot that still has one concerns the CRTC of such an output; so a teardown
  switches off no CRTC but its own or that of an output handed out early.
  `RequestsMatch` and `RemovedOnce` follow a removal through the engine: its view stays
  routed to its slot until the teardown, and by then the engine has let go of it; hence
  a guarded present, which is on a view the engine has or on the implicit one
  (`GuardedPresent`), is never on the chain that goes.
- **Input.**  `CaptureIsGesture` ties the capture to the down flag and the view
  the engine was told; `KeysTracked` says a key the engine holds is in
  `pressed_keys_`, and, unless a VT release is pending, is held on the keyboard
  or has its release among the unread events; `EventsAwayArePending` bounds
  what a VT switch in the middle of a batch leaves behind.  The pointer stays on the
  union of regions because each of the motion's four outcomes (full, two slides,
  clamp) lands in a region, which are lemmas about `Clamp` and `Containing`; an injected
  report is the one event that need not, and `UnionIfReportsAre` proves that it is the
  only reason for which the pointer can be off the outputs.
- **EventLoop.**  `NoLostWakeup` is about the moment the loop blocks; what carries it
  there is one covering fact per kind of work.  A latched request is covered by a byte
  in the pipe, by a thread that is about to write one, by a pass that is about to
  begin, or by its place in this pass lying before the look at that latch
  (`RequestsCovered`); a posted callback by its eventfd, by a thread that owes the
  write, or by the take under way (`PostedCovered`); a UI task, when the loop blocks
  and the UI pipe is polled, by its pipe or the timeout (`UiCovered`); where the pipe is
  not polled nothing covers it (section 5).  They hold only in the order the code
  publishes and writes, drains and takes.  `TimerCovers` says the timerfd is
  armed for the earliest task except between its being read and rearmed; it needs that
  a set of times has a least member (`LeastMember`, from the well-foundedness of the
  naturals).  `DisableOnItsWay` and `ResumeComes` tie the session on the kernel's or the
  seat's side to the latches, events and handlers still under way.
- **Recording.**  `RingOrder` places each pending frame: its distance from `rec_slot`
  is its age, in a window that shrinks while a stop drains the ring.  From it follow
  that the slot drained is the oldest (`DrainLemma`, used by captures and stops alike) and,
  with `QueueOrder`, that writer, queue and ring are one increasing sequence.  `Total`
  counts them by cardinality.  `WriterLife` says when a writer exists and that it exits
  only with nothing to do, so that the join loses nothing.  `NoSwitchUnder` ties a
  session to the flag or to the steps before the flag goes up.  The refinement needs
  two facts more: no two PBOs hold one frame, and a full queue is not empty.

The other way round, `UnionIfReportsAre`, `ReleaseSafety`, `SingleOwner`, `TrueAnswers`, `ReturnedBuffers`
and `NoFrameIsLost` (every frame is delivered, counted as dropped, unmapped or on its
way, and the sums agree) are theorems whose properties no run lists: they hold for every value of the
constants, and the runs spend their properties on other questions,
on the refinements (`ShowsWholeFrames`, `KeepsPromise`, `KeepsFeed`) and on liveness.

Model-checked only: the liveness properties (`PresentReturns`, `DropReported`,
`CallReturns`, `AbandonedIsDeleted`, `PlugsAreNoticed`, `KeyUpArrives`,
`RequestsAreServed`, `TaskRuns`, `StopEndsSession`), which the
prover does not cover.  Every other property of a passing run is a theorem.

## 5. Where code and comments disagree

Each of the five has a run whose counterexample TLC prints.

- `SwapChainLostEvent`: a mailbox chain returns from `Present` whenever its flag
  is up, before the watchdog loop (fl_drm_swap_chain.cc:149-156).  After one lost
  event every later frame is dropped, until a VT switch or a change of the
  mailbox mode; the comment at 177-179 promises a recovery.
- `SwapChainRestoreRace`: `RestoreModeset` reads `current_fb_` on the platform thread,
  unsynchronised with `Present`.  Between the page flip (246) and the assignment
  (276) it puts the displaced buffer back on the screen, and the next `Present`
  destroys it, against the comment at 194-195.
- `OutputsWrongFlip`: `OnChainFlip` matches a CRTC against dead slots too, which keep
  their entry when their CRTC is reused: the flip is reported as the dead
  output's, and the flipped chain's drop is not read.
- `OutputsBusySlot`: a monitor replugged before its teardown completed is marked alive
  and skipped; "the next uevent will pick it up", but no later rescan lists it as added.
- `EventLoopSeatRace`: libseat's events become two flags, and the loop looks at the
  disable first.  An enable followed by a disable in one dispatch is taken as a
  disable, acknowledged, and then an enable: `vt_active` is set in a session that
  was given up, against "Acknowledge a disable AFTER rendering has quiesced"
  (fl_drm_seat.h:57), until the next enable.

Met while modelling, without a run of their own:

- A rescan keeps an unplugged primary alive (fl_drm_display.cc:313-320), where
  fl_drm_display.h:81-82 says it is "marked !alive but not reported".  `OutputsAreDistinct`
  and `UsableOutputsScanOut` state what the code does: the primary is always one of the live
  outputs, a theorem about every state.
- `CompleteOutputTeardown` switches off the CRTC the table names for the slot
  (fl_drm_view.cc:1632), without a look at who drives it by then.  A rescan may have given it
  to a live output while the removal waited for the engine (fl_drm_display.cc:283, "dead
  slots free theirs for reuse"): that output goes dark.  It is `early`.
- `fl_drm_view_set_primary_output` refuses an output with a teardown in flight
  (fl_drm_view.cc:2432-2443) but looks only at `pending_teardowns`.  A removal that is still
  inside the engine is not there yet, and an output that bounced is alive and has its old
  chain: it becomes the primary, and the teardown takes the primary's chain.  It is `early`.
- The raster thread may be presenting the implicit view on the former primary when that
  output, no longer primary, is unplugged.  It has no view of its own whose removal could be
  awaited, and its chain is deleted at once, against "Only called once the engine has stopped
  presenting its view" (1579-1581).  The present is `unguarded`.
- A connector handed a slot whose chain waits for its teardown keeps that chain until the
  teardown takes it: it is usable, on its predecessor's CRTC, and then loses its chain
  without a callback to the app.  It is `early`.
- A rescan counts the CRTCs of outputs it finds gone in the same pass as used, so a monitor
  moved from one connector to another may find none, and nothing looks again before the
  next uevent.
- `InjectPointerAbs` sets the position from the x and y it is given, unclamped
  (fl_drm_input.cc:345-348), and fl_drm_view.cc:3193 forwards them from any thread: "The
  pointer moves within the union of the regions" (fl_drm_input.h:56) until a report has x
  equal to the primary's width, or was scaled for another primary.  `PointerOnItsRegion`
  excepts such a position (`stray`); that the app injects positions on the primary only is the
  premise under which `UnionIfReportsAre` proves the header's sentence (`PointerInUnion`).
- The UI tasks' pipe is in the epoll set only on the main thread and only when libdispatch's
  queue handle was found (fl_drm_view.cc:2680-2690, 223-236).  On the main thread without it
  UI tasks are queued and drained all the same, so one posted while `epoll_wait` blocks
  without a timeout waits for an unrelated event, though "every source that can produce any
  is in the set" (2781-2782).  `NoLostWakeup` and `TaskRuns` speak of UI tasks only where the
  pipe is polled.
- A uevent that arrives while the VT is away is drained and forgotten; the
  re-acquire does not rescan.
- Buttons are not reset on VT return (only keys), although the comment at
  fl_drm_view.cc:2755 says nothing should still be considered held.
- A second button is sent as `kDown` and a scroll as `kHover` while the pointer is
  down; `embedder.h` (1248, 1266) asks for `kMove`.
- A button without a Flutter flag takes part in the capture but not in the mask.
- A key that completes a VT-switch chord gets a release without a press.
- A VT release signal that comes after an acquire the loop has not finished
  (the acquire still latched, or between the clearing of `g_vt_pending_acquire` and
  `vt_active = true`) leaves `vt_active` set while the VT is away, until it comes
  back.  `AwayHoldsNothing` then promises nothing; `KeysNotStuck` holds
  nevertheless, because the events keep being read.  `SessionIsResumed` speaks
  only of the other direction for this reason.
- The primary can move under a recording session in three windows: the request
  was taken and the flag not yet raised (the toggle is cleared, or the start
  exchanged, some steps before `g_api_recording` is set) when
  `fl_drm_view_set_primary_output` looks; the switch had looked before the request
  came; a present that began on the former primary starts the session.
  `PrimaryIsFrozen` excepts exactly these (`slipped`).
- A shutdown requested before `fl_drm_view_run` has set `running` is lost
  (fl_drm_view.cc:2931 sets it again), though fl_drm_view.h:40 says of run that it
  "Returns when fl_drm_view_shutdown() is called".
- A start and a stop that both come before one present end in a recording,
  whichever was last: the stop is taken first, and ignored.  The comment at
  fl_drm_view.cc:1042 wants this for stop then start.
- fl_drm_view.h:290-292 says the dmabuf flag "is consumed when the start is"; the code
  only reads it, so it stays armed for later sessions.  fl_drm_view.h:218-219 says a
  debug recording "does not show up" in `fl_drm_view_recording_active`; the code
  raises the flag for it, with a comment that says why.
- A PBO that cannot be mapped loses its frame uncounted (fl_drm_view.cc:913-915); no comment
  promises a count.  `FrameFeed` and `FramesAccounted` name such frames (`failed`, `unmapped`).
- A VT switch between `VT_SETMODE` in create and the `sigaction` in the loop meets
  the signals' default action.

## 6. What is left out, and the plan

Within the modelled components: an engine that refuses `RemoveView` or `AddView`, the
placement arithmetic of `RebuildInputRegions` (any list of regions stands for its
result) and display scales, touch devices, repeats, device revocation in libseat
mode, signals the kernel delivers in another order than it raised them, and the
contents of frames.  GL, EGL, GBM and kernel calls are their results.

Not modelled:

- *X11 capture mirror*: a counter of armed frames that the app stores and each
  present decrements if positive; an arming that races a decrement costs one
  frame at most, and nothing else depends on it.
- *Cursor*: one mutex around a little state and ioctls.
- *Display mode and DRM set-up; EGL, GBM and engine glue*: start-up and exit against
  the kernel, in one thread, with nothing that outlives a call but what the
  other modules have in `Init`.
- *Swift bridge*: hands packets and messages to Swift code outside the repository.
- *The upstream engine, its other shells and the framework*: nearly all of the source
  lines here (some 470 000 of implementation, of which the embedder is 7 500), not
  changed by this repository beyond the bridge.  What the embedder needs of them
  (`RemoveView` as a raster task, the raster task queue) is in `Outputs` and
  `CaptureOnce`.  The share of all lines that is modelled is therefore small, and
  would stay small if every line of the embedder were.

The order was: the chain first, since every other part presents through it; then
the one-shot capture, whose two-sided ownership no test reaches; then hotplug,
input, the loop with session and task runner, and recording; then the proofs in the
same order.  What comes next:

1. An abstract task queue for `EventLoop` to implement: each post is run once, not
   before its time.
2. The frame pipeline of `shell/common` (animator, pipeline, vsync waiter) the
   embedder's `FlutterEngineScheduleFrame` relies on, for which `Recording` assumes
   that presents go on.

The runs are kept few, one per question.
