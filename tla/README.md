# FPGAlix: a TLA+ model

FPGAlix takes images from an OV7670 camera (or a USB webcam) on a DE1-SoC
board and streams them over RTSP. This directory holds TLA+ modules of its
concurrent parts and of its FPGA components, the TLC configurations that check
them on small instances, and TLAPS proofs about the frame buffer, the processor and its
filters, the streamer, the capturer, all threads of the program together, the kernel
driver, the camera front end, the bench, and the hex display with its daemon.

    tlc -config MCFrameBuffer.cfg MCFrameBuffer      # any run of the table below
    tlapm FrameBuffer_proofs.tla             # and the other *_proofs modules

## 1. The system

    OV7670 -> FPGA (VHDL) -> mSGDMA -> kernel driver -> V4L2 buffers
      -> capture thread -> input FrameBuffer -> processing thread
      -> output FrameBuffer -> tx thread -> GStreamer / RTSP clients

| component | source | state | operations | what makes it correct |
|---|---|---|---|---|
| FrameBuffer, Frame | `vision_core/src/FrameBuffer.*`, `Frame.*` | pool with a busy flag per frame, ring of frame pointers, mutex, condition variable, `m_forceNotify` | `borrow`, `push`, `pop`, `giveBack`, `forceNotify` | a frame has one user; FIFO; `push` always fits; no lost wakeup; `forceNotify` ends every `pop` |
| Capturer | `Capturer.*` | device, mmap buffers, `m_running`, `m_skipCount` | `openDevice`, `start`, `captureThread`, `stop` | every V4L2 buffer is queued again on every path; the copy is private; drained before STREAMOFF as far as frames come; `stop` returns |
| Processor | `Processor.*` | active and pending pipeline, `m_dirty` | `processingThread`, edits, `commit`, `stop` | a pipeline is swapped whole; `commit` returns; frames are never lost |
| Streamer | `Streamer.*` | `m_appsrc`, `m_clientCount`, `m_timestamp` | `txThread`, RTSP callbacks, `start`, `stop` | a lent frame is returned once; timestamps increase; `stop` returns, unless its quit is lost |
| Filters | `filter/Filter*.cpp`, `parseFilter` | the filters' own images and tables | `filter` of each class | a pixel type that does not fit throws, and only in a filter the user has added |
| SimpleUI | `SimpleUI.*` | `m_stop`, `m_applied` | `run`, `applySequence`, `stop` | edits follow each other, `stop` is prompt |
| Main | `Main.cpp` | `g_stop` | start, `pause()` loop, stops in order | a signal ends the program; nothing is destroyed under a running thread |
| V4L2 driver | `camera_driver_2/src/camera.*` | `buf_queue`, `active_list`, `streaming`, `stream_seq`, watchdog | loading and unloading, vb2 operations, DMA callback, timeout work | every buffer is reported once; the DMA writes only what the driver owns; STREAMOFF leaves nothing |
| mSGDMA layer | `camera_driver_2/src/msgdma.*` | channel, workqueue, `stopping`, `chan_seq` | init, submit, result callback, work, release | short frames are told from full ones; nothing runs after release |
| data interface | `ov7670_data_interface.vhd` | FSM, byte and drop counters, control register, registered outputs | two clocked processes | a packet as long as a frame is a frame; it finds back after back-pressure |
| reset controller | `pclk_reset_controller.vhd` | `sw_release`, two flip-flops | register write, synchroniser | a reset reaches the pixel clock domain, however short |
| hex display | `hex_display_controller.vhd` | `ctrl` | register write, reset; digits are combinatorial | the digits are those of the number, leading zeros and overflow aside |
| hexip daemon | `hexip_daemon/src/main.c` | `oct`, `has_ip`, `last_poll`, the mapped register | poll, one sweep over the octets, blinking, signal handler | a sweep shows one address, the current one; dark after the end |
| pattern generators | `simple_*_generator.vhd`, `..._with_garbage.vhd` | `pixel_counter`, registered outputs | one clocked process | no beat twice or left out under back-pressure |
| frame capture module | `unstable/frame_capture/frame_capture.c` | `bufs`, `dma_done` | capture three frames, save, free | no DMA into freed memory; saved frames are whole |

The rest of `sw/unstable` holds earlier drafts, `hw/quartus` and the `*_hw.tcl` files are
generated or configuration. PROJECT.json lists
all of them with the reason each is or is not modelled.

**How the parts interact.** Threads share memory through two FrameBuffers and
call each other only in `commit()` (UI thread to processing thread, through
`m_dirty`, `m_mutex`, `m_swapDone`) and in the stops of `main()`. GStreamer
calls the streamer back from its own threads and returns zero-copy frames from
there. The capturer reaches the driver by ioctls, under vb2's lock `mlock`; the
driver's callback runs in the ordered workqueue of `msgdma.c` and its watchdog
in the system workqueue, both serialised with the ioctls by `cam->lock` only.
In the FPGA the reset controller holds the camera, the data interface and the
input side of the FIFO in reset; the interface pushes bytes into the FIFO, whose
`st_ready` is all it hears of the DMA. On the bench a generator takes the place
of the camera and the capture module that of its driver. The daemon writes the
register of the hex display through `/dev/mem`, beside a JTAG master on the same bus.

**What is hard about it.** `giveBack()` works without the mutex beside the scan
of `borrow()`; `notify_one()` follows the unlock; `commit()` sleeps until a
frame arrives; GStreamer keeps frames while the tx thread goes on, and a second media may take the
place of `m_appsrc` meanwhile; `g_main_loop_quit()` may come before the loop runs; after
`vb2_queue_error()` every ioctl of the capturer fails at once; the DMA
callback passes its check of `streaming` and then runs beside
`stop_streaming()`; a channel is torn down while completions are still queued;
the stop order must not wait for a thread that is stopped later. In hardware: a
FIFO that fills up at any byte, a reset from another clock while the pixel clock
may stand. In the daemon: a signal inside the handler of the other one, a wall
clock that is set. The hazards of PROJECT.json list them line by line with the properties that watch them.

## 2. Modules

| module | models | kind |
|---|---|---|
| `FrameChannel` | what a FrameBuffer promises: places of frames, a FIFO, closing | abstract specification; its operators on channel values are used by the modules below |
| `FrameBuffer` | `FrameBuffer.cpp`, `Frame.cpp` and their callers, per critical section and per probe of `borrow()` | implements `FrameChannel` (property `ImplementsChannel`) |
| `FrameBuffer_proofs` | theorems about `FrameBuffer`, and that it implements `FrameChannel` | proofs |
| `Processor`, `ProcessorStage` | `Processor.cpp`; the stage adds a feeder, a drain and an editor | component, composition |
| `Filters`, `FilterStage` | what each filter makes of a pixel type, as operators; the stage has sequences of them for pipelines | operators, composition |
| `CommonLemmas` | facts about channel values and sequences, and induction over numbers | proofs |
| `FilterStage_proofs`, `StreamerStage_proofs` | theorems about processor and filters, and about the streamer | proofs |
| `SimpleUI` | `SimpleUI.cpp`, extends `Processor` | component |
| `Streamer`, `StreamerStage` | `Streamer.cpp` with GStreamer as an external queue; the stage adds a producer | component, composition |
| `Capturer`, `CapturerStage` | `Capturer.cpp` over an external V4L2 queue; the stage adds a camera and a consumer | component, composition |
| `VisionCore` | `Main.cpp` with all of the above over two channels; instantiates `StreamerStage` and `ProcessorStage`, of which its threads make the steps (`StreamerInPlace`, `ProcessorInPlace`) | composition |
| `VisionCore_proofs` | theorems about all threads together and about `CapturerStage` | proofs |
| `MsgDma`, `CameraDriver`, `CameraDriver_proofs` | `msgdma.c`, `camera.c` with vb2, workqueue, timer and hardware around them; theorems about them | component, composition, proofs |
| `PclkResetController` | `pclk_reset_controller.vhd` | component |
| `Ov7670DataInterface` | `ov7670_data_interface.vhd`, one action per clock edge and branch of the FSM | component |
| `CameraFrontEnd` | the two, wired as in `soc_system.qsys`, between an external camera and FIFO | composition |
| `CameraFrontEnd_proofs` | theorems about `CameraFrontEnd` | proofs |
| `HexDisplay` | `hex_display_controller.vhd`, the converter as a recursive function | component |
| `HexIpDaemon` | `hexip_daemon/src/main.c`, extends `HexDisplay`; the interface, the clock and the signals around it | composition |
| `PixelGenerator` | the three generators, chosen by `kind` | component |
| `FrameCapture`, `Bench` | `frame_capture.c`; the bench puts generator, FIFO and DMA before it | component, composition |
| `Peripherals_proofs` | theorems about generators, bench, hex display and daemon | proofs |
| `MC*` | model values and small sets for TLC; the other modules are instantiated by their `.cfg` alone | instances |

### State and code

Variables are the fields of the classes and structures, under their own names
without `m_`, the local variables that live across a step (`procIn`, `txFrame`,
`capBuf`, `cbWork`), and one program counter per thread (`procPc`, `txPc`,
`capPc`, `uiPc`, `mainPc`, `ioctlPc`, `cbPc`, `watchdogPc`). A step is what no
other thread can see the inside of: one critical section, one atomic access, or
the code between them. In `FrameBuffer` every probe of the loop of `borrow()`
is a step, because `giveBack()` does not take the mutex. The modules above it
treat a FrameBuffer as an atomic channel; `ImplementsChannel` is why they may.

Images are abstracted to tags. All are `plain` except two, `first` and `second`,
that the camera may mark at any time; as the two are any two images of a run,
properties about them (order, repetition) say the same of any pair.

`clearAllFilters()` and the `appendFilter()` calls that follow make `m_pending`
`Partial` until the last of them. A pipeline in `Faulty` has a filter that
throws on every image. In `FilterStage` a pipeline is a sequence of filters and
`Faulty` follows from the pixel types: an image is its type there, a filter a map of
types, and `Throws` what comes of one that does not fit. A frame that GStreamer holds is `reading` in the
channel and listed in `gst`.

`loop` is where the thread of the GMainLoop is, and how `stop()` stands to it: a quit
that comes while it is still `starting` makes it `deaf`, and it then runs for ever. A media
is made for every URL of the mount point that has not been asked for before
(`/stream` and `/stream?x` are two), and each takes the place of `m_appsrc`. What the ones
before hold is `oldGst`. They stay alive, because the media are reusable and shared, so that the
factory keeps them, and the model has no use after a free there; but nothing
flushes them, and nobody need play them out.

`device` says how far the setup of the V4L2 device got, whether its queue is in `error`
(`vb2_queue_error()`, `camera.c:58`), and whether the drain has `abandoned` its loop. In
error `QBUF` and `DQBUF` fail and `select()` reports the device ready: the capture thread ends
with its next `DQBUF`, and the drain spends its turns on failing ones. A `select()` that a
signal interrupts ends either loop.

`chan_seq` and `inflight` are left out of `MsgDma`: `FPGAlix_dma_stop()`, which
alone changes the first, and `FPGAlix_dma_wait_idle()`, which alone reads the
second, are never called (the comment at `camera.c:263` still speaks of it).

In the hardware modules a step is an edge of a clock (or an asynchronous change of
the reset): unprimed variables are the register values before the edge, primed
ones those after it, and the inputs of `Ov7670DataInterface` are a record `in`.
A byte is its place in its frame, so that a packet shows where its bytes are from.
The camera is a machine of its own (`camPhase`, `camSent`): it sends the bytes of a
frame in order and may blank between any two of them, except before the last one
alone, since lines have two bytes or more.

In `HexIpDaemon` a running handler is an entry of `handlers`, and `main()` stands
still below it; a signal is blocked in its own handler only. `age` is
`time(NULL) - last_poll`. In `FrameCapture` each iteration of a loop is a step;
one failure exit of `capture_frame()` stands for the four before the wait, and a
`Load` that gets no channel changes nothing.

The bodies named `...Not`, `...Leaks`, `...Early` and so on, each marked
"Mutant of", are not part of any specification: they are what the code would be
with a plausible bug, and each property of a passing run is violated when one of
them takes the place of the definition it names.

## 3. Runs

| run | question | instance | distinct states |
|---|---|---|---|
| `frame_buffer` | does the class keep its promise to concurrent users? | 2 frames, 2 producers, 2 consumers | 107 000 |
| `processor` | are pipelines swapped whole, does `commit()` return, do only the user's filters throw? | 2 + 2 frames, 4 sequences with every filter, `awb` alone throws | 121 000 |
| `streamer` | are lent frames accounted for, do timestamps increase, does `stop()` return? | 3 frames, 2 clients, any number of media, GStreamer queues 3, MJPEG and raw | 119 000 |
| `capturer` | does every V4L2 buffer come back, in order, and does `stop()` close? | 2 buffers, 2 frames, decimation 1, failing device, a camera that may fall silent | 260 000 |
| `vision_core_order` | are images streamed in order through all threads? | 1 buffer, 1 + 2 frames, 1 client, raw, failing camera | 2 400 000 |
| `vision_core_shutdown` | does the stop sequence finish under a typing user? | 1 buffer, 1 + 1 frames, 1 client, raw | 289 000 |
| `camera_driver` | does the driver survive restarts, reloads, short frames, failing submits, late callbacks? | 2 buffers, 2 sessions | 104 000 |
| `front_end` | are packets frames, whatever the FIFO, the reset and the control register do? | frames of 4 bytes, any blanking, FIFO of 3 | 80 000 |
| `hex_display` | does the display show the number, and the daemon the address? | the real display; 2 addresses, one clock step | 133 000 |
| `bench` | do whole frames reach the dumps, and does the DMA stop in time? | 3 generators, frames of 4 beats, FIFO of 2, 3 loads | 25 000 |

Two more runs, `ui_blocks_stop` and `watchdog_survives_stop`, show that the code
does not do what a comment says
(section 6, which also names the configurations that are not runs of the project).

### Bounds, and why they are enough

* Two frames in a pool: one can be held while another is queued, the ring
  wraps after two pushes, and the pool is exhausted with two users. The ring
  properties are also proved for every size.
* Two producers and two consumers: `notify_one()` has to choose, and a consumer
  can slip in between the unlock and the notification. The program has one of
  each per buffer.
* Two V4L2 buffers and a decimation of 1: skipped and processed images
  alternate while the other buffer fills. Two driver buffers
  with `MinBuffers = 2` (the driver has 3 of "one in DMA, one with userspace,
  one queued"): both may be at the DMA, or one there and one anywhere else.
  `MaxSessions = 2` allows a restart, which is where stale work and stale
  timeouts come from.
* `MaxQueued` bounds GStreamer's queue and is the size of the pool, so that the
  whole pool can be lent. `MaxClients = 2`: the count can fall without
  reaching zero. `MaxPts` bounds the timestamps before a flush: `StreamerStage`
  stops producing at the bound (action `Deliver`), and leaves timestamps out when it
  is 0.
* In `vision_core_order` one buffer and one input frame suffice to have both
  reused between the two marked images; two output frames let one be streamed
  while the other is filled. Users do not type and nobody signals there: this
  is `vision_core_shutdown`. What main() and the UI do is then invisible to all other
  threads, and the action constraint `PausesAtOnce` lets main() do its last three steps
  before the rest goes on, instead of at every possible moment. The run ends with main()
  in `pause()`, so that an error of the camera stops the images and no more.
* In `vision_core_shutdown` frames are lent to GStreamer, the whole pool of one included.
  The device does not fail there: without images `commit()` does not return (section 6),
  and what `stop()` does about a failed device is asked in `capturer`.
* In `front_end` a frame has four bytes, so that there are blank cycles within it,
  and the FIFO holds one byte less than a frame: `st_ready` can fall at every
  byte. Frames are numbered modulo 2 (`FullPacketsAreFrames` compares neighbours;
  a packet of full length cannot span more, because the interface never waits in
  `ACQUIRE` without losing the frame). `DropCounts = 3` lets the counter wrap.
  The theorems of section 5 lift the two safety properties to every size.
* `hex_display` uses the real width and digits. The daemon writes what its addresses
  and commands need; for the converter `Pokes` adds every value below 2048, the
  values around every multiple of 1000, 10 000 and 100 000 by one digit, some with
  different digits in all places, and both sides of the overflow. A poke is
  made only on a board where the daemon could not map the register, once after
  each reset, so that the two do not multiply. Two addresses that share octets show
  a mixed sweep; one clock step (`MaxSteps`) back or forth is what chrony does first.
* In `bench` three loads let a capture begin within a frame that an earlier one left.
  `FRAME_LEN` is in bytes, 640 times 480 of them, and so is `FrameLen`: the beats of a word
  of two bytes fill a buffer of four with half a frame, as the eight bytes of
  the real ones do with an eighth.
* In `processor` the sequences of filters produce both output formats and reach every
  case of every filter on a raw image; `OnlyUserFiltersThrow` looks at each of
  them for both cameras and both output formats, of which `main()` picks one pair.
* The type invariants are theorems of section 5. That of `ProcessorStage`, for any
  pipelines that throw, is also checked by a further configuration,
  `ProcessorStageTypes.cfg`, which passes.
* Deadlock is checked everywhere except in `capturer`, where the program really
  stops: after `stop()`, or when the device could not be opened.

### Fairness

Weak fairness on every thread: the scheduler runs what can run. There is one exception,
in `FrameBuffer`: `pop()` has strong fairness (`PopStep`), because a consumer that waits for
the mutex is enabled and disabled again and again by producers that take it over, and
weak fairness would let it wait for ever. It stands for a mutex that in the end serves everybody who
waits. The modules above treat a buffer as an atomic channel and need
weak fairness only. Beyond that:

* The camera is fair only in `CameraSpec` and, as `running /\ Fill` and `running /\ Feed`, in
  `ProcessorStage`; `CommitReturns` and `SignalAgainStops` need it, and
  `UiStopReturns` shows what happens without it. The capturer assumes nothing of its
  camera: `StopCloses` holds when it falls silent or the queue is in error.
* `PlayOut` is fair: GStreamer plays what is queued in `m_appsrc` while a client is
  connected, that is, some client watches the media made last. `PlayOutOld` is not:
  nobody need watch an earlier one. Clients need not come, stay or go; users need not type.
* `LoopStep` is fair: the thread of the GMainLoop comes to `g_main_loop_run()`, but perhaps
  after the quit.
* A `stop()` is never forced, but once begun it goes on.
* In `CameraDriver` the kernel runs work that is queued and ioctls that have
  begun; the hardware owes nothing; the timer expires only in `TimedSpec`.
* In `CameraFrontEnd` a camera that is not in reset sends its clock. Whether it
  does in reset is open, and the FIFO is emptied or not as it pleases:
  `FramesComeAgain` assumes a sink that keeps up in its premise. Software that
  powers the camera down through `cam_pwdn` may stop the clock for good, and
  with it the register that holds the bit; this is left out. A camera also ends
  its blanks and its vertical sync, as a sensor does.
* `SignalAgainStops` assumes somebody who sends the signal again while `main()` is in
  `pause()`; nothing else makes a lost one come back. It also assumes that again and again
  GStreamer does not have the whole pool: with every frame lent to an appsrc that nobody plays,
  the processor has none to write to, a `commit()` waits for ever, and `ui.stop()` with it
  (the same wait as in `ui_blocks_stop`, with images coming). `WatchdogUnblocks` assumes that
  an armed timer expires and that the hardware falls silent for good, which is the
  case the watchdog is for.
* In `HexIpDaemon` the kernel runs the daemon and its handlers; signals, the
  interface and the clock owe nothing.
* `bench` has no liveness property.

## 4. Properties

The comment above each property in the modules names the code it is about. In
short: `FramesInOnePlace`, `PoppedFramesAccounted`, `FramesHaveOneUser`,
`NoBufferForgotten` and `DriverBuffersAccounted` are one statement at five places, that
memory shared by pointer has one user and is
not lost. `NoLostWakeup` and `CommitReturns` are about the two condition
variables. `PipelineNeverTorn` and `CommittedIsActive` say that `commit()` is
the barrier that editing without a mutex relies on, and `OnlyUserFiltersThrow` that
clearing the pipeline gets rid of a filter that throws. `StreamedInOrder`, as long as no
filter throws, and `CapturedInOrder` are end to end. `StopReturns`, `StopCloses` and
`SignalAgainStops` are about the stops, over a quit that gets lost and a queue in error. `DmaWritesActiveOnly`, `NoDmaIntoFreed`,
`StopLeavesNothing` and `ThreadsOutlived` say that what
a thread uses outlives its use. `FullPacketsAreFrames` is what
lets the driver tell a whole frame by its length, `BeatsInOrder` and
`CapturedFramesWhole` its counterpart on the bench; `ResetReachesInterface` is
about two clocks. `DisplayShowsValue` checks the converter against decimal
digits, `SweepsAreFresh` and `DisplayFollowsInterface` what an onlooker may
conclude from the display. The liveness properties say that each blocking
call returns: `commit()`, the stops, STREAMOFF.

## 5. Proofs

### The frame buffer

`FrameBuffer_proofs.tla` proves, for every pool size `Size >= 1`, any finite and disjoint sets of producers and consumers, and every interleaving:

| theorem | establishes |
|---|---|
| `TypeCorrect` | `Spec => []TypeOK` |
| `FramesHaveOneOwner` | `Spec => []FramesInOnePlace` |
| `PushAlwaysFits` | `Spec => []QueueNeverFull`: `ExceptionQueueFull` is never thrown |
| `ExhaustionIsReal` | `Spec => []ExhaustedOnlyIfNoneFree` |
| `NoWakeupIsLost` | `Spec => []NoLostWakeup` |
| `ClassIsChannel` | `Spec => FC!Safety`: the class implements the channel, without its fairness |

The first four rest on the inductive invariant `IInv` (`Invariance`). It strengthens the
four properties by three facts. `BookOK`: a thread holds a frame exactly in the
states in which its code has one in a local variable, the mutex belongs to the
thread that scans, and `m_queueHead` is `m_queueTail + m_queueSize` modulo the
size (without it a push could overwrite a queued frame). `ExclusiveOK` states
`FramesInOnePlace` element by element, which is the form in which a step
preserves it. `ScanOK`: a frame that was free when `borrow()` took the mutex
and that it has not reached yet is still free, because only the holder of the
mutex makes frames busy; when all slots were probed none is left. That `push()`
fits is a counting argument (`FullRingHoldsAll`, `RoomToPush`): a full ring of
different frames holds them all, also the one about to be pushed.

`NoWakeupIsLost` is proved from `IInv` by keeping an account: a push adds a frame
and a notification owed (`PushOwes`), `notify_one()` turns the debt into a woken
consumer (`NotifyPays`), a consumer that takes a frame may have been a woken one
(`TakesItsOwn`), and one goes to sleep only on an empty queue
(`WaitsForNothing`). `SleepOK` is added for this: who waits is inside `pop()`, and
nobody waits after `forceNotify()`.

`ClassIsChannel` is `ImplementsChannel` without the fairness of `FrameChannel!Spec`,
which stays with TLC. `PlaceIs` shows that `IInv` leaves a frame one place of the
four, so that a step changes the place of those frames only whose users it
changes (`Stays`, `Moves`). `RingIsSeq` reads the ring as a sequence; a push
appends to it and a pop takes its head (`PushAppends`, `PopTakesHead`), the
wrap-around of the indices included. Then there is one lemma per operation of the channel
(`Borrows`, `Pushes`, `Pops`, `Returns`), and `Steps` assigns every action of the
class to one of them or to none: the probes of `borrow()`, the notification, the
sleep of `pop()` and the loan to GStreamer are not seen.

Assumed are `SizeAssumption`, `ThreadsAssumption` and `FiniteAssumption`, which
TLC evaluates in `frame_buffer`.

### The processor and its filters

`FilterStage_proofs.tla` proves, for buffers of any size, any set of pipelines
and any of them throwing:

| theorem | establishes |
|---|---|
| `StageTypeCorrect` | `Spec => []TypeOK` |
| `PipelineIsWhole` | `Spec => []PipelineNeverTorn` |
| `CommitTakesEffect` | `Spec => []CommittedIsActive` |
| `ThreadOwnsItsFrames` | `Spec => []HeldFramesAreOwn` |
| `UserFiltersOnly` | `Spec => []OnlyUserFiltersThrow` |

The invariant `IInv` has one part for the frames and one for the pipelines.
`HoldOK`: the thread holds an input frame between `pop()` and `giveBack()` and an
output frame between `borrow()` and `push()`, on every path through the loop, and
these are the only frames `reading` and `filling`. `EditOK` is why `m_pending`
needs no mutex: `m_dirty` is set while `commit()` waits only, when `m_pending` is
whole, so the swap can copy nothing half built; and while nobody edits, either a
swap is outstanding or the committed pipeline is in force (or was cleared
because it threw). Edits leave the frames alone (`EditKeeps`) and the buffers' users
leave the pipelines alone (`EditStays`), so each step disturbs one part. The
channels keep their shape by `CommonLemmas`: one lemma per operation
(`MoveSound`, `PushSound`, `PopSound`, `CloseSound`, `FreeSound`) about a queue in
which every frame is `queued` and none is twice.

`UserFiltersOnly` is about the value of a recursive function, `TypesBehind`, over
a pipeline of any length, and needs induction. The library's induction theorems take
a predicate as a parameter, which the provers cannot instantiate; `CommonLemmas`
has them for sets instead. `LeastNatural` (every nonempty set of numbers has a
least element) comes from the well-foundedness of `<`; `InductionOnRange` is
induction over the members of a set, and `RecursionExists` gives, for a step that
is itself a function, the function it defines. With the latter `TypesBehind` is what
its definition says, with the former each of its values is a format or `Throws`
(`TypesBehindIn`); that the fixed filters throw on no format is `FixedFilters`.
`FilterAssumption`, that pipelines are sequences of the filters a user can type, is
evaluated in `processor`.

### The streamer

`StreamerStage_proofs.tla` proves, for buffers of any size, any number of clients,
any length of GStreamer's queue, and encodings with and without a copy:

| theorem | establishes |
|---|---|
| `StreamerTypeCorrect` | `Spec => []TypeOK` |
| `FramesGivenBackOnce` | `Spec => []PoppedFramesAccounted` |
| `TimeGoesOn` | `Spec => []TimestampsIncrease`, if `MaxPts # 0` |

`LentOK` says frame by frame what `PoppedFramesAccounted` says of sets. `TxOK` ties
the tx thread's frame and its copy of `m_appsrc` to where it is in its loop: `stop()`
drops no appsrc before it has joined the thread. A media that replaces `m_appsrc` only moves
what that held to `oldGst`.
`PtsOK` orders any two buffers in the queue, not neighbours only, so that playing
one out keeps it. `BoundOK` belongs to the model: what is produced
before a flush stays within `MaxPts`, and timestamps do not leave their type.
With `MaxPts = 0` they are left out, hence the premise. There is one lemma per step
that moves a frame (`Pops`, `GivesBack`, `Sends`, `Refuses`, `Flushes`,
`PlaysOut`), and `Destroys` for the callback that returns the frames of a buffer
or of a whole queue.

`FrameAssumption`, `PipelineAssumption` and `StreamerAssumption` are evaluated in
`processor` and `streamer`.

### The camera front end

`CameraFrontEnd_proofs.tla` proves, for every frame size of at least two bytes,
every depth of the FIFO, every blanking of the camera and every schedule of
resets, register writes and drains:

| theorem | establishes |
|---|---|
| `FrontEndInStep` | `Spec => []FInv`, the inductive invariant |
| `EveryResetArrives` | `Spec => []ResetReachesInterface` |
| `FrontEndTypeCorrect` | `Spec => []TypeOK` |
| `FullPacketsAreWhole` | `Spec => FullPacketsAreFrames` |

`FullPacketsAreFrames` is not inductive, because a packet may stay open for ever:
the end of packet is lost when the FIFO is full in the cycle of the last byte
(section 6). What saves the next packet is `Closing`: between two frames, and
while it waits for the sink, the interface still holds the byte it sent last, and
the open packet with that byte appended is either too short or a whole frame
(`Idle`). Within a frame (`Acquiring`) interface and camera count the same bytes,
and all of them have been taken but the one on the outputs; the first byte of a
frame always finds the FIFO ready, as nothing was put into it in the cycle before.
The last byte is never alone behind a blank, so that a byte that was held back can
only make a frame too short. There is one lemma per branch of the FSM
(`EdgeWaitSync`, `EdgeAcquireStalled`, ...). After a reset all this holds only from
the first edge of pclk on, and that is why `ResetReachesInterface` is part of the
invariant: until then `resetDue` holds and nothing is taken.
`TypeOK` needs `BoundsOK` besides: the byte counter follows the camera within a frame,
the other wraps, and what is taken without an end of packet keeps the open packet shorter
than a frame (`OpenPacket`).

### All threads of the program

`VisionCore_proofs.tla` proves, for any numbers of V4L2 buffers and frames, any
pipelines, decimation, encodings and number of clients, with every thread running
and `main()` stopping them at any moment:

| theorem | establishes |
|---|---|
| `EverythingOutlived` | `Spec => []ThreadsOutlived` |
| `OneUserPerFrame` | `Spec => []FramesHaveOneUser` |
| `EveryBufferGoesBack` | `Spec => []NoBufferForgotten` |
| `CopiesOnlyItsOwn` | `Spec => []CopyIsPrivate` |
| `StreamOffIsQuiet` | `Spec => DrainedBeforeStreamoff` |
| `ImagesStayInOrder` | `Spec => StreamedInOrder`, if `Faulty = {}` |
| `StreamerRunsInPlace` | `Spec => StreamerInPlace`, if `MaxPts = 0` |
| `ProcessorRunsInPlace` | `Spec => ProcessorInPlace` |
| `ProcessorKeepsPromises` | `Spec => []` of `PipelineNeverTorn`, `CommittedIsActive` and `HeldFramesAreOwn` of `ProcStage` |
| `StreamerKeepsPromises` | `Spec => []TxStage!PoppedFramesAccounted` |
| `TypeCorrect` | `Spec => []TypeOK`, if `MaxPts = 0` |
| `CapturerTypeCorrect` | `Cap!Spec => []Cap!TypeOK` |
| `FailingCapturerOwns` | `Cap!Spec => []Cap!NoBufferForgotten /\ []Cap!CopyIsPrivate` |
| `FailingCapturerDrains` | `Cap!Spec => Cap!DrainedBeforeStreamoff` |
| `CapturerKeepsOrder` | `Cap!Spec => Cap!CapturedInOrder` |

The first needs only `Lifetimes`: for each place in `main()`, which threads are there
and what has not been taken down. `InputOwners` and `OutputOwners` put the two stages
together: a frame in a local variable of a thread is `filling` or `reading`, as the
place in the code demands; a frame GStreamer holds is `reading` and in its queue once;
so no two of them are the same. `BufferOwners`
says the same of the V4L2 buffers; with the thread alive and the queue not in error exactly its
`capBuf` is out of the driver's hands. `StreamOffIsQuiet` is a counting argument: after the join
nobody queues a buffer again, so `drained` is at most the number of those taken back
(`Draining`), and as many turns as there are buffers have taken all. For this the
queue of filled buffers has none twice (`FilledOnce`). `DrainedBeforeStreamoff` speaks of a
device that still streams at STREAMOFF: not of one in error, whose turns take
nothing, nor of a drain that gave up when a `select()` brought none.

`ImagesStayInOrder` is end to end. An image passes ten stations: not yet taken, the
queue of filled buffers, `capBuf`, `capFrame`, the input queue, `procIn`, `procOut`, the
output queue, `txFrame`, GStreamer. `WayInOrder` says that of two stations the later
holds the earlier images and that no marked image is in two, and the same within each
queue; a buffer or frame counts only while the place in the code says that it holds an image, so
what is left in free ones does not matter. Every step of a thread leaves the
stations alone, throws something away or moves one image to the next station
(`NoAdvance`, `Advance`), and the owners above show that what a step writes is on no
other station. Two marks are enough for any two images of a run, as the camera may mark
any. `Faulty = {}` says that no filter throws; one that does passes on what its output
frame held before (section 6), and then an image may come twice.

The two theorems `...RunsInPlace` join the levels. `StreamerStage` and `ProcessorStage`
have in place of the neighbours a producer, a feeder and a drain that do to the buffers what
neighbours can do; the theorems say that the real ones do nothing else. A step of any
thread is, for the streamer, a step of its stage or one it does not see, so that every
safety property proved of the stage holds in the program without being proved again.
The refinement mapping of the streamer is the identity. The
processor's takes the marks off the images, shows a frame that is being filled as
one that holds an image, and hides that the streamer's stop closes the output buffer
(`SeenInImage`, `SeenOutImage`, `SeenOutput`). Two facts about the neighbours are needed: what the
driver has filled shows an image (`Pictures`; the feeder of the stage delivers no blank
frames), and the UI edits only while it applies a sequence (`Editing`). `MaxPts = 0` leaves
the timestamps out, as the bound on them is an action of the stage (`Deliver`).

The two theorems `...KeepsPromises` state for the program what the stages' own theorems
state, the streamer's also with timestamps. They need the owners of frames in both
directions (a frame that is `reading` is with who reads it, so that none is lost),
`Committing` (`m_dirty` is set only while `commit()` waits, and what it waits for is
whole) and `Referenced` (the tx thread's copy of `m_appsrc` lives between two places of
its loop, and `stop()` drops the reference only when the thread has ended).

`Cap` is `CapturerStage` with `streamed` for what the other side has popped. It is the
capturer with a device that may fail to open, fail while streaming or be stopped by the
destructor of a capturer that was never started, which the whole program does not have. The
lemmas about the capturer's steps name only the capturer's variables and serve both:
`Filling`, `BufferOwners`, `Draining`, and `FrontInOrder`, which is `WayInOrder` for the five
stations up to the input queue with anything behind them (`Line`, `Behind`). New is
`Streaming`: a thread that has started and not ended has a device that streams or is in error,
whoever calls `stop()`.

`NoneAssumption`, `CapturerAssumption`, `PipelineAssumption` and `EnvironmentAssumption` are evaluated in
`vision_core_order` and `vision_core_shutdown`.

### The kernel driver

`CameraDriver_proofs.tla` proves, for any finite set of buffers, any number of sessions
and reloads, with and without failing submits:

| theorem | establishes |
|---|---|
| `TypeCorrect` | `Spec => []TypeOK` |
| `BuffersAccounted` | `Spec => []DriverBuffersAccounted` |
| `DmaWrites` | `Spec => []DmaWritesActiveOnly` |
| `StopIsClean` | `Spec => []StopLeavesNothing` |
| `UnderWay` | `Spec => []ActiveIsUnderWay` |
| `WholeFramesOnly` | `Spec => []ShortFramesDiscarded`, if `~IgnoreResidue` |

All rest on one inductive invariant, `IInv`. `ModuleOK` says what is registered at each
step of loading and unloading, and that the channel is there only with the module.
`PhaseOK` is what holds between two sections of an ioctl: whether the stream is
on, the channel stopping, the queue empty. `CallbackOK` ties the callback's place to the
buffer in its hands, which it reads under the lock and uses after it. The lists hold
a buffer once (`ListsOnce`) and only the driver's own (`OwnersOK`); a buffer is in one
of engine, workqueue and callback (`PlacesApart`); and each on `active_list` is in one
of those or was refused (`ActiveCovered`). `SeqsOK` is why a work item of
an earlier session cannot complete the buffer: its number is older. `ImageOK` says what
a result that counts as complete says of the memory.

### The bench

`Peripherals_proofs.tla` proves, for every frame size, amount of garbage, width of a byte
and depth of the FIFO:

| theorem | establishes |
|---|---|
| `GenTypeCorrect`, `GeneratorKeepsOrder` | `GenSpec => []BeatsInOrder`: each generator under any back-pressure and resets |
| `BenchDrivesGenerator`, `BenchKeepsOrder` | the bench makes steps of the generator only, hence `Spec => []BeatsInOrder` |
| `BenchTypeCorrect` | `Spec => []TypeOK` |
| `FreedBuffersAtRest` | `Spec => []NoDmaIntoFreed` |
| `WholeFramesSaved` | `Spec => []CapturedFramesWhole` |

What is on the outputs of a generator is the beat the sink waits for, and
`pixel_counter` is one ahead of it. `CaptureInv` ties the channel to the place in
`capture_frame()`: a transfer is there only between the submit and the completion or the
`dmaengine_terminate_sync()`, for the buffer of the current frame, which is freed
later. `FramesInv` follows the beats: what is in the FIFO continues what the channel
has taken, and what is to come from the generator continues that, so that a
transfer which begins at a frame's first beat holds a prefix of a frame (`Stream`,
`Begun`, `UnderWay`); `aligned`, in the premise of the property, says that it did begin there,
and `Fits` that the buffer is as long as a frame, in bytes. Of the generators in the repository, at
their default size, that is only the one with beats of a byte; the theorem is for any size.

`FrontEndAssumption` is evaluated in `front_end`, `MinBuffersAssumption` in
`camera_driver`, `PixelsAssumption`, `GarbageAssumption`, `ByteAssumption`,
`KindsAssumption`, `FramesAssumption`, `BenchAssumption` and `BytesAssumption` in `bench`.

### The hex display and its daemon

`Peripherals_proofs.tla` proves, for any number of bits and of digits, any addresses,
any signals, resets, other writers of the register, and any number of clock steps:

| theorem | establishes |
|---|---|
| `DaemonInvariance` | `DaemonSpec => []DaemonInv`, the inductive invariant |
| `DisplayIsRight` | `DaemonSpec => []DisplayShowsValue` |
| `DarkAfterExit` | `DaemonSpec => []OffAfterExit` |
| `NoStaleSweep` | `DaemonSpec => SweepsAreFresh` |

`DisplayIsRight` is the correctness of double dabble. After `n` stages the digits are those
of the number that the `n` leading bits make, and the rest of the register is what is left
of it (`StagesConvert`, by `InductionOnRange`). One stage doubles (`StageDoubles`): a digit
that is 5 or more has 3 added, so that shifting it carries into the next as decimal doubling
does (`AdjustedDigit`, `NumberIs`, `NumberGrows`). The number of stages is the
width, so every bit has gone in, and the number is the register's value as long as it is
below `TenTo[Digits]`; above that there are dashes. Blanked leading zeros and the segment
table are undone by the reading (`LeadingZeros`, `DigitRead`, `ReadsNumber`).

`DaemonInv` has three parts besides the types. `HandlersOK`: a handler that is past switching the
display off finds it off, whichever handler it interrupted, as nobody else writes a register the
daemon has mapped while handlers run (`main()` stands still below them). `SweepOK`: the octets shown are the first of those in `oct`,
which is the address of the beginning of the sweep. `FreshOK`: with no clock step every
octet takes a second, so that the poll after a sweep finds the last one three seconds old
and reads the interface again before the next sweep.

`DisplayAssumption` and `DaemonAssumption` are evaluated in `hex_display`.

### Only model-checked

* All liveness, and the fairness of `ImplementsChannel`: the prover does neither
  liveness under fairness nor ENABLED.
* `DisplayFollowsInterface` of the daemon, liveness too.
* `StreamerInPlace` and the types of `VisionCore` are stated for `MaxPts = 0`: with a bound
  on the timestamps the stage's producer stops at it, which the program's processor does not.

## 6. Where code and comments part

Each of these is a run that TLC ends with a counterexample.

* `ui_blocks_stop` (`Processor.cpp:95`): `commit()` waits for a frame, so with a
  silent camera `SimpleUI::stop()` does not return, whatever the 500 ms timeout.
* `watchdog_survives_stop` (`camera.c:95`): a callback between its check of
  `streaming` and `mod_delayed_work()` arms the watchdog that `stop_streaming()`
  has just cancelled; `rmmod` then frees the structure with the timeout pending.

Further configurations, not among the runs of the project, end with a
counterexample too:

* `StreamerStageWedge.cfg` (`Streamer.cpp:114`, `LentFramesComeBack`): the flush that
  returns lent frames ("zero-copy frames are returned to the pool") waits for a
  frame; if the whole pool is lent there is none.
* `StreamerStageLostQuit.cfg` (`Streamer.cpp:210`, `StopJoins`): `Streamer.hpp:54` says that
  `stop()` "stops both threads and joins them"; a `g_main_loop_quit()` before the loop's thread
  has come to `g_main_loop_run()` is lost, and the join does not return. A signal right after
  the start is enough.
* `MCCapturerGivesUp.cfg` (`Capturer.cpp:57`, `NeverOffWhileOwned`): the comment at
  `Capturer.cpp:44` says that buffers are drained because STREAMOFF with a transfer in
  flight can crash the driver; after 100 ms without a frame the drain ends and
  STREAMOFF comes. With `DeviceMayFail = TRUE` a signal that interrupts `select()` and a
  queue in error do the same.
* `MCCameraDriverStuck.cfg` (`camera.c:50`, `DqbufUnblocked`): a watchdog that fires
  while userspace holds every buffer never fires again in that session, though
  `camera.c:39` says that it unblocks anybody stuck in DQBUF.
* `MCVisionCoreLostSignal.cfg` (`Main.cpp:171`, `SignalStops`): a signal between
  `while (!g_stop)` and `pause()` is not noticed until the next one, which then
  ends the program (`SignalAgainStops`).
* `MCCameraDriverIgnoreResidue.cfg` (`msgdma.c:92`, `ShortFramesDiscarded`): the
  module parameter makes short frames complete, it does not only silence the log.
* `CameraFrontEndLostEop.cfg` (`ov7670_data_interface.vhd:134`, `PacketsClosed`):
  if `st_ready` falls just after the last byte was registered, the end of packet
  is lost, neither repeated nor replaced, since the FSM is in `WAIT_SYNC` already.
* `MCHexIpDaemonSeparator.cfg` (`main.c:113`, `BlankBetweenOctets`): the "brief blank"
  of `main.c:109` is written and overwritten at once, so that two equal octets look
  like one.
* `BenchFree.cfg` (`frame_capture.c:186`, `FreesOnlyAssigned`): after a failed
  `kmalloc()` entries of `bufs[]` that were never assigned are freed.
* `BenchShortFrame.cfg` (`frame_capture.c:166`, `SavedFramesComplete`): a load that
  begins within a frame saves a short one as a "complete frame" (`frame_capture.c:5`);
  nothing compares lengths.

Seen while modelling, without a run of their own: a frame is pushed unwritten
after a filter has thrown (`Processor.cpp:140`); a swap is late while the output
pool is exhausted (`Processor.cpp:117`); frames lent to an appsrc that was replaced
(`Streamer.cpp:81`) come back only when somebody plays its media; the 64-bit beats of two generators
overrun `FRAME_LEN` after an eighth of a frame (`frame_capture.c:23`, `SavedFromAnySource` of
`Bench`); the handler at `Main.cpp:179` is never reached; a VSYNC edge in the
cycle in which `st_ready` returns is not counted (`ov7670_data_interface.vhd:145`);
the usage text says an empty line clears all filters (`SimpleUI.cpp:62`), which
`applySequence()` ignores.

## 7. Not modelled

Earlier drafts of the kernel driver and of the generators under `unstable`, which the
modelled ones have replaced, and hand tests of the DMA. Reading registers back, which
changes nothing. Metastability of the reset synchroniser and the clock crossing bridge of the
register bus are taken as solved. GStreamer,
videobuf2, the dmaengine and the workqueue are external: they are modelled by
what the code relies on. What `main()` does with a start-up exception, format negotiation, what
filters do to pixels beyond their type, terminal output and the OpenCV capture path, which no class of the
repository uses, are left out. Time is not measured: a timeout may come whenever
nothing has arrived.

## 8. Plan

Done in this order: channel and frame buffer with proofs; processor; streamer;
capturer; their composition; the kernel driver; the camera front end; the hex
display with its daemon; the bench; the proofs about front end and generators,
that the frame buffer implements the channel, and those about processor and streamer;
the filters; the proofs about the driver, the bench and all threads together; the
proofs about filters, display and daemon; that streamer and processor do in the
program what they do in their stages; the capturer with a device that fails.

Worth doing next:

1. Composition downwards: an abstract V4L2 queue that `CameraDriver` implements
   and that replaces the one inside `Capturer`; an abstract packet stream that
   `CameraFrontEnd` implements, against the transfers of `MsgDma`.
2. A bound on timestamps that needs no action of the stage, so that
   `StreamerRunsInPlace` holds with timestamps too.
