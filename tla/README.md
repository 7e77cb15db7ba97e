# RustScreen: TLA+ models, checks and proofs

RustScreen turns an Android phone into a second monitor over a USB-C cable. The
Mac captures a virtual display, encodes it to H.264 and streams it over an
Android Open Accessory (AOA) link; the phone decodes onto its surface and sends
statistics, keyframe requests and (by design, not yet wired) touches back. This
directory holds the models of that program, the TLC configurations that check
them, and machine-checked proofs about them. `PROJECT.json` is the index: which
definition models which lines, which run checks which property, which mutated
code each property notices.

## 1. Inventory

| Part | State it keeps | Operations | Hard behaviour | Module |
|---|---|---|---|---|
| Host video pipeline (`macos-host/src/serve.rs`, `session.rs`) | `in_flight`, `needs_keyframe`, the 2-deep `sync_channel`, the encoder's queue, `seen_keyframe`, the stop flag, one USB connection | capture callback, submit, output handler, reconnect hygiene, handshake, clock sync, stream loop, heartbeat, teardown | four threads and no lock over the whole; frames shed at two places; forced IDRs racing ordinary frames; reconnects onto a warm channel; stalled writes | `HostPipeline` |
| Window hand-off (`android-client/src/rendezvous.rs`, `lib.rs`, `mediacodec.rs`) | `CURRENT_WINDOW`, `SURFACE_SLOT`, `SURFACE_MAILBOX` and its gate, the decoder's window, `render_enabled` | `InitWindow`, `TerminateWindow`, re-seed, `take_blocking`, `poll_surface`, `configure` | two threads, two locks and an atomic flag stored outside them; statics that outlive a session | `SurfaceHandoff` |
| Phone session (`android-client/src/session.rs`, `pacing.rs`, `decode.rs`, `mediacodec.rs`) | pacer mode, decode session's config, codec depth, stats FIFO | receive loop, drop-to-keyframe, feed, drain, present, Stats and Pong replies | order of config, keyframe and surface swap; one keyframe request per drop episode; a slow codec, a full uplink | `PhoneSession` |
| Host's way in (`protocol/src/framing.rs`, `serve.rs`, `latency.rs`) | bytes of a partly read frame, `inflight` records, eviction order, two channels | framed reads under a timeout, clock sync, record, fuse, evict, teardown | a read timeout inside a frame; a report against the record it matches; a late pong; a reader left behind | `InboundPath` |
| Wire protocol, NAL and access units, clock arithmetic (`protocol/src/*`, `encode_vt.rs`, both `transport.rs`) | the unread rest of a read | encode, decode, negotiate, start-code scan, AVCC to Annex B, SPS parse, estimate, chunked reads | boundaries; emulation prevention; packets that a short read truncates | `NalCodec`, `MediaPath` |
| Bring-up and Android shell (`aoa.rs`, `MainActivity.kt`, `SessionService.kt`) | handles of an enumeration, session latch, foreground state, permission | mode switch, re-acquire, connect-hello, attach, poll, grant, claim, start, release, exit | the phone leaves the bus at every handshake; the latch released before the service stops; waits without a timeout | `BringUp` |
| Daemon (`daemon.rs`, `bin/rustscreen.rs`) | pid file, worker process, stop flag | start, stop, status | a stale pid, a reused pid, escalation to SIGKILL, two commands at once | `Daemon` |
| Touch (`macos-host/src/touch.rs`, `android-client/src/touch.rs`, `coalesce.rs`) | pending move, pointer state, button | normalise, coalesce, fold, render | several fingers, one pointer; a cancelled gesture | `TouchPath` |
| Capture and virtual display, spikes, xtask | - | Objective-C calls, hardware bring-up, build | none of its own | - |

What makes each part correct:

* **Pipeline.** The pacer's counter is exact on every error path; a gap in the
  reference chain always has a resync pending; a fresh decoder is handed a
  keyframe first, and a config right before it; the sender opens no gap by its
  own coalescing; a stop ends the process. Towards the phone all of it amounts
  to `VideoSource`.
* **Window hand-off.** No window change is lost; no destroyed window is handed
  out; the decoder ends up on the live window.
* **Phone session.** The decoder is never driven before it is configured, nor
  configured twice; a drop episode asks once and ends at a keyframe; the decoder
  never gets a P-frame over a gap the phone made; the thread comes back to
  reading.
* **Host's way in.** The reader is out of step only after a timeout split a
  frame; a report that finds no record met an eviction; the reader ends with its
  connection.
* **Messages and pictures.** Both peers agree on one configuration; the offset
  is off by half a round trip at most; a picture reaches the codec unit for unit.
* **Bring-up.** One session at a time, which keeps the foreground state it was
  given until an earlier thread stops the service; a stop ends every wait but
  one; the two ends find each other again.
* **Daemon.** At most one worker, on record; a stop ends it.
* **Touch.** The button is never left down; the cursor follows the finger that
  pressed and never goes back.

The hazards, each at its line with the properties that would catch it, are in
`PROJECT.json` under `hazards`.

## 2. Modules

| Module | Models | Notes |
|---|---|---|
| `VideoSource` | what the host promises the phone on the wire | abstract specification |
| `HostPipeline` | the host from the capture callback to the USB link | implements `VideoSource` |
| `PhoneSession` | the phone's session thread, pacer, codec | its host is `VideoSource` |
| `SurfaceHandoff` | window events, slot, mailbox, decoder target | component |
| `InboundPath` | the phone's frames on their way into the host | component |
| `NalCodec` | byte-level codecs | operators only |
| `MediaPath` | handshake, clock exchange and pictures end to end | uses `NalCodec` |
| `BringUp` | USB, host loop, activity, service, session threads | component |
| `Daemon` | commands, worker, pid file | component |
| `TouchPath` | fingers to mouse | component |
| `MCHostPipeline`, `MCSurfaceHandoff`, `MCPhoneSession`, `MCTouchPath`, `MCMediaPath` | instances for TLC | fault sets, symmetry, environments |
| `HostPipelineProofs`, `SurfaceHandoffProofs`, `PhoneSessionProofs`, `InboundPathProofs`, `MediaPathProofs`, `BringUpProofs`, `DaemonProofs`, `TouchPathProofs` | theorems | section 4 |

How they fit together: `HostPipeline` implements `VideoSource` (a checked
refinement and a theorem), and `PhoneSession` takes `VideoSource` for its host,
so what holds of the phone holds with any host that keeps the promise.
`InboundPath` is the way back, whose requests become `ReaderRequest` in
`HostPipeline`. `BringUp` has the life of the connections in between, with a
session reduced to whether it reads; `MediaPath` the contents of the messages
that the others pass as names; `Daemon` the process `HostPipeline` runs in.
`SurfaceHandoff` has both sides of the mailbox that `PhoneSession` polls.

### HostPipeline and VideoSource

One variable per piece of shared state (`inFlight`, `needsKeyframe`, `channel`,
`stop`) and one program counter per thread: `delegate` (the capture queue),
`handler` (VideoToolbox's serial output thread), `phase` (the main thread in
`run_host` and `run_stream_session_instrumented`), `reader` (inbound frames).
Each action is one atomic operation on shared state with the local work around
it, so every interleaving the atomics and the channel allow is a behaviour.

* *Capture.* `Admit` (the pacer's load and add: one step, because only this
  serial queue adds), `TakeRequest` (the `swap` on `needs_keyframe`), `Submit`
  or `SubmitFails`.
* *Encoder.* `Emit` gives the slot back and carries the frame; `EmitFails` is an
  error status or a missing sample; `Discard` a return after encoding; `Deliver`
  and `ShedFull` the two results of `try_send`.
* *Main thread.* `CheckStop`, `BringUp`/`BringUpFails`, `ForceOnReconnect`,
  `DrainOne`/`DrainDone`, `OfferTaken`/`OfferFails`, `Handshake`/
  `HandshakeFails`, `StartStream` (clock sync's ping included), then the stream
  loop: `SeesStop` (with its Bye), `Recv` and `BacklogDone` (drain and
  coalesce), `GateDrop`, `SendConfig`, `SendVideo`, `RecvTimeout`, `Heartbeat`,
  `SessionError`, and `Teardown` or `Stopped`.
* *Outside.* `PhoneTakes`, `Unplug`, `RequestStop`.

A frame is abstracted to what a decoder can do with it: `key`, `delta`, or
`orphan`, a P-frame whose reference chain runs through an access unit the
handler threw away. History variables (`lost`, `faulted`, `skipped`, `primed`,
`configured`) record what was thrown away and what the phone has taken; no guard
that stands for code reads them.

`VideoSource` knows only the wire: the ping before any video, a config right
before every keyframe, no P-frame before a keyframe, nothing after a Bye. The
refinement maps its `closed` to `stop` with the main thread at teardown or
past it; connection, link and what the phone took are the same variables.

### PhoneSession

`pc` is the place of the one session thread: `top` (`poll_surface`), `read`,
`feed`, `drain`, `pump`, `report`, and the writes `askSwap`, `askDrop`, `pong`,
each of which waits for room on the uplink. The codec is a queue of access units
with a count of those decoded; `depth` is `queued - dequeued` as the code counts
it. An input buffer may come back when its unit is decoded or not before its
output is released, so both `Feed` and `FeedDrains` can be next. The drain's
error returns are `DrainFails`. The branch of `feed_video` that configures from
parameter sets in the keyframe itself (`decode.rs:294-300`) is in `MediaPath`
only: no keyframe of a host that keeps `VideoSource` comes before its config. A
session that ends drops everything it owned. Frames carry names (a pts that nothing refers to
any more is used again), and a unit in the codec a kind, `broken` if it was fed
over a gap. `gap`, `asked` and `ended` are history.

### SurfaceHandoff

Windows are numbered in the order the OS creates them. The activity thread's two
handlers are split at every lock and at the store of the gate; the session
thread at the read of `CURRENT_WINDOW`, the put, the take, the gate's load and
the mailbox's take. `locked` is the mutex around `CURRENT_WINDOW` where it is
held across steps; the slot's and the mailbox's own locks each protect one step.

### InboundPath

The link carries pieces, because `framing.rs` writes a frame's header and
payload separately and each is a USB transfer. A read timeout between them drops
the header with the buffer of `read_exact`; the payload is then read as a header
(`ReadGarbage`), which swallows what follows until the length is over
`MAX_FRAME_LEN`, the bytes are no message, or the claimed length is read up.
Comments at `serve.rs:703-705` and `731-733` say a timeout leaves the framing
intact (`aoa.rs:326-331` says so of an idle reader only); `split` marks where it does not, and `InStepUnlessSplit` says nothing else disturbs it. That a bogus frame decodes
to a Stats, a Pong or a Control is left out: only the byte layout decides it. A
write can fail with the phone gone, or with the phone there and the 5 s of the
write timeout over (`WriteFails`). `order` keeps the keys of matched records,
so with a phone that answers it grows for as long as the connection lasts; the
model keeps it exactly and bounds the frames. One connection is
modelled: `serve.rs:859-875` gives the reader two seconds and detaches it if it
has not ended, so `ReaderEnds` says that it ends, not that it ends before the
next connection.

### NalCodec and MediaPath

Operators for start codes, AVCC, parameter sets and the SPS syntax, and a
behaviour that drives them: negotiation, clock exchange, `AvccOf` to `annex_b`
to frames, frames to packets, packets to chunked reads, and the calls the
decoder sees. A cell is a byte, except that a byte of a parameter set carries one
bit, which keeps the emulation prevention and the bit reader at work on short
sequences. `split_access_units` is only called by tests; the model checks that
it takes the decoder's stream apart into the same pictures. The loops
(`split_access_units`, the AVCC walk, the NAL iterator, `start_code_offsets`)
are recursive functions of the loop's own variables, each call one turn. The
length check of `framing.rs:38` and `67` is not in this read path: `MAX_FRAME_LEN`
is part of `InboundPath`, and no peer here writes a frame that long. A touch is
clamped by the decoder, as `messages.rs:417-436` does; two docs say that it is
not (section 3).

### BringUp

Every handshake makes the phone leave the bus; a handle is of one enumeration
and `stale` or `dead` after it. The activity's poll, grant and claim share the
main thread; a session thread goes through `queued`, `hello`, `window`,
`reading`, `reply`, `live`, `returned` and then leaves the service. A claim can
fail after the latch was taken (`ClaimFails`: no accessory, no fd, or a service
that may not be started) and gives it back; a start intent without an fd ends in
`endNoSession` (`StartWithoutFd`); and `startForeground` can throw, upon which
the session runs all the same (`refused`). `StaysPinned` therefore speaks of a
session that was given the foreground state, and says exactly how long it has it:
until a thread that had yet to stop the service when the session started
(`behind`) stops it. That this takes the state from a running session is
one of the disagreements of section 3. Three
timing facts are in guards, because the model has no clock: the phone stays away
longer than one accessory poll, it takes its next step well before a
host deadline (`PhoneBusy`), and it answers an offer within the host's read
timeout. `requested` is only taken back by a poll that sees no accessory, so a
refused or used-up request is excluded by `Ready`. The accessory driver's queue
is finite (`UpCap`, external). That Android delivers every start intent is
assumed, and a launch intent's stale accessory extra is left out.

### Daemon

Every read of the pid file, probe of a pid, signal and write is a step of its
own, and the write is two (`fs::write` truncates first). Pids are reused. Three
things of the code the properties step around: a failed write of the pid file
leaves a worker no `stop` can find (`unrecorded`); nothing locks the file, so two
overlapping commands can leave two workers (`overlapped`); and the 3 s of grace
end before the worker's 5 s write timeout, so a blocked worker is killed without
a Bye.

### TouchPath

A position is the number of the sample, so that order shows. `MoveCoalescer` has
one buffer for all fingers: a second finger's move replaces the first's
(`displaced`). Nothing but `bin/p6_inject.rs` drives the pointer machine today.

## 3. Runs

| Run | Checks | Shows |
|---|---|---|
| `pipeline` | `TypeOK`, `InFlightExact`, `PrimedByKeyframe`, `ConfigPrecedesKeyframe`, `SkipsUpToKeyframe`, `ResyncOwed`, `KeepsPromise` | safety of the host path with every encoder fault, unplug, reconnect and stop, and that it implements `VideoSource` |
| `pipeline_live` | `PacerReopens`, `StopTerminates` | the pacer never stays shut; a stop ends the host, two unbounded loops apart |
| `orphan` | `NoOrphanSent`, violated | finding 1 below |
| `forced_lost` | `ResyncAlwaysOwed`, violated | finding 2 |
| `surface` | `TypeOK`, `NeverStranded`, `SlotNeverDead`, `DecoderFollowsWindow`, `WindowReached` | the window hand-off |
| `surface_paused` | `RendersWhenForeground`, violated | finding 3 |
| `phone` | `TypeOK`, `DecoderNeverMisused`, `NoFrameOverGap`, `OneRequestPerEpisode`, `ReadsAgain`, `EpisodeEnds` | the receive loop with drops, swaps, codec faults, reconnects and a full uplink |
| `inbound` | `TypeOK`, `UnmatchedWasEvicted`, `InStepUnlessSplit`, `ReaderEnds` | the way back, with timeouts in the middle of frames |
| `touch` | `TypeOK`, `NeverStuck`, `FollowsFinger`, `NeverRewinds` | three fingers through coalescer, wire and pointer machine |
| `bringup` | `TypeOK`, `OneSession`, `StaysPinned`, `StopEnds`, `Reconnects` | connections begin, break and begin again |
| `daemon` | `TypeOK`, `OneWorkerOnRecord`, `StopKills` | commands, crashes and reused pids |
| `codec` | `TypeOK`, `SameAgreement`, `ClockBound`, `PicturesIntact` | contents of the messages, end to end |

**Bounds.** `pipeline` uses the code's own `MaxInFlight = 2` and
`ChannelCap = 2`; `MaxBacklog = 2` lets the drain of the channel be overtaken by
a delivery, so that a backlog of two is coalesced, and `LinkCap = 1` lets every
write stall and an unplug fall between a config and its keyframe. The two
violation runs take `LinkCap = 2`, where both are on the link together, and the
proofs hold for every value.
`pipeline_live` keeps `ChannelCap = 2`, so that the drain can find the channel
filled again each time, and takes every other bound at 1: its questions are about
blocking, and at 1 a queue is full as often as it can be. `surface` allows three
windows: created, lost, recreated, lost again and created again, with a session
that lives through it and one that starts in between.

`phone` has every bound at 1 (link, uplink, `MAX_IN_FLIGHT`, codec buffers), so
that each wait and each drop happens, and a `STATS_TRACKER_CAPACITY` of 3, which
a background fills. `inbound` sends 4 frames past 2 records, so that records are
evicted while matched keys still stand before them in the queue, over a link of
one piece, so that a timeout can fall after every piece. `touch` takes 3 fingers,
8 samples (two gestures and their moves) and, fingers being alike, symmetry.
`bringup` has two session threads, since a second can start while the first
leaves, and a driver queue of two writes, a session's hello and its reply.
`daemon` has two commands and two pids: one is reused while the other is on
record. `codec` takes one environment at a time: every offer against every
panel, each of three encoders' SPS, three pictures, a reconnect amid the
pictures, every delay up to 3; packets of 24 cells put packet boundaries inside
frames. It ends where its bounds do, hence `CHECK_DEADLOCK FALSE`.

**Faults.** `Faults` selects the encoder failures of a pipeline run.
`pipeline_live` leaves `discard` out, which adds no blocking and only states;
`orphan` has none, so its counterexample needs no failure at all; `forced_lost`
has only the error status of the encoder. `phone` may fail its handshake, its configure, a swap, a feed and a
drain, and lose the cable anywhere. `bringup` lets the cable go, a claim fail, the
service be refused the foreground state or find no fd, the system kill the app,
the user refuse, background and reopen it, and the host stop and start again. `daemon` lets workers crash.

**Fairness.**

* *Host pipeline.* A submitted frame is submitted and its handler runs to
  the end (VideoToolbox calls back once per accepted frame), and the main thread
  moves on, because each of its waits has a timeout, with one exception: the
  handshake's flush runs before the write timeout is set, so `OfferTaken`, the
  phone reading the offer, is not fair. `StopTerminates` assumes that the main
  thread stays for ever neither in that flush nor in the drain, whose end only
  timing gives: a drain of microseconds against frames 16 ms apart. The phone,
  the cable, the capture and the user owe nothing.
* *Windows.* An event handler that started finishes; a session polls and reads in
  turn, the host's heartbeat ending each read within a second. No window and no
  session need ever come or go.
* *Phone.* The session thread runs, the codec decodes what it was given, and the
  host's reader thread reads. The host owes no message: `EpisodeEnds` assumes
  keyframes keep coming.
* *Way in.* Reader and main thread run. `GarbledEnds` is strongly fair, because
  `MAX_FRAME_LEN` bounds how long a bogus frame can swallow what arrives.
* *Bring-up.* The host's loop and its reader, the re-enumeration, the activity's
  poll, the user's answer to a dialog that stays open, each session thread. A
  poll whose claim fails changes nothing, so fairness of the poll also says that
  an accessory that is there and permitted opens in the end.
  `Reconnects` speaks of a user who from some point leaves the two ends to it
  (`Ready`), without the five events in `Trouble`; what is left is `Wedged`, the
  host in the flush that has no timeout and the session waiting for room.
* *Daemon.* Commands run to their end, and a worker that is not blocked runs its
  loop. Nothing unblocks a transfer.
* `touch` and `codec` state safety only.

**Findings.** Three disagreements between the code and its comments, each with a
run whose counterexample shows it.

1. `serve.rs:229-231` says that after a shed the decoder resyncs "instead of
   decoding P-frames against a missing reference". With two frames in flight the
   second one was submitted before the request and is delivered behind the gap.
2. `serve.rs:231-232` and `240-241` say a dropped forced frame sets its request
   again. The handler does so only when the channel is full; the status and
   sample returns at `serve.rs:176-181` leave the request lost. So does the
   delegate when the encoder refuses the forced frame: it gives back the slot
   only (`serve.rs:267-272`, `SubmitFails`).
3. `mediacodec.rs:470` calls a loss before the first configure a no-op. It sets
   `render_enabled` to false, and the swap that follows, with no codec yet,
   does not set it back: the codec configured later renders nothing.

`ResyncOwed` and `DecoderFollowsWindow` are what does hold in 2 and 3.

**Further disagreements.** These the models show as well, without a run of their
own: each is a part of an action or an exception that a property names, and the
property says what holds beside it.

* `SessionService.kt:28-29` says the process is never frozen or killed. The latch
  is released at line 129 and the service stopped at lines 140-141: a session
  that begins in between runs on without the foreground state once the earlier
  thread stops the service. `StaysPinned` says exactly when: as soon as a thread
  in `behind` has stopped it. A failed `startForeground` (lines 110-114), which
  the code logs as "process will be frozen/killed", leaves a session without the
  state as well (`refused`).
* `messages.rs:133-135` and `macos-host/src/touch.rs:15-16` say touch coordinates
  are not range-validated on decode. `messages.rs:417-436` rejects those that are
  not finite and clamps the rest, and that is what `Decode` of `MediaPath` does:
  the clause about coordinates in its `TypeOK` holds by that code and against
  those docs.
* `serve.rs:704-705` and `732-733` say the read timeout does not corrupt the
  framing and loses no data. It does when it fires between the two writes of a
  frame (`split` in `InStepUnlessSplit`).
* `latency.rs:143-146` calls the eviction queue a bounded FIFO and storage O(1).
  Eviction runs only when the map is full, so with a phone that answers the queue
  keeps the key of every frame of the connection.
* `serve.rs:17-19` says a stop breaks the loop into the final teardown. A phone
  that stays plugged in and does not read the offer holds the main thread in a
  flush without a timeout (`StopTerminates`, `StopEnds`); `rustscreen stop` then
  ends the worker with SIGKILL, without the teardown (`StopKills`).
* `coalesce.rs:9-10` says that a replaced move is an intermediate position. It
  can be the pressing finger's last one, replaced by a move of a finger that the
  host ignores: the cursor then stays behind (`displaced` in `FollowsFinger`).
* `clock.rs:25` gives a bound of half a round trip and leaves out the half
  microsecond that the truncating division drops (`ClockBound`).

## 4. Proofs

The theorems hold for every value of the constants under the named assumptions
of the modules: queue lengths, capacities and other bounds are positive numbers,
and the sets of threads and of commands are finite (`CapsAssumption`,
`WindowsAssumption`, `PhoneAssumption`, `InboundAssumption`,
`BringUpAssumption`, `DaemonAssumption`, `TouchAssumption`; those of `MediaPath`
are discussed with its proofs). `PhoneAssumption` adds that the statistics
tracker holds more frames than the codec has buffers:
64 in the code, against a codec's handful. Each module has one invariant in named
parts, one lemma that says which steps touch which part, and one step lemma per
part.

*Host pipeline* (`HostPipelineProofs`)

* `TypeCorrect`: `[](TypeOK /\ InFlightExact)`. The two are inductive together:
  a slot is taken and given back only where a frame enters or leaves the
  delegate or the encoder (`PacerStep`), everything else leaves the pacer alone
  (`PacerUntouched`).
* `ResyncCorrect`: `[]ResyncOwed`. `KeyframeOwed` follows the request from the
  flag to the submitted frame, the encoder's queue and the handler; only
  `Deliver` of a keyframe ends the debt, only a fault loses it.
* `SkipCorrect`: `[]SkipsUpToKeyframe`. Strengthened with `VideoIsKeyframe`, and
  with the lemma `CoalesceSuffix`: coalescing returns its argument or a suffix
  that starts with a keyframe.
* `LinkCorrect`: `[](PrimedByKeyframe /\ ConfigPrecedesKeyframe)`. `LinkInv` adds
  that an open gate means a keyframe was sent on this connection and that in
  phase `video` the last message is the config; `WriteKeepsLink` says what an
  append needs to preserve both, and the take from the head shifts them.
* `HostKeepsPromise`: `Spec => KeepsPromise`, the refinement of `VideoSource`.
  `RefineInv` says what the abstract stream sees of the phases: nothing is sent
  before the clock sync, and outside `video` no config waits for its keyframe.
  `RefineStep` has a case per thread; all but the writes, the takes, a new
  connection, its loss and the end are stutters.

*Window hand-off* (`SurfaceHandoffProofs`)

* `HandoffSafe`: `[](TypeOK /\ NeverStranded /\ SlotNeverDead)`. Needs that the
  lock has one holder (`LockExclusive`) and that a seeding session's clone is the
  live window (`SlotInv`).
* `DecoderFollows`: `[]DecoderFollowsWindow`. `FollowInv` says, at each step of
  the activity thread's handlers, where the window is: in the mailbox, or with
  the decoder.

*Phone session* (`PhoneSessionProofs`)

* `PhoneTypeCorrect`: `[]TypeOK`. The names of frames are the hard part: there
  are always enough of them, because tracker, codec and presented queue are
  bounded (`FreshPtsIsFresh`).
* `DecoderRespected`: `[]DecoderNeverMisused`. `WireInv` is what `VideoSource`
  promises of messages still on the link (a config before each keyframe, a
  keyframe before any P-frame); `ConfigHeld` carries it over to the session.
* `PacerCorrect`: `[](NoFrameOverGap /\ OneRequestPerEpisode)`. `PacingInv`: a
  gap is only open in drop mode or while the keyframe that ends it is fed.

*Host's way in* (`InboundPathProofs`)

* `InboundTypeCorrect`: `[]TypeOK`. That `pong_rx` holds one pong at most needs
  `PongInv`: a ping is sent once, and its answer is in one place.
* `ReaderInStep`: `[]InStepUnlessSplit`. `LinkInv`: header and payload of a frame
  stand next to each other and the last piece says what the phone has still to
  write. `InStepInv` covers the empty link too.
* `ReportsMatched`: `[]UnmatchedWasEvicted`. `ReportsInv` orders the reports on
  their way: channel, frame in hand, link. `AccountInv`: a frame without a
  record that was not evicted was reported, and its report is no longer on its
  way, so no report can miss its record twice. The step that matters is the
  drain, which never runs between a frame's write and its record.

*Bring-up* (`BringUpProofs`)

* `BringUpTypeCorrect`: `[]TypeOK`.
* `SessionAlone`: `[]OneSession`, and `SessionPinned`: `[]StaysPinned`. What any
  action does to the latch, the service and the session threads is one of nine
  moves (`Latched`, `StepsOnThreads`); `LatchInv` is preserved by each
  (`LatchStep`). `Alone` says that the latch is held exactly while one session is
  started or runs. `AllBehind` says that a thread that has yet to stop
  the service is one of those a running session knows to be before it, so a stop
  of the service is never a surprise to the session it takes the state from.

*Daemon* (`DaemonProofs`)

* `DaemonTypeCorrect`: `[]TypeOK`.
* `OneWorker`: `[]OneWorkerOnRecord`. `RecordInv`, as long as commands do not
  overlap and every record is written: a start is alone with the file
  (`Alone`), a worker is on it (`OnFile`), and every command knows, place by
  place, which pid a worker could have (`Knows`).

*Touch* (`TouchPathProofs`)

* `TouchTypeCorrect`: `[]TypeOK`; `ButtonReleased`: `[]NeverStuck`;
  `CursorFollows`: `[]FollowsFinger`; `CursorForward`: `NeverRewinds`. One
  invariant for the four: positions do not decrease from the cursor over the
  link to the buffer (`Ordered`), a press has its finger on the screen or its
  release behind it (`Ended`), the newest event of a finger is its last sample
  (`Followed`). They are stated of values rather than variables, because a
  transition sends the buffered move and then its own events, and each half
  preserves them (`Flushed`, `TransitionStep`).

*Messages and pictures* (`MediaPathProofs`)

* `MediaTypeCorrect`: `[]TypeOK`; `Agreement`: `[]SameAgreement`;
  `ClockCorrect`: `[]ClockBound`, for every interval and not just TLC's
  (`FusionBound`); `PicturesArrive`: `[]PicturesIntact`. All four follow from
  `MediaInvariant`, `[]MediaInv`.
* Why an invariant is needed, and which. The properties speak of whole messages
  and of calls, the state has cells: some in the packets, some in the phone's
  read buffer, some in a frame half read. `MediaInv` says that *there is* a
  sequence of messages which these three hold together (`Wire`), and everything
  else is said of that sequence: how far each peer has got and what it has
  heard (`Stage`), that the pictures not yet fed are in it, each once and in
  order (`Numbered`), that a config carries the encoder's parameter sets and a
  Bye comes from a host that ended (`Carries`). `Fed` says what the decoder has
  had, `Encoding` what the host keeps of its encoder. `InStep` is the four
  together.
* The steps. `WireSend`: a flush appends a message, because the packets it
  makes flatten to what was written (`PacketsFlatten`). `ReadServes` and
  `PhoneGets`: a read of any length takes cells from the head of the same
  stream, and only the read that ends a frame takes a message, the first one
  (`ReadMore`, `ReadHeader`, `ReadComplete`). So no property depends on where
  packets and reads cut the stream, for any `PacketMax` and `Chunk`.
* The conversions, for all pictures and not the four of the run. The messages
  decode to themselves (`MessagesDecode`); the AVCC walk gives back the
  encoder's units (`AvccNalsOf`); the start-code scan gives back the units of
  an Annex B stream (`AnnexBUnits`); config extraction gives back the parameter
  sets (`Extracts`); a decoder's stream splits into its access units
  (`Resplits`); a negotiated configuration serves both sides
  (`NegotiateServes`); the truncated estimate keeps its bound (`EstimateBound`).
* Recursive definitions. An induction over data goes through the least number
  for which it would fail (`LeastNat`). `WalkExists` shows that a loop that
  descends has a function that satisfies its equation; `NalUnitsWalk`,
  `AvccNalsWalk`, `OffsetsWalk` and `SplitWalk` are its instances, and
  `FlattenIs` the same for `FlattenSeq`.
* What it rests on. `PacketsAssumption`: a transfer is no longer than the
  phone's read, 16 KiB both in the code; were it, the kernel would cut a packet
  short. `PicturesAssumption`: no unit holds a start code or ends in a zero
  byte, which H.264 demands of every NAL unit; one slice to a picture, its last
  unit, which `nal.rs:107` says of this encoder; no parameter sets within a
  picture, which `encode_vt.rs:133` demands of the caller.
  `EnvironmentsAssumption`: the types of `messages.rs`, coordinates that
  `touch.rs:61` keeps finite, and an encoder whose pictures have the size of
  its SPS. That last one is what `SpsDimensions` is *checked* for, by TLC, which
  evaluates the assumption: `MCMediaPath` writes each SPS from its syntax
  elements and says the size itself.

**Only model-checked.** Liveness under fairness is out of the prover's reach:
`PacerReopens`, `StopTerminates`, `WindowReached`, `ReadsAgain`, `EpisodeEnds`,
`ReaderEnds`, `StopEnds`, `Reconnects`, `StopKills`. What the SPS parser
computes (`Unescape`, `ParseSps`, `DisplaySize`) is shown for three parameter
sets: a proof would need a specification of the H.264 syntax to prove it
against. The three violations are counterexamples that TLC finds. Every safety
property of a passing run is a theorem.

## 5. Where to go on

* Prove the composition: `PhoneSession` takes `VideoSource` for its host, and
  `HostKeepsPromise` shows that the pipeline is one; a theorem over one link
  would join the two, with the way back, so that a request of the phone and a
  shed of the host meet in one behaviour. Today the refinement carries the
  forward direction and `ReaderRequest` the other.
* Lemmas about the steps towards the liveness properties: what remains to be
  done decreases (the backlog of a reader, the uplink of a session), of which
  only the fairness argument itself is left to TLC.
* A lock on the pid file, a time-out on the handshake's flush and a framed read
  that keeps its partial frame would make `overlapped`, `Wedged` and `split`
  superfluous, and a latch released after the service is stopped `behind`; each is
  a change of one action here.
* When touch is wired into the product, `TouchPath`'s link becomes frames of
  `InboundPath`.

## 6. Not modelled

* *The contents of payloads*: the serde layout of the postcard encoding
  (generated by a library), the pixel contents of access units.
* *Reports*: percentiles, CSV and summary lines of `LatencyStats`, logging.
* *Code the product does not call*: `encode.rs`'s pull pipeline,
  `run_send_session`, `run_stream_session`, `perform_clock_sync`,
  `estimate_best_of` (tests and spikes), `NcmTransport` and the echo tools, the
  spikes under `src/bin` other than `rustscreen`.
* *Plumbing*: Objective-C and JNI calls, USB control transfers below the three
  requests of the handshake, screen-recording permission and display set-up,
  creation of the virtual display, input events the activity only drains.
* *Arithmetic without a state*: the affine map of a touch to the display, the
  size handed to the codec's format.
* *`rustscreen status`*, which only reads what `start` and `stop` read, and the
  build tool.
