# F030MXDRV in TLA+

F030MXDRV plays MDX music (the Sharp X68000's MXDRV format) on an Atari Falcon.
The 68030 runs the sequencer and mixes the PCM voices; the DSP56001 emulates the
YM2151 and plays through the SSI.  Once every 512 frames (15.6 ms) the player hands
the DSP a *payload*: the register writes of the period and its mixed PCM.

This directory models that path, the sequencer that drives it, the way the DSP program is built and booted, the
block renderer and the Python tools that observe and judge all of it.  TLC checks the models, and TLAPS proves what
matters most.  Line numbers are those of `src/src/m68k/*.s`, `src/src/dsp/*.asm` and `src/tools/*.py`.

## 1. Inventory

| Component | State | Operations | Meets | What is hard, and what makes it correct |
| --- | --- | --- | --- | --- |
| DSP link `dsp_link.s` | `dsp_stage_posted/queued/base/qbase/reply`, the host port | `dsp_rt_submit`, `_poll`, `_wait`, `_poll_irq`, `dsp_exchange` | player, tick, DSP | two contexts on one port; a two-place pipeline filled by one and emptied by both. One word in flight, every reply to its reader, payloads whole, in order, none lost |
| Player `player.s` | three staging buffers, session state | loop, stage, post, check, drains, clean-up | all | every exit leaves the DSP at a command boundary and stopped |
| Write accumulator `mxdrv_port.s` | mirror, batch, slot map, generation | buffered and direct write, enable, disable, copy, flush | sequencer, player, link | coalescing moves writes; two routes to one chip. No edge lost, no value older than one already there, a key behind its voice |
| DSP stream `ym2151.asm` 3640-3893, 7980-8320 | two period buffers, `r6`, active/refill/pending/switched | refill, early accept, boundary wait, handoff, stop | host port, SSI interrupt | the boundary may fall anywhere in a transfer. Periods whole, in order, no boundary missed, everything accepted plays |
| Session `mxdrv_core.s`, `mdx_clock.s` | playing, paused, images, phase, pending ticks, Timer A | 32 calls, pump, resync, interrupt | sequencer | tick counting against the pump, stop and pause; replaced images |
| Sequencer `mdx.s` | 16 tracks, sync flags, loops, fade, tempo | `mdx_start`, tick, 32 commands | accumulator, PDX | sync between tracks, loop count, retirement, budget |
| PDX `pdx.s` | bank table, cache, 8 voices | detect, precache, voice start/stop, mix | sequencer, player | capacity, source step and end of a voice inside a block |
| YM2151 kernel `ym2151.asm` | registers, queue of 32 stamped writes, native clock and remainder, timers, envelopes, phases | write, enqueue, service, block, split at a landing | command loop, stream | a write lands inside a block, over the wrap of the clock, with the queue full. Each in effect from its own frame, in order |
| Build and boot `generate_dsp_stage2.py`, `stage2_loader.asm`, `main.s` | sections, boot image, stream; P memory, host port | parse, merge, refuse, emit; boot, load, answer, jump | build, host, DSP | the loader lies in a gap of what it loads. What is entered is the whole program |
| Capture `capture_ym2151_realtime.py`, `capture.s` | trace, dumps, rows | compile, run, dump, reconstruct, compare | renderer, Hatari | it observes blocks and reports frames. Rows say what the DSP did |
| Playback gates `endurance_batch.py`, `stock_audio_timing.py` | process, scores, verdicts | start, score, poll, signal, judge | Hatari, player | timers race the process and the scoring thread. A pass means what it says; the gate ends |
| Profile probes `profile_dsp_live.py`, `profile_dsp_payloads.py` | breakpoint count, profile | arm, save, divide | stream | the window is cut by one label and divided by another |
| Harness, table generators | - | conformance tests, tables | - | no state |

Interactions: the sequencer, run by `mxdrv_mdx_clock_pump` in the foreground, writes
registers into the accumulator; the player copies the batch and the mixed PCM into a
staging buffer and submits it; the submission, the player's polls and the 1024 Hz Timer-A
interrupt move it over the host port; the DSP answers each refill with READY, takes the
block, acknowledges, applies the burst, renders, and switches buffers at the boundary.

Hazards, each at its line and with the properties that cover it, are in `PROJECT.json`.

## 2. Modules

| Module | Models | Notes |
| --- | --- | --- |
| `PayloadFifo` | nothing: the promise | a queue of `Depth` places with at most `Slack` overtakings |
| `HostPort` | the registers of the host port and the DSP's side of the protocol | phases `listen`, `receive`, `busy`, `stopped`; a payload's words are one `block` word |
| `DspLink` | `dsp_link.s` 99-262 | `pc[c]` is a point between two instructions of context `c` ("fg" or "irq") at which another actor matters |
| `RefillPipeline` | `player.s` 602-751 over `DspLink` and `HostPort`, with the tick | the composition: `Foreground`, `TimerA`, `Hardware` |
| `RefillInvariant` | - | two inductive invariants: `IInv` while nothing is refused, `LostInv` whatever is |
| `RefillRefinement` | - | refinement mapping to `PayloadFifo` |
| `RefillClaims` | - | what a comment says and the code does not keep |
| `RefillProofs` | - | proofs of the pipeline and of its refinement |
| `YmBatch` | `mxdrv_port.s` 30-204 | a write is its number; `written[n]` its register |
| `YmDelivery` | accumulator + pipeline + the chip's latches | composition of `YmBatch` and `RefillPipeline` |
| `DeliveryInvariant`, `YmDeliveryProofs` | - | where each write is on its way to the chip; proofs of the accumulator with any caller and of the composition |
| `MCYmDelivery` | - | TLC symmetry |
| `MdxTracks` | `mdx.s` 125-430, 432-1236, 1399-1417: one song of arbitrary commands | location `at` in the tick, `d7` the track, `d6` the budget; `mask` is `mxdrv_mdx_active` |
| `MCMdxTracks`, `MdxClaims` | - | the songs TLC plays; a comment of `mdx.s` |
| `MdxTracksProofs` | - | `TracksInv` and its proofs |
| `DspStream` | `ym2151.asm` 3640-3893, 7980-8320, SSI interrupt 18-27 | location `at` of the DSP program; `ImplementsPort` maps it to `HostPort` |
| `StreamProfile` | the two profile probes, over `DspStream` | a step of the stream is also a step of the probe (`Probe`): it counts breakpoint hits, payloads and handoffs |
| `StreamInvariant`, `DspStreamProofs` | - | the stream's inductive invariant; proofs of the stream and of the probes' windows |
| `BlockKernel` | `ym2151.asm` 2536-2917, 3954-4031, 6477-6648, 7753-7794 | queue, clock, blocks and segments; the chip is one operator's pitch, key and phase |
| `KernelInvariant`, `KernelProofs` | - | the block renderer in native samples that do not wrap |
| `CaptureRows` | `capture_ym2151_realtime.py`, `capture.s` 79-108, `validate_schedule`, over `BlockKernel` | `tool` is the step of the tool; `dumps` the parsed records |
| `CaptureInvariant`, `CaptureProofs` | - | what the tool and the renderer have in common at each of its steps |
| `Stage2Image` | `generate_dsp_stage2.py`: what it accepts and emits, as operators | |
| `Stage2Boot`, `MCStage2Boot` | the file read line by line, the build, `main.s` 74-89 and `stage2_loader.asm`, over `Stage2Image` | `at` is first the build's step, then the DSP's location |
| `BootInvariant`, `BootProofs` | - | what of a stream is still to come and what is installed, at each place of the loader; proofs of the build and of the boot |
| `TraceGate` | `endurance_batch.py`, `stock_audio_timing.py` | Hatari's process, the scoring thread and the main thread; `truth` is what the player did, `score` what the scorer has read |
| `TraceGateProofs` | - | `GateInv` and its proofs |

Correspondence worth knowing:

- `posted`, `queued`, `base`, `qbase`, `reply` are the `dsp_stage_*` variables; `content[b]`
  is the payload that staging buffer `b` holds now, so sending from a reused buffer shows.
- `submit`, `full`, `enqueue` are the test of `dsp_stage_posted`, that of
  `dsp_stage_queued` and the stores: interrupts are open between them.
  `BodyLocations` are inside the poll body, which the foreground runs at level 7.
- In the pump and in the mix passes the player polls; those seams are the locations
  `loop` and `build`, where `PollWhilePosted` may run any number of times.
- `DspStream`: `wait` is `command_rt_refill_wait_service`, `early`, `fill`, `earlyAck` the
  boundary-aware receive, its silent fill and the acknowledgement; `catch`, `complete`,
  `switch` are the three parts of `rt5_perform_handoff`, between which the SSI may run.
  `out` is the last word transmitted: the payload its frame was rendered from and its place.
- `BlockKernel` stamps every accepted write with the native sample it is for (`due`) and the
  first frame it can be in effect (`after`): `rendered` records for every frame how many writes were.
- `CaptureRows`: a state dump is taken at the label `rt5_render_runtime_block`, before the block's boundary
  service (`BeginBlock`), a buffer dump when a buffer is complete; the two kinds are kept apart, as the tool sorts
  them. The dumped words not modelled (noise, LFO, envelope) are left out.
- `TraceGate`: a line of the trace is its meaning.  Lines that no pattern picks out are not modelled.
- The DSP `HostPort` assumes (busy or listening, a block after each READY) is not
  taken for granted: `DspStream` is shown to implement it.

## 3. What each run checks

| Run | Expect | Shows | Bounds |
| --- | --- | --- | --- |
| `refill_pipeline` | pass | mutual exclusion of the poll body; one word on the port; each reply to its reader; payloads intact and in order unless one was stranded; nothing lost to a refusal is sent later; the tick alone delivers; the pipeline implements `PayloadFifo` with `Depth` 2 and `Slack` 1; a submission returns; an exit ends with the DSP stopped; and the inductive invariant of the proofs | 5 payloads, refusals |
| `ym_delivery` | pass | register writes batched, flushed and keyed off reach the chip: none undone, edges in order and behind their voices, chip equal to mirror when drained | 3 payloads, 2 latches, 1 edge, batch of 2, 4 writes |
| `stream_profile` | pass | periods leave whole, in order; no boundary missed while the program looks for it; writes and bursts in order; when a stop is answered everything acknowledged is applied and the last payload plays; accepted payloads play though the host stalls; implements `HostPort`; and a profile window holds as many payloads as handoffs | 4 payloads, 2 writes, 2 frames a period; skip 1, windows of 2 |
| `mdx_tracks` | pass | whatever sounds belongs to a track that plays and knows it; keys go up with their gate; no loop is counted early; a tick ends, a flag wakes its track, a fade ends the song, also one whose tracks all wait for one another | 1 FM and 1 PCM track, three kinds of song, budget 3, silence after 2 fade steps, fade waits 1 and 2 |
| `boot` | pass | the build takes exactly the programs that may be loaded; what the DSP enters is the whole program, from either kind of image; the loader survives; the player gets its answer | files of 7 lines, 3 sections, the 4 words of `FileWords`, 9 words of memory, one island |
| `capture_rows` | pass | every write is in effect from its frame on, stamped or live, whole block or split, over the wrap of the clock; no scenario that compiles is refused, no complete run fails, the rows count every event on its frame (`ScheduleKept`), and their phases and outputs are what the DSP did (`RowsMatchKernel`) | blocks of 4 frames, buffers of 2 blocks, ratio 19/10, 5-bit clock, queue of 3, 4 writes, 24 frames; capture of 16 |
| `gates` | pass | a song that passes was unlocked after its refills, however far the scorer lags, and an error it had is in a line not read; a stock run that passes kept its cadence; the gate ends | 2 songs, 1 line in the pipe, 3 refills and handoffs, a period of 1 word |
| `wait_delivers_all` | violation | the drain returns with a payload queued | 5 payloads |
| `wrap_counted` | violation | a pass of the song completed by a track that ends is not counted | as `mdx_tracks` |
| `refusal_reported` | violation | the stock gate passes a run with a refused refill | 1 song, 1 refill, 2 handoffs |
| `capture_misses_reset` | violation | two key-on edges in a block: rows with a wrong phase, and no failure | as `capture_rows` |
| `live_reordered` | violation | a live write overtakes an earlier one through a full queue | as `capture_rows`, 5 writes |

Why the bounds are enough.  The pipeline holds two payloads and reuses a buffer every
three, so four payloads reach the reuse and a fifth follows it.  A batch of two overflows
on the third write, which two latches and an edge bring about in every order.  A period of
two frames has four words, so the boundary can fall on left and right words, and
before, within and after each part of a transfer; four payloads use both buffers twice,
resident and cold, and leave room for a window of two periods that begins after the first.  Two tracks are a sender and a receiver, a looper and one that ends; durations of one and
two ticks with gates of one or two, shorter, equal and longer than the note, and delays of none or
one put the key-on before, at and after the gate; three commands are the budget's first, middle and last.
The image is the most general one: each command is any of the song's.  The commands come in
three groups so that those that interact meet without all being multiplied; the player may fade any song at any time,
and the counter of the fade, which goes down by two a tick, runs out at once with a wait of 1 and is waited for with 2.  The proofs of section 5 remove the bounds of
every passing run, for the properties they name.

Three sections can be written out of order, merge, leave a gap and overlap; their addresses lie before, at
and behind the loader, the table boundary and the island, and the last reaches beyond memory.  The loader is two
words long, so that a section can miss, touch or half cover it.  A ratio of 19/10 gives, as 1920/1007 does, blocks of
two lengths and frames that consume one or two native samples; the distances reach from now past the block's end to
both sides of the horizon of 16, and 24 frames of 1.9 samples wrap the 5-bit clock.  Sixteen frames are two buffers of
two blocks each, of which the capture tool sees both; its 30 samples do not reach the wrap, which for the capture is
left to the theorem `CaptureOnSchedule`.  A handoff can be
counted from the third on, which is the first that a gate calls steady; a line left in the pipe is all a lagging
scorer needs to miss, and a second song finds what the first left.

Deadlock is not checked: a session, a song, a build, a capture or a gate ends, and after a refusal the stop exchange
may wait for ever.

Every property of a passing run has a mutant in `PROJECT.json`: a definition changed as a
plausible bug would change it, with which TLC finds the property violated.

### What the violations say

The one that needs no fault is in `dsp_rt_submit`.  It tests `dsp_stage_posted` and
`dsp_stage_queued` and then stores the queued payload with interrupts open; if the tick
delivers the announced payload in between, the new one is queued behind nothing.  No poll
promotes it (they look at `dsp_stage_posted`), `dsp_rt_submit_wait` does not wait for it,
and the next submission is announced ahead of it.  The history variable `stranded` marks
that moment; properties that need its absence say so, and `ImplementsFifo` shows the
damage is confined to one overtaking: the register writes of the stranded payload then reach the chip behind
newer ones.  What happens after a refusal is not claimed beyond `LostNeverSent`: the reply may be overwritten
before the player looks, and its error exit does not drain.  Our DSP refuses a refill only outside real-time mode.

`wrap_counted`: the loop count is taken only when a track jumps, so that a pass that
becomes complete because the last other track ended is counted at the next jump, one late.

`live_reordered`: a live write that finds the queue full of future entries is applied at once, and so ahead of a live
write queued behind one of them.  It takes both transports on one stream, which the protocol allows and no host
program of the repository does; with either alone `LandsOnTime` holds.

`capture_misses_reset`: the table of key-on resets holds one a block.  With two edges in a block the check against
the dump passes, because the phase at the block's end depends on the last, and the rows in between are wrong.
With at most one the rows are right (`RowsMatchKernel`).

`refusal_reported`: between a refill command and the word after it the stock gate's scorer looks for that
word only, and skips the error reply that refuses the refill.

### What two passing runs say against a comment

`stream_profile`: a comment has a stop that is taken in the boundary wait abandon the resident payload
(`ym2151.asm`:8024-8025).  The wait takes no command while one is resident (7992-7994), so the stop is read after the
handoff has published that payload, its events are committed and its period rendered.  `StopPlaysAll` would fail if a
payload were ever abandoned.  Nothing is lost by it; the comment is out of date.

`gates`: the batch keeps reading for three seconds after the unlock "to catch late errors" (`endurance_batch.py`:43), but
joins the scorer for 30 seconds and takes its verdict whether the thread has ended or not (145); the stock gate asks
(`stock_audio_timing.py`:164-165).  `GateEnds` holds with a scorer that never reads again, and a verdict depends on what
was read alone, so that an error behind the unlock can be in the lines left over.  `GateSound` says what a pass of the
batch does mean: unlock and refills have happened, and an error can only be in a line not read.

## 4. Fairness

- `TickFairness` (weak fairness of a masked body, the tick and the hardware): the body
  runs with interrupts off to its end, Timer A interrupts 1024 times a second while
  installed, and the DSP and the port are independent hardware.
- `PlayerFairness`: weak fairness of the foreground, which nothing preempts for
  ever, and strong fairness of `ExchangeLast`: a flush is at most `DSP_RT_BATCH_MAX`
  writes and the key-offs eight, which the model does not count.
- `StreamLive`: weak fairness of the DSP program, the SSI and the port.  None of the host:
  it may stall in the middle of a transfer and `AcceptedPlays` must hold all the same.
- `TracksLive`: weak fairness of the tick, which the pump calls while the song plays and which
  runs to its end once called; not of the fade call or of the mixer.
- `ProfileSpec`: as `StreamLive`; a probe's step is part of a step of the stream and adds no fairness.
- `BootLive`: the host writes its block to the end and takes the answer (a blocking XBIOS call), and the loader
  polls the port for ever.
- `GateLive`: the main thread runs and its timers run out, and a killed process ends.  Nothing of Hatari, the player
  or the scoring thread: `GateEnds` must hold when they hang.
- `PlayerFairness` is a premise of `SubmitReturns` and `ExitCompletes` and no part of `TickSpec`: `AnnouncedDelivered`
  must hold when the foreground does not run.
- `SsiWord` has one timing assumption, the variable `turn`: a watching loop looks at the
  pointer at least once per SSI word (244 instruction cycles; the longest loop is
  the 32-frame silent fill).  Serving a write or rendering has no such limit.

## 5. What is proved

Every theorem holds for every value of the constants that the module's named assumption allows.  Each rests on an
inductive invariant, which TLC checked on the instance of the run before it was proved; one lemma per action (or per
group of actions that touch the same state) shows that it is kept.  The theorems' names are in parentheses.

### The pipeline (`RefillProofs`; `PortAssumption`: at least one payload, refusals or none)

- `IInv` (`TypeCorrect`, `Inductive`).  The safety properties alone are not inductive: "the reply on the port is READY"
  depends on which command the port carried.  `PortInv` therefore names nine states of port and DSP (idle, commanded,
  answered, granted, sending, acknowledged, exchanging, exchanged) and says which of them each location of the two
  contexts allows; `FifoInv` ties `base`, `qbase`, `built`, `arrived` and the staging buffers together while nothing is
  stranded.  From it: `BodyExclusive` (`MaskExcludes`), `OneCommandInFlight` (`OneCommand`),
  `RepliesReachTheirReader` (`RepliesMatched`), `IntactUnlessStranded` (`DeliveredIntact`).
- `LostInv` holds after refusals and with payloads stranded, where `PortInv` says nothing: `SlotInv` is what remains of
  it (a refused announcement, the error exit that leaves one behind), `NumberInv` that a payload is announced or queued
  once and not settled before its answer.  From it: `LostNeverSent` (`LostStaysLost`).
- `ImplementsFifo` (`PipelineIsFifo`).  `RefillRefinement` maps the two slots to the abstract queue; the proof writes
  that queue out as the at most two places it has, and shows each action to be a `Submit`, `Deliver`, `Refuse` or a
  stutter under `LostInv`.

### The accumulator and the delivery (`YmDeliveryProofs`; `BatchAssumption`: latches and edges are disjoint, room for one write)

- `BatchInv`, and for it `BatchAux`: what a write number means (the mirror's is of its own latch and the newest) and when
  a write is held.  From it: `BatchTypeOK`, `SlotsCurrent`, `BatchComplete`, `VoiceAheadOfKey`, and `BatchOrder`
  (`BatchOrderly`): the batch holds writes made since it was opened, edges in their order, and is flushed only for a held
  write, the newest.
- A behaviour of the composition is one of the pipeline and one of the accumulator (`BothParts`), so both invariants
  hold of it.  `DeliveryInv` (`DeliveryInductive`) says where each write is: in the batch, on its way out of a full one
  (`FlushInv`), in the burst of a payload not yet delivered (`BurstInv`: newer than the chip, older than the batch, each
  latch once), or in the chip (`ChipInv`).  `AheadInv` keeps a voice ahead of its key, `CoverInv` says that nothing
  written before the batch was opened is missing, `WireInv` what the word on the port carries, `OrderInv` that no edge
  came late.  From it: `KeysInOrder`, `ChipMatchesMirror`, and the action property `NeverOlder`.

### The DSP stream and the probes (`DspStreamProofs`; `StreamAssumption`: periods of two frames or more; `ProfileAssumption`)

- `StreamInv` (`StreamInductive`): `LinkInv` (one word or reply under way, and the program where it belongs), `FlowInv`
  (which return a handoff has, when the SSI pointer may be where), `PlayInv` (which buffer holds which payload and which
  plays), `LogInv` (what is acknowledged and not applied), `SpinInv` (a watching loop is never late for the pointer; it
  rests on the timing assumption `turn` of section 4).  From it: `AppliedInOrder`, `StopPlaysAll`, the action properties
  `PeriodsWhole` and `BoundaryCaught`, and the refinement `ImplementsPort`: the DSP that the pipeline's proofs assume.
- `StopPlaysAll` (`StopAfterAll`) says that nothing acknowledged is left unapplied or unplayed when the stop is answered,
  not that the last period is played to its end: the stop cuts it, in the wait after its first word.  `PeriodsWhole`
  (`NothingTorn`) leaves nothing between two periods: the old one repeats whole until the next is rendered.
- The probes only watch, so `StreamInv` holds under them.  `WindowInv` counts: payloads and handoffs of a window differ by
  the one rendered and not handed over when it opened.  From it: `WindowsNormalized` (`WindowsMatchPayloads`).

### The sequencer (`MdxTracksProofs`; `TracksAssumption`)

`TracksInv` (`TracksInductive`) adds little to the properties: the tick is inside a track that plays, a song that is over
has no track left, and a track that has looped since the last count is ahead of it.  From it: `TracksTypeOK` (the mask is the set of active tracks),
`KeysBelongToTracks` (`NoStuckKeys`), `KeyHasGate` (`GatesCutKeys`), `NeverCutShort` (`LoopsNotCutShort`).

### The block renderer (`KernelProofs`; `KernelAssumption`)

`KernelInv` (`KernelInductive`) is in native samples that do not wrap: `Natives(f) = (f * Num) \div Den` is the clock behind
frame `f`.  `ClockInv` and `CursorInv` say that the program's wrapped clock, its remainder and the split driver's cursor
are those of that function; `LogInv` that the applied and the queued writes are the accepted ones, in order; `DueInv`
that what is applied is what the next frame needs, and nothing it does not; `FrameInv` the same of every frame that was
rendered.  The signed comparison of two 16-bit stamps is right because an accepted stamp is less than half the clock
ahead of the block; the assumption that four blocks fit the clock (`2 * BlockFrames * 2 <= ClockMod`, 32 frames and 65536
in the source) leaves that room.  `Num` between `Den` and twice `Den` is 1920/1007 with room.  From it: `LandsOnTime`
(`WritesLandOnTime`): a write is in effect from the first frame `f` with `due <= Natives(f)`, or from the next one to be
rendered.  In it a stream of both transports is excluded: `live_reordered` shows why.

### The capture (`CaptureProofs`; `CaptureAssumption`: whole buffers)

`CaptureInv` (`CaptureInductive`) is `KernelInv` under the tool's own steps, with `ScenarioInv` (what was compiled is what
was accepted), `DumpInv` (a dump has the clock of the frames before it) and `RowsInv`.  `Schedule`, which the tool adds up
frame by frame, is given its closed form `Natives`.  From it: `LandsOnTime` once more (`CapturesLandOnTime`), and
`ScheduleKept` (`CaptureOnSchedule`): no compiled scenario is refused, no complete run fails for its clocks, and the rows
count every event at the frame the DSP applied it for or at the next.

`PhaseInv` (`PhaseInductive`) is what the rows' phases need besides.  `ChipInv`: the chip's increment, key and last edge
are those of the first events of the trace, as many as are applied (`ChipAfter`), and every frame's phase goes on from
the one before it or from 0, when an edge came between (`FrameFollows`).  `DumpedInv`: a dump has the phase and the
increment behind its frame, and a buffer the phases of its frames.  Neither could be left out: a dump does not say which
of its events are edges, and the table `key_reset` not how many.  The tool lands an event by bisecting its schedule, which
for a complete run is the frame the DSP applied it for (`LandedAt`), so its edges are the chip's (`EdgeLands`), what it
adds up over a block (`Gain`) is what the phase went on by, modulo the wrap (`GainIs`), and no segment disagrees
(`SegmentsFollow`).  From it: `RowsMatchKernel` (`RowsMatch`), with the phases of the rows only where no block has two
edges: `capture_misses_reset` shows why.

### The gates (`TraceGateProofs`; `GateAssumption`)

`GateInv` (`ScoreCatchesUp`): there are scores that lead from the scorer's by the lines in the pipe, one by one, to ones
that agree with what the player did; none of them is ahead of it, and an error the batch has not counted is one of
those lines.  From it: `GateSound` (`VerdictsSound`): for the batch what holds however far its scorer lags, since nothing
makes it wait for the end of the trace, and for the stock gate the cadence.  That a pass means no error is claimed for
neither: see `gates` and `refusal_reported` in section 3.

### The build and the boot (`BootProofs`; `ImageAssumption`, `IslandsAssumption`, `BootAssumption`)

The assumptions: at most 65536 words of memory, a loader that lies behind P:0 and inside the boot image, and islands above
the tables that neither touch nor overlap, as those of the Makefile (402-404) do not.  A file is any that `parse_lod` can
read: any number of lines and sections, any words, any order.

- The build.  `Keeps(S, Merge(S))`: there is a bijection between the words of a file and those of its merged sections
  that keeps address and word (`MergeKeeps`, `MergedWords`), by the least prefix of the file for which there were none.
  `NeighboursMeanWords`: sections none of which reaches beyond its neighbour in the order of their addresses have no
  word in common, by the next section after each.  `RangeMeansWords`: a range that keeps clear of loader, tables and
  islands' edges, and one all of whose words do, are the same; this is where islands that touch would make a difference.
  From it: `StreamIffLoadable` (`StreamTakesLoadable`).
- The boot image.  `BootInstalls`: the three bytes of a word, read back, are the word; `ImageInstalls`: a bootable file
  installed from its image has every word at its address and 0 in its gaps.
- The transfer.  None of the properties is inductive: what the loader will write next depends on what is under way.
  `BootInv` (`BootInductive`) says for each place of the loader what the port still has to bring (`PendingInv`: the rest
  of the section that is being loaded, and the sections behind it) and which words are installed (`Installed`), and that
  memory holds those, and what Dsp_ExecBoot installed everywhere else (`MemInv`).  From it: `LoaderIntact`
  (`LoaderSurvives`), since no word of a streamable file has an address of the loader's, and `EntersProgram`
  (`WholeProgramEntered`), since at the end every word of the merged sections is installed.

### Only model-checked

- Everything under fairness (`AnnouncedDelivered`, `SubmitReturns`, `ExitCompletes`, `AcceptedPlays`, `TickEnds`,
  `FlaggedWakes`, `FadeEnds`, `ReplyArrives`, `GateEnds`): liveness and `ENABLED` are beyond the prover.

Every other property of a passing run is a theorem.  Definitions that go step by step are functions, and what they
compute is proved by the least step at which it would be wrong, for an induction over data is nothing the installed
provers can instantiate: `FrameByFrame` for `Schedule`, `Effect`, `Gain` and `Phase`, the least prefix for `Merge`.
That such a function exists at all is a lemma of its own (`Stepwise`, `Recursion`).

## 6. Not modelled

- Session (`mxdrv_core.s`, `mdx_clock.s`) beyond what meets the pipeline and the sequencer: the calls are sequential
  code, and the pending ticks are a saturating sum.  Replacing an image while it plays, which no player here does,
  is outside `MdxTracks`.
- The voices and the cache of `pdx.s`: decoding and mixing are arithmetic over sample data.
- Blocking start/refill and the exact (non real-time) audio path, with `ym_apply_queued_writes`: used once, before the
  pipeline, and by the conformance programs.
- Contents of PCM and of registers: a payload is its number, a write its number.
- Timers, envelopes, LFO, noise and the output arithmetic of the kernel, and their columns in the capture.
- The statistics of `compare_ym2151_realtime.py`, the cycle counts of the profilers, the table generators.
- Argument parsing, file loading, sound-system set-up and restoration: sequential OS calls.
- `QUEUE_WRITE` and `QUERY_TIME` in `DspStream`: served as `WRITE_REG` is.
- In `MdxTracks`: the header parse, repeat counters, LFO, portamento and volume arithmetic, FE writes to
  register $08, a register write that fails, pause and stop, calls $0a and $0b.
- In `Stage2Boot`: Y sections (refused as X ones are), and the limits of $ffff on the number of sections and on the words
  of one: sections that lie apart in 65536 words of memory, outside the loader, are fewer and smaller.
- In `TraceGate`: work directories, the scoreboard, an interrupt from the keyboard.
- Wrap of the batch generation after 2^32 batches.

## 7. What could be added next

1. The voices of `pdx.s`: `voice_start` that fails with the old voice half replaced (475), and the last sample of a block
   of the mixer (688).
2. Session: `set_mdx` while the song plays, and the pending ticks at their limit.
