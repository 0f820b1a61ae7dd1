# A verification project for Splot

Splot is an AV2 codec in Rust. Its decoder and encoder turn a sequential
bitstream format into concurrent programs: rows of several frames in flight on
a worker pool, stripes of one frame filtered in place while later frames read
them, a streaming session with a driver thread, superblocks of a tile searched
along a wavefront, frames that are shown in one order and coded in another.
Results must not depend on the interleaving, nothing may be waited for in vain,
and an error must reach the caller. This directory states those requirements as
TLA+ modules, checks them with TLC on small instances and proves some of them
with TLAPS for all instances.

All paths are relative to `src/crates/` unless they start with `src/`.

## 1. The system

### Inventory

| Part | Source | State | Operations | Talks to |
|---|---|---|---|---|
| Row scheduler | `splot-parallel/src/rows.rs` | queue of live frames, per stage `next`/`running`, generation, `signaled`, `driver_parked`, `waiters`, `shutdown` | `push`, `wait`, worker loop (claim, run, finish, pop, park), `notify`/`pass_on`, drop | frames through `FrameWork`; publications through `RowProgress` and `RowEvent` |
| Publication cells | `splot-parallel/src/{watermark,completion}.rs` | one atomic or one settled value, with a fail value | publish, fail, wait | scheduler's event |
| Decoder session | `splot-decode/src/decoder.rs` | locked `State`: input, output, draining, closing, outcome | `send_data`, `get_picture`, `drain`, drop; driver `next_unit`, `push_picture`, `finish` | frame loop on the driver thread |
| Frame publication | `splot-decode/src/pipeline/frame_progress.rs` | frontier, published prefix, stripe leases, storage, freeze | seal, window, release, lease, submit, read, freeze | frame tasks, readers of later frames |
| Frame tasks | `splot-decode/src/pipeline/frame_tasks.rs` | stages of a frame (`SplitFrame`, `TipFrame`, `FinishFrame`) | PARSE, PREPARE, RESOLVE, PRECOMPUTE, COMMIT, ATTACH, FRONTIER, FILTER, OUTPUT, `fail` | row scheduler, slots |
| Tile admission | `splot-decode/src/prediction/inter/block/tile/admission.rs`, `row_gate.rs` | sealed, final and admitted rows | admit, seal, advance | frame publication of this and of reference frames |
| Frame slots | `splot-decode/src/pipeline/inflight.rs` | one completion per frame, ring of frames in flight | complete, fail, `hold_samples`, retire | driver loop, readers |
| Frame store | `splot-decode/src/pipeline/{frame_store,mod,frame_lifecycle}.rs` | entries by frame number, bytes retained, reference slots | claim an entry, push, refresh, reclaim, wait for space | driver loop, split slots that keep handles |
| Output scheduling | `splot-decode/src/pipeline/{output_schedule,stream_schedule,output_effects}.rs`, `reference/buffer.rs` | pending frame of every reference slot, frames emitted, open loop; emission queue | refresh, show, flush, prepare for a frame; charge, deliver | driver loop, session |
| Wavefront search | `splot-encode/src/wavefront.rs` | countdown per node, row facades, edges, decisions, the one writer | search, write, spawn, stop | thread pool |
| Encoder front end | `splot-encode/src/{encoder,gop,lookahead,reference}.rs` | queued frames, planner, reference slots, window, packets ready | `send_frame`, `flush`, `receive_packet` (plan the window, code a mini-GOP, commit a frame) | wavefront, rate control |
| Rate control | `splot-encode/src/rate_control.rs` | drift, planned frames, longest window | plan a window, quantizer of a frame, update | encoder front end |
| Syntax, samples, tables | `splot-core`, `splot-recon`, `splot-tables` | none that outlives a call | pure functions | everything |
| Validator | `splot-validate/src/` | coded-unit and reference state | one OBU at a time | command line |
| Command line, C interface | `splot-cli`, `splot-capi` | handles | wrappers | decoder, encoder |

### How the parts interact

A caller sends temporal units to the session; the session's driver thread runs
the frame loop, which parses headers, claims frame memory, and pushes each
frame to the row scheduler. Scheduler workers claim one row of one stage at a
time; a stage's `ready` reads what the older stages and the reference frames
have published. A frame's COMMIT rows seal reconstructed samples, its FRONTIER
links deblock them and hand stripe windows to FILTER jobs, which publish the
filtered prefix; rows of later frames read that prefix. OUTPUT freezes the
frame and settles its slot, on which the driver waits before it emits the
picture to the session. In the encoder a caller queues frames; once the
look-ahead is full a mini-GOP is planned, its frames are coded in waves that
read the same references, and each is committed to the references and charged
to the rate controller before its bytes join a packet. A tile of such a frame is
a task graph on a pool.

### What is hard, and what must hold

- **Row scheduler.** Claims race without a lock, frames leave the queue while
  others scan it, one pending signal serves all sleepers. *One row of a stage
  at a time, in order, after its inputs; no publication slept through; finished
  frames leave; the scheduler can always be closed.*
- **Decoder session.** Two sides block on two condition variables; either side
  may end, fail, unwind or be dropped at any time. *Nothing lost, repeated or
  reordered; `None` is only said when a unit is welcome or nothing is left; no
  call and no drop blocks for ever.*
- **Frame publication.** Committer, frontier, stripe jobs and readers share one
  allocation and rely on row ranges instead of locks; the freeze moves the
  storage from under the readers; every step may fail. *Rows have one owner;
  readers see filtered rows only; the freeze owns the frame; the slot settles.*
- **Frame tasks.** Nine stages pass their products on through one slot, each
  claimed on a look that other workers outrun, while the frame waits for what
  another frame publishes; any stage may fail on any worker, and a RESOLVE row
  may be given back and claimed again. *A row finds what it needs; a frame that
  is published is whole; whichever frames fail, everything another frame waits
  for settles; a slot that is done can be used again.*
- **Wavefront.** Searches of several rows race for the edges the row above
  leaves; the one writer must code in raster order; an error stops the tile.
  *What a search reads is determined by its place, not by the schedule.*
- **Frame store and driver loop.** One thread owns the store, the references
  and the output, but the works of its frames settle behind it in any order,
  and the handles they keep decide what it may reuse. *Nothing still needed is
  reclaimed; shared samples are counted once; pictures are delivered as
  scheduled; the earliest failure is the one reported; the loop ends.*
- **Output order.** Two tables, the scheduler's and the reference buffer's,
  follow the same headers apart. *They agree; a picture leaves once, in the
  step and in the order in which the standard outputs it.*
- **Encoder front end, rate control.** Sequential state machines over bounded
  resources, where the hazard is a long legal sequence: eight slots, eight bits
  of order hint, a queue of 64 planned frames; scene cuts that move key frames
  while others are planned. *A decoder finds the references, the hints and the
  packets as the encoder meant them; the plan depends on the input, not on how
  the caller mixed its calls; a frame is charged to its own budget.*

Every hazard, at its line and with the property that covers it or the reason
none does yet, is listed in `PROJECT.json`.

## 2. The modules

| Module | What it is |
|---|---|
| `RowPipeline` | abstract specification of a pipeline of frames: a row is begun when its inputs are there, published, and ended, atomically |
| `RowScheduler` | `rows.rs`, one atomic access or critical section per action |
| `RowScheduler_proofs` | inductive invariant and safety theorems |
| `RowScheduler_refinement` | proof that `RowScheduler` implements `RowPipeline` |
| `Decoder` | `decoder.rs`: the caller, the driver thread and their locked state |
| `Decoder_proofs` | inductive invariant and safety theorems |
| `FrameProgress` | one inter frame from its first committed row to its settled slot, with readers |
| `SplitFrame` | the stage machine of split frames that refer to each other, on the workers of the row scheduler |
| `FrameDriver` | the frame loop of one streaming decode over the frame store, the ring, the emission queue and the split slots, with the works of its frames beside it |
| `FrameDriver_proofs` | types, and which failure the caller sees |
| `FrameDriver_store` | what is stored, counted and reclaimed |
| `FrameDriver_delivery` | what the caller gets, and in what order |
| `OutputProcess` | abstract specification: the output processes of the standard mirrored in the repository |
| `OutputOrder` | `output_schedule.rs` and `reference/buffer.rs`: which frames leave, when and in what order |
| `Wavefront` | `wavefront.rs`: the task graph of one tile |
| `Wavefront_proofs` | inductive invariant and safety theorems, for every grid |
| `GopPlanner` | `gop.rs`: key frames, coding order, slots, waves |
| `RateControl` | the ledger of `Vbr` in `rate_control.rs` |
| `RateControl_proofs` | its arithmetic is exact |
| `EncoderFrontEnd` | `encoder.rs`: queue, mini-GOPs, waves, commits and packets, over `GopPlanner` and `RateControl` |
| `MC...` | values for the constants of each instance; `MCOutputOrder` also has the refinement mapping |

`FrameDriver` and `OutputOrder` are two views of one loop. `FrameDriver` lets
any pending frames leave at an output event, in any order, and decides what
becomes of them; `OutputOrder` decides which and in what order, and leaves out
settling, charging and storage. `FrameDriver` does the same with a frame's
stages: a work settles, reports and leaves. `SplitFrame` has those stages, with
what they claim, hand on and publish; `RowScheduler` the loop of the workers that
claim them; `FrameProgress` what the last five do to the rows of one frame.

### RowScheduler

Frames are numbered in push order; the queue is always `head+1 .. tail`. A
thread's `pc` is its place in the code: `observe`, `lock`, `scan`, `next`,
`cas`, `recheck` are `Core::worker`'s scan and `Stage::claim`, one load or
exchange each; `pass`, `passcheck` are `pass_on`; `run`, `finish`, `release`
the row itself and `Stage::finish`; `done`, `drop`, `pop` what follows it;
`enlist`, `clear`, `test`, `asleep`, `notified` the park; `bump` to `signal`
are `notify`, run by any thread. The driver's loop is `check`, `push`, `dpark`,
`dtest`, `close`, `join`.

Abstractions: a frame has one stage (as the frames of the module's own tests
do), whose rows need `Lag` rows more of an older frame; a generation is only
compared with the value the same thread read before, so it is the set `fresh`
of threads whose value is current; memory is sequentially consistent, so what
the code's acquire and release orderings alone guarantee is not examined. The
poisoning of a lock is not modelled. `Stage::retry` and `ParallelStage` are in
`SplitFrame`.

### Decoder

One action per critical section, and one for each notify that follows it. Units
and pictures are numbers; `Shown[k]` says how many pictures are in display
order after unit `k`, so reordering, several pictures for one unit, and none at
all are instances. A picture that is in order may stay owed across units, as
frames settle late in the code. The frame loop is the driver's `work` point: it
hands over due pictures, asks for another unit, returns, fails, or panics.
`get_picture` hands over the pictures that are queued before it looks at the
outcome (`decoder.rs:456`), so after the call that returned the error a later
one may still return a picture, where `decoder.rs:263` has later calls fail.

### FrameProgress

Seven actors: COMMIT, ATTACH, the FRONTIER link, one job per stripe, OUTPUT,
`fail`, and readers. Windows and carries are computed with the code's own
arithmetic per plane, so chroma rounding and margins are in. Each internal
error the code can return (a refused seal, window, release, claim, lease,
submission or freeze) is a transition that records `fault = "internal"`; an
environment's failure (allocation, a syntax error) records `"injected"`.
`RowsHaveOneOwner` says none of the former happens first. Sample values are not
modelled; `wrote[s]` says that stripe `s` holds filtered samples.

PARSE, PREPARE, RESOLVE and PRECOMPUTE are in `SplitFrame`: this module starts
when PREPARE has claimed the frontier handle and committed rows may arrive.

### SplitFrame

`slot[f]` is the `SplitFrame` of frame `f` and the tile it decodes: the cursor
of each stage (`next`), the products that stages hand on, each `none`, `held` or
`taken` (`early` from PARSE to PREPARE, `deferred` from PARSE to ATTACH,
`finish` from PARSE to OUTPUT or `fail`, `output` from FRONTIER to OUTPUT), the
units parsed, announced by the watermark, pulled and resolved, the batches
landed, the commit state (`spine`), the links closed and the stripes released.
`pub[f]` is what other frames see: entropy products, motion metadata and bands,
filtered stripes, the slot.

A worker goes `look`, `run`, then `parse`/`publish` (PARSE) or `loop` (RESOLVE),
then an outcome (`ok`, `retry`, `error`), then `chain` or `fail`, then `idle`:
the failed flag is read first (`look`); the row is claimed later, when the frame
may have failed, and on the state of that moment; the row is finished in its
stage before its error is reported. One claim reads the predicates of nine
stages one after the other while they change, so any claimable row may be the
one it finds. A row that is no parse is one step at the place where its products
are published, except RESOLVE, which takes the parsed units and looks at the
watermark in two. `Fail` is one step. How workers park and wake is
`RowScheduler`'s; here an idle worker looks when a row is claimable.

The units of a row refer to the stripes of that row and `Reach` more. A link that
fails may have moved its cursor past stripes whose jobs are dropped with it
(`nextStripe` moves, `ready` does not): the filter stage then never has all its
rows run, and the frame cannot come to its output. A link that fails before its
first job has lost nothing, and the failure of an allocation
(`source.rs:361-392`, `admission.rs:1320`) need not repeat: the next link may
succeed and the frame be published before the first failure is reported, for
`run` counts the row (`frame_tasks.rs:561`) before it calls `fail` (`:565`). The
model has each of these, so `PublishedFramesAreWhole` does not ask that a
published frame never failed, which TLC refutes, but that it is whole. A RESOLVE
row's own errors are not modelled. Every frame has temporal bands to project, so
RESOLVE has rows.

`Arm` is the driver's `reserve` and `push` of a slot: the frame `Depth` earlier is
done, no worker holds it, and its slot resets. `Resets` says when the reset can
succeed as far as the slot itself decides it. `FrameDriver` takes up what
`split_reset` shows of it: the work of a failed split frame may leave its slot
`jammed`.

### FrameDriver

`pc` is the place of the loop in `mod.rs`: `space` to `wait` are the search for
an entry, the harvest and flush of a full store and the wait for one (`mod.rs`
1020 to 1041); `header` to `restart` the header, the outputs it flushes and a
new sequence; `decode` one action per way to decode a frame, of which the kinds
are: decoded in the loop (`inline`), walked with deferred filters (`walk`), TIP
(`tip`), on a split slot (`split`), show-existing (`sef`); `refreshed`, `shown`
and `reclaim` the outputs and the reclamation behind it; `ended` to `endReclaim`
and `flush` the two normal ends; `collect` the end of `drive_frames`, which
every error reaches too. A frame's work goes `running`, `settled`, `reported`,
`gone`; only the last one lets the next split frame use its slot. The work of a
split frame that failed may end as `jammed` instead: it has left the scheduler,
and its slot will not reset. A frame is its number. Its handles are the frames
it was given: a split slot keeps those of its last frame until it is used again,
a TIP work drops them as it settles. A decoded frame is one byte of
`retained_frame_bytes` and a show-existing frame shares its source's. Behind an
open loop any slots may lose their frames to `finish_open_loop` while the output
still owes them (`Prepared`); a key frame keeps only the first slot it refreshes
valid, and so may any other frame, since a switch does (`Push`). The header of a
frame may itself be refused before a split slot is reserved for it (`Continue`).

The modelled decode is the streaming decoder's: `detach_held` is true in
`decoder.rs:388` only (`context.rs:55` and `pipeline/mod.rs:108` have false),
so it is a constant, true in the runs. The other entry points keep frames
(`retain_decoded_frames`) and are not modelled.

The comment at `output_schedule.rs:93` describes the charge of a frame as
following the delivery of those before it. Draining does not wait for a frame
that has not settled, so a frame refused at its charge can end the loop with
older frames still queued; they are then not delivered. `DeliveredInOrder`
allows this: only a decode without an error owes them.

### OutputOrder and OutputProcess

`OutputOrder` keeps both tables: `pending`, `emitted` and `openLoop` of the
scheduler; `slots` and `loop` of the reference buffer. A header takes a step
per refreshed slot, since refreshing one can output the frame that is being
stored. `OutputProcess` is written from the mirrored standard
(`src/docs/spec/av2/1.0.0`, 7.21.3 to 7.21.6, 7.23, 7.2 and 5.18.2) and shares
no definition with it: its processes are the standard's loops over reference
slots. The mapping in `MCOutputOrder` reads the standard's reference slots off
the code's, what was shown off `emitted`, and the open-loop state off both
tables; `FollowsTheStandard` then says that each step of the code is a step of
the standard that outputs the same pictures in the same order.

The header sets are those of conforming streams, with one embedded layer.
`Conforming` has the standard's own conditions on a stream and one check of the
code, that a show-existing frame names a slot it may show (`CanShow`). On such
streams code and standard part in three situations, none of them a claim of the
repository about itself. `OutputProcess` has a constant for each, `Standard` is
the instance with the standard's values and `Changed` the one with the code's;
`FollowsTheStandard` lets a step be one of `Changed` in the three situations and
in no other. TLC refutes it with any of the three left out:

- `Tied`: two pending frames of one order hint (the standard puts no requirement
  on order hints, `06-syntax-structures-semantics.md:4479`) leave first slot
  first in the code and last slot first in the standard's flush, whose search
  compares with `<=` (`07-decoding-process.md:13197`).
- `Losing`: a pending frame at or past the open-loop limit, in a slot that the
  end of the open loop invalidates (`buffer.rs:194`), is still output later by
  the code and never by the standard. `TablesAgree` says how far the two tables
  part over it: what the scheduler owes is what the reference buffer has still
  to display, and these `Stranded` frames, which no reference slot holds.
- `RestrictedShown`: a show-existing frame that derives its hint from a
  restricted slot, or an open loop whose limit came from one, has hint -1 in the
  standard and `u32::MAX` in the code (`buffer.rs:261`).

One more departure no header of `Menu` reaches: when an open loop ends, the
standard keeps every slot with a long-term id (`05-syntax-structures.md:4053`),
the code only those whose id the open-loop key frame lists (`buffer.rs:203`).
`long` stands for a listed id, and the run does not exercise either rule.

### Wavefront

A node is `<<"search", block>>` or `<<"write", block>>`. `Preds` is the code's
table of predecessors (left neighbour, top-right neighbour; own search and
previous write). A task on a worker moves through the lock of its row, one
import per edge, search and commit, edge, decisions; then counts its
successors down one by one. The import of an edge takes it out of its slot.
Without a pool the nodes run in index order. Panics are not modelled.

### EncoderFrontEnd, GopPlanner and RateControl

`GopPlanner` has one operator per method of `GopPlanner`, from a planner to the
next one; the recursion of `place` and `fill` is a function of the length of the
span. `NewPlanner`, `ForceKey`, `NextLen`, `Plan` and `WaveLen` are what the
front end uses; the others are its helpers. `RateControl` does the same for the
ledger of `Vbr`.

`EncoderFrontEnd` has an action per call of the caller (`Send`, `Flush`,
`Receive`) and cuts the long one, a `receive_packet` that codes a mini-GOP, at
the places where it can fail: `StartMiniGop` (the window and the plan),
`EncodeWave` (the quantizers and the headers of a wave), `Commit` and
`CommitShow` (one step of it: references, ledger, packet), `EndMiniGop`. A
frame is its display index. What its pixels decide is chosen: whether it is a
scene cut, how many bits it takes, whether coding it fails. The reference buffer
keeps what the headers read: display index, order hint, shown or hidden, and
whether a hidden frame has been shown. `HeaderIsRight` is the check of
`GopFrame::header`, with the decoder's derivation of the order hint.

The size model of `Vbr` that turns the drift into a quantizer is not modelled,
nor are `Cbr` and the constant quantizer; nor is what a frame is coded to.

## 3. What TLC checks

| Run | Instance | Question | States |
|---|---|---|---|
| `rows_safety` | 2 workers, 1 driver, 3 frames of 2 rows, queue depth 2, frame 1's publication may fail | claims, publications, pops and parks are safe; the scheduler implements `RowPipeline` | 3,041,011 |
| `rows_live` | 1 worker, 1 driver, external publisher, 2 frames of 2 rows, the scheduler may be closed at any time, fair | every pushed row runs; the driver's waits return; workers stop | 142,477 |
| `rows_lost_pop` | 2 workers, 1 frame of 1 row | *violated:* finished frames leave the queue | - |
| `decoder_session` | capacity 2, 4 units, reordered pictures, failures and panics, fair | order, completeness, meaning of `None`, termination | 70,488 |
| `frame` | 9 rows, 3 stripes, 3 superblock rows, 4:2:0, 1 reader, failures, fair | ownership of rows, what readers see, no internal error; the slot settles and the reader is released | 388,038 |
| `split` | 3 frames, each refers to the one before, 2 slots, 2 workers, 2 rows of one superblock, 2 stripes; frame 1 may fail in PARSE, frame 2 in FRONTIER, frame 3 in ATTACH, FILTER or OUTPUT, fair | rows find their inputs; published frames are whole; everything settles | 1,175,745 |
| `split_reset` | the same with 1 row, frame 1's parse may fail | *violated:* the driver gets the slot of a frame that is done | - |
| `wavefront` | 3 by 3 superblocks, pool of 0 to 3 workers, failures | edges, decisions and writes are in order whatever the schedule | 215,558 |
| `output_order` | 2 reference slots, order hints 0 to 2, sequences of headers of seven kinds | how far the tables agree; pictures leave as the standard prescribes, but in three named situations | 480,131 |
| `driver` | 5 frames, stores of 4 and 5 entries, rings of 1 and 2, a limit of 1 or none, one failing work, jammed slots, refusals, a caller that keeps every picture, fair | what is stored, counted, delivered and reported is right; the decode ends, or comes to one of two named waits | 1,093,387 |
| `encoder` | the code's 8 slots, 8 hint bits and queue of 64; mini-GOPs of 1, 3, 8 and 32 frames, inputs of 7 to 270, up to 2 scene cuts, sizes of 0 and 5 bits against budgets of 0 to 4 | packets in order; coded as a decoder will find it; the plan follows the input alone; every bit is charged | 469,850 |
| `driver_stuck` | 6 frames, decoded in the loop and on two split slots in turn | *violated:* the loop waits for an entry only while some work has still to publish | - |

### Bounds, and why they are enough

- *rows*: two workers are enough for every race on a stage's flags, since a
  claim only ever races one holder at a time; the third frame makes a depth-two
  ring reuse a slot; two rows give a first and a last one, with a lag that
  reaches past the end. `FAILED` publications are one frame's.
- *decoder*: a capacity of two is the least with room for one unit while one
  is held; four units fill the input, have it refuse, and let the pictures of
  two of them wait for their successor.
- `rows_live` has one driver, as `RowScheduler`'s own users have, and one
  worker: with two, `NothingWaitsForever` fails for the reason `rows_lost_pop`
  shows.
- *frame*: three stripes give a first, an inner and a last one; the ends are
  such that the last stripe and its chroma rows are cut short, that a window
  needs rows of the next stripe, and that a superblock row readies one stripe
  while earlier jobs still run. The near reader needs the first stripe only,
  the far one the second stripe while the third may be unwritten. The run has
  the far reader alone, which waits longest and reads furthest.
- *split*: two slots put two frames on the workers at once, one waiting for the
  other; the third frame takes the slot of a first one that may have failed. The
  second frame's links may fail with a frame before it and one behind it. Two
  rows give a RESOLVE band that must wait for units and a last one, a batch that
  ends a row and the batch of the end unit, a link that releases nothing and a
  last one that releases the rest. PREPARE, PRECOMPUTE and COMMIT fail when the
  frame before does: with its metadata, its slot or the batch before. Batches of
  more than one superblock (`Cols`, `BatchUnits`) change no hand-over.
- *output*: two slots are the least in which a refresh of one outputs what the
  other owes; three hints give a pending frame a lower, an equal and a
  following neighbour. `Menu` has hidden frames with the middle hint, switches
  restricted and with the largest, and no long-term ids. Frame numbers of
  forgotten frames are used again, so
  the run has no bound on the length of a stream.
- *driver*: with one reference slot the store has `2 + depth + 1` entries. At
  depth 1 four frames fill it and the wait for an entry can end; at depth 2 two
  works run at once, settle in either order and keep handles of older frames.
  Two bounds are on steps (`Bounds` in `MCFrameDriver`): slots lose their frames
  behind an open loop at depth 1 only, and a fifth frame comes only where it
  fills the store of depth 2 with frames that idle split slots hold, which
  leaves the loop waiting for nobody. Where a step is cut off the loop has
  another one, so liveness is not affected. Hence both waits that `DriveReturns`
  names are reached, and TLC refutes it with either left out. The limits are
  none and 1, which falls on the first frame shown. `driver_stuck` comes to the
  same wait, without such a bound, by another stream.
- *encoder*: the numbers that matter are the code's own, so the run is small in
  the input instead. The longest setting has no choice but the caller's and a
  failing coder's, and is 270 frames long: hints count from the key frame, so
  they pass 256, the range of the coded bits, and the 64 planned frames are
  forgotten four times over. Mini-GOPs of 8 and 3 frames are where a cut can fall
  inside the one being coded, inside the window, or too close to a key frame;
  12 frames at a key frame interval of 6 let two cuts move the scheduled one. A
  mini-GOP of 32 hides 16 frames, so slots are taken from older frames. The
  drift limits (3 under, 4 over) are less than one frame, so both are hit; a
  saturated word is not, and is what `SpendIsExact` is about.
- *wavefront*: three by three is the smallest tile with inner superblocks. At
  most three tasks are runnable at once on it: searches of different rows are
  two columns apart, and the write chain adds one.

A row scheduler run may stop when its threads have all gone, and a frame when
it has settled; `CHECK_DEADLOCK` is off only where the run has states of that
kind without a stuttering step (a driver that found the scheduler dead, a
settled frame, a decode that has returned, a stream that has ended).

### Fairness

Each liveness property is checked under weak fairness of whole threads:
`WorkerStep(w)`, `DriverStep(d)`, `PublisherStep(e)`, the session's
`DriverStep`, and the steps of a call that has begun. This is what an
operating system gives to a runnable thread; a mutex is free again and again,
so weak fairness of the thread is enough. The caller of the decoder is never
assumed to make another call. In `FrameProgress` the fairness is per stage and
rests on the row scheduler: a ready row of a frame that has not failed is
claimed (`NothingWaitsForever` and `NoWakeupIsLost` are this promise,
checked for `RowScheduler`), and a claimed row runs to its end. `SplitFrame`
asks less: `WF_vars(Next)`, that something which can be done is done, so what
`FramesSettle` shows is that no state of it is stuck or runs in a circle. In
`FrameDriver` the loop is one thread and goes on when it can, and a work on the
scheduler finishes, which is again the row scheduler's promise. `emit` is the
caller's and is assumed to return. `OutputOrder` and `EncoderFrontEnd` state no
liveness: a stream may end anywhere, and a call of the encoder is sequential.

### Disagreements found

- `rows_lost_pop`: a worker tests `done()` (`rows.rs:435`) while another
  worker's late claim has raised `running` for a moment (`rows.rs:136`); the
  finished frame is not popped, and nobody comes back to pop it. The test at
  `rows.rs:818` expects "finished frames leave the queue".
- `split_reset`: a frame whose parse fails after it has left its set-up for
  PREPARE (`frame_tasks.rs:291`) keeps that set-up, which shares the tile's
  reference state (`frame_walk.rs:483`); `reset` gives up on that
  (`frame_tasks.rs:192`) before the line that would drop the set-up (`:216`), so
  `reserve` (`:630`) spins for ever. The driver looks at failures only after its
  loop (`mod.rs:633`) and leaves its slots to the next decode (`mod.rs:576`).
  `frame_tasks.rs:182`: "`false` while a reader of the last frame still holds part
  of it".
- `driver_stuck`: a split slot that has finished keeps the handles of every
  reference it was given until it is used again (`frame_tasks.rs:184`), and a
  frame with another handle is not reclaimed (`mod.rs:149`). When stored frames
  decoded in the loop alternate with split frames, the idle slots and the
  reference buffer can hold `NumRefFrames * (depth + 1)` frames, which exceeds
  the store's entries from depth 2 on; the wait of `mod.rs:1034` then has no
  work to wait for. `inflight.rs:511`: "the driver parks until the work it
  waits for publishes."

Others are named in the properties, or known from the models, and have no
expected violation of their own:

- `ReserveSpins` and `WaitsForNobody` in `DriveReturns` are what `split_reset`
  and `driver_stuck` mean for the loop: a decode whose split frame failed spins
  in `reserve` (`frame_tasks.rs:630`) instead of reporting the failure, and one
  whose idle slots hold the store waits in `mod.rs:1034` for no work at all.
- A row that failed is counted as run (`frame_tasks.rs:561`) before the frame is
  marked as failed (`:565`). If the failure of a FRONTIER link does not repeat
  in the next one, the frame completes in between and is published as decoded,
  where the doc of `fail` (`:457`) has "Settles every product of a failed frame so
  its dependents fail closed". The frame is whole (`PublishedFramesAreWhole`), but
  its error is lost: `fail` finds `finish` taken and reports nothing.
- In the same interval another worker may claim the batch after a COMMIT that
  failed, find the commit state gone, and report that internal error first.
- The three departures from the mirrored standard that `FollowsTheStandard`
  names, described with `OutputOrder` above.
- One `driver_parked` flag serves all drivers of a scheduler, and decodes of one
  context run side by side (`frame_store.rs:97`): the first driver to wake clears
  it (`rows.rs:393`) for the others, which publications then do not signal. With
  two drivers in `RowScheduler`'s constants, `NothingWaitsForever` fails.

## 4. What TLAPS proves

The theorems hold for every value of the constants that satisfies the modules'
named assumptions (`ConstantsAssumption`, `DecoderAssumption`,
`TileAssumption`, `RateAssumption`), each of which TLC evaluates on the instances above.

**RowScheduler_proofs.** `SpecIInv` proves `[](TypeOK /\ ClaimInv)`. Type
correctness alone is not inductive: that `next` stays below `NumRows` needs
that the owner of a claim runs the row the cursor is at. `ClaimInv` says so:
whoever won the exchange owns the running flag alone (`Owns`), the row it read
was in range and ready, and, once it has re-read the cursor, the cursor waits
for it. The subtle step is `Exchange` by a worker whose read of the cursor is
stale: it raises the flag with a row that has run, which the re-read repairs;
hence `Owns` starts at the exchange but the cursor's part only after the
re-read. From it follow `OneRowAtATimeHolds`, `RowsRunAfterTheirInputsHolds`
(progress never falls, so a claim that was ready stays ready) and
`CursorMoves`.

**RowScheduler_refinement.** `Implementation` proves `Spec => RowPipeline!Spec`
under the mapping `pushed <- tail`, `rowsRun <- next`, `active <-` frames with
an open claim, `published <- progress`. A claim's re-read is the abstract
`Begin`, the publication its `Publish`, the store of the cursor its `End`, a
push its `Push`; every lock, park and signal stutters. `RanRowsArePublished` is
the extra invariant it rests on.

**Decoder_proofs.** `SpecDInv` proves `TypeOK`, `UnitsInOrder`,
`PicturesInOrder`, `NoneAsksForData` and `Phase`, which ties the driver's
control point to the outcome (once `ending`, no unit is left unless the session
closes; a recorded outcome is the driver's last word). `DrainLosesNothing`
follows from `Phase` and the two orders.

**Wavefront_proofs.** `WavefrontInvariant` proves `[]WInv`, from which every
property of the `wavefront` run follows for every grid and any number of
workers. `WInv` has four parts besides the types. `Countdown`: a node's counter
is the number of predecessors that still owe it a signal, a node that started
is owed none, and one that waits is owed one; without a pool all nodes before
it in index order are done. `RowOrder`: the superblocks a row's facade has
committed are those left of its cursor, and its imports are one or two ahead.
`EdgeOrder`: an edge that was left is there until it is imported.
`WriteOrder`: the superblocks written are those above the writer's next one,
and a searched superblock's decision is there until its write takes it. No part
speaks of more than a node and its predecessors, so the safety argument needs
no induction over the grid: a node that left `waiting` has predecessors that
ran, hence a search finds the cursor at its column (`AtCursor`), the row above
left what it imports (`AboveRan`, `ImportFinds`), and a write finds the writer
at its block (`AtWriter`). Only that an error-free tile is whole needs a
minimum: the least waiting node, in index order, would wait for a node that is
done and so owes nothing (`LeastNode`, `AllDone`).

**FrameDriver_proofs, FrameDriver_store, FrameDriver_delivery.** One invariant
in four layers, each inductive over those before it, for any number of slots
and frames, any depths, limits and header sets that satisfy `SizeAssumption`
and `HeadersAssumption`.

- `TypeOK` needs `Shape`, which says what the place of the loop tells of the
  header, the frame number and the outcome (that a frame number stays in range
  is the header's doing, not the store's). `DriverTypeCorrect`.
- `WorkInv`: frame numbers not yet used are untouched (`Fresh`); a work's stage
  and its slot's status go together (`WorkStages`); a failed frame is in the
  ring until its error is harvested, and a harvested error is no later than it
  (`Collected`). When the ring is empty at the end, the kept failure is the
  lowest of all: `EarliestFailureReported`.
- `StoreInv`: the reference slots, the owed frames, the frames to charge and
  the queue are all tracked (`Kept`), which reclamation respects because
  nothing is left to charge when it runs (`ChargedFirst`); samples come from
  an earlier or the same frame, and two tracked frames that share them are
  both ready (`Sources`), so the test for a shared frame in reclamation is
  exact and the byte count is the number of distinct samples.
  `BytesAreCounted`, `NothingNeededIsReclaimed`.
- `OrderInv`: what is delivered, then queued, then to be charged is the
  schedule cut in three, up to the limit (`LastScheduled`, `StartsSchedule`);
  a scheduled frame is not owed any more and is not scheduled again
  (`ScheduledOnce`), where the subtle step is a frame that its own refresh
  orders for output. `DeliveryFollowsTheSchedule`.

**RateControl_proofs.** `SpendIsExact`: for every drift within its limits, every
size of a frame and every budget up to the cap, the drift after is the exact sum
held within the limits, whatever the word is, as long as the limits and the cap
together fit in it. The code saturates three times before it clamps; a size
that fits the word is never saturated, and one that is saturated ends, after the
budget is taken off, above the upper limit, where the clamp hides it.

Not proved, but model-checked: everything about liveness (out of the prover's
reach); the wake-up invariants of the scheduler and `ReusedSlotIsUnreachable`;
`FrameProgress` and `SplitFrame`; `OutputOrder`, whose refinement
compares an order computed by a sort with recursive processes of the standard
(recursive operators and induction over data are out of the prover's reach);
`EncoderFrontEnd`, whose plan is a fold over a recursively built sequence, out of
reach for the same reason.

## 5. What is not modelled, and why

- Sample and coefficient arithmetic, entropy coding, syntax, tables, SIMD: pure
  functions over large data.
- Weak memory: the models interleave sequentially consistent accesses.
- Poisoned locks and panics outside `Decoder`.
- `TipFrame` and `FinishFrame`: their place in the loop is in `FrameDriver`, their
  stages are not.
- Decodes that retain every frame, the recycled storage of a slot, the byte
  limits of the output, several embedded layers, the scan of a stream into
  units, output effects.
- The encoder's frame coder, its look-ahead search, the temporal filter and the
  first pass: pure functions of frames; only which frames they may read is in
  `EncoderFrontEnd`. The size model of `Vbr`, and `Cbr`: arithmetic that steers
  quality, with no requirement the repository states. Frames that TIP outputs.
- Validator: see the plan.
- Command line and C interface: wrappers without a protocol of their own.

## 6. Plan

Done: `RowPipeline`, `RowScheduler` and its proofs and refinement; `Decoder`
and its proofs; `FrameProgress`; `Wavefront` and its proofs; `FrameDriver` and
its proofs; `OutputOrder` as a refinement of `OutputProcess`; `EncoderFrontEnd`
over `GopPlanner` and `RateControl`; `SplitFrame`.

Next, in this order:

1. `FrameProgress_proofs`: `RowsHaveOneOwner` for any layout of stripes that
   satisfies `FrameAssumption`.
2. The bound under which the loop never waits for an idle slot
   (`NumSlots * (depth + 1) <= 2 * MaxRef`) as a theorem of `FrameDriver`.
3. Two frames under freeze with compound readers: no cycle of frame locks.
4. `Cbr`: the encoder buffer neither over- nor underflows on a schedule of
   windows.
5. `Validator`: coded-unit order and reference state.
