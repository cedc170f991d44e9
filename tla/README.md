# A TLA+ development for dex-core

This directory holds TLA+ models of dex-core, the configurations that
model-check them with TLC, and theorems about them that TLAPS has proved.
Paths below are relative to `src/`; crates live under `crates/`.

## 1. The system and its parts

dex-core is the matching core of an exchange, with the queue that carries its
events and the tooling that measures it. One thread matches; other threads and
processes only read its events.

| Part | Source | Its job | Model |
|---|---|---|---|
| arena | `crates/arena/src/lib.rs` | slots with stable, generational handles | `ArenaOps`, `Arena`, `HandleStore`, `ArenaProofs` |
| order book | `crates/orderbook/src/{book,level,invariants}.rs` | price levels as intrusive FIFO lists in an arena, an index by intent | `OrderBookOps`, `OrderBook`, `BookSpec`, `BookLemmas`, `BookLayout`, `OrderBookProofs` |
| matcher | `crates/matcher/src/{engine,matching,events,sink}.rs` | one book per instrument; GTC, IOC, FOK limit orders | `Engine` |
| ipc queue | `crates/ipc/src/{queue,slot,policy}.rs` | one producer, many consumers, a ring of seqlocked slots | `SpmcQueue`, `SpmcLog`, `SpmcProofs` |
| wire forms | `crates/types/src/{events,order,enums,position}.rs` | an event as an 88-byte record, a position as a tagged record | `EventCodec` |
| measurement loops | `crates/benchkit/src/{runner,iters,stats}.rs` | back-to-back and open-loop timing | `Runner`, `BenchProofs` |
| cross-core bench | `crates/ipc/benches/cross_core.rs` | two threads over the queue | `CrossCore`, `BenchProofs` |
| suite and reports | `crates/benchkit/src/{suite,report,stats}.rs` | scenarios in, a report's files out | `Report`, `Suite` |
| environment checks | `crates/benchkit/src/env.rs` | what the machine is like, warnings, stamps | `RunEnv`, `UtcStamp` |
| intent runs and capture | `xtask/src/main.rs`, `report.rs` (`write_run`, `out_dir`) | files of a benchmark run, one directory per run id | `Capture`, `CaptureProofs`, `CaptureRunProofs` |
| regression gate | `report.rs` (`Comparison`), `xtask` (`run_compare`) | two CSVs in, an exit code out | `Comparison`, `Compare` |
| mixed bench stream | `crates/matcher/benches/matcher_bench.rs`, `crates/benchkit/src/lcg.rs` | a stream of orders and cancels | `Workload` |

How they interact: the book calls the arena for every node (`OrderBookOps`
EXTENDS `ArenaOps`, so the book model runs on the arena's own operators); the
engine calls the book (`Engine` EXTENDS `OrderBookOps`) and emits events into a
sink. The cross-core benchmark uses the queue through its promise (`CrossCore`
INSTANCEs `SpmcLog`, the specification that `SpmcQueue` is proved to
implement). The suite measures with the runner, detects the environment and
writes the report; the gate reads the CSVs that reports leave (`Suite` EXTENDS
`Report`, which EXTENDS the gate's `Comparison`, so that what one writes the
other parses). No code in the repository yet connects the engine to the queue:
the wire forms exist and nothing sends them, so there is nothing to compose.

Not modelled, and why:

- `benchkit/src/alloc.rs` and the `alloc_proof` examples: a difference of two
  readings of an allocator's counters. Their artifact appears in `Capture`.
- `benchkit/src/lcg.rs` beyond the low four bits of `next_u64`: 64-bit
  multiplication is beyond TLC's integers. `below` and `shuffle` use the other
  bits.
- `benchkit/src/env.rs`: the texts that are only shown (cpu model, turbo,
  isolated cores, compiler, TSC rate), and `build.rs`, which bakes some of them
  in.
- `benchkit/src/report.rs`: `Report::delta`, a subtraction that only the matcher
  bench asks for and that is only printed; the layout of the tables.
- `telemetry`: clocks and calibration are hardware and floating point; what a
  histogram stores, the back-fill of `Histogram::record_correct` included, is
  the work of the hdrhistogram crate. The CSV columns are in `Report`.
- `types/src/{market_data,telemetry}.rs`: records without operations, which
  nothing sends yet.
- `ipc/src/{sync,loom_model}.rs`: test infrastructure.
- Bench scenarios other than `realistic_workload`: each repeats one operation of
  a modelled component.
- Gateway, account handler, risk and persistence, which the repository's README
  names: there is no code for them yet. (That README also speaks of a
  `VecDeque` per level; the code, and so the model, has an intrusive list.)

## 2. The modules

Every module's header says what it abstracts. An operator that stands directly
before the one it varies (`NoFence` before `FenceRelease`, `SpliceForward`
before `Splice`) is a faulty version of it; exchanging the two makes the
property named in `PROJECT.json` fail, which shows that the property watches
that line of the code. `PROJECT.json` maps each definition to the lines it
models.

**Arena.** `arena` is the record `[slots, free_head, len]` of the struct; a
slot is `[generation, occupied, cell]`, where `cell` is the union of the code: a
value when occupied, a free-list link when not. `Alloc`, `AllocFails`, `Get`,
`GetMut`, `Remove`, `RemoveFails` and `Drop` are the methods. They are called
with every handle a client could hold: live, stale, out of range, the sentinel.
The generation wraps at `U32Max` and skips 0, as `Slot::remove` does.
`HandleStore` is what the arena promises: a partial function from handles to
values.

**SpmcQueue.** Each shared access is a step. The producer's stores go through a
buffer, `buf`, from which `Drain` takes them in any order the code's orderings
allow: relaxed stores and payload words in any order, nothing across the
release fence of `publish`, a release store only after what precedes it. A
payload has several words that are copied one by one, so a torn read is
possible and must be discarded. The consumer's `poll` is split at its first
version load, each word, the second load, and the load of `published` in
`apply_lap_policy`. Loads are in program order: `poll`'s acquire load and
acquire fence forbid moving the data reads out from between the version loads.
A consumer takes one of the four lap policies when it subscribes. `SpmcLog` is the promise: an
append-only log with three counters (begun, committed, announced) and readers
that receive entries in order or are told what they lost.

**OrderBook.** `book` is `[arena, levels, index]`. `CallInsert`, `CallCancel`,
`CallPopTop`, `CallReduceTop` are the four mutating methods, each in full;
`Depth` and `LevelQty` are the views. A book's capacity decides which prices and
quantities it is offered (`Offer`), so that one run covers two shapes of book.
Totals are kept modulo `QtyMod`, which stands for 2^64 in a release build.
`BookSpec` is the promise: one FIFO queue per side and price. `QueuesIn` reads
them off a book by walking its levels, which is the refinement mapping.

**Engine.** `books`, `next_order_id` and the events `out` of the current call.
`AddInstrument`, `ProcessNew`, `ProcessCancel` and `ProcessAmend` are the entry
points. An accepted new order goes through `CrossStep`, one iteration of
`cross_loop`, until `FinishMatch` applies the time in force. `replica` is a
ghost: what a reader holds who knows only the events.

**EventCodec.** Byte-exact for order events: the tag and the 72 payload bytes
are written and read at the offsets of the code. Positions have three separate
fields. `Garble` changes one byte that the reader checks, as a writer of another
version could.

**Capture.** The file system is a function from directories to files, a file is
the stamp of what made it (invocation and pass). Each file operation is a
step, before which the runner may be interrupted, and which may fail where the
code lets it. An error of `remove_dir_all` that `write_run` ignores leaves any
subset of the old `.hdr` files. A capture directory that cannot be read passes
for an empty one (`read_dir(..).unwrap_or(false)`) and is written into as it is.
The json of an allocation proof may be missing from a pass that ended well: dhat
writes it when its profiler is dropped and only prints an error. The tree may be
edited at any moment (`EditTree`). The ghost `claim` remembers, per capture
directory, the capture that last set about it, whether the files it found were
cleared, and whether no other capture was running there; `Sole` is both. Left out:
`--out`, run ids off git (a timestamp), and file contents, which are in
`Suite`.

**Report, Suite.** A bench process: `New`, `set_intent`, `at_rate`,
`run_scenario` (both variants: one sample per enabled regime), then
`finish_and_report` and, as separate steps, each file that `write_run` writes.
`Stop` kills it, or lets a write fail, at any step; a killed CSV write leaves
whole lines and one line cut inside a field, where a number loses its last
digit. `ClearCurves` may leave any of the old curves, as `write_run` ignores that
error. Further processes write into the same directory. Ghosts: `whole`, the
samples of the report last finished there with the curves that could not be
removed; `load`, of each pass under load, the rate that the bench had asked for
when it ran and whether it was saturated. Labels are sequences of characters
(runs of alphanumeric ones taken together), because `sanitize` maps `a@load` and
`a_load` to one name.

**RunEnv.** A machine is what is true of it: policies, topology, which cpus are
online, which files cannot be read. The kernel's files are external operators of
it; `CorePrep_*`, `RunEnv_*`, `online_siblings`, `parse_cpu_list` and the rest
are the code that reads them. `Preflight` is xtask's look, `Detect` the bench
process's, `WriteHeader` the report's; `MachineMoves` changes the machine in
between. **UtcStamp** is the calendar of the stamps.

**Comparison, Compare.** `Comparison` holds the parser and the classification,
`Compare` the gate's call with any two files, one that cannot be read and
arguments that make no sense included. A noise band is a whole, non-negative
percentage. Floating-point percentages become
cross-multiplications, which is what they mean up to rounding, so a change
within an ulp of the band's edge is not covered.

**Runner, CrossCore.** Time is a count of ticks, with durations from small sets;
`Runner` covers `bench` and `bench_open_loop`, chosen at the start. An op starts
some delay (`Delays`) after the loop has last looked at the schedule, because the
spin reads the clock in steps and the thread may be preempted in it. `CrossCore`
leaves out pacing and pinning, and takes `done` to become visible after the last
message, as on x86-64. Its formulas are `HopInit`, `HopNext` and `HopSpec`, so that
`MCBench` and the proof module can extend both.

**Workload.** The low bits of a linear congruential generator evolve on their
own, so the model keeps the state modulo 16 and leaves the rest of each draw
open. Resting orders are counted per side, and the kept hashes in all, which
decides with each draw whether a turn posts, cancels or sweeps.

## 3. The runs

Runs that pass:

| Run | Configuration | What it shows |
|---|---|---|
| `arena` | 3 slots, u32::MAX = 4, 2 values, 4 removals per slot | the free list is sound after any calls; a stale handle resolves only after u32::MAX further removals; the arena implements `HandleStore` |
| `queue` | 2 slots, 6 publishes, 2-word payloads, one consumer of any policy | no torn or stale read, true lap reports, no early announcement, cursors never go back; the ring implements `SpmcLog`; a consumer that keeps polling catches up or stops by policy |
| `book` | 2 slots and 2 prices with totals that wrap; 3 slots in one level; 4 intents | the documented invariants I1 to I5 and I7, no leaked slot, depth views that show every level with its quantity modulo the width of `total_qty`, so exactly below it; the book implements FIFO queues, with cancels at head, middle and tail |
| `engine` | capacities 0 to 4, prices 0 to 2, quantities 0 to 2, 3 orders | never crossed, quantity conserved, price-time priority, fill-or-kill, bounded trades, events rebuild the books |
| `capture` | 1 process, 2 invocations, one crate per list, two dirty trees of one id, a renamed scenario, failures and interruptions anywhere | one run per directory that could be cleared; success means complete, but for the json of allocation proofs; perfstat leaves the reports alone; a finished `write_run` leaves one set of files |
| `bench` | loops: 1 warmup and 4 measured ops, intervals 0 and 3, delays 0 and 2; hop: 6 messages through 2 slots | noise only from the measure phase; no drift; the overload flag tells saturated runs from those that keep up; each message counted once or reported lost; the hop benchmark ends |
| `conversions` | codecs: 2 samples per integer and hash, 8 byte values; environment: 4 cpus, 3 topologies, 4 policies; stamps: every day of 400 years and the edges of the day; gate: up to 1 baseline and 2 current lines, values at the edges of bands of 0, 5 and 50 % | every wire form comes back, and changed bytes are refused or faithfully read; a report without warnings was taken on a quiet machine; the preflight foretells the warnings of the runs to come; a stamp is its instant; the gate is exact, never passes what it could not read, and its driver is the extreme |
| `suite` | 2 processes, one scenario in the first and two in the second, 2 labels that collide as file names under load, rates 0, 2 and one beyond the clock, kills, failed writes and failed removals anywhere | the "Measured under" stamp and its two alarms tell the load that the bench asked for, pass by pass; a finished report is one run's; the gate reads no number nobody measured |

Runs that end in a counterexample, each for a sentence of the repository that
the code does not keep (quoted in `PROJECT.json`, "findings"):

| Run | What TLC shows |
|---|---|
| `engine_fok_overflow` | a level total beyond 2^64 wraps and a fillable FOK order is rejected (release builds; debug builds panic) |
| `capture_mix` | two captures at one run id at the same time leave one directory with files of both |
| `cross_core_drain` | messages published between the empty poll and the load of `done` stay unread |
| `workload` | after the prefill every passive order of the "mixed stream around a mid" rests on one side and every aggressive one hits the other, which runs empty and is never refilled |

The first needs extreme quantities. The second needs two captures at once; run
one after the other, captures keep apart, which `capture` checks and section 4
proves. The third loses the last few messages of a benchmark from its
statistics. The fourth makes the bench's headline number that of
a one-sided book: the generator's lowest bit alternates, and each turn of the
stream draws twice.

### Known limits of the code that the models show

These are behaviours of the modelled code that no run asserts or refutes:

- After u32::MAX removals of one slot a stale handle can read a later value.
  `StaleHandleWindow` states the exact distance; the arena's header comment
  (`crates/arena/src/lib.rs:5`) speaks of detection without this limit.
- `add_instrument` refuses a capacity equal to `MAX_CAPACITY`; the one above it
  reaches `Arena::new`'s assert (`AddInstrument`).
- A capture directory that exists and cannot be read is not cleared, and the
  capture goes on into it. `OneRunPerCapture` and `SuccessMeansComplete` except
  such a directory, and one that two captures were in at once (`capture_mix`).
- A capture that reports success has each allocation proof's output but perhaps
  not its json: `capture_alloc` looks at the exit status alone.
- `level_qty` and the depth views show a total that has wrapped as it is, modulo
  2^64. `DepthShowsTheBook` says so, and that below 2^64 they are exact.
- A capture reads its run id once, and each pass builds the tree as it then is.
  A tree edited in between is published under the earlier id (`EditTree`).
- `write_run` ignores an error of `remove_dir_all`, so an old `.hdr` can stay;
  `ReportSetIsWhole` promises a clean set only when the removal succeeded, and
  `ReportIsOneRun` allows exactly the curves whose removal failed; no script
  draws them.
- The first op of an open loop has its deadline at the start of the schedule, so
  it is counted as late; `OverloadIsTold` has the exact condition under which
  this alone raises the flag: with the threshold of 5 %, runs of at most 20 ops.
- The load regime runs at the default interval of 1 us when no rate was set,
  although its comments say that it needs one; the stamp shows the interval.
- Two labels that differ only in punctuation share a curve file, and the later
  sample's stays (`ReportIsOneRun` promises a curve to unique names only).
- CSV rows of open-loop samples do not show the interval, so the gate compares
  runs at different rates.
- Off git the run id is a time in seconds, so two benches of one invocation go
  to different directories.
- A zero baseline percentile makes a row incomparable, as `classify_pair`
  documents, whatever the other percentiles do.

### Bounds

- *Arena*: three slots give free lists of every length from 0 to 3 in every
  order; with u32::MAX = 4, four removals of a slot bring its generation back to
  where it began, so a stale handle does resolve within the bound. The proofs
  remove these bounds.
- *Queue*: two slots and six publishes overwrite each slot twice, so a consumer
  can be lapped, skip, and be lapped again. Two words are the least that can be
  torn. One consumer is enough: a consumer writes no shared memory, so neither
  the producer nor another consumer can tell whether it is there. The safety
  proofs remove these bounds; liveness stays with them.
- *Book*: two shapes (the proofs remove these bounds). Three nodes at one price have a head, a middle and a tail;
  two nodes at two prices make the best price move, with quantities whose total
  wraps and ones whose total does not. Three nodes at two prices are too many states for a short run.
- *Engine*: three orders are two makers and a taker that sweeps both; the
  capacities lie on both sides of each check; price and quantity 0 are the
  invalid ones. A sweep over more orders repeats `CrossStep` from a state
  that these orders reach.
- *Codec*: the two samples of each integer have different bytes in every
  position, so a misplaced or overlapping field changes some value.
- *Capture*: two invocations are an attempt and its rerun. One crate stands
  for each pass's list, since the passes of two crates touch different files. A
  capture that goes on in a directory it could not read is followed among at
  most `MaxKept` = 2 files of the earlier one (the constraint `FewKept`); states
  beyond are checked and not gone on from, and the properties except that
  directory anyway. The proofs take any lists, trees, scenarios, processes and
  number of invocations, and no constraint.
- *Runner*: service times below and above the interval, delays that pass
  a deadline and ones that do not, and an interval of 0, as a rate beyond the
  clock gives. The proofs remove the bounds.
- *CrossCore*: three times the capacity, so that the consumer may be lapped
  more than once. The proof of the count removes the bound. `MCBench` checks the
  loops and the hop in one run: a behaviour is of one of them while the other
  rests.
- *Suite*: two processes are a run and its rerun; a section has two samples when
  the second process measures two scenarios, which is the least that can mix
  intervals or share a name. A line is cut in any of the fields around the last
  percentile. Two scenarios in both processes are too many states for a short
  run.
- *RunEnv*: four cpus are two cores of two threads, in both of the usual
  numberings, or one core of four. One cpu may differ from the others.
- *UtcStamp*: the calendar repeats after 400 years.
- *Workload*: a prefill of 16 stands for 30 000, which is also a multiple of 16.
- *Compare*: one baseline line and two current ones give duplicates, unmatched
  and unparsable lines; 21 is exactly 5 % above 20.

The arena never looks at a value, and intents are interchangeable in book and
engine (no operator compares them with anything but equality, and no constant
names one), so those runs use symmetry.
None of them checks liveness.

`ret` of arena and book holds the last call with its arguments beside what it
returned, so that the abstract specification has to explain each call as that
call with those arguments: a `get` with a stale handle cannot pass for one with
a live handle, nor a `pop_top` for a `cancel`. No action reads `ret`, and the
invariants do not mention it, so those runs leave it out of the VIEW; TLC still
compares it on every step.

Deadlock is not checked: the programs modelled are libraries and tools that may
stop, and the bounds stop the models. That a benchmark ends and that a consumer
gets on are stated as liveness.

### Fairness

`queue` assumes weak fairness of a publish that has begun (a thread inside
`publish` keeps running: there is no lock to wait for), of the draining of
stores (hardware makes stores visible in finite time), and of each consumer's
own steps (its thread subscribes and keeps polling). Nothing is assumed about
new publishes. `bench` assumes weak fairness of each of the hop's two threads, which
the benchmark pins to cores of their own.

## 4. What is proved

Eight modules hold theorems. Each theorem is for every value of the constants
that its module's assumption admits. `PROJECT.json` lists the theorems with the
properties they state; each is a property that a run also checks.

### The queue (`SpmcProofs`)

Assumption (`QueueAssumption`): the capacity is a power of two, as `Queue::new`
asserts; `NONE` is not an integer. Any set of consumers, any set of payload
words, any bound on the number of publishes.

- `NoTornReads`: `Spec => []ReadyIsPublished`.
- `LapsAreReal`: `Spec => []LapReportIsTrue`.
- `AnnouncedIsReadable`: `Spec => []PublishedIsReadable`.
- `CursorsAdvance`: `Spec => CursorNeverGoesBack`.
- `RingImplementsLog`: `Spec => ImplementsLog`. The ring, with stores that become
  visible out of order and polls of several steps, implements the append-only
  log, under the mapping that counts an entry as begun when its odd version is
  visible and as committed when its even one is.

The argument has two layers. `MemoryInv` is about memory and the producer alone.
`BufferHolds` and `Committing` say which stores can be pending: the odd version
of the publish in progress and the stores of the last commit, no others. `Behind` and `Marked`
tie each slot's version to the producer's cursor: the slot of the entry being
written is behind that entry until its odd version drains. `Whole` says that a slot
with an even version holds that version's payload in every word. None is
inductive alone. `Whole` needs that no payload word drains before the odd
version, which the release fence gives, and that the even version drains after
all words, which the release store gives. Each of the
four kinds of store has a lemma of its own (`OddMemory`, `DataMemory`,
`EvenMemory`, `PubMemory`). `VersionTells` draws the conclusion a reader uses: an
even version of its own lap means that its entry is committed and not being
overwritten.

`ConsumerInv` is about each reader. `Reads` is the seqlock's argument: as long as
the slot still has the version the poll saw first, the words copied so far are
the entry's. Since versions only grow (`VersionsGrow`), equality at the second
load implies equality at every moment in between, and so a whole payload.
`SeesLap` and `StaysHalted` carry what a reader learnt of a lap to the step that
reports it. A step of the producer keeps all of it (`TruthStays`); each step of a
poll has a lemma that says what the reader becomes and what the log sees of it.

### The arena (`ArenaProofs`)

Assumption (`ArenaAssumption`): 0 < capacity < u32::MAX, which `Arena::new`
asserts; `NONE` is not a value.

- `FieldsInRange`: `Spec => []TypeOK`.
- `FreeListSound`: `Spec => []FreeListCoversFreeSlots`. The free list visits each
  unoccupied slot exactly once and then ends, and `len` counts the others.
  `alloc`'s unchecked indexing relies on this.
- `StaleHandleSound`: `Spec => []StaleHandleWindow`. A handle whose value was
  removed resolves again only after u32::MAX further removals of its slot.
- `ArenaImplementsStore`: `Spec => ImplementsHandleStore`. Each call, with any
  handle, returns and changes what a map from handles to values would.

The invariants follow from one inductive invariant,

    Inv == TypeOK /\ FreeListCoversFreeSlots /\ GenerationsAdvance

`FreeListCoversFreeSlots` says that there is an injective enumeration of the
free slots that begins at `free_head` and that the links follow. `NewFreeList`
gives the enumeration of a new arena; `AllocFreeList` drops its first element;
`RemoveFreeList` puts the freed slot in front; `SetFreeList` keeps it.
`StaleHandleWindow` is not inductive: it speaks only of handles that resolve,
and says nothing of how far the generation of a slot has moved past the others.
`GenerationsAdvance` is the strengthening. It relates the slot's generation to
the handle's by the number of removals between them, as long as that number is
below u32::MAX, and says that a handle without removals since still has its
slot's generation.

The refinement maps the occupied slots to a function from their handles to their
values. `LiveIffMatches` shows that the code's test of a handle accepts exactly
that function's domain; `LiveCount` and `FullStore` show, from the free list,
that `alloc` fails exactly when the store is full; `AllocStore`, `RemoveStore`
and `SetStore` compute the function after each call.

### The measuring loops (`BenchProofs`)

Assumption (`RunnerAssumption`): at least one measured iteration, a threshold
between 1 and 100 percent, durations that are natural numbers.

- `NoiseIsMeasured`: `Spec => []NoiseIsFromTheMeasurePhase`. `NoiseInv` says that
  nothing is counted before the reading of rusage and that afterwards the counter
  has moved by what was counted.
- `ScheduleIsKept`: `Spec => []ScheduleDoesNotDrift`. `BetweenOps` adds what is
  known of the clock between two ops: it has moved on from the last op's end by
  at most one prepare.
- `OverloadShows`: `Spec => []OverloadIsTold`, for every threshold and all
  durations and delays. `LateInv`: while every op has taken longer than the
  interval, each one so far was late. `KeptInv`: while every op has ended early
  enough for the next one's place, only the first was. Both rest on the schedule's
  invariant.

### The cross-core benchmark (`BenchProofs`)

- `CountIsExact`: `HopSpec => []EveryMessageCounted`, for every number of samples
  and every capacity of at least 2. The count is inductive once the reader is
  known to be live and to skip.

### The order book (`BookLemmas`, `BookLayout`, `OrderBookProofs`)

Assumption (`BookAssumption`): capacities between 1 and u32::MAX - 1, natural
prices, quantities between 1 and `QtyMod` - 1. Any sets of prices, quantities and
intents, finite or not.

- `BookStaysWellFormed`: `Spec => []BookWellFormed`.
- `TotalsStaySums`: `Spec => []TotalsAreSums`.
- `BookImplementsQueues`: `Spec => ImplementsQueues`. Each call, with its
  arguments, returns and changes what one FIFO queue per side and price would.
- `DepthStaysTrue`: `Spec => []DepthShowsTheBook`. Prices are exact; a quantity is
  the level's sum modulo `QtyMod`, and the sum itself when that is below `QtyMod`.

The properties walk along links and fold over sets, so none is inductive, and
none can be proved by unfolding. The inductive invariant `BookInv` says instead
that there is a layout: an assignment `Q` of a sequence of handles to each side and
price for which `BookSound` holds. Its parts are the arena's soundness
(`ArenaSound`: the free list again, now for any set of values), `QueuesSound` (each
live node is in exactly one queue, the one of its order's side and price, and the
links of the nodes follow the queue), `IndexSound` (the index maps each intent to
the one node that has it) and `LevelsSound` (a level exists exactly where a queue is
not empty, with the queue's ends, its length and its sum).

Each method changes `Q` at one place: `insert` appends a handle, `cancel` takes one
out wherever it stands, `pop_top` takes the first, `reduce_top` changes none. For
each there is a lemma about nodes and queues alone (`QueuesInsert`,
`QueuesCancel`), one about quantities (`QtyInsert`, `QtyCancel`, `QtyReduce`) and one
that puts arena, levels and index together (`InsertSound`, `CancelSound`,
`ReduceSound`); `PopIsCancel` shows that `pop_top`, which has its own code, does to a
sound book what a cancel of the top order does. The checked properties follow once a
walk is known to return the queue (`WalkIs`), a fold the sum (`SumBars`) and the depth
view the prices by rank (`DepthIs`).

These three are inductions over data. The library's induction theorems cannot be
instantiated here; `LeastNatural` (a set of natural numbers has a least element),
which follows from the library's theorem on well-founded relations, takes their
place: the set of sizes at which the claim fails would have a least element, and
the recursive equation leads from it to a smaller one. The fold is handled by
counting: the sum of a function is the number of unit cells under its graph, and
cells are counted by the theorems on finite sets. `FiniteFacts` collects the few facts
on finite sets and numbers the lemmas use; `FiniteFactsHold` proves them from the
library, and each lemma that needs them names them as its hypothesis, which keeps
the library's own definitions out of the provers' sight.

### Intent runs and captures (`CaptureProofs`, `CaptureRunProofs`)

Assumption (`CaptureAssumption`): the lists of crates are sequences, the benches'
without repetition; every tree has at least one scenario, and is clean exactly when
it has no edit; `NONE` is no directory. Any number of processes, crates, trees,
scenarios and invocations.

- `ReportsStayClean`: `Spec => []ReportsAreFromTheLatencyPass`.
- `CapturesDoNotMix`: `Spec => []OneRunPerCapture`.
- `SuccessIsComplete`: `Spec => []SuccessMeansComplete`.
- `ReportSetsAreWhole`: `Spec /\ []Separate => []ReportSetIsWhole`.

The first three hold for any number of processes in any interleaving. What the
second and third except is in the properties themselves, as states of `claim`
that the code can be in: a directory kept because it could not be read, and one
that two captures were in at once.

`Separate`, which the last one needs, says that no two processes have a directory
in common, where a process has the directories of its last invocation until it is
started again. One process, started any number of times, satisfies it whatever
it does, the run's configuration included. It is a hypothesis because nothing in
xtask enforces it, and two bench processes at one id do overwrite each other's
reports.

`JobsPlaced` ties the step a process is at to its directories and its pass;
`OnSchedule` says that a capture works through the pass list in order; `AllClean`
is the first property for each directory. `JobsOwn` follows the files of a report
through the writes of `write_run`. For captures, `RunsApart` says that no two
processes are in one invocation, and `Claims` that a running capture in a `Sole`
directory is the one that claimed it, so that there is at most one; `SoleRun` then
says that such a directory holds only its claimant's files, which alone is not
inductive, as nothing in it keeps a second capture out. `CapturesProgress` says
that while nothing has failed, every pass behind the claimant of such a directory
has left its files (`Held`). `StepFrame` bounds what a step does to other
directories, which is all that one process has to know of the others.

### Only model-checked

- Liveness (`ConsumersCatchUp`, `ConsumerLeaves`): fairness and ENABLED are beyond
  the prover used here.
- The engine. Its properties rest on the book, whose theorems are above, and on
  folds over a call's events; `NeverCrossed` and `PriceTimePriority` would follow
  from an engine over `BookSpec`'s queues (section 5).
- Codecs, calendar, gate and environment: functions of one input, whose risk is
  in particular values; their runs cover the sampled inputs, the calendar all of
  them.
- The suite: its properties compare the contents of files, line by line, with what
  was measured, cut lines included; the run covers a report and its rerun, which
  is where they can go wrong.

## 5. Plan

Done: the parts above; the proofs that an earlier version of this plan asked for
(queue, log refinement, handle store, message count), those of the runner, the
order book with its refinement to queues, and the captures.

Next, in this order:

1. For the engine, prove `NeverCrossed` over `BookSpec` instead of the linked
   book; this asks for an engine specification over the abstract queues, which
   `BookImplementsQueues` then connects with the present one.
2. When the code connects them: compose `Engine`, `EventCodec` and `SpmcLog`. A
   consumer of the queue that was not lapped rebuilds the books, and one that
   was knows it.
3. Two instruments in one `Engine` run, too large for TLC as the model stands;
   step 1 should make it small enough.
4. `--out` and ids off git in `Capture`; the arena's `Drop` inside a book.
