# CacheLens: formal models

CacheLens profiles a program with two hardware events (loads that miss the
last-level cache, and all loads), attributes the samples to source lines and
ranks the lines by how strongly misses concentrate on them. These modules model
the parts of it whose correctness depends on order: on what the kernel, the
target and the profiler do between two lines of code. File and line references
are to the repository root, one directory above the sources named `src/main.cpp`
and `benchmarks/*.cpp` here.

## The system

| Component | State it keeps | Operations | Correct when |
|---|---|---|---|
| Ring drain (`drain`, `copy_wrapped`, `RecordHistogram`; `src/main.cpp:284-352`) | cursor `tail`, samples, histogram, per event and CPU; shared with the kernel: data area, `data_head`, `data_tail` | load the head, copy headers and bodies, consume, hand the space back | every record is consumed once, whole, in order; the kernel never overwrites an unread one; losses add up; a healthy ring never aborts the run |
| Session (`fork_stop_exec`, `reap`, `main`; `149-185`, `670-900`) | the target's process state, open descriptors, wait status, drained rings | fork stopped, open, continue, poll, drain, reap, drain again, halt or report, exit code | counters are attached before the target runs; a report covers every record; halts neither miss nor invent a fault; the profiler ends |
| Calibration (`calibrate_both`, `nearest_prime`; `436-520`, `722-746`) | counts and times of a first run | open two counters, run the target, derive two sampling periods | periods are prime, never zero, and sample at the target rate |
| Classification (`get_target_text_range`, `classify`; `198-235`) | text range, load bias | bucket an address | target, shared library and kernel never overlap |
| Attribution (`DwarfResolver`, `classify_and_attribute`; `237-271`, `373-407`) | per-address cache of locations and failures, counts per site | resolve through the cache, count | counts equal those of a resolver without a cache; buckets partition the samples |
| Ranking (`wilson_lower_bound`, `main`; `417-434`, `949-1022`) | sites with two counts each | union, support gate, score, sort | every site is ranked once or dropped by the gate; order is by the bound |
| Event report (`print_event_report`; `592-666`) | none | sum the rings' histograms, print | sums are exact |
| SPSC queue (`benchmarks/spsc_queue.cpp`) | cells with sequence numbers, `tail`, `head` | push, pop | no race on a cell, first in first out, no deadlock, exact checksum |
| MPMC queue (`benchmarks/mpmc_queue.cpp`) | the same with shared, compare-exchanged positions | push, pop | the same with several threads on each side |
| Latency harness (`benchmarks/queue_latency.cpp`) | schedule, latencies | paced sends, percentiles | percentile of the sorted list |
| Single-threaded benchmarks, probes, scripts | none that matters here | | |

How they interact. The target, the kernel and the profiler are three actors. The
profiler controls the target with signals and `waitpid`, the kernel arms the
counters when the target calls `exec` (`enable_on_exec`), and writes records into
rings that the profiler reads with no lock: two positions, `data_head` (kernel)
and `data_tail` (profiler), say who may touch what. `poll` wakes the profiler,
`POLLHUP` included, but only `waitpid` tells it to stop. A calibration run of the
same target decides the sampling periods of the measurement run. What the rings
yielded flows one way from there: histogram and samples, classification,
attribution, ranking, report.

The hard parts are: the kernel writing while `drain` reads; records that wrap;
a full ring and its loss accounting; records made after a ring was last drained;
the target stopping, failing or dying at any moment of the attach protocol; the
multiplexing check, which compares a sum of per-CPU times with one time; exit
codes that must not hide a failed run; and, in the queues, who may touch a cell.
`PROJECT.json` lists each at its line, with the properties that watch it.

## Modules

| Module | Models |
|---|---|
| `RecordStream` | what a drained ring promises: a lossy stream delivered in order, losses reported at their place |
| `PerfRing` | one ring: kernel writer, `drain()`, `copy_wrapped()`, at the grain of single words |
| `Arithmetic` | theorems on `%` and on sums over finite sets, used by the proofs |
| `PerfRing_proofs` | theorems about `PerfRing` |
| `Profile` | what one run of the command promises about the program it profiles |
| `Session` | one run of the command, calibration and measurement, to its exit code |
| `Session_proofs` | theorems about `Session` |
| `BoundedQueue` | what the benchmark queues promise |
| `SpscQueue` | `spsc_queue.cpp`, at the grain of single accesses |
| `SpscQueue_proofs` | theorems about `SpscQueue` |
| `SharedQueue` | what the queue with several producers and consumers promises |
| `MpmcQueue` | `mpmc_queue.cpp`, at the grain of single accesses |
| `MpmcQueue_proofs` | theorems about `MpmcQueue` |
| `Calibration` | the arithmetic of the sampling periods: rates, target rate, `nearest_prime()` |
| `Calibration_proofs` | theorems about `Calibration` |
| `Report` | from the target's headers and the samples to the ranking: classification, attribution, scores, order |
| `MCReport` | the program headers of the instances of `Report` |
| `Report_proofs` | theorems about `Report` |
| `Latency` | `queue_latency.cpp`: schedule, measurement, percentiles |
| `Latency_proofs` | theorems about `Latency` |

### PerfRing and RecordStream

`data`, `data_head`, `data_tail` are the mapping; `tail`, `head`, `hdr`, `body`,
`samples`, `hist` are the locals and references of `drain()`; `pc` is where it
is, with a value of its own for each of its `die()` calls (`overflow`,
`malformed`, `throttled`). `StartDrain` is lines 299-307, `ReadHeader` 308-319 and
the record kinds without a body, `ReadBodyWord` one word of the two `memcpy`
calls, `Consume` 320-349, `PublishTail` 350-352. The kernel (external) reserves
room for a record and for a report of the losses before it, writes word by word,
and publishes `data_head`; with no room it drops the record. A word is
represented by which word of which record it is, so that reading a word that was
overwritten, or never written, is visible as such.

`Kinds` gives the records the kernel generates besides loss reports: samples,
throttle records (fatal in `drain`), and a kind standing for all that `drain`
counts and skips. `EXIT` records are of the last sort: `open_sampling()` sets no
`attr.task`, so a kernel makes none.

Interleaving is sequentially consistent. The acquire load of `data_head` (302)
and the release store of `data_tail` (351) are paired with barriers in the
kernel; the code reads nothing else that is shared. Positions are unbounded: the
code's are 64 bits wide and count bytes of one run.

### Session and Profile

The profiler is one thread; `pc` is its place in `main()`, `next` the counter of
the loop it is in. `Start` is all that precedes the first `fork`: wrong arguments end
in exit code 2, a failure to read the number of CPUs, the target's headers or the
limit of the sample rate in `die()`. The target is `child`: `forked`, `stopped`, `resumed`,
`running`, `zombie`, `reaped`; it can fail before stopping, fail to exec, exit
with success or failure, and be killed by a signal at any time. `Open`, `Poll`,
`Fork`, `ReadCounts` and `FinishSampling` may fail as the system calls in them may;
`Die` exits with code 1 and, like the code, leaves the target alone.

Counters are inherited, and only the direct child is awaited. A process the target
started (`left`) may outlive it, and is counted until the rings' descriptors are
closed (`Counted`), so that records are made while the profiler finishes. Those of the
calibration run are closed when they are read (492-501), so that what that run leaves
behind is not counted by the second one. `at_end`
notes what was there when the target ended; no step reads it.

`ticks` is what `time_enabled` reads of an armed counter, in slices of the
target's running time; `running[r]` is `time_running` of a ring, and a slice adds
to the rings of the CPUs that ran the target, unless the PMU had no room for that
counter, which `contended` records per event.

After the final drain the rings are read and closed one by one (`Finish`,
`FinishSampling`; 821-823): `enabled` keeps the `time_enabled` each reported, and a
closed ring counts, samples and contends no more (`Closed`). The rings behind it still
do if a process was left, so that slices may pass between two readings and the rings
of an event need not report the same time. `CheckArmed` and `CheckMux` then use what
was read, `Multiplexed` the time of the event's last ring (867), as the code does. A
ring is the sequence of its records; a drain takes them all in one step, which
`PerfRing` justifies: a drain consumes exactly what was published when it began,
in order, and raises no alarm. Records are samples with the configured period,
samples with another one, or throttle records.

What `poll()` says of a ring is arbitrary: `Drain` takes each ring in turn and drains
it or passes it over. Readiness, time-outs, the stale `revents` after `EINTR` and
wakeup marks then need no model of their own, and every property holds whatever
`poll()` returns.

`Profile` is the session without any of this: a program is held before its first
instruction (`Hold`), released with the rings that count it (`Release`), makes records,
ends (`End`), and then there is a report or an error, once and never both. A report needs
a program that ended and was counted by every ring; it covers at least what was recorded
when the program ended, samples only, and comes with the program's own exit code. A
second run may follow the first only while nothing was recorded. In the mapping the
target is `held` from `fork` to `exec`, `counted` is `armed`, `due` is `at_end`, `covered`
is `taken` once there is a report; setting up, the passage of time, reaping and draining
are stutters.

### SpscQueue and BoundedQueue

One action per access to a cell: wait for the sequence number, access the data,
store the sequence number, store the position. `pos & kMask` is `pos % Capacity`.
The checksum of `consumer()` and the two joins of `main()` are included. With
`CACHELENS_PAD_INDICES` the fields move and nothing else changes: one model is
both builds. `Capacity` must be at least 2 (the code has 1024): with one cell a
published item at position `p` and a cell freed for position `p + 1` carry the
same number.

### MpmcQueue and SharedQueue

`push()` and `pop()` have the same shape and share their actions: `LoadPos` loads
`enqueue_pos` or `dequeue_pos`, `LoadSeq` the cell's sequence number and branches,
`Reserve` is the compare-exchange, `WriteData` and `ReadData` the access to the
cell, `Release` the store that publishes or frees it, with the loop of
`producer()` or `consumer()` around it. A thread's `pos` is its local variable: it
goes stale while others reserve. The compare-exchange succeeds whenever the
position is the expected one: `compare_exchange_weak` is a `lock cmpxchg` on x86,
and the code's `__builtin_ia32_pause` builds nowhere else. Relaxed positions need
no ordering of their own: the only plain data is in the cells, and it is the
sequence numbers that order it. In the mapping to `SharedQueue` a push takes
effect at its compare-exchange and so does a pop; the item a consumer reads later
has to be the one put in there.

### Calibration

One counting run yields a count for each event; `Plan` makes of it the number
`nearest_prime()` is called with, `Search` is one turn of its loop. Ratios are
kept as integers: `rate / target_rate + 0.5`, truncated, is `Raw`. Time is measured
in runs, so that `time_running`, which an inherited counter adds up over the
target's threads, is `Threads`. What `Session` has of calibration is its control:
which calls may fail and which checks end it.

### Report

`ReadHeaders` is `get_target_text_range()`: a table of program headers is folded into
the range from the first executable segment to the last (`Widen`), or the run fails
for a target without one: whether there was one is `found`, as in the code, so that an
empty segment counts too. What lies in a gap between two segments counts as the
target's. How the table is read from the file is not modelled; that it may fail is
in `Session!Start`. `Attribute` is one turn of the loop of
`classify_and_attribute()`, with the cache as the code keeps it: `resolve_ok` and `resolve_loc` are two maps, and indexing
the second one for a missing address makes an empty location. Addresses are a
few numbers in the order of the real ones, one or more in each region and on each
border; what line an address of the range resolves to, or that it resolves to
none, is chosen when the range is known and then fixed. `Rank` is the rest of `main()`. Scores
are integers, in thousandths, computed by the formula of `wilson_lower_bound()` and
rounded down; its square root is exact before it is rounded, however large the counts;
`period_scale` is one positive factor for all lines and is left out, as are
`ip_lo` and `ip_hi`, which are only printed. `std::sort` puts lines of equal score
in any order. The rings' samples are one sequence per event, as `main()`
concatenates them, in every order.

### Latency

The producer's and the consumer's thread are lambdas of `main()`; time passes
(`Tick`) between any two of their steps, which is how a thread is preempted. The
queue is one sequence: `push()` and `pop()` are those of `spsc_queue.cpp`, which
implement it. Time is counted from the reading of `start_ns`. Of the percentiles
the model has p50, p99 and p99.9. `Sorted`, what `std::sort` leaves, puts each latency
behind the smaller ones; `SortedIs` proves that this is the vector in ascending order.

## Runs

| Run | Module and cfg | Shows | Bounds |
|---|---|---|---|
| `perf_ring` | `PerfRing`, `MCPerfRing.cfg` | all properties of the ring, that it implements `RecordStream`, and that the session's draining ends | 12 words, 7 records in all |
| `lost_at_end` | `PerfRing`, `MCPerfRingEnd.cfg` | `lost_events` misses what was dropped after the last record with room | 5 records |
| `session` | `Session`, `MCSession.cfg` | attach order, completeness of the report, both directions of the multiplexing halt, exit codes, that it implements `Profile`, termination | 2 CPUs, 1 thread, 2 slices, 2 records, a process left behind, which may run until the last ring is read, or none |
| `mux_threads` | `Session`, `MCSessionThreads.cfg` | with two threads the multiplexing check accepts a contended counter | 2 CPUs, 2 threads, 1 slice |
| `spsc_queue` | `SpscQueue`, `MCSpscQueue.cfg` | the queue's properties, that it implements `BoundedQueue`, and that all items get through | 4 cells, 14 items |
| `mpmc_queue` | `MpmcQueue`, `MCMpmcQueue.cfg` | the queue's properties, that it implements `SharedQueue`, and that all threads end | 2 producers, 2 consumers, 2 cells, 6 items |
| `mpmc_stalled` | `MpmcQueue`, `MCMpmcStall.cfg` | one stopped producer holds up the consumers | the same, 4 items |
| `calibration` | `Calibration`, `MCCalibration.cfg` | the periods are the nearest primes and keep to the limit | counts up to 170, target rate 6 |
| `calibration_threads` | `Calibration`, `MCCalibrationThreads.cfg` | two threads are sampled at twice the target rate | counts up to 60 |
| `report` | `MCReport`, `MCReport.cfg` | counts with and without the cache, gate, order and score | two executable segments with a gap, an empty one before another, or none; 7 addresses, 2 lines, 3 misses, 4 accesses, gate at 2; scores of counts up to 8 |
| `latency` | `Latency`, `MCLatency.cfg` | no coordinated omission, percentiles, every item measured | 2 cells, 5 items due every 2 ticks, 12 ticks |
| `report_halt` | `MCReport`, `MCReportHalt.cfg` | a report is completed in spite of its halt condition | 6 addresses, 1 sample of each event |

Why the bounds are enough. Twelve words hold three samples less one word: the
ring fills after two, drops, makes loss reports of three words, and wraps inside
headers and bodies at every offset within seven records. Sizes beyond that are
covered by the proofs. For `session`, two CPUs are what migration and a sum over
rings need; two records allow one before and one after the last in-loop drain of
a ring, or two rings with one each; two slices let a target be counted in one and
contended in the other, or run on both CPUs in turn, or let the process it left run
between two readings of rings. With two slices the 1 %
allowance of the multiplexing check comes to none, so the run cannot tell 0.99
from 1; it does tell a check on sums from one per ring. For `spsc_queue`, fourteen
items are three laps and a half of four cells.

For `mpmc_queue`, two threads on each side are the program's own numbers, two
cells the fewest it works with, and six items are three laps: long enough for a
stale position to meet its cell one and two laps later. `calibration` takes the
search from the clamp at 2 through every gap between primes up to 29.
In `report`, four access samples let two lines pass the gate together, three
misses let a line have more misses than accesses, and three addresses of the range,
one in each segment and one in the gap, give a line two addresses while another one
resolves to nothing. `EvidenceWins`
compares with up to four times the evidence. Lines are interchangeable (`Symmetry`):
nothing depends on their names.

`latency` has four ticks after the last item is due, so that two items become due
during a delay, and a queue of two that a delayed consumer lets fill.

`perf_ring` and `lost_at_end` disable the deadlock check: when the last drain is
over, or `drain` called `die()`, the ring's story ends, and a target that neither
exits nor samples may leave nothing to do before that. The other
runs end in a stuttering `Done` or `Joined` and check deadlock everywhere else.

### Properties worth knowing

- `UnreadIntact`, `SamplesFaithful`: nothing published and unread is ever
  overwritten, and the sample vector is exactly the sample records consumed. A
  tail published too early, or a remainder copied from a wrong place, breaks them
  only on a ring that is full, or on a record that wraps.
- `LossAccounted`, `AllDelivered`: the loss counter is exact behind each record
  consumed, and at the end only drops that no record followed are missing. The end is
  that of everything that writes: `PerfRing!TargetExit` stops the writer before the last
  drain. For a process that goes on after it, `ReportComplete` says what is covered.
- `ReportComplete`: a printed report covers every record made before the target
  ended, those below the wakeup mark and those made after a ring's last in-loop
  drain too. It is the final drain after `waitpid` that makes it so. If a process
  outlives the target, what it makes after a ring's final drain is not covered; the
  code has no way to wait for it.
- `MuxHonest` and `NoFalseHalt`: the multiplexing halt as a statement in both
  directions. A one-threaded target with a contended counter is always refused. One
  that migrates between CPUs is not refused for that, unless it left a process behind
  that ran while the rings of an event were read: then an earlier ring reports less
  time than the last one, the sum falls short of it, and the session may be refused
  with no counter contended. Readings that differ never hide contention from
  `MuxHonest`, as no ring reports more time than a later one.
- `ExitCodeMeaning`: exit code 0 means a report was made and the target itself
  succeeded.
- `ImplementsProfile`: the order of all this. What a report covers was counted from
  the program's first instruction, no record is given up for another run, and a result,
  once there, is never taken back, whichever call fails and whenever the target dies.
- `ImplementsQueue`, `NoDataRace`, `NeverStuck`: sequence numbers alone keep two
  threads apart and in order; in `MpmcQueue` they do so for threads that hold
  positions of earlier laps.
- `PeriodsNearest`: no prime is nearer to the rounded ratio than the period, at
  the low end too, where 0 and 1 are raised to 2.
- `AggregateRateKept`: rounding and the step to a prime, which lies below the
  ratio as often as above it, do not take the rate over the limit that was found
  reliable. It fails if the quotient is truncated.
- `CountsExact`: buckets and lines count what they should, in whatever order addresses
  that resolve and addresses that do not come back, with the range of several
  segments found in their headers. A cache that answers wrongly is what `CacheInvisible`
  is for: it says of each single step that the cache cannot be told from its absence.
- `EverySiteOnce`: a line that only one of the two events sampled is neither lost
  nor listed twice, and the gate is exact.
- `NeverDominated`, `EvidenceWins`: more misses of as many accesses never rank
  lower, nor does the same ratio with more evidence, also where misses outnumber
  accesses and the variance is held at zero.
- `StallsShow`: an item that was due during a stall is late by what is left of it.
  A harness that scheduled from what it had sent would show one slow item.

### Where the code and its words part

- `lost_at_end`: README.md:186 describes `lost_records` / `lost_events` as
  "Samples the kernel dropped". A loss is reported by the kernel only in front of
  the next record it has room for, so losses at the end of a run are not counted:
  the drain that makes room comes when no record is made any more.
- `mux_threads`: `src/main.cpp:858-861` says that the summed `time_running`
  against `time_enabled` verifies "zero genuine PMU contention". With
  `inherit=1` the sum is over the target's threads as well, and
  `results/gate7_phase2_sampler.txt:30-31` shows it near 2 for two threads. A
  counter that was off half of the time passes the 0.99 check.
- `src/main.cpp:867` says of `time_enabled` "identical on every ring; last write is
  fine" (so do 853-858). A process that outlives the target is counted until each ring is
  closed, so it is not: the last ring may say more than those read before it, and a run
  without contention is then refused. It is the exception `NoFalseHalt` makes; stated
  without it, the property is violated in the instance of `session`, where a survivor
  runs for one slice after the first ring of an event is closed.
- `mpmc_stalled`: `benchmarks/mpmc_queue.cpp:1` calls the queue lock-free. A
  producer stopped between its compare-exchange and the release store keeps all
  consumers at its cell, whatever the other producer has published behind it.
- `calibration_threads`: `src/main.cpp:466` calls the rate "aggregate count / wall
  time", and 732-733 speak of "a single AGGREGATE target rate". The count is
  divided by `time_running`, which is summed over the target's threads as the
  count is, so k threads are sampled at k times the target rate; 60 % of the limit
  becomes 120 % with two.
- `report_halt`: `src/main.cpp:661-665` prints "HALT CONDITION" when more than 1 % of
  an event's samples are in kernel space or unclassifiable, and
  `docs/TAKEAWAYS.md:367` calls it the "halt threshold". Nothing halts: the ranking
  follows, and the exit code does not tell.

## Fairness

- `PerfRing!FairSpec`: `drain()` runs to its end (it has no waiting in it); the
  kernel finishes a record it began. The target need not exit, and the property
  begins with its exit. The last drain is strongly fair: in-loop drains may
  disable it for a while, but each iteration of the poll loop calls `waitpid`, so
  only finitely many of them come first.
- `Session!FairSpec`: the profiler is scheduled; a child goes on between its
  system calls; a target that runs comes to an end (a profiled program that does
  not end has no report to wait for). Nothing is assumed of `poll()`, of signals
  or of failures.
- `SpscQueue!FairSpec`: both threads run; each is pinned to a CPU of its own.
- `MpmcQueue!FairSpec`: likewise. `StallSpec` says nothing of producer 0, which is
  what "lock-free" is about.
- `Latency!FairSpec`: the clock goes on, both threads run, each pinned to a CPU of
  its own, and `main()` after them.

## Proofs

`tlapm` checks every theorem for all values of the constants.

`PerfRing_proofs`: assumed is `RingAssumption` (a data area of at least one word).
The inductive invariant `Inv` adds to the properties what drain and kernel know
of each other: records tile the log (`RecordsTile`), each loss report accounts for
the drops since the record before (`LossChain`), the positions are ordered
`data_tail <= tail <= head <= data_head <= wpos` and the kernel is less than one
lap ahead of what was handed back (`Positions`), every position but the kernel's
is a record boundary (`Boundaries`), a word written and not handed back is in
memory (`MemoryHolds`), what `drain` holds of a record is that record
(`CopyHolds`), and nothing moves once the target is gone (`Ending`). Without
`MemoryHolds` and `Positions` a header read at the cursor could be anything, and
neither the alarms nor the samples could be settled. From `Inv` follow
`TypeCorrect`, `NothingUnreadOverwritten`, `NeverFalselyFatal`,
`SamplesAreTheRecords`, `LossesAddUp` and `LastDrainIsComplete`; `Refinement`
shows that each step of the ring is a step of `RecordStream` or a stutter.
`DrainIsWhole` is what `Session` takes a drain for: it consumes the records published
when it began, all of them and no others (`BelowCursor`), and hands back their room.

`SpscQueue_proofs`: assumed is `QueueAssumption` (two cells or more). `Inv` says
which of four things each cell's number means, by the positions of the two
threads; two cells or more make "published" and "free" look different
(`WritableIsFree`, `ReadableIsPublished`). It gives `TypeCorrect`, `RaceFree`,
`DeadlockFree`, `ChecksumCorrect` and `Refinement` of `BoundedQueue`.

`Calibration_proofs`: assumed is `CalibrationAssumption` (a positive limit, at least
one thread). `PrimeTest` shows that trial division by 2 and the odd numbers up to
the square root is the definition of a prime: a number that is not one has a
divisor at or below its root, odd if the number is. The invariant says that `lo`
and `hi` are equally far from the start, since the search comes to 3 before it
could be held at 2, and that no prime lies strictly between them (`Searching`), so
that the first one found is nearest; `ChosenSoFar` keeps what was found. From it follow `TypeCorrect` and
`PeriodsArePrimes`.

How far a period may lie below its ratio depends on the gaps between primes. `Ladder`
tries 33 numbers from 13 up to 17 053 331, each at most 47/30 of the one before, and finds
them prime (`Climb`); `Bottom` has the primes below. So a number n up to 17 000 000 has a prime
above it not far off, and the period, which is strictly nearer if it lies below n
(`Cleared`: of two primes equally near the search meets the upper one first), is at least
30/77 of 2n + 1 (`LongEnough`). The ratio itself is at most n + 1/2 (`RatioAtMost`). With 60 %
of the limit aimed at, that makes 77 %, which is the claim.
`OneThreadRateKept` is `AggregateRateKept` with two hypotheses. `EventsInReach`, counts of at
most ten million events per sample the kernel allows in the run, keeps the ratio on the ladder; with
a limit of 100 000 samples a second these are 10^12 events a second, far more than a
program makes. `Threads = 1` is needed, as `calibration_threads` shows; for any number of
threads `ThreadRateKept` has the same of each thread.

`Latency_proofs`: assumed is `LatencyAssumption`. The invariant places every item:
the one with number j carries j times the interval, wherever it is, that time has
come, and nothing was received later than now. It gives `TypeCorrect` (no latency is
negative) and `NoCoordinatedOmission`. For `PercentilesAreRight` two elements never have
the same place in the sorted vector (`PlaceIs`), so that every place is taken
(`PlaceTaken`), and the element at place k has k elements up to it and fewer than k below
(`CountsAtPlace`); `Ended` says that the percentiles are those of all items.

`Session_proofs`: assumed is `SessionAssumption` (at least one CPU, no more threads
than CPUs). `Inv` says where the target can be while the profiler is at each point
(`Places`), that it runs only with every counter of the run open (`Attached`), what
is known once it ended (`Endings`), that nothing was drained before the measurement
run and never a throttle record (`Drained`), which rings the final drain is done with
(`FinallyDrained`), and what exit code and report stand for (`Outcome`). `Places` is
what the rest leans on: without it a ring drained for good could still grow, since
only a reaped target adds nothing. It gives `TypeCorrect`, `CountedFromExec`,
`ReportsAreComplete` and `ZeroMeansSuccess`. The multiplexing check is about sums of
what rings said at moments of their own, for which `Readings`, `Accounts` and `Judged` are
added (`Accounted`). `Readings`: a ring read later reports no less time, and all report the
same if nothing outlives the target. `Accounts` follows an event's time up to the reading
of its last ring (`Upto`): `time_running` adds up to no less than that time less the slices
in which the counter was contended, provided that its rings reported the same time so far
(`AtOnce`), and for one thread to no more in any case. A slice that passes while some of the
event's rings are closed breaks `AtOnce` for good, since the last ring is still to be read;
one that passes after its last ring is closed changes nothing of the event. `Judged`: what
the check found is still so when the report is printed or the halt taken, since closed
rings count no more. `RefusedOnlyIfShared` (`NoFalseHalt`) follows for any number of
threads: without contention, a sum that falls short means that `AtOnce` does not hold.
`SharedIsRefused` (`MuxHonest`) has the hypothesis `Threads = 1`, and needs it: with two
threads `MuxHonest` is false, which is what `mux_threads` shows.

`Refinement` shows that each step of `Session` is one of `Profile` or a stutter. Besides
`Inv` it takes `Blank`: nothing is recorded before the target of the measurement run is
forked (`NothingBeforeTheFork`), so that this fork gives up no record. A report is
`Profile!Report` because the rings were all found armed, the final drain is over and what is
left to be made after it is not due (`ReportReports`); every other exit is `Profile!Refuse`,
its exit code never 0 (`Refuses`).

`MpmcQueue_proofs`: assumed is `QueueAssumption` (two cells or more, shares without
a remainder). The positions threads hold, between compare-exchange and release, and
the two shared ones decide every cell's sequence number: `Pending` and `Taken` for
cells being written and read, `Occupied` and `Vacant` for those at rest. What a
thread saw of its cell may be old when it comes to its compare-exchange; `Ahead` says
that it still holds as long as its position is the shared one, for whoever could have
changed it would have had to move the position. `Origins` says which producer each item
came from and that no two items are equal, so that positions are bounded by the number
of items (a pigeonhole argument). It gives `TypeCorrect`, `DataRaceFree` and
`Refinement` of `SharedQueue`. `Sums` accounts for the checksum: what the consumers have
added up is what was taken out, so that `SumExact` follows when all is taken out.

`Report_proofs`: assumed is `ReportAssumption` (finitely many addresses and lines, segments
that end where they begin or later and within the user's half, a support gate of at least
one, and the bounds). The invariant `Inv` says what is known of the target (`Located`: the
range is that of its headers), what type each event's results have and that the cache
agrees with the debug information (`Typed`, `Agrees`), what they count of the samples taken
(`Counted`), that nothing is counted before the target is known (`Nothing`) and how the
lists came about (`Ranking`). `Agrees` is what `Counted` leans on: a wrong answer in the
cache would be a wrong count as soon as the address comes again. `RangeIs` shows that the
fold over the headers is the smallest range around all executable segments, and `ClassifyIs`
that the order of the tests in `classify()` does no harm. It gives `TypeCorrect`,
`CountsAreExact`, `SitesRankedOnce`, `CacheAgrees` and `CountsWithoutCache`.

`RankedAboveDominated` and `BoundRewardsEvidence` need facts about the score, for all
counts and with both of its roundings. `SqrtIs`: the root is exact. `MoreMisses`: a miss
more adds 1000 to the numerator and at most as much to the spread. `FewerAccesses`: an access
more never lessens the spread (`QuotGrowth`), and adds to the denominator. `NotAboveEstimate`: the spread is at least
1920, which outweighs what the rounding and z2 / 2 add. `MoreEvidence`: with k times the
counts the spread grows by less than k times. Where misses outnumber accesses the variance
is held at 0, and the same four statements are shown for that case and across its border.

`Arithmetic` has the facts on `%` that the proofs about rings, queues and periods rest on,
and those on sums over finite sets: one term changed, two sums added, a part of a sum, a
telescoping sum. A fold is a recursive function, and what it computes is an induction
over its argument. The induction is done without a library theorem: of the subsets on
which a claim fails one has no smaller one (`Smallest`), and a step from there leads to a
contradiction (`SmallestException`). `FoldExists` shows in the same way that the
recursion has a solution.

Only model-checked:

- liveness (`SessionEnds`, `Terminates`, `AllConsumed`, `AllMeasured`), since fairness
  and `ENABLED` are beyond the prover;
- `AggregateRateKept` for ratios above 17 million, where it would take a theorem on the gaps
  between all primes.

## Not modelled

- Differences between the `time_enabled` of counters that are read at the same moment:
  the kernel decides them. Those that come from reading one ring after the other are
  modelled.
- A calibration target that fails: its exit code is read and dropped (501), which
  `Session!Reap` follows; there is no statement about the periods it yields.
- A parent that ignores `SIGCHLD` (then `waitpid` fails with `ECHILD`).
- Rounding of doubles in rates and scores: counts are far below 2^53, and scores
  that differ in their last bits only may be ordered either way.
- The sums over rings and the percentages `print_event_report()` prints: each is one
  pass over what `Session` and `PerfRing` show to be complete.
- `open_sampling()` and `open_counting()` fill a structure and make one system call.
  What they ask for is in how the kernel is modelled; the structure is not.
- Reading ELF and DWARF (libelf, libdw): only that it may fail, and that it gives the
  same answer to the same question.
- Single-threaded benchmarks: loops over memory in a fixed order, to be profiled; they
  hold no state a property could be about.
- Probes: experiments on what the kernel and the machine do. They are the evidence
  for the external actions of `PerfRing` and `Session`, and no part of the program.
- Scripts, build files, wording and layout, `diagnose_perf_open_failure()`.

## Plan

All modules and runs of the plan are written: the ring, the session and its
abstract specification, both queues, calibration, the report and the latency harness;
so are the proofs of their safety properties and of the four refinements. What could be
added are counters whose `time_enabled` differ at one moment, once it is settled by how
much they may, with `MuxHonest` and `NoFalseHalt` restated for it.
