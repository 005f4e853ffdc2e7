# Models of the GNU Radio scheduler benchmarks

This directory holds TLA+ models of the programs in this repository, the TLC
configurations that check them on small instances, and proofs, checked by TLAPS,
of what they guarantee for every size.

The repository measures the GNU Radio runtime: C++ programs build flowgraphs and
time them, custom blocks feed or probe them, and Python/eBPF scripts watch them
live. A Makefile drives the benchmarks through a campaign of thousands of
measurements, and the build extracts the blocks' documentation from Doxygen's XML.
A measurement is only worth something if the program did the work the
number is divided by: that every message and sample really went through, that
repetitions do not bleed into each other, that a latency mark is traced exactly
once on both sides, that a counter loses nothing, that a result file is complete. These are the
properties below.

- [Inventory](#inventory)
- [Modules](#modules)
- [Runs and bounds](#runs-and-bounds)
- [Fairness](#fairness)
- [Proofs](#proofs)
- [What is only model-checked](#what-is-only-model-checked)
- [Findings](#findings)
- [Abstractions and assumptions](#abstractions-and-assumptions)
- [Not modelled](#not-modelled)
- [Plan](#plan)

## Inventory

| component | state | operations | hard behaviour | what makes it correct |
|---|---|---|---|---|
| `msg_forward` (lib) | none of its own; two message queues of the scheduler | `handle_msg` publishes to every subscriber | subscribers run while the block still publishes | no edge loses, repeats or reorders a message |
| message benchmark (`run_msg_flowgraph.cpp`) | graph, repetition and burst counters, whatever the queues keep between runs | post a burst, post `done`, `run()`, print | two queues per thread, `done` overtaking data, blocks reused by every repetition, one sink with several `done`s | a repetition measures its own burst; every `run()` returns |
| `null_source_latency`, `null_sink_latency` (lib) | `nitems_written`, `nitems_read` | `work` traces marks `tx`, `rx` | marks computed from counters across arbitrary call borders, two threads | each mark once, in order, source before sink |
| `copy_rand` (lib) | random generator | `general_work` copies 1..m items | consumes before it produces, short copies | no buffer violated, every mark arrives |
| `ncopy` (lib) | 100 rows of 32768 floats | `work` copies through `d_n - 1` rows | bounds at `d_n` = 1, 2, 99; rows keep old items | output is input, rows in bounds |
| stream benchmark (`run_buf_flowgraph.cpp`, `python/run_buf_flowgraph.py`) | graph | `run()` | one buffer shared by all pipes, ending blocks mark shared buffers, endless source | every block processes the workload before it ends; `run()` returns |
| optimisation benchmark (`run_opti_flowgraph.cpp`) | graph, call limits, affinity | `run()` | short calls; `ncopy` in place of a chain | as above |
| `mon_mig.py`, `mon_tp.py`, `bcc_tp.py` | kernel hash table, series of the window | probe handlers add, a thread reads and clears, the GUI repaints | non-atomic add, read-then-clear, storage reuse, queued signals | counts are exact unless a known race happened; the window shows the last frames |
| `mon_cache.py`, `bcc_perf.py` | last counters, ring buffers, dictionary, `first` | `do_perf`, `handle_output` | dropped and overwritten events, a skipped dictionary that is kept | no event shown twice, none lost but by drop or overwrite |
| campaign (`Makefile`, `parse_*.sh`) | CSV files | make each file, parse all | benchmarks that die, interrupts, crashes, parsing while make runs | a file is complete unless something happened to it; nothing is measured or counted twice |
| Doxygen XML reader (`doxyxml/generated/`, `text.py`) | a tree of objects per file | `build` every element, `description`, `set_parameters` | 90 generated classes with content in two places, unknown elements, defects | words in order, paragraphs apart, no element of a loop lost, only defects fail |
| docstring scraper (`base.py`, `doxyindex.py`, `update_pydoc.py`) | lazily parsed objects, the dictionary of docstrings, the written headers | `scrape`, `sub`, `copy` | errors that are noted, caught or neither; names that collide; docstrings that are regular expressions | which bad files end a scrape; any other costs no docstring but its own; each placeholder gets its own |

The remaining parts (bindings, headers, GRC files, build files, setup scripts,
`cfs.bt`, plots) keep no state that the above do not; see [Not modelled](#not-modelled).

How they interact: the benchmark programs own the blocks and call into the
scheduler, which calls `work`, `general_work` and the message handlers from one
thread per block. Blocks share bounded stream buffers (one writer, several
readers) and post into each other's message queues. The monitors attach probes
to these calls, so their handlers run in the blocks' threads; handlers share a
kernel table or ring buffers with a poller thread, which sends frames by Qt
signals to the GUI thread. `make` runs the benchmarks one after the other and
shares nothing with them, nor with the parse scripts, but files. The documentation
tools run at build time and share nothing with the rest.

The hazards these interactions raise are listed with their lines in
`PROJECT.json`, each with the properties that cover it or the reason why none
does.

## Modules

Each module names in `PROJECT.json` ("map") the lines every definition stands for.

**`MsgDelivery`** (abstract): messages 1, 2, 3, ... are posted, and the end of each
pipe delivers them in this order, exactly once.

**`MsgFlowgraph`**: `run_msg_flowgraph.cpp` and `msg_forward`. `Subscribers` is the
graph built by `create_fork`/`create_diamond`. `phase`, `rep`, `burst` are `main`'s
loops; `PostMessage`, `PostDoneAndRun`, `RunReturns` its statements. Each block has
`inq` and `sysq` (its ports "in" and "system"), a program counter `pc` for one pass
of the scheduler's thread over its queues, and `finished`. `handle_msg` posts to one
subscriber per step, `NotifySubscriber` does the same for `done`. `order` is the
queue a thread looks at first: GNU Radio keeps ports in a map ordered by the
address of the interned name, so both orders occur and the model starts in either.
What is left in the queues when `run()` returns stays for the next repetition.

**`LatencyProbe`** (abstract): marks 1, 2, 3, ... traced at the source, later at the
sink, with at most `Window` under way.

**`LatencyPath`**: `null_source_latency`, any number of `copy_rand` blocks,
`null_sink_latency`. `written`/`read` are `nitems_written(0)`/`nitems_read(0)`,
`held` the items of the unfinished work call; `SourceTrace`/`SinkTrace` are one
tracepoint each, `CopyWork` ends with `consume_each(m)`, `CopyReturn` is the
`return m`.

**`StreamWorkload`** (abstract): every sink takes in its whole load, then `run()`
returns, and nothing is processed later.

**`StreamFlowgraph`** (with `MCStreamFlowgraph`): the graphs of `run_buf_flowgraph.cpp`,
`python/run_buf_flowgraph.py` and `run_opti_flowgraph.cpp`. `CommandLines` are the
options (program, topology, pipes, stages, samples, call limit) the model can start
with, `Graphs` what `create_fork`, `create_diamond`, `create_default`, `create_opti` and
`create_perf` build for each; `opt` and `tb` are those of the run. Per block:
`written`, `read`, `held` as above, `marked` (its output buffer is done) and `ended`.
`Work`/`Return` are a call, `End` is a thread's end, which marks the block's output and
its input buffers. The stream blocks used here come from GNU Radio, so these actions
are marked external; the graph, the limits and `run()` are the programs'.

**`Ncopy`** (with `MCNcopy`): the constructor's check, and `work` one `memcpy` at a time.

**`CounterMonitor`** (with `MCCounterMonitor`): `Load`/`Store` are the two halves of
a handler's `+=`, on an explicit storage `slot` that the kernel reuses;
`WakeUp`, `ReadEntry`, `ReadDone`, `ClearEntry`, `Emit` the plot thread; `Repaint`
the GUI. `raced` records whether one of the known races has happened.

**`CacheMonitor`**: `Miss` advances a processor's hardware counter, `do_perf` samples
it; `handle_output` collects the events in mon_cache.py, `handle_output_print` prints
them in bcc_perf.py (`program` says which runs). The counter of hits goes through the
same statements and is left out, but its key counts: a dictionary is complete with
`FrameKeys` keys, two of each processor, and so with half as many processors, whichever
they are. In the code the number is 8 (`mon_cache.py:79`), right for the four processors
2, 3, 6 and 7 of the measurements; `do_perf` leaves out 0, 1, 4 and 5 and no others, so on a
larger machine `Cpus` has more than four. `overrun` records drops and overwrites.

**`Totals`**: the sum of a sequence of numbers, which the two monitors' balances are stated with.

**`Campaign`** (with `MCCampaign`): `make` goes through the result files of its goal;
`Launch` is the start of a recipe, `PrintRow`, `BenchmarkEnds` and `BenchmarkDies` the
benchmark, `GrepWrites` and `GrepEnds` the other end of its pipe, whose status make
takes. `Interrupt` deletes the file being made as GNU make does, `Crash` leaves it as
far as it was written. `StartParse`, `CatFile`, `ParseDone` are a parse script, which
may run at any time; `cats` are the files it has still to append. `broken`, `early` and `failed` remember what went wrong.

**`XmlSchema`, `CompoundSuper`, `IndexSuper`, `CompoundInit`, `IndexInit`**: the classes
generateDS wrote differ only in data, so they are tables. A row of `CompoundSuper` or
`IndexSuper` says which attributes, text and children `buildAttributes` and
`buildChildren` of one class read, and how they store them; the row of the same name
in `CompoundInit` or `IndexInit` says which fields `__init__` makes, and which of them
are lists. The two are written from different code and need not fit: that they do is
what `LoopsMissNothing` and `FailsOnlyOnDefects` check.

**`XmlBuild`**: the walk they share. `stack` holds the `build` calls under way; `Enter`,
`BuildText`, `BuildElement`, ... `Return` are one child of `buildChildren` each.
`docParaTypeSub` is the subclass of `compound.py` that keeps a paragraph's children in
`content`. The documents are a constant; of their elements and texts (`NodesIn`) it is
assumed only that the children of one are among them, and that a node that is no element
has the name minidom gives it.

**`DoxygenXml`** (with `MCDoxygenXml`): what `text.py` (`description`) and `doxyindex.py`
(`set_parameters`) make of the objects that `XmlBuild` builds.

**`DocScrape`**: `update_pydoc.py scrape` on an xml directory (`Worlds`): `DoxyIndex._parse`
compound by compound, `Block.includes`/`Block2.includes` with the parsing they cause
(`parsed`), then the loops of `get_docstrings_dict` over blocks, functions and classes
into `output`. A compound's file (`xml`) is sound, not well formed ("malformed"), not there, or
well formed with a defect that `compound.parse` stumbles over ("defective", the defects of
`XmlBuild`): only the second is caught. An exception that nothing catches ends in `pc`.

**`Docstrings`** (with `MCDocstrings`): `sub` and `copy` on top of it: every entry is
tried on every template, and the status file written. `Matches` and `Substituted` are the
regular expression made of a key and its replacement; the names of operators that are
special in it are modelled by what they do to the pattern.

**`MsgFlowgraph_proofs`, `LatencyPath_proofs`, `StreamFlowgraph_proofs`, `Ncopy_proofs`,
`CounterMonitor_proofs`, `CacheMonitor_proofs`, `Campaign_proofs`, `XmlBuild_proofs`**: theorems,
see [Proofs](#proofs).

Definitions called `..._Something` after a mapped definition and commented
"Mutant:" are plausible bugs of that definition. Replacing the definition by the
mutant must break a property; this shows that each property depends on the code.

## Runs and bounds

| run | instance | distinct states | question |
|---|---|---|---|
| `msg_fork` | fork, 2 pipes x 2 stages, 2 messages, 2 repetitions, both orders | 1,055,878 | are messages conserved on every edge, does `done` stay behind the data, does each repetition measure its own burst, is delivery in order and exactly once |
| `msg_diamond` | diamond, 2 pipes x 1 stage, 1 message, 3 repetitions | 222,350 | does what the sink leaves behind stay bounded from repetition to repetition, does every `run()` return whatever it finds |
| `msg_workload` | diamond, 2 pipes x 1 stage, 1 message, 1 repetition | violation | with "system" drained first, is the workload done when the time is taken |
| `latency` | 2 `copy_rand` of at most 2 items, granularity 2, buffers of 3, 7 items | 8,370 | are buffers respected, marks exact, causal and within the window, does every mark arrive |
| `stream` | the 7 topologies of the 3 programs, 2 pipes x 1 or 2 stages, 2 or 3 samples, buffers of 2, calls of 1 item for `opti` and `perf` | 192,603 | does the shared buffer keep the pipes in step, does no block end early although ending blocks mark shared buffers, is the run timed over exactly its workload, does `run()` return |
| `ncopy` | arguments -1..4 of an accepted maximum of 3, rows of 2 items | 248 | rows in bounds, every call's output equal to its input, as many copies as the chain |
| `monitors` | 2 processors, 2 keys (one of them shown), 3 events, 4 polls, series of 2, interval of half a second | 4,065,817 | does the window show the last frames, as rates but for the first value of a series; are races the only losses |
| `mon_cache` | both programs, 2 processors, 4 ticks and 2 misses each, rings of 2 | 407,890 | is no miss shown twice or lost without a drop, does no frame or line repeat an event |
| `campaign` | 2 message files of 2 rows (one with `-t`), 1 stream file of 1 row; 2 faults, 3 makes, 2 parses | 1,245,443 | which files can be short, is nothing measured again, how far does a broken file spoil a table |
| `doxygen_xml` | every class with up to 2 children of every kind it reads, reads wrongly or does not read; descriptions of up to 2 paragraphs or sections, paragraphs of up to 3 parts | 100,867 | is a comment read with its words, paragraphs and parameters, is no element of a loop lost, does a build fail only on defects |
| `docstrings` | up to 3 of 25 compounds, 2 templates of 2 placeholders, with and without filter | 47,897 | what ends a scrape, are all readable classes covered, does no docstring replace or land in another's |
| `docstrings_operator` | a class with `operator\|`, with the filter of the bindings | violation | has a placeholder its own docstring or none |

Why these are enough. Two pipes are needed for a publication that is half done and
for blocks that share a buffer or a sink; a third adds only more of the same
readers. Two stages give a middle block, which has both neighbours of its own kind.
Two messages let one overtake another; two repetitions let one leave something to
the next, and three show whether it accumulates. Granularity 2 with buffers of 3
puts marks inside, on and across the borders of calls. Buffers smaller than the
samples make them fill up and wrap the flow around. In `Ncopy` the numbers 99, 100
and 32768 are scaled to 3, 4 and 2, in the stream run 8192 to 1 or 2; only their
order matters. In `CounterMonitor` a counter has 16 values and an `int` 4, so that a
register with -1 in it is as far out of range as in the code. Four polls with
series of two values let a series appear, move, be deleted and come back. Two frames of the
cache monitor take at least two events of each processor (the first complete
dictionary is skipped but kept, so the next event emits it); four ticks leave room
for events that are dropped or overwritten in between. In `Campaign` two files of one
kind give a broken file a neighbour in the table, a third is made between a fault and
the rerun; two faults let a rerun fail as well, three makes leave one to find all
files in place, two parses let one follow another. In `DoxygenXml` two children show
whether the second is appended or replaces the first, and three parts put text before
and after every kind of inline element; the classes are all there. In `Docstrings`
three compounds can be a class, the function that makes it a block and the header both
are documented by, or a block and two others whose names or errors touch it; the 25
differ in kind, in whether their file is sound, malformed, missing or defective, in the
members that make a block, in operators with a bar or a bracket in their name, and in
comments that start with digits or hold a parenthesis. The
proofs remove the bounds of the properties they prove: of all but the liveness
properties, `DescriptionFaithful` and those of the run `docstrings`.

The bounds `MaxItems` (`LatencyPath`), `MaxEvents`, `MaxFrames` (`CounterMonitor`),
`MaxMisses` and `MaxTicks` (`CacheMonitor`), `MaxFaults`, `MaxMakes` and `MaxParses`
(`Campaign`) appear as guards; everything else that
is finite is finite in the program. When a bound is reached and nothing is left to
do the models stutter (`Finished`, `Done`), so deadlock is checked in every run but
those of the two documentation tools, which are sequential programs that end.

## Fairness

`FairSpec` asks for weak fairness of `main` and of each block's thread, as a whole:
the operating system runs every runnable thread eventually, and the scheduler's
condition variables wake a thread when its queues or buffers change. No step is
asked to be strongly fair, and nothing is assumed about which of a thread's
alternatives is taken: `copy_rand` may copy one item each time, work calls may be as
short as they like. In real-time mode (`-t`) on a shielded CPU set all threads have
the same priority and block when they cannot go on, so none is starved for ever. The
monitors, the campaign and the documentation tools have no liveness properties: a
user ends the first two whenever he likes.

## Proofs

`tlapm` checks every leaf of the `_proofs` modules. Assumptions: the `ASSUME`s of the
models and nothing else (at least one pipe; any number of stages, also none except
where the program crashes; any burst and repetitions; any chain, buffer size,
granularity from 1 on and `max_copy`; any finite number of processors, any number of keys
that complete a frame, of rows, result files and faults; any documents of elements and text
that are read with a class of the tables). Two theorems, `ChainNeverStuck` and
`CountingExact`, have a hypothesis of their own, explained below.

`MsgFlowgraph_proofs`:

| theorem | says |
|---|---|
| `TypeCorrect`, `Conservation`, `DoneBehindData`, `NoMessageStranded` | `TypeOK`, `EdgesConserveMessages`, `DoneFollowsData`, `NothingStranded` are invariants |
| `RepetitionExact` | the action property `RepetitionMeasuresItsBurst` |
| `SinkBacklog` | `SinkBacklogBounded` is an invariant |
| `ImplementsDelivery` | the flowgraph implements `MsgDelivery` |
| `SinkConservation` | `SinkConserves` is an invariant |
| `RunsNeverStuck` | until `main` is through, it or a thread can go on |
| `ProgressEnds`, `EveryStepCounts` | every run is finite |

The inductive invariant `Inv` adds three things to the checked properties.
`Controlled` ties the threads' program counters to `main` (threads live only in a
run, end only when finished). `Counted` says that blocks take messages by number and
never more than were posted. `DrainedWhenFinished` is what makes `NothingStranded`
inductive: with "system" drained first, a block that became finished got its `done`
after all the data, so the pass over "in" that follows empties the queue for good;
"the queue is empty" alone is not kept by its upstream block, "empty and everything
posted was handled" is. The proof needs no induction along the pipe: `WiredUp` and
`WiredDown` show that each block of a pipe is one subscriber of exactly one block,
and each step disturbs only the edges next to it.

`SinkBacklogBounded` speaks of the moments between two runs, when it cannot be seen why
the sink leaves so little. `BacklogInv` follows a run: once the sink's thread has drained
a queue in a repetition, what has come from earlier repetitions is gone, and the queue
holds at most what has been sent since. That is counted by sets, the pipes that have
sent their `done` (`DoneSenders`) and the pairs of a pipe and a message of this
repetition that the pipe has sent (`Arrived`), whose sizes are `Pipes` and
`Pipes * BurstSize` at most. `BurstsApart` says that with "system"
drained first messages of two repetitions are never under way together in a pipe.

`RunsNeverStuck` is what the runs check as freedom from deadlock, for every size. If all
threads that have not ended sleep, the one nearest the source would have its `done`:
the source from `main`, a stage from its upstream block, which has ended
(`DoneFollowsData`), the sink of a diamond from the pipe that ended (`ToldInv`). `ToldInv`
also says that no thread goes to sleep once it has handled a `done`.

`SinkConserves` holds for the sink of a diamond, whose queues all pipes share: what it
has handled and what lies in a queue are together what has been sent there in all
repetitions. `Sent` is a set of triples (repetition, pipe, message) that only grows, one
element for each publication of a last stage (`SentMoves`); its cardinality is counted
against lengths, which is why the lemmas need finite sets.

`ProgressEnds` and `EveryStepCounts`: a block's `Progress` counts what it has taken and
passed on, weighted by `Width`, and adds its thread's place in the pass over the queues.
Going round the pass costs less than one message is worth, a thread that sleeps has no
step until something was posted, and what is posted is bounded by the repetitions. So
every step of a thread raises its block's `Progress` and lowers no other's, and there is
a bound for it: with `RunsNeverStuck`, a run that takes any step it can comes to the end
of its repetitions.

`LatencyPath_proofs`:

| theorem | says |
|---|---|
| `TypeCorrect`, `BuffersSafe`, `MarksOnce`, `Causality` | `TypeOK`, `BuffersRespected`, `MarksExact`, `MarksCausal` are invariants |
| `ImplementsProbe` | the chain implements `LatencyProbe` |
| `ChainNeverStuck` | until all items have come through, a block can move items |
| `ProgressEnds`, `EveryStepCounts` | every run is finite |

`BuffersRespected` speaks of neighbours; causality compares the two ends of a chain
of any length. Instead of induction on the length, `BufferInv` states for every pair
of a writer and a later reader that the reader is not ahead (`ChainOrdered`) and
that what lies between fits in the buffers between (`InFlightBounded`): each step
changes one block, and the pair's bound follows from that of the block next to it.
`TxInv` and `RxInv` are the two halves of `MarksExact` with the loop variables'
bounds. `DivSum` and `MarksFacts` are the arithmetic: marks of successive calls add
up without gap or overlap.

`ChainNeverStuck` assumes that `max_copy` is not 0 (the default is 0xffffffff) or that there
is no `copy_rand`: with 0 the calls copy nothing, for ever. The block nearest the sink
that has input finds the buffer behind it empty, so it has room; if no block has input,
the source has room. `Progress` of a block counts the items it has let in and out, its call
and its marks: no step but a stutter leaves it as it is, even with `max_copy` 0, and it
is bounded by what the source offers. So a run that takes any step it can comes to its end.

`StreamFlowgraph_proofs`:

| theorem | says |
|---|---|
| `TypeCorrect`, `InStep`, `NoEarlyEnd` | `TypeOK`, `PipesInStep`, `EndsAfterWorkload` are invariants |
| `ImplementsWorkload` | the flowgraph implements `StreamWorkload` |
| `RunsNeverStuck` | until all threads have ended, one can work, return or end |
| `StagesEnd`, `EveryStepCounts` | every run is finite |

The first part is about the graph: for every command line each block but the sources
reads from blocks that write (`Wiring`), each writer has a reader, and the workload of a
block is what its upstream blocks pass on (`Workloads`). Then `BufferInv`: on each edge
the reader, with the items of its unfinished call, is not ahead of the writer, the
writer not more than a buffer ahead of the reader, and nobody takes more than its
workload. `EndInv` is what makes early marks harmless. A buffer may be marked done by
any of its readers; but a block ends only with its workload behind it, so a marked
buffer belongs to a block that has its workload behind it as well, or to a source all
of whose readers have ended. `EndsComplete` shows that both ways for a block to end
(an empty done input, a done output) then mean that it has read its whole workload.

For `RunsNeverStuck` suppose no thread can move, and take of the blocks between the
sources and the sinks that have not ended the one that has read least, and of those
the one nearest to the head. It has room: whoever reads from it has read no less. It has
input, or its input is done: the block it reads from has read as much and is nearer to
the head, so it would have been taken, or has ended and left its mark (`MarksInv`). So
all of them have ended, and then sinks and sources can end. A thread's `Stage` counts its
items, its call and its end: `StagesEnd` bounds it, `EveryStepCounts` says that each step
raises one and lowers none. A run therefore ends after finitely many steps if it takes
any step it can; only that it does is left to fairness.

`Ncopy_proofs`:

| theorem | says |
|---|---|
| `TypeCorrect`, `EmulatesChain` | `TypeOK` (with the bounds of the rows), `CallIsChain` are invariants |

`LoopInv` says that in round `i` row `i` begins with the offered items after `i + 1`
copies, whatever the row held before.

`CounterMonitor_proofs`:

| theorem | says |
|---|---|
| `TypeCorrect` | `TypeOK` is an invariant: no two keys share an entry, a series is as long as its axis |
| `WindowIsHistory` | `SeriesShowRates` is an invariant, for any interval that divides a second |
| `CountingExact` | `ExactUnlessRaced` is an invariant where calls return numbers up to some `most` and the counter is wider than `most * MaxEvents` |

`KernelInv` types what a handler carries from its load to its store, `SignalsInv` says
that the signals under way are the last frames emitted, in order. The window then moves
with the painted frames: `HistoryMoves` says that a frame more shifts the history of a
key by one place, `MovedFacts` that `repaint` does the same to its series, and a series
that does not exist stands for a history of zeros. The first value of a series is not
divided by the interval (see [Findings](#findings)), and so what is plotted for a frame
depends on the `NVals` frames before it: `HistoryEmpty` says that they hold no count of a
key if and only if its series does not exist.

`RaceInv` is behind `CountingExact`: as long as no race has happened, what the handlers have stored is
what has been emitted, plus what the frame in work has read but not cleared, plus what
the table holds (`Counted`); and what a handler between load and store has loaded is still
what the table says, at an entry that no other handler holds and that is still its key's
(`HoldersApart`). `CallsBounded` keeps the counters from wrapping. The hypotheses hold for
mon_mig.py, where a call adds 1 and a counter has 64 bits (`mon_mig.py:22`): no session
sees 2^64 migrations. They exclude the -1 of a finished block, which mon_tp.py counts as samples.

`CacheMonitor_proofs`:

| theorem | says |
|---|---|
| `TypeCorrect`, `FramesMoveForward` | `TypeOK`, `FramesAdvance` are invariants |
| `MissesExact` | `MissesShownOnce` is an invariant |

`TypeOK` says two things about frames. For any processors and any `FrameKeys` the dictionary
is complete only between the frame that is skipped and the first that is shown: every
later one is emptied at once. And if all processors together have no more than `FrameKeys`
keys, a frame has an event of each: a complete dictionary then has them all
(`CompleteFrame`, a subset of a finite set that is as large is the set). With the 8 of the
code that is the case of the four processors 2, 3, 6 and 7; where there are more,
frames are not complete in this sense, and the theorem does not say that they are; that no
miss is shown twice and no processor's events go backwards holds there as well.

`FramesAdvance` speaks of what has been shown and is not inductive: the events still in
the ring and in the dictionary could be older. `Ordered` puts all events of a processor
in a row (shown, dictionary, ring, next tick) whose ticks increase; the dictionary that
mon_cache.py skips and keeps stays at its place in the row. `MissInv` adds up the misses
along the same row; it is kept because an event moves along the row or, if it is
dropped or overwritten, is recorded in `overrun`.

Both counting arguments need to know that a sum grows by what is appended and loses its
first element with it (`TotalAppend`, `TotalTail`). `Total` is a recursive function, and
no induction theorem of the library can be used (they take an operator as a parameter);
but that `<` is well-founded on the natural numbers and that a set has a minimal element
then (`WFMin`) can be cited: the least length at which a claim fails is the induction step
(`Induction`).

`Campaign_proofs`:

| theorem | says |
|---|---|
| `NothingMeasuredAgain` | the action property `MeasuredOnce` |
| `FilesSettled` | `SettledFiles` is an invariant |
| `TypeCorrect`, `TablesSound` | `TypeOK`, `TableSound` are invariants |

`OutputInv` says what the benchmark has printed while its file is made: the rows 1 to r
behind at most one complaint, with r the number asked for once the benchmark has ended
by itself. `MakeInv` keeps the file being made in existence.
`TextsInv` says of every text on disk, finished or not, that it is the beginning of such
an output and that only its last piece can be cut off; it also holds of what a crash or a
death leaves. `TableInv` says that a table has every piece once, and none of the files
the script has still to append (`cats`), although files are made and deleted while it
reads. The rest of `TypeOK` is in `RestInv`.

`XmlBuild_proofs`:

| theorem | says |
|---|---|
| `TypeCorrect`, `LoopsComplete` | `TypeOK`, `LoopsMissNothing` are invariants |
| `FailuresJustified` | `FailsOnlyOnDefects` is an invariant |

The tables are data, so they are looked into once, class by class (`IndexFits`,
`CompoundFits`): a class appends only to fields that its `__init__` has made lists, and a
child that becomes an object has a class of the same file (`Fits`); each of the loops of
the readers goes over a list that one kind of child is appended to, and nothing else
(`LoopFits`). This is where a slip of the generator would show. The rest of the proof is
about any tables like that and documents of any size. `StackFits` says that each call
under way is the build of the child its caller stands at, and that a defect in that child
is one of the document; `Gathered`, that the list of a loop has the objects of the children of
that name passed so far, the n-th at place n; `FrameFits`, that no child passed so far was
harmful, so that a call that returns has built an element without a defect.

What a defect of a document is, is said by a recursive function (`Defective`), and before
its equation can be used it has to be shown that such a function exists (`Unfold`). That
needs no induction: the union of all sets of pairs of a class and an element, each of
which is broken in itself or by a child in the set, is one.

## What is only model-checked

- Liveness: `MainTerminates`, `MarksArrive`, `RunTerminates`. TLAPS does not reason
  about `ENABLED`, on which fairness rests. What can be said without it is proved: the
  models of the three benchmarks never get stuck, and their runs are finite.
- `DescriptionFaithful`. The words of a comment and of the object built from it are both
  collected by recursion over a tree (`Words`, `description_bit`); that they agree is an
  induction over data.
- The five properties of `Docstrings`. `DocScrape` filters lists with `SelectSeq` and goes
  through them with `FoldLeft`, operators that take an operator, which the provers cannot
  look into; and in general the properties need assumptions on the names of a project (no
  two classes whose `make_name` is the same, no class named like a method of its
  namespace) that the code nowhere checks. Both are checked against all documents of
  their bounds instead.

## Findings

Each is a counterexample of a run marked "violation", quoted in `PROJECT.json`.

1. `msg_workload`: a diamond's sink ends at the first of its `done`s
   (`run_msg_flowgraph.cpp:66`), so the run time is taken while messages of the slower
   pipes lie in its queue; the next repetition is charged for them. The property is
   about threads that drain "system" first, with which no block of a pipe leaves a message
   behind (`NothingStranded`): the trace ends with one in the sink's queue. `SinkBacklogBounded`
   shows that the backlog does not grow.
2. `docstrings_operator`: a key goes into a regular expression unescaped
   (`update_pydoc.py:285`). That of an `operator|` makes two branches of it, and the second
   matches the first placeholder of the file: the docstring of the class, put there a moment
   ago, is overwritten with the operator's, and the status file says PASS. For the other
   files `PlaceholdersFilled` shows that every placeholder has its own.

Met while modelling, without a run of their own:

- Monitors. What a handler adds between the reading and the clearing of an entry is
  deleted unread (`bcc_tp.py:37-39`; `mon_mig.py` and `mon_tp.py` alike); `ExactUnlessRaced`
  allows for it by `raced`. The first value of every new series is the bare count of an
  interval of half a second (`mon_tp.py:109`), half the throughput that line 102 makes of it;
  `SeriesShowRates` says of every other value that it is a rate, and when this one occurs.
- Campaign. The status of a recipe is that of `grep`, so a benchmark that dies after its
  first line leaves a short file behind a make that succeeds, and no later make repeats
  it (`Makefile:46`, 65, 82); `SettledFiles` says it of no other file. A crash leaves a
  cut line, and `cat` glues the next file's first row to it (`parse_msg.sh:11`);
  `TableSound` says that it costs no other row. The complaint about real-time rights
  goes to stdout and into the file (`run_msg_flowgraph.cpp:116`).
- Documentation. Words inside inline markup (`bold`, `computeroutput`, ...) are not in the
  docstring (`compound.py:467-488`). An index with a kind of compound the tool does not
  know, a malformed header or namespace file, a class, header or namespace file that is
  missing or has a defect inside (`base.py:185` catches only what expat raises), or a block
  whose make function is not found exactly once ends the scrape without a result. A docstring that starts with two
  octal digits breaks its placeholder, one that starts with another digit is left out
  (`update_pydoc.py:288`); one with a `)` can no longer be replaced (line 285).

And, from the benchmarks: if threads drain "in" before "system", a block of
a fork can also end with messages left (the properties that need the other order say
so); `mon_cache.py` emits, as its first frame, the stale values of the dictionary it
meant to skip, for all processors but one; probes with granularity 0 divide by zero;
more than four pipes read past `cpu_map` in `run_opti_flowgraph.cpp`; with `perf` the
averages divide by zero blocks; the return value -1 of a block that has finished
(`WORK_DONE`) is added as 2^32 - 1 or 2^64 - 1 samples (`bcc_tp.py:16`, `mon_tp.py:26`;
`TypeCorrect` and `WindowIsHistory` are proved with such calls, `ExactUnlessRaced` without); "hits" are
cache references, misses included (`mon_cache.py:90`), and `bcc_perf.py:59` never opens
the event that would count them.

## Abstractions and assumptions

- GNU Radio, bcc and the kernel are external. They are modelled as the code uses
  them: one thread per block; a buffer with one writer and several readers; a work
  call gets at most the free room and the available items; a `done` makes the block
  finished and is passed on when its thread ends. GNU Radio caps a call at half the
  buffer; the model allows any length, which includes that. `BufferSize` is the usable
  capacity.
- `finished` is looked at after each pass over the queues. The scheduler may make one
  more pass, which is the same as a pass that starts later.
- Both probes of a latency measurement have the same granularity, and the source is
  connected to the sink by a chain.
- `default` and `opti` need at least one stage; a diamond's buffers hold at least one
  item of every pipe.
- Contents of messages and samples are not modelled, except in `Ncopy`, where they
  are the point. Timestamps, printing, options and real-time priority are left out.
- The register with an `int` of -1 holds 2^32 - 1 or 2^64 - 1, depending on how the
  compiler extends it: the model allows both.
- The pipes of `make` are modelled for one job at a time; the recipes set variables with
  `$(eval)` and the setup is shared, so the campaign is not made for `-j`.
- In the Python benchmark the number of samples is a float, as `eng_float` parses it; the
  model has its integer.
- What `grep` and `cat` have written is taken to be on the disk, and so to survive a crash,
  although no recipe syncs (`Makefile:46`, 65, 82): a file system that loses the last seconds
  could also shorten files that had been finished.
- The placeholders of a template are names of C variables, and none begins with the name of
  an operator. `operator[]` stands for the names no pattern can be made of (before Python
  3.11 also `operator++`); `operator|` and `operator||` are the ones that part the pattern.
- Texts, comments and names are abstracted to what the properties tell apart: a word is
  its place in the document, a name a sequence of words, a comment one of five kinds
  (none, plain, with a parenthesis, starting with a digit, starting with octal digits).
- The lookup and the load of a handler are one step: between them nothing can change
  that the store would not overwrite anyway.

## Not modelled

- `python/run_msg_flowgraph.py`: its blocks are GNU Radio's `pdu_filter`, and whether one
  passes on what the script posts is not decided by anything in `src/`.
- Of the generated classes `export`, `exportLiteral`, `get_`, `set_` and `find`, which
  nothing calls; of `doxyindex.py` `DoxyGroup`'s contents and `from_refid`, which the
  scraper never reaches; the layout of docstrings.
- The targets `migrations`, `resched` and `clean` of the `Makefile`: a profile and a filter
  each. Ctrl-C of a parse script, which leaves a table the next parse removes.
- `cfs.bt` and the scripts of `eval/`: increments and filters without an order that
  matters; `trace.bt` (commented-out alternatives), `bcc_output_distri.py` (one atomic
  increment), setup and profiling scripts, bindings, GRC descriptions, headers, build
  files: no behaviour of their own.
- Processor affinity only restricts interleavings the models already contain; the
  averages of performance counters are arithmetic on values GNU Radio supplies.

## Plan

Done, in this order: `MsgDelivery`/`MsgFlowgraph` and proofs, `LatencyProbe`/`LatencyPath`
and proofs, `StreamWorkload`/`StreamFlowgraph`, `Ncopy`, `CounterMonitor`, `CacheMonitor`,
`DoxygenXml`, `DocScrape`/`Docstrings`, `Campaign`, proofs of `StreamFlowgraph`, `Ncopy`,
`CounterMonitor`, `CacheMonitor` and `Campaign`, `Totals` and the balances of the monitors,
freedom from deadlock and finite runs of the three benchmarks, `XmlBuild` and its proofs.

Next:

1. `DocScrape` with recursive functions in place of `SelectSeq` and `FoldLeft`, then
   `ScrapeFailsOnlyFor` for every index whose names the functions of the scraper tell apart.
2. The hit counters of the cache monitors next to those of the misses, once what an
   unopened event counts is decided.
