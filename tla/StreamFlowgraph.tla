--------------------------- MODULE StreamFlowgraph ---------------------------
(***************************************************************************)
(* The stream benchmarks: utils/run_buf_flowgraph.cpp ("fork", "diamond"), *)
(* its predecessor utils/python/run_buf_flowgraph.py (the same with        *)
(* fir_filter in place of copy) and utils/run_opti_flowgraph.cpp           *)
(* ("default", "opti", "perf") build graphs of null_source, head, copy or  *)
(* ncopy, interleave and null_sink blocks and measure the time one         *)
(* tb->run() takes.                                                        *)
(*                                                                         *)
(* The blocks but ncopy and the scheduler belong to GNU Radio and are      *)
(* modelled from the way the programs use them.  Every block has a thread  *)
(* and, if it has an output, one bounded buffer that all its readers       *)
(* share.  A thread whose block cannot go on for good ends and marks its   *)
(* own output buffer and the buffers it reads as done: readers end when    *)
(* they have emptied a done buffer, writers when they have filled one.     *)
(***************************************************************************)
EXTENDS Integers, FiniteSets

CONSTANTS
    CommandLines,  \* the options of the runs: see IsCommandLine
    BufferSize     \* items an output buffer holds

\* program: which of the three is run.  config, pipes, stages, samples: its options.
\* max_noutput: the argument of set_max_noutput_items, used by "opti" and "perf".
Configs == [cpp |-> {"fork", "diamond"}, python |-> {"fork", "diamond"},
            opti |-> {"default", "opti", "perf"}]
IsCommandLine(o) ==
    /\ o \in [program : DOMAIN Configs, config : UNION {Configs[p] : p \in DOMAIN Configs},
              pipes : Nat \ {0}, stages : Int, samples : Nat, max_noutput : Nat \ {0}]
    /\ o.config \in Configs[o.program]
    \* create_default and create_opti take the last block of an empty vector if there is no stage.
    /\ o.config \in {"default", "opti"} => o.stages >= 1
    \* interleave writes one item of every pipe at a time.
    /\ o.config = "diamond" => BufferSize >= o.pipes

ASSUME BufferAssumption == BufferSize \in Nat \ {0}
ASSUME CommandLinesAssumption == \A o \in CommandLines : IsCommandLine(o)
-----------------------------------------------------------------------------
(* The graph that is built for command line o *)

\* Mutant: every pipe of run_buf_flowgraph has a head of its own.
Root_PerPipe(o, p) == p

\* run_buf_flowgraph has one source and head for all pipes, run_opti_flowgraph one for each.
Root(o, p) == IF o.config \in {"fork", "diamond"} THEN 0 ELSE p
Roots(o) == {Root(o, p) : p \in 1..o.pipes}

\* "perf" has one ncopy block instead of the chain of copy blocks; the first block of a
\* chain is made before the loop over the stages.
ChainLength(o) == IF o.config = "perf" \/ o.stages < 1 THEN 1 ELSE o.stages

Source(r) == <<"source", r, 0>>
Head(r) == <<"head", r, 0>>
Copy(p, s) == <<"copy", p, s>>
OutCopy(p) == <<"outcopy", p, 0>>
Sink(p) == <<"sink", p, 0>>
Interleave == <<"interleave", 0, 0>>

Sources(o) == {Source(r) : r \in Roots(o)}
Heads(o) == {Head(r) : r \in Roots(o)}
Copies(o) == {Copy(p, s) : p \in 1..o.pipes, s \in 1..ChainLength(o)}
OutCopies(o) ==
    IF o.program = "python" /\ o.config = "fork" THEN {OutCopy(p) : p \in 1..o.pipes} ELSE {}
Joins(o) == IF o.config = "diamond" THEN {Interleave} ELSE {}
Sinks(o) == IF o.config = "diamond" THEN {Sink(0)} ELSE {Sink(p) : p \in 1..o.pipes}
Writers(o) == Sources(o) \cup Heads(o) \cup Copies(o) \cup OutCopies(o) \cup Joins(o)
Readers(o) == Heads(o) \cup Copies(o) \cup OutCopies(o) \cup Joins(o) \cup Sinks(o)
Blocks(o) == Writers(o) \cup Readers(o)

\* The block a copy block reads from; every create_ function chains the stages of a pipe so.
Chain(o, b) == IF b[3] = 1 THEN {Head(Root(o, b[2]))} ELSE {Copy(b[2], b[3] - 1)}

\* The blocks whose output b reads.
create_fork(o, b) ==
    IF b \in Heads(o) THEN {Source(b[2])}
    ELSE IF b \in Copies(o) THEN Chain(o, b) ELSE {Copy(b[2], ChainLength(o))}

create_diamond(o, b) ==
    IF b = Interleave THEN {Copy(p, ChainLength(o)) : p \in 1..o.pipes}
    ELSE IF b \in Sinks(o) THEN {Interleave} ELSE create_fork(o, b)

\* The fork in Python has a copy block between the filters and the sink of a pipe.
py_create_fork(o, b) ==
    IF b \in OutCopies(o) THEN {Copy(b[2], ChainLength(o))}
    ELSE IF b \in Sinks(o) THEN {OutCopy(b[2])} ELSE create_fork(o, b)

Connected(o, b) ==
    IF b \in Sources(o) THEN {}
    ELSE IF OutCopies(o) # {} THEN py_create_fork(o, b)
    ELSE IF o.config = "diamond" THEN create_diamond(o, b) ELSE create_fork(o, b)

\* interleave writes one item per pipe for each item it takes from every pipe.
RateOf(o, b) == IF b = Interleave THEN o.pipes ELSE 1

\* tb: what the runs of all command lines start from.
Graphs ==
    [o \in CommandLines |->
        [blocks |-> Blocks(o), writers |-> Writers(o), readers |-> Readers(o),
         heads |-> Heads(o), sinks |-> Sinks(o),
         inputs |-> [b \in Blocks(o) |-> Connected(o, b)],
         outputs |-> [b \in Writers(o) |-> {c \in Readers(o) : b \in Connected(o, c)}],
         rate |-> [b \in Writers(o) |-> RateOf(o, b)]]]
-----------------------------------------------------------------------------
VARIABLES
    opt,      \* the command line
    written,  \* written[b]: items block b has written
    read,     \* read[b]: items block b has read from each of its inputs
    held,     \* held[b]: items per input of the work call b is in, 0 between two calls
    marked,   \* marked[b]: b's output buffer is done
    ended,    \* ended[b]: the thread of b has ended
    returned  \* tb->run() has returned

vars == <<opt, written, read, held, marked, ended, returned>>

tb == Graphs[opt]
Inputs(b) == tb.inputs[b]
Outputs(b) == tb.outputs[b]
Rate(b) == tb.rate[b]

\* Mutant: the head lets a workload pass for every pipe behind it.
HeadLimit_PerPipe == opt.pipes * opt.samples

\* Mutant: the pipes share one workload.
HeadLimit_Split == opt.samples \div opt.pipes

\* What head::make(.., d_samples) lets pass.
HeadLimit == opt.samples

\* The items a sink takes in over a run.
Load == IF opt.config = "diamond" THEN opt.pipes * opt.samples ELSE opt.samples

\* The most items a work call is offered.
CallLimit == IF opt.config \in {"opti", "perf"} THEN opt.max_noutput ELSE BufferSize

\* There is room for n items in b's output buffer: its slowest reader decides.
HasRoom(b, n) == \A c \in Outputs(b) : n <= BufferSize - (written[b] - read[c])

Available(b, a) == written[a] - read[b]   \* items b finds in the buffer of its input a

\* Items per input that b's output buffer and its inputs let b work on.
Fits(b, n) ==
    /\ b \in tb.writers => HasRoom(b, n * Rate(b))
    /\ \A a \in Inputs(b) : n <= Available(b, a)

Init ==
    /\ opt \in CommandLines
    /\ written = [b \in tb.writers |-> 0]
    /\ read = [b \in tb.readers |-> 0]
    /\ held = [b \in tb.blocks |-> 0]
    /\ marked = [b \in tb.writers |-> FALSE]
    /\ ended = [b \in tb.blocks |-> FALSE]
    /\ returned = FALSE
-----------------------------------------------------------------------------
(* The thread of block b *)

\* A work call on n items; a head copies no more than its limit.
Work(b) ==
    /\ ~ended[b] /\ held[b] = 0
    /\ \E n \in 1..CallLimit :
          /\ Fits(b, n)
          /\ b \in tb.heads => n <= HeadLimit - written[b]
          /\ held' = [held EXCEPT ![b] = n]
    /\ UNCHANGED <<opt, written, read, marked, ended, returned>>

Return(b) ==
    /\ held[b] > 0
    /\ written' = IF b \in tb.writers THEN [written EXCEPT ![b] = @ + held[b] * Rate(b)] ELSE written
    /\ read' = IF b \in tb.readers THEN [read EXCEPT ![b] = @ + held[b]] ELSE read
    /\ held' = [held EXCEPT ![b] = 0]
    /\ UNCHANGED <<opt, marked, ended, returned>>

\* There is room for output, but an input is done and empty.
InputOver(b) ==
    /\ b \in tb.writers => HasRoom(b, Rate(b))
    /\ \E a \in Inputs(b) : marked[a] /\ Available(b, a) = 0

\* The output buffer is done and full.
OutputOver(b) == b \in tb.writers /\ marked[b] /\ ~HasRoom(b, Rate(b))

\* head has reached its limit and says so when it is called once more.
HeadOver(b) == b \in tb.heads /\ written[b] = HeadLimit /\ Fits(b, 1)

\* Mutant: an ending block tells its readers only.
End_Downstream(b) ==
    /\ ~ended[b] /\ held[b] = 0
    /\ InputOver(b) \/ OutputOver(b) \/ HeadOver(b)
    /\ ended' = [ended EXCEPT ![b] = TRUE]
    /\ marked' = [a \in tb.writers |-> marked[a] \/ a = b]
    /\ UNCHANGED <<opt, written, read, held, returned>>

\* The thread ends and marks its output buffer and the buffers it reads.
End(b) ==
    /\ ~ended[b] /\ held[b] = 0
    /\ InputOver(b) \/ OutputOver(b) \/ HeadOver(b)
    /\ ended' = [ended EXCEPT ![b] = TRUE]
    /\ marked' = [a \in tb.writers |-> marked[a] \/ a = b \/ a \in Inputs(b)]
    /\ UNCHANGED <<opt, written, read, held, returned>>

Thread(b) == b \in tb.blocks /\ (Work(b) \/ Return(b) \/ End(b))

\* Mutant: main starts the flowgraph and does not wait for it.
RunReturns_NoWait ==
    /\ ~returned
    /\ returned' = TRUE
    /\ UNCHANGED <<opt, written, read, held, marked, ended>>

\* tb->run() returns when every thread has ended, and main takes the time.
RunReturns ==
    /\ ~returned /\ \A b \in tb.blocks : ended[b]
    /\ returned' = TRUE
    /\ UNCHANGED <<opt, written, read, held, marked, ended>>

Done == returned /\ UNCHANGED vars

Next == (\E b \in tb.blocks : Thread(b)) \/ RunReturns \/ Done

Spec == Init /\ [][Next]_vars

\* The blocks of all the graphs that may be built.
AllBlocks == UNION {Blocks(o) : o \in CommandLines}

FairSpec == Spec /\ WF_vars(RunReturns) /\ \A b \in AllBlocks : WF_vars(Thread(b))
-----------------------------------------------------------------------------
(* Properties *)

\* Every variable has its type, and no block takes in more than the workload.
TypeOK ==
    /\ opt \in CommandLines
    /\ written \in [tb.writers -> Nat]
    /\ read \in [tb.readers -> 0..Load]
    /\ held \in [tb.blocks -> Nat]
    /\ marked \in [tb.writers -> BOOLEAN]
    /\ ended \in [tb.blocks -> BOOLEAN]
    /\ returned \in BOOLEAN

\* The first blocks of the pipes of run_buf_flowgraph are never further apart than one
\* buffer is long: through the one head of create_fork and create_diamond a slow pipe
\* holds up the others.
PipesInStep ==
    opt.config \in {"fork", "diamond"} =>
        \A p, q \in 1..opt.pipes : read[Copy(p, 1)] <= read[Copy(q, 1)] + BufferSize

\* No block of a pipe ends before all the samples have gone through it, although every
\* ending block marks the buffers of others as done, a shared one among them.
EndsAfterWorkload ==
    /\ \A b \in (tb.readers \cap tb.writers) : ended[b] => written[b] = opt.samples * Rate(b)
    /\ \A b \in tb.sinks : ended[b] => read[b] = Load

\* A run implements the workload it is timed for.
Workload == INSTANCE StreamWorkload WITH
    load <- [k \in tb.sinks |-> Load], consumed <- [k \in tb.sinks |-> read[k]]
WorkloadSpec == Workload!Spec

\* Every run ends, the endless sources included.
RunTerminates == <>returned
=============================================================================
