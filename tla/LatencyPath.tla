----------------------------- MODULE LatencyPath -----------------------------
(***************************************************************************)
(* The latency benchmark: null_source_latency, a chain of copy_rand blocks *)
(* and null_sink_latency (lib/*_impl.cc), one thread per block, joined by  *)
(* bounded stream buffers.  Source and sink fire a tracepoint for every    *)
(* d_granularity-th item; the latency of mark k is the time between        *)
(* tx(k) and rx(k).                                                        *)
(*                                                                         *)
(* GNU Radio's buffers are modelled from the way the blocks use them:      *)
(* written[b] and read[b] are nitems_written(0) and nitems_read(0), a work *)
(* call is offered at most the free room of its output buffer and at most  *)
(* the items in its input buffer, and the counters move when the call      *)
(* consumes and when it returns.                                           *)
(***************************************************************************)
EXTENDS Integers, Sequences

CONSTANTS
    NCopy,       \* number of copy_rand blocks between source and sink
    MaxCopy,     \* max_copy of the copy_rand blocks
    Granularity, \* granularity of both probes
    BufferSize,  \* items a stream buffer holds
    MaxItems     \* bound: the source offers no more items than this

ASSUME ChainAssumption == NCopy \in Nat /\ MaxCopy \in Nat
ASSUME GranularityAssumption == Granularity \in Nat \ {0}
ASSUME BufferAssumption == BufferSize \in Nat \ {0}
ASSUME MaxItemsAssumption == MaxItems \in Nat

VARIABLES
    written,  \* written[b]: items block b has produced
    read,     \* read[b]: items block b has consumed
    held,     \* held[b]: items of the work call b is in, 0 between two calls
    txi, rxi, \* the loop variables i of the source's and of the sink's work
    tx, rx    \* the marks traced so far at the source and at the sink

vars == <<written, read, held, txi, rxi, tx, rx>>

Source == 0
Copies == 1..NCopy
Sink == NCopy + 1
Blocks == Source..Sink
Writers == Source..NCopy
Readers == 1..Sink

Room(b) == BufferSize - (written[b] - read[b + 1])   \* b \in Writers
Available(b) == written[b - 1] - read[b]             \* b \in Readers

\* Mutant: marks are counted from the call's first item, as if each call began a new stream.
Marks_PerCall(items, n) == n \div Granularity

\* Mutant: every item is a mark.
Marks_EveryItem(items, n) == n

\* The marks that n items after the first `items` ones pass (before and after in the code).
Marks(items, n) == ((items + n) \div Granularity) - (items \div Granularity)

Init ==
    /\ written = [b \in Writers |-> 0]
    /\ read = [b \in Readers |-> 0]
    /\ held = [b \in Blocks |-> 0]
    /\ txi = 1 /\ rxi = 1
    /\ tx = <<>> /\ rx = <<>>
-----------------------------------------------------------------------------
(* null_source_latency_impl::work: one step up to the loop, one per tracepoint, one to return *)

\* Mutant: the loop starts at 0.
SourceWork_FromZero ==
    /\ held[Source] = 0
    /\ \E n \in 1..Room(Source) :
          /\ written[Source] + n <= MaxItems
          /\ held' = [held EXCEPT ![Source] = n]
    /\ txi' = 0
    /\ UNCHANGED <<written, read, rxi, tx, rx>>

SourceWork ==
    /\ held[Source] = 0
    /\ \E n \in 1..Room(Source) :
          /\ written[Source] + n <= MaxItems
          /\ held' = [held EXCEPT ![Source] = n]
    /\ txi' = 1
    /\ UNCHANGED <<written, read, rxi, tx, rx>>

SourceTrace ==
    /\ held[Source] > 0
    /\ txi <= Marks(written[Source], held[Source])
    /\ tx' = Append(tx, (written[Source] \div Granularity) + txi)
    /\ txi' = txi + 1
    /\ UNCHANGED <<written, read, held, rxi, rx>>

SourceReturn ==
    /\ held[Source] > 0
    /\ txi > Marks(written[Source], held[Source])
    /\ written' = [written EXCEPT ![Source] = @ + held[Source]]
    /\ held' = [held EXCEPT ![Source] = 0]
    /\ UNCHANGED <<read, txi, rxi, tx, rx>>
-----------------------------------------------------------------------------
(* copy_rand_impl *)

\* Mutant: one item more is demanded than is copied at most.
forecast_OneMore(b, noutput) == noutput + 1 <= Available(b)

\* The scheduler offers noutput_items for which forecast's demand, as many input
\* items, is met.
forecast(b, noutput) == noutput <= Available(b)

\* The numbers of items general_work may copy when it is offered noutput items.
Copied(noutput, ninput) ==
    {m \in 0..noutput : m <= ninput /\ m <= MaxCopy /\ (m = 0 => MaxCopy = 0)}

\* Mutant: all items offered are consumed, not only those copied.
CopyWork_ConsumesAll(b) ==
    /\ held[b] = 0
    /\ \E noutput \in 1..Room(b) :
          /\ forecast(b, noutput)
          /\ \E m \in Copied(noutput, Available(b)) :
                /\ read' = [read EXCEPT ![b] = @ + noutput]
                /\ held' = [held EXCEPT ![b] = m]
    /\ UNCHANGED <<written, txi, rxi, tx, rx>>

\* general_work up to and with consume_each(m).
CopyWork(b) ==
    /\ held[b] = 0
    /\ \E noutput \in 1..Room(b) :
          /\ forecast(b, noutput)
          /\ \E m \in Copied(noutput, Available(b)) :
                /\ read' = [read EXCEPT ![b] = @ + m]
                /\ held' = [held EXCEPT ![b] = m]
    /\ UNCHANGED <<written, txi, rxi, tx, rx>>

\* general_work returns m: the copied items reach the next block.
CopyReturn(b) ==
    /\ held[b] > 0
    /\ written' = [written EXCEPT ![b] = @ + held[b]]
    /\ held' = [held EXCEPT ![b] = 0]
    /\ UNCHANGED <<read, txi, rxi, tx, rx>>
-----------------------------------------------------------------------------
(* null_sink_latency_impl::work *)

SinkWork ==
    /\ held[Sink] = 0
    /\ \E n \in 1..Available(Sink) : held' = [held EXCEPT ![Sink] = n]
    /\ rxi' = 1
    /\ UNCHANGED <<written, read, txi, tx, rx>>

\* Mutant: the loop runs once too often.
SinkTrace_OneMore ==
    /\ held[Sink] > 0
    /\ rxi <= Marks(read[Sink], held[Sink]) + 1
    /\ rx' = Append(rx, (read[Sink] \div Granularity) + rxi)
    /\ rxi' = rxi + 1
    /\ UNCHANGED <<written, read, held, txi, tx>>

SinkTrace ==
    /\ held[Sink] > 0
    /\ rxi <= Marks(read[Sink], held[Sink])
    /\ rx' = Append(rx, (read[Sink] \div Granularity) + rxi)
    /\ rxi' = rxi + 1
    /\ UNCHANGED <<written, read, held, txi, tx>>

SinkReturn ==
    /\ held[Sink] > 0
    /\ rxi > Marks(read[Sink], held[Sink])
    /\ read' = [read EXCEPT ![Sink] = @ + held[Sink]]
    /\ held' = [held EXCEPT ![Sink] = 0]
    /\ UNCHANGED <<written, txi, rxi, tx, rx>>
-----------------------------------------------------------------------------
SourceStep == SourceWork \/ SourceTrace \/ SourceReturn
CopyStep(b) == CopyWork(b) \/ CopyReturn(b)
SinkStep == SinkWork \/ SinkTrace \/ SinkReturn

\* The bound is reached and the chain is empty.
Finished ==
    /\ written[Source] = MaxItems /\ read[Sink] = MaxItems
    /\ UNCHANGED vars

Next == SourceStep \/ (\E b \in Copies : CopyStep(b)) \/ SinkStep \/ Finished

Spec == Init /\ [][Next]_vars

FairSpec == Spec /\ WF_vars(SourceStep) /\ WF_vars(SinkStep)
                 /\ \A b \in Copies : WF_vars(CopyStep(b))
-----------------------------------------------------------------------------
(* Properties *)

\* Every variable has its type, and the loop variables of both probes count from 1.
TypeOK ==
    /\ written \in [Writers -> Nat]
    /\ read \in [Readers -> Nat]
    /\ held \in [Blocks -> Nat]
    /\ txi \in Nat \ {0} /\ rxi \in Nat \ {0}
    /\ tx \in Seq(Nat) /\ rx \in Seq(Nat)

\* No block reads what was not written and none overruns its buffer, the items of
\* unfinished work calls included; a copy_rand block returns what it consumed, though
\* the two counters move in different steps (consume_each, return m).
BuffersRespected ==
    /\ \A b \in Writers : written[b] + held[b] - read[b + 1] <= BufferSize
    /\ \A b \in Readers : read[b] <= written[b - 1]
    /\ read[Sink] + held[Sink] <= written[NCopy]
    /\ \A b \in Copies : read[b] = written[b] + held[b]

\* The source traces the marks 1, 2, 3, ... of the items it has written, each once,
\* however the scheduler cuts the stream into work calls; so does the sink.
MarksExact ==
    /\ \A k \in 1..Len(tx) : tx[k] = k
    /\ \A k \in 1..Len(rx) : rx[k] = k
    /\ Len(tx) = (written[Source] \div Granularity) + (IF held[Source] = 0 THEN 0 ELSE txi - 1)
    /\ Len(rx) = (read[Sink] \div Granularity) + (IF held[Sink] = 0 THEN 0 ELSE rxi - 1)

\* The marks under way are bounded by what the buffers of the chain hold.
Window == (((NCopy + 1) * BufferSize) \div Granularity) + 1

\* No mark is traced at the sink before it was traced at the source, and no more than
\* Window marks are under way: the order of tracepoint and return in the source's work
\* and of trace and consumption in the sink's.
MarksCausal == Len(rx) <= Len(tx) /\ Len(tx) <= Len(rx) + Window

\* The probes implement their promise.
Probe == INSTANCE LatencyProbe WITH tx <- Len(tx), rx <- Len(rx)
ProbeSpec == Probe!Spec

\* Every mark traced at the source reaches the sink, whatever copy_rand draws.
MarksArrive == \A k \in 1..(MaxItems \div Granularity) : Len(tx) >= k ~> Len(rx) >= k
=============================================================================
