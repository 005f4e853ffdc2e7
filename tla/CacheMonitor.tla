----------------------------- MODULE CacheMonitor -----------------------------
(***************************************************************************)
(* The monitors that read hardware counters: utils/mon_cache.py and        *)
(* utils/bcc_perf.py.  On every tick of a processor's clock event do_perf  *)
(* reads its counters, submits what they have advanced by since the last   *)
(* tick to the processor's ring buffer and remembers their values.  The    *)
(* plot thread of mon_cache.py polls the rings, collects the last event of *)
(* every processor in a dictionary, and emits it when it has enough keys;  *)
(* bcc_perf.py prints the same events one by one.                          *)
(***************************************************************************)
EXTENDS Integers, Sequences, FiniteSets, Totals

CONSTANTS
    Cpus,        \* the processors do_perf does not skip (2, 3, 6, 7)
    FrameKeys,   \* the keys that make the dictionary complete (8)
    RingSize,    \* events a ring buffer holds
    MaxMisses,   \* bound: cache misses of a processor
    MaxTicks     \* bound: ticks of a processor

ASSUME CpusAssumption == IsFiniteSet(Cpus)
ASSUME FrameAssumption == FrameKeys \in Nat \ {0}
ASSUME RingAssumption == RingSize \in Nat \ {0}
ASSUME BoundsAssumption == MaxMisses \in Nat /\ MaxTicks \in Nat

VARIABLES
    program,       \* the monitor that runs: "mon_cache" or "bcc_perf"
    misses,        \* misses[c]: the hardware counter of c
    old,           \* old[c]: the counter at the last tick (old_misses)
    ticks,         \* ticks[c]: ticks so far
    ring,          \* ring[c]: events submitted and not polled
    d,             \* the dictionary of the plot thread
    first,         \* its flag to skip the first complete dictionary
    emitted,       \* emitted[c]: the events of c emitted or printed so far (history variable)
    overrun        \* overrun[c]: an event of c was dropped or overwritten (history variable)

vars == <<program, misses, old, ticks, ring, d, first, emitted, overrun>>

Init ==
    /\ program \in {"mon_cache", "bcc_perf"}
    /\ misses = [c \in Cpus |-> 0] /\ old = [c \in Cpus |-> 0]
    /\ ticks = [c \in Cpus |-> 0]
    /\ ring = [c \in Cpus |-> <<>>]
    /\ d = <<>> /\ first = TRUE /\ emitted = [c \in Cpus |-> <<>>]
    /\ overrun = [c \in Cpus |-> FALSE]

\* A cache miss on processor c.
Miss(c) ==
    /\ misses[c] < MaxMisses
    /\ misses' = [misses EXCEPT ![c] = @ + 1]
    /\ UNCHANGED <<program, old, ticks, ring, d, first, emitted, overrun>>

\* What has come since the last tick.  The field at records the tick, for the properties.
Out(c) == [cpu |-> c, miss |-> misses[c] - old[c], at |-> ticks[c]]

\* Mutant: the counters of the last tick are not remembered.
do_perf_Absolute(c) ==
    /\ ticks[c] < MaxTicks
    /\ LET out == Out(c)
           full == Len(ring[c]) = RingSize
       IN  /\ ring' = IF full THEN ring ELSE [ring EXCEPT ![c] = Append(@, out)]
           /\ overrun' = [overrun EXCEPT ![c] = @ \/ full]
    /\ ticks' = [ticks EXCEPT ![c] = @ + 1]
    /\ UNCHANGED <<program, misses, old, d, first, emitted>>

\* do_perf: the event is lost if the ring is full, and the counters are remembered all the
\* same.
do_perf(c) ==
    /\ ticks[c] < MaxTicks
    /\ LET out == Out(c)
           full == Len(ring[c]) = RingSize
       IN  /\ ring' = IF full THEN ring ELSE [ring EXCEPT ![c] = Append(@, out)]
           /\ overrun' = [overrun EXCEPT ![c] = @ \/ full]
    /\ old' = [old EXCEPT ![c] = misses[c]]
    /\ ticks' = [ticks EXCEPT ![c] = @ + 1]
    /\ UNCHANGED <<program, misses, d, first, emitted>>

\* self.d with the next event of c in it.
Collected(c) == [b \in DOMAIN d \cup {c} |-> IF b = c THEN Head(ring[c]) ELSE d[b]]

\* update_sig.emit: one event of each processor in e.
Shows(e) == [c \in Cpus |-> IF c \in DOMAIN e THEN Append(emitted[c], e[c]) ELSE emitted[c]]

\* len(self.d.keys()) >= 8: an event brings two keys, one of its misses and one of its hits,
\* and its processor may be any.
Complete(e) == 2 * Cardinality(DOMAIN e) >= FrameKeys

\* Mutant: the dictionary is kept when it has been emitted.
handle_output_Keep(c) ==
    /\ program = "mon_cache" /\ ring[c] # <<>>
    /\ ring' = [ring EXCEPT ![c] = Tail(@)]
    /\ overrun' = [overrun EXCEPT ![c] = @ \/ c \in DOMAIN d]
    /\ first' = (first /\ ~Complete(Collected(c)))
    /\ emitted' = IF Complete(Collected(c)) /\ ~first THEN Shows(Collected(c)) ELSE emitted
    /\ d' = Collected(c)
    /\ UNCHANGED <<program, misses, old, ticks>>

\* Mutant: the dictionary is emitted one processor early.
handle_output_Early(c) ==
    /\ program = "mon_cache" /\ ring[c] # <<>>
    /\ ring' = [ring EXCEPT ![c] = Tail(@)]
    /\ overrun' = [overrun EXCEPT ![c] = @ \/ c \in DOMAIN d]
    /\ first' = FALSE
    /\ emitted' = IF ~first THEN Shows(Collected(c)) ELSE emitted
    /\ d' = IF first THEN Collected(c) ELSE <<>>
    /\ UNCHANGED <<program, misses, old, ticks>>

\* handle_output: the event replaces an earlier one of its processor.  The first complete
\* dictionary is not emitted, but it is not emptied either; later ones are both.
handle_output(c) ==
    /\ program = "mon_cache" /\ ring[c] # <<>>
    /\ ring' = [ring EXCEPT ![c] = Tail(@)]
    /\ overrun' = [overrun EXCEPT ![c] = @ \/ c \in DOMAIN d]
    /\ IF ~Complete(Collected(c)) THEN d' = Collected(c) /\ UNCHANGED <<first, emitted>>
       ELSE IF first THEN d' = Collected(c) /\ first' = FALSE /\ UNCHANGED emitted
       ELSE d' = <<>> /\ emitted' = Shows(Collected(c)) /\ UNCHANGED first
    /\ UNCHANGED <<program, misses, old, ticks>>

\* handle_output of bcc_perf.py: the event is printed.
handle_output_print(c) ==
    /\ program = "bcc_perf" /\ ring[c] # <<>>
    /\ ring' = [ring EXCEPT ![c] = Tail(@)]
    /\ emitted' = [emitted EXCEPT ![c] = Append(@, Head(ring[c]))]
    /\ UNCHANGED <<program, misses, old, ticks, d, first, overrun>>

Finished ==
    /\ \A c \in Cpus : ticks[c] = MaxTicks /\ ring[c] = <<>> /\ misses[c] = MaxMisses
    /\ UNCHANGED vars

Next == (\E c \in Cpus : Miss(c) \/ do_perf(c) \/ handle_output(c) \/ handle_output_print(c)) \/ Finished

Spec == Init /\ [][Next]_vars
-----------------------------------------------------------------------------
(* Properties *)

Events == [cpu : Cpus, miss : Nat, at : Nat]

\* Every variable has its type.  The dictionary is complete only from when it was skipped to the
\* first frame.  A frame has an event of every processor if there are no more of them than
\* complete it, as the four that do_perf does not skip; if there are more, any may be missing.
TypeOK ==
    /\ program \in {"mon_cache", "bcc_perf"}
    /\ misses \in [Cpus -> Nat] /\ old \in [Cpus -> Nat] /\ ticks \in [Cpus -> Nat]
    /\ \A c \in Cpus : /\ ring[c] \in Seq(Events) /\ Len(ring[c]) <= RingSize
                      /\ emitted[c] \in Seq(Events)
    /\ DOMAIN d \subseteq Cpus /\ \A c \in DOMAIN d : d[c] \in Events /\ d[c].cpu = c
    /\ first \in BOOLEAN
    /\ Complete(d) => ~first /\ \A c \in Cpus : emitted[c] = <<>>
    /\ program = "mon_cache" /\ 2 * Cardinality(Cpus) <= FrameKeys =>
           \A b, c \in Cpus : Len(emitted[b]) = Len(emitted[c])

SumOf(events) == Total([i \in DOMAIN events |-> events[i].miss])

\* The misses of c that have been shown or will be, if no more events are dropped.
Shown(c) ==
    LET pending == IF c \in DOMAIN d THEN d[c].miss ELSE 0
    IN  SumOf(emitted[c]) + pending + SumOf(ring[c]) + (misses[c] - old[c])

\* No miss is shown twice, and none is left out unless an event of its processor was
\* dropped by a full ring or overwritten in the dictionary; the dictionary that is skipped
\* and yet kept at the start makes no exception.
MissesShownOnce ==
    \A c \in Cpus :
        /\ Shown(c) <= misses[c]
        /\ ~overrun[c] => Shown(c) = misses[c]

\* What is shown of a processor moves forward: each frame, and each line of bcc_perf.py,
\* has a later event than the one before it, although the dictionary that mon_cache.py
\* skips lives on in its first frame (first, self.d).
FramesAdvance ==
    \A c \in Cpus : \A i \in 1..(Len(emitted[c]) - 1) : emitted[c][i].at < emitted[c][i + 1].at
=============================================================================
