---------------------------- MODULE CounterMonitor ----------------------------
(***************************************************************************)
(* The live monitors that count in a kernel table and poll it:             *)
(* utils/mon_mig.py, utils/mon_tp.py and utils/bcc_tp.py.                  *)
(*                                                                         *)
(* Probe handlers run on every processor while GNU Radio works: each looks *)
(* its entry up, or creates it with 0, and adds to it with a load and a    *)
(* store.  The plot thread sleeps, reads the entries one after the other,  *)
(* deletes them one after the other and emits what it has read as a frame. *)
(* The GUI thread repaints for every frame, in the order of the signals.   *)
(*                                                                         *)
(* The table belongs to the kernel: a deleted entry is free at once for    *)
(* another key, and a handler that still holds it stores to it all the     *)
(* same; entries created while the keys are listed may be missed.          *)
(***************************************************************************)
EXTENDS Integers, Sequences, FiniteSets, Totals

CONSTANTS
    Keys,       \* keys of the table: task names or thread ids
    Filter,     \* the keys repaint shows (filter_dict of mon_mig.py)
    Handlers,   \* processors that can run a handler
    CountsFor,  \* CountsFor[h]: the keys handler h may add to
    Returns,    \* what a probed call returns: items produced, or -1 (WORK_DONE)
    Half,       \* values an unsigned int holds (2^32), a counter holds Half * Half
    Slots,      \* storage of the table's entries
    NVals,      \* nvals: values of a plotted series
    PerSecond,  \* 1 / interval where repaint divides by it, else 1
    MaxEvents,  \* bound: probed calls
    MaxFrames   \* bound: polls

ASSUME FilterAssumption == Filter \subseteq Keys
ASSUME CountsForAssumption == CountsFor \in [Handlers -> SUBSET Keys]
ASSUME ReturnsAssumption == Returns \subseteq Nat \cup {-1}
ASSUME SlotsAssumption == IsFiniteSet(Slots) /\ Cardinality(Slots) > Cardinality(Keys)
ASSUME SizesAssumption == {Half, NVals, PerSecond} \subseteq Nat \ {0}
ASSUME BoundsAssumption == {MaxEvents, MaxFrames} \subseteq Nat

VARIABLES
    slot,       \* slot[k]: the entry of key k, for the keys in the table
    value,      \* value[s]: the count in entry s
    handler,    \* handler[h]: the entry h adds to, the count it loaded, the call's return
    pc,         \* what the plot thread is doing
    todo,       \* keys it still has to visit
    visited,    \* keys it has visited in this phase
    frame,      \* d of the plot thread: what it has read in this poll
    signals,    \* frames emitted and not painted
    data,       \* the plotted series
    \* history variables
    produced,   \* produced[k]: items of the calls that have stored their count
    events,     \* probed calls so far
    emitted,    \* all the frames emitted
    raced       \* a handler's window has overlapped another handler's or the poller's

kernel == <<slot, value, handler>>
poller == <<pc, todo, visited, frame>>
gui == <<signals, data>>
history == <<produced, events, emitted>>
vars == <<kernel, poller, gui, history, raced>>

Present == DOMAIN slot
Width == Half * Half
Held == {handler[h].slot : h \in {g \in Handlers : handler[g].busy}}

\* f[k], where a missing key counts as 0.
Count(f, k) == IF k \in DOMAIN f THEN f[k] ELSE 0

Idle == [busy |-> FALSE]

Init ==
    /\ slot = <<>> /\ value = [s \in Slots |-> 0]
    /\ handler = [h \in Handlers |-> Idle]
    /\ pc = "sleep" /\ todo = {} /\ visited = {} /\ frame = <<>>
    /\ signals = <<>> /\ data = <<>>
    /\ produced = [k \in Keys |-> 0] /\ events = 0 /\ emitted = <<>>
    /\ raced = FALSE
-----------------------------------------------------------------------------
(* The probe handlers *)

\* lookup_or_init, and the load of *val.
Load(h) ==
    /\ ~handler[h].busy /\ events < MaxEvents
    /\ \E k \in CountsFor[h], r \in Returns :
        \E s \in IF k \in Present THEN {slot[k]} ELSE Slots \ {slot[j] : j \in Present} :
          /\ slot' = [j \in Present \cup {k} |-> IF j = k THEN s ELSE slot[j]]
          /\ value' = IF k \in Present THEN value ELSE [value EXCEPT ![s] = 0]
          /\ handler' = [handler EXCEPT ![h] =
                [busy |-> TRUE, key |-> k, slot |-> s, loaded |-> value'[s], ret |-> r]]
          /\ raced' = (raced \/ s \in Held)
    /\ events' = events + 1
    /\ UNCHANGED <<poller, gui, produced, emitted>>

\* PT_REGS_RC: the whole register an int was returned in; its upper half is zero or sign.
Register(r) == IF r = -1 THEN {Half - 1, Width - 1} ELSE {r}

\* Mutant: the store does not add.
Store_Overwrite(h) ==
    /\ handler[h].busy
    /\ \E n \in Register(handler[h].ret) :
          value' = [value EXCEPT ![handler[h].slot] = n]
    /\ handler' = [handler EXCEPT ![h] = Idle]
    /\ produced' = [produced EXCEPT ![handler[h].key] = @ + handler[h].ret]
    /\ UNCHANGED <<slot, poller, gui, events, emitted, raced>>

\* The store of the sum, and the end of the handler.
Store(h) ==
    /\ handler[h].busy
    /\ \E n \in Register(handler[h].ret) :
          value' = [value EXCEPT ![handler[h].slot] = (handler[h].loaded + n) % Width]
    /\ handler' = [handler EXCEPT ![h] = Idle]
    /\ produced' = [produced EXCEPT ![handler[h].key] =
          @ + IF handler[h].ret = -1 THEN 0 ELSE handler[h].ret]
    /\ UNCHANGED <<slot, poller, gui, events, emitted, raced>>
-----------------------------------------------------------------------------
(* The plot thread *)

WakeUp ==
    /\ pc = "sleep" /\ Len(emitted) < MaxFrames
    /\ pc' = "read" /\ todo' = Present /\ visited' = {} /\ frame' = <<>>
    /\ UNCHANGED <<kernel, gui, history, raced>>

\* counts.items(): an entry is read.
ReadEntry ==
    /\ pc = "read"
    /\ \E k \in Present \ visited :
          /\ frame' = [j \in DOMAIN frame \cup {k} |->
                          IF j = k THEN value[slot[k]] ELSE frame[j]]
          /\ todo' = todo \ {k} /\ visited' = visited \cup {k}
    /\ UNCHANGED <<pc, kernel, gui, history, raced>>

ReadDone ==
    /\ pc = "read" /\ todo = {}
    /\ pc' = "clear" /\ todo' = Present /\ visited' = {}
    /\ UNCHANGED <<frame, kernel, gui, history, raced>>

\* clear(): an entry is deleted, whether it has been read or not.
ClearEntry ==
    /\ pc = "clear"
    /\ \E k \in Present \ visited :
          /\ slot' = [j \in Present \ {k} |-> slot[j]]
          /\ todo' = todo \ {k} /\ visited' = visited \cup {k}
          /\ raced' = (raced \/ slot[k] \in Held \/ value[slot[k]] # Count(frame, k))
    /\ UNCHANGED <<pc, frame, value, handler, gui, history>>

\* The table is cleared: the frame is emitted and the thread sleeps again.
Emit ==
    /\ pc = "clear" /\ todo = {}
    /\ pc' = "sleep" /\ visited' = {}
    /\ signals' = Append(signals, frame) /\ emitted' = Append(emitted, frame)
    /\ frame' = <<>>
    /\ UNCHANGED <<todo, kernel, data, produced, events, raced>>
-----------------------------------------------------------------------------
(* The GUI thread *)

\* filter_dict
Filtered(d) == [k \in DOMAIN d \cap Filter |-> d[k]]

Zeros == [i \in 1..(NVals - 1) |-> 0]

\* Mutant: a series whose key is missing in the frame does not move.
Moved_Stay(d) ==
    [k \in DOMAIN data \cup DOMAIN d |->
        IF k \notin DOMAIN d THEN data[k]
        ELSE IF k \in DOMAIN data THEN Append(Tail(data[k]), PerSecond * Count(d, k))
        ELSE Append(Zeros, d[k])]

\* Mutant: values are added and none removed.
Moved_Grow(d) ==
    [k \in DOMAIN data \cup DOMAIN d |->
        IF k \in DOMAIN data THEN Append(data[k], PerSecond * Count(d, k))
                             ELSE Append(Zeros, d[k])]

\* The series after a frame: existing ones move on, new ones start behind zeros.
Moved(d) ==
    [k \in DOMAIN data \cup DOMAIN d |->
        IF k \in DOMAIN data THEN Append(Tail(data[k]), PerSecond * Count(d, k))
                             ELSE Append(Zeros, d[k])]

AllZero(v) == \A i \in DOMAIN v : v[i] = 0

\* repaint: the next frame moves the series, and those without a count are deleted.
Repaint ==
    /\ signals # <<>>
    /\ LET moved == Moved(Filtered(Head(signals)))
       IN  data' = [k \in {j \in DOMAIN moved : ~AllZero(moved[j])} |-> moved[k]]
    /\ signals' = Tail(signals)
    /\ UNCHANGED <<kernel, poller, history, raced>>

Finished ==
    /\ events = MaxEvents /\ Len(emitted) = MaxFrames /\ signals = <<>>
    /\ \A h \in Handlers : ~handler[h].busy
    /\ UNCHANGED vars

Next ==
    \/ \E h \in Handlers : Load(h) \/ Store(h)
    \/ WakeUp \/ ReadEntry \/ ReadDone \/ ClearEntry \/ Emit
    \/ Repaint \/ Finished

Spec == Init /\ [][Next]_vars
-----------------------------------------------------------------------------
(* Properties *)

Tables == UNION {[ks -> 0..(Width - 1)] : ks \in SUBSET Keys}

\* Every variable has its type; no two keys share an entry, and every series is as long
\* as the axis it is plotted against (setData of repaint).
TypeOK ==
    /\ Present \subseteq Keys /\ \A k \in Present : slot[k] \in Slots
    /\ \A j, k \in Present : slot[j] = slot[k] => j = k
    /\ value \in [Slots -> 0..(Width - 1)]
    /\ \A h \in Handlers : handler[h].busy => handler[h].slot \in Slots
    /\ pc \in {"sleep", "read", "clear"}
    /\ todo \subseteq Keys /\ visited \subseteq Keys
    /\ frame \in Tables
    /\ \A i \in DOMAIN signals : signals[i] \in Tables
    /\ DOMAIN data \subseteq Filter /\ \A k \in DOMAIN data : Len(data[k]) = NVals
    /\ produced \in [Keys -> Nat]

\* The frames the GUI has painted.
Painted == SubSeq(emitted, 1, Len(emitted) - Len(signals))

\* A series of key k begins with frame n: none of the NVals before it has a count of k.
Begins(frames, n, k) == \A m \in 1..(n - 1) : n - m <= NVals => Count(frames[m], k) = 0

\* What is plotted for k in frame n: a rate, or the bare count where a series begins.
Plotted(frames, n, k) ==
    (IF Begins(frames, n, k) THEN 1 ELSE PerSecond) * Count(frames[n], k)

\* The values of key k in the last NVals painted frames; before the first frame it is 0.
History(k) ==
    [i \in 1..NVals |->
        LET n == Len(Painted) - NVals + i
        IN  IF n < 1 THEN 0 ELSE Plotted(Painted, n, k)]

\* What the window shows are the last NVals frames: a series for every shown key with a
\* count in them, each value at its place and in units per second, and no other series.
\* Only where a key comes, or comes back after its series was deleted, mon_tp.py takes the
\* count of the interval for a rate.
SeriesShowRates ==
    data = [k \in {j \in Filter : ~AllZero(History(j))} |-> History(k)]

\* What the frames, the one being read and the table hold of key k.
Counted(k) ==
    LET inFrames == Total([i \in DOMAIN emitted |-> Count(emitted[i], k)])
        inFrame == IF pc = "clear" /\ k \in visited THEN Count(frame, k) ELSE 0
        inTable == IF k \in Present THEN value[slot[k]] ELSE 0
    IN  inFrames + inFrame + inTable

\* Nothing is lost or counted twice unless two handlers overlap on an entry, or the poller
\* deletes an entry that a handler holds or that has changed since it was read: these are
\* the only holes in the counting of mon_mig.py, whatever else interleaves.
ExactUnlessRaced == ~raced => \A k \in Keys : Counted(k) = produced[k]
=============================================================================
