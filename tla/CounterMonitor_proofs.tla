------------------------- MODULE CounterMonitor_proofs -------------------------
(***************************************************************************)
(* The live monitors of utils/mon_mig.py and utils/mon_tp.py keep their    *)
(* types, and mon_mig.py, which does not divide by the interval, shows the *)
(* frames it was sent, for any number of handlers and keys, any storage    *)
(* and any length of the series.  When no two windows have overlapped and  *)
(* no counter can pass its width, what has been counted is what has been   *)
(* produced.                                                               *)
(***************************************************************************)
EXTENDS CounterMonitor, FiniteSetTheorems, WellFoundedInduction, TLAPS

Counts == 0..(Width - 1)

\* A handler between its load and its store.
Busy == [busy : {TRUE}, key : Keys, slot : Slots, loaded : Counts, ret : Returns]

\* The kernel's table: no two keys share an entry, and a handler holds one.
KernelInv ==
    /\ Present \subseteq Keys /\ \A k \in Present : slot[k] \in Slots
    /\ \A j, k \in Present : slot[j] = slot[k] => j = k
    /\ value \in [Slots -> Counts]
    /\ handler \in [Handlers -> Busy \cup {Idle}]
    /\ produced \in [Keys -> Nat]

PollerInv ==
    /\ pc \in {"sleep", "read", "clear"}
    /\ todo \subseteq Keys /\ visited \subseteq Keys
    /\ frame \in Tables

\* The signals under way are the last frames emitted.
SignalsInv ==
    /\ signals \in Seq(Tables) /\ emitted \in Seq(Tables)
    /\ Len(signals) <= Len(emitted)
    /\ \A i \in 1..Len(signals) : signals[i] = emitted[Len(emitted) - Len(signals) + i]

SeriesInv ==
    /\ DOMAIN data \subseteq Filter
    /\ \A k \in DOMAIN data : data[k] \in Seq(Nat) /\ Len(data[k]) = NVals

IInv == KernelInv /\ PollerInv /\ SignalsInv /\ SeriesInv

LEMMA WidthFacts == Width \in Nat \ {0} /\ Half \in Nat \ {0} /\ Half <= Width
<1>1. Half \in Nat \ {0}
  BY SizesAssumption
<1>2. ASSUME NEW x \in Nat \ {0} PROVE x * x \in Nat \ {0} /\ x <= x * x
  OBVIOUS
<1> QED
  BY <1>1, <1>2 DEF Width

\* A table is a function from some of the keys to counts.
LEMMA TableFacts ==
    /\ \A f \in Tables : DOMAIN f \subseteq Keys /\ \A k \in DOMAIN f : f[k] \in Counts
    /\ \A ks \in SUBSET Keys : [ks -> Counts] \subseteq Tables
    /\ \A f \in Tables, k \in Keys : Count(f, k) \in Nat
<1>1. Counts \subseteq Nat
  BY WidthFacts DEF Counts
<1>2. \A f \in Tables : \E ks \in SUBSET Keys : f \in [ks -> Counts]
  BY DEF Tables, Counts
<1>3. \A ks \in SUBSET Keys : [ks -> Counts] \subseteq Tables
  BY DEF Tables, Counts
<1> QED
  BY <1>1, <1>2, <1>3 DEF Count
-----------------------------------------------------------------------------
(* The handlers *)

\* A handler finds its entry or takes one that no key has.
LEMMA LoadStep ==
    ASSUME KernelInv, NEW h \in Handlers, Load(h)
    PROVE  KernelInv'
<1>1. PICK k \in CountsFor[h], r \in Returns :
        \E s \in IF k \in Present THEN {slot[k]} ELSE Slots \ {slot[j] : j \in Present} :
          /\ slot' = [j \in Present \cup {k} |-> IF j = k THEN s ELSE slot[j]]
          /\ value' = IF k \in Present THEN value ELSE [value EXCEPT ![s] = 0]
          /\ handler' = [handler EXCEPT ![h] =
                [busy |-> TRUE, key |-> k, slot |-> s, loaded |-> value'[s], ret |-> r]]
  BY DEF Load
<1>2. PICK s \in IF k \in Present THEN {slot[k]} ELSE Slots \ {slot[j] : j \in Present} :
          /\ slot' = [j \in Present \cup {k} |-> IF j = k THEN s ELSE slot[j]]
          /\ value' = IF k \in Present THEN value ELSE [value EXCEPT ![s] = 0]
          /\ handler' = [handler EXCEPT ![h] =
                [busy |-> TRUE, key |-> k, slot |-> s, loaded |-> value'[s], ret |-> r]]
  BY <1>1
<1>3. k \in Keys
  BY CountsForAssumption
<1>4. s \in Slots /\ (k \in Present => s = slot[k]) /\ (k \notin Present => \A j \in Present : slot[j] # s)
  BY <1>2 DEF KernelInv
<1>5. Present' = Present \cup {k} /\ slot'[k] = s /\ \A j \in Present \ {k} : slot'[j] = slot[j]
  BY <1>2 DEF Present
<1>6. /\ Present' \subseteq Keys /\ \A j \in Present' : slot'[j] \in Slots
      /\ \A i, j \in Present' : slot'[i] = slot'[j] => i = j
  BY <1>3, <1>4, <1>5 DEF KernelInv
<1>7. value' \in [Slots -> Counts]
  <2>1. 0 \in Counts
    BY WidthFacts DEF Counts
  <2> QED
    BY <1>2, <2>1 DEF KernelInv
<1>8. [busy |-> TRUE, key |-> k, slot |-> s, loaded |-> value'[s], ret |-> r] \in Busy
  BY <1>3, <1>4, <1>7 DEF Busy
<1>9. handler' \in [Handlers -> Busy \cup {Idle}]
  BY <1>2, <1>8 DEF KernelInv
<1> QED
  BY <1>6, <1>7, <1>9 DEF KernelInv, Load

\* A handler stores a count of the table's width.
LEMMA StoreStep ==
    ASSUME KernelInv, NEW h \in Handlers, Store(h)
    PROVE  KernelInv'
<1>1. /\ handler[h].busy /\ handler' = [handler EXCEPT ![h] = Idle]
      /\ produced' = [produced EXCEPT ![handler[h].key] =
            @ + IF handler[h].ret = -1 THEN 0 ELSE handler[h].ret]
      /\ slot' = slot /\ Present' = Present
  BY DEF Store, Present
<1>2. handler[h] \in Busy
  BY <1>1 DEF KernelInv, Idle
<1>3. PICK n \in Register(handler[h].ret) :
         value' = [value EXCEPT ![handler[h].slot] = (handler[h].loaded + n) % Width]
  BY DEF Store
<1>4. handler[h].ret \in Nat \cup {-1} /\ handler[h].loaded \in Nat /\ handler[h].key \in Keys
  <2>1. handler[h].ret \in Returns /\ handler[h].loaded \in Counts /\ handler[h].key \in Keys
    BY <1>2 DEF Busy
  <2>2. Counts \subseteq Nat
    BY WidthFacts DEF Counts
  <2> QED
    BY <2>1, <2>2, ReturnsAssumption
<1>5. n \in Nat
  BY <1>3, <1>4, WidthFacts DEF Register
<1>6. (handler[h].loaded + n) % Width \in Counts
  <2>1. \A x \in Nat, w \in Nat \ {0} : x % w \in 0..(w - 1)
    OBVIOUS
  <2>2. handler[h].loaded + n \in Nat
    BY <1>4, <1>5
  <2> QED
    BY <2>1, <2>2, WidthFacts DEF Counts
<1>7. value' \in [Slots -> Counts]
  BY <1>3, <1>6 DEF KernelInv
<1>8. produced' \in [Keys -> Nat]
  <2>1. (IF handler[h].ret = -1 THEN 0 ELSE handler[h].ret) \in Nat
    BY <1>4
  <2> QED
    BY <1>1, <1>4, <2>1 DEF KernelInv
<1>9. handler' \in [Handlers -> Busy \cup {Idle}]
  BY <1>1 DEF KernelInv
<1> QED
  BY <1>1, <1>7, <1>8, <1>9 DEF KernelInv

\* An entry is deleted.
LEMMA ClearStep ==
    ASSUME KernelInv, PollerInv, ClearEntry
    PROVE  KernelInv' /\ PollerInv'
<1>1. PICK k \in Present \ visited :
         /\ slot' = [j \in Present \ {k} |-> slot[j]]
         /\ todo' = todo \ {k} /\ visited' = visited \cup {k}
  BY DEF ClearEntry
<1>2. Present' = Present \ {k} /\ \A j \in Present' : slot'[j] = slot[j]
  BY <1>1 DEF Present
<1>3. UNCHANGED <<pc, frame, value, handler, produced>>
  BY DEF ClearEntry, history
<1>4. KernelInv'
  BY <1>2, <1>3 DEF KernelInv
<1>5. k \in Keys
  BY DEF KernelInv
<1>6. PollerInv'
  BY <1>1, <1>3, <1>5 DEF PollerInv
<1> QED
  BY <1>4, <1>6

\* An entry is read.
LEMMA ReadStep ==
    ASSUME KernelInv, PollerInv, ReadEntry
    PROVE  PollerInv'
<1>1. PICK k \in Present \ visited :
         /\ frame' = [j \in DOMAIN frame \cup {k} |->
                         IF j = k THEN value[slot[k]] ELSE frame[j]]
         /\ todo' = todo \ {k} /\ visited' = visited \cup {k}
  BY DEF ReadEntry
<1>2. k \in Keys /\ value[slot[k]] \in Counts
  BY DEF KernelInv
<1>3. DOMAIN frame \cup {k} \in SUBSET Keys /\ \A j \in DOMAIN frame : frame[j] \in Counts
  BY <1>2, TableFacts DEF PollerInv
<1>4. frame' \in [DOMAIN frame \cup {k} -> Counts]
  BY <1>1, <1>2, <1>3
<1>5. frame' \in Tables
  BY <1>3, <1>4, TableFacts
<1> QED
  BY <1>1, <1>2, <1>5 DEF PollerInv, ReadEntry
-----------------------------------------------------------------------------
(* Frames and series *)

\* A frame is emitted: it is the last signal and the last frame.
LEMMA EmitStep ==
    ASSUME SignalsInv, frame \in Tables,
           signals' = Append(signals, frame), emitted' = Append(emitted, frame)
    PROVE  /\ SignalsInv'
           /\ Len(emitted') - Len(signals') = Len(emitted) - Len(signals)
           /\ \A i \in 1..Len(emitted) : emitted'[i] = emitted[i]
<1>1. /\ signals \in Seq(Tables) /\ emitted \in Seq(Tables)
      /\ Len(signals) \in Nat /\ Len(emitted) \in Nat /\ Len(signals) <= Len(emitted)
      /\ \A i \in 1..Len(signals) : signals[i] = emitted[Len(emitted) - Len(signals) + i]
  BY DEF SignalsInv
<1>2. /\ signals' \in Seq(Tables) /\ Len(signals') = Len(signals) + 1
      /\ \A i \in 1..Len(signals) : signals'[i] = signals[i]
      /\ signals'[Len(signals) + 1] = frame
  BY <1>1
<1>3. /\ emitted' \in Seq(Tables) /\ Len(emitted') = Len(emitted) + 1
      /\ \A i \in 1..Len(emitted) : emitted'[i] = emitted[i]
      /\ emitted'[Len(emitted) + 1] = frame
  BY <1>1
<1>4. ASSUME NEW i \in 1..Len(signals')
      PROVE  signals'[i] = emitted'[Len(emitted') - Len(signals') + i]
  <2>1. Len(emitted') - Len(signals') + i = Len(emitted) - Len(signals) + i
    BY <1>1, <1>2, <1>3
  <2>2. CASE i \in 1..Len(signals)
    <3>1. Len(emitted) - Len(signals) + i \in 1..Len(emitted)
      BY <1>1, <2>2
    <3> QED
      BY <1>1, <1>2, <1>3, <2>1, <2>2, <3>1
  <2>3. CASE i = Len(signals) + 1
    <3>1. Len(emitted) - Len(signals) + i = Len(emitted) + 1
      BY <1>1, <2>3
    <3> QED
      BY <1>2, <1>3, <2>1, <2>3, <3>1
  <2>4. i \in 1..Len(signals) \/ i = Len(signals) + 1
    <3>1. Len(signals') = Len(signals) + 1
      BY <1>2
    <3> QED
      BY <1>1, <3>1
  <2> QED
    BY <2>2, <2>3, <2>4
<1>5. Len(signals') <= Len(emitted')
  BY <1>1, <1>2, <1>3
<1>6. SignalsInv'
  BY <1>2, <1>3, <1>4, <1>5 DEF SignalsInv
<1>7. Len(emitted') - Len(signals') = Len(emitted) - Len(signals)
  BY <1>1, <1>2, <1>3
<1> QED
  BY <1>3, <1>6, <1>7

\* A frame is painted: it is the one behind those that have been.
LEMMA TakeSignal ==
    ASSUME SignalsInv, signals # <<>>, signals' = Tail(signals), emitted' = emitted
    PROVE  /\ SignalsInv'
           /\ Head(signals) \in Tables
           /\ Len(emitted') - Len(signals') = Len(emitted) - Len(signals) + 1
           /\ Len(emitted) - Len(signals) \in Nat
           /\ Len(emitted) - Len(signals) + 1 \in 1..Len(emitted)
           /\ Head(signals) = emitted[Len(emitted) - Len(signals) + 1]
<1>1. /\ signals \in Seq(Tables) /\ emitted \in Seq(Tables)
      /\ Len(signals) \in Nat \ {0} /\ Len(emitted) \in Nat /\ Len(signals) <= Len(emitted)
      /\ \A i \in 1..Len(signals) : signals[i] = emitted[Len(emitted) - Len(signals) + i]
  BY DEF SignalsInv
<1>2. /\ Head(signals) = signals[1] /\ Head(signals) \in Tables
      /\ Tail(signals) \in Seq(Tables) /\ Len(Tail(signals)) = Len(signals) - 1
      /\ \A i \in 1..(Len(signals) - 1) : Tail(signals)[i] = signals[i + 1]
  BY <1>1
<1>3. ASSUME NEW i \in 1..Len(signals')
      PROVE  signals'[i] = emitted'[Len(emitted') - Len(signals') + i]
  <2>1. i + 1 \in 1..Len(signals) /\ signals'[i] = signals[i + 1]
    BY <1>1, <1>2
  <2>2. Len(emitted') - Len(signals') + i = Len(emitted) - Len(signals) + (i + 1)
    BY <1>1, <1>2
  <2> QED
    BY <1>1, <2>1, <2>2
<1>4. SignalsInv'
  BY <1>1, <1>2, <1>3 DEF SignalsInv
<1> QED
  BY <1>1, <1>2, <1>4

\* A sequence of n - 1 values and one more, place by place.
LEMMA AppendFacts ==
    ASSUME NEW n \in Nat \ {0}, NEW w \in Seq(Nat), Len(w) = n - 1, NEW x \in Nat
    PROVE  /\ Append(w, x) \in Seq(Nat) /\ Len(Append(w, x)) = n
           /\ Append(w, x) = [i \in 1..n |-> IF i < n THEN w[i] ELSE x]
<1>1. Append(w, x) \in Seq(Nat) /\ Len(Append(w, x)) = n
  OBVIOUS
<1>2. Append(w, x) = [i \in 1..n |-> Append(w, x)[i]]
  <2>1. \A s \in Seq(Nat) : s = [i \in 1..Len(s) |-> s[i]]
    OBVIOUS
  <2> QED
    BY <1>1, <2>1
<1>3. ASSUME NEW i \in 1..n PROVE Append(w, x)[i] = IF i < n THEN w[i] ELSE x
  <2>1. CASE i < n
    <3>1. i \in 1..Len(w)
      BY <2>1
    <3> QED
      BY <2>1, <3>1
  <2>2. CASE i = n
    <3>1. i = Len(w) + 1
      BY <2>2
    <3> QED
      BY <2>2, <3>1
  <2> QED
    BY <2>1, <2>2
<1> DEFINE a == Append(w, x)
<1> HIDE DEF a
<1>4. a = [i \in 1..n |-> a[i]] /\ \A i \in 1..n : a[i] = IF i < n THEN w[i] ELSE x
  BY <1>2, <1>3 DEF a
<1>5. a = [i \in 1..n |-> IF i < n THEN w[i] ELSE x]
  BY <1>4
<1> QED
  BY <1>1, <1>5 DEF a

\* What a series is made of by a frame d.
LEMMA MovedFacts ==
    ASSUME SeriesInv, NEW d \in Tables
    PROVE  /\ DOMAIN Moved(d) = DOMAIN data \cup DOMAIN d
           /\ \A k \in DOMAIN Moved(d) :
                 /\ Moved(d)[k] \in Seq(Nat) /\ Len(Moved(d)[k]) = NVals
                 /\ Moved(d)[k] = [i \in 1..NVals |->
                       IF i < NVals THEN IF k \in DOMAIN data THEN data[k][i + 1] ELSE 0
                       ELSE IF k \in DOMAIN data THEN PerSecond * Count(d, k) ELSE d[k]]
<1>1. NVals \in Nat \ {0} /\ PerSecond \in Nat \ {0}
  BY SizesAssumption
<1>2. DOMAIN Moved(d) = DOMAIN data \cup DOMAIN d
  BY DEF Moved
<1>3. DOMAIN d \subseteq Keys /\ DOMAIN data \subseteq Keys
  BY TableFacts, FilterAssumption DEF SeriesInv
<1>4. ASSUME NEW k \in DOMAIN data
      PROVE  LET v == Append(Tail(data[k]), PerSecond * Count(d, k))
             IN  /\ v \in Seq(Nat) /\ Len(v) = NVals
                 /\ v = [i \in 1..NVals |-> IF i < NVals THEN data[k][i + 1]
                                            ELSE PerSecond * Count(d, k)]
  <2>1. data[k] \in Seq(Nat) /\ Len(data[k]) = NVals
    BY DEF SeriesInv
  <2>2. Tail(data[k]) \in Seq(Nat) /\ Len(Tail(data[k])) = NVals - 1
        /\ \A i \in 1..(NVals - 1) : Tail(data[k])[i] = data[k][i + 1]
    BY <1>1, <2>1
  <2>3. PerSecond * Count(d, k) \in Nat
    <3>1. Count(d, k) \in Nat
      BY <1>3, TableFacts
    <3> QED
      BY <1>1, <3>1
  <2>4. Append(Tail(data[k]), PerSecond * Count(d, k)) \in Seq(Nat)
        /\ Len(Append(Tail(data[k]), PerSecond * Count(d, k))) = NVals
        /\ Append(Tail(data[k]), PerSecond * Count(d, k)) =
             [i \in 1..NVals |-> IF i < NVals THEN Tail(data[k])[i] ELSE PerSecond * Count(d, k)]
    BY <1>1, <2>2, <2>3, AppendFacts
  <2>5. \A i \in 1..NVals : i < NVals => Tail(data[k])[i] = data[k][i + 1]
    BY <1>1, <2>2
  <2> QED
    BY <2>4, <2>5
<1>5. ASSUME NEW k \in DOMAIN d
      PROVE  LET v == Append(Zeros, d[k])
             IN  /\ v \in Seq(Nat) /\ Len(v) = NVals
                 /\ v = [i \in 1..NVals |-> IF i < NVals THEN 0 ELSE d[k]]
  <2>1. d[k] \in Nat
    BY TableFacts, WidthFacts DEF Counts
  <2>2. Zeros \in Seq(Nat) /\ Len(Zeros) = NVals - 1 /\ \A i \in 1..(NVals - 1) : Zeros[i] = 0
    BY <1>1 DEF Zeros
  <2>3. /\ Append(Zeros, d[k]) \in Seq(Nat) /\ Len(Append(Zeros, d[k])) = NVals
        /\ Append(Zeros, d[k]) = [i \in 1..NVals |-> IF i < NVals THEN Zeros[i] ELSE d[k]]
    BY <1>1, <2>1, <2>2, AppendFacts
  <2>4. \A i \in 1..NVals : i < NVals => Zeros[i] = 0
    BY <1>1, <2>2
  <2> QED
    BY <2>3, <2>4
<1>6. \A k \in DOMAIN Moved(d) :
          Moved(d)[k] = IF k \in DOMAIN data THEN Append(Tail(data[k]), PerSecond * Count(d, k))
                                             ELSE Append(Zeros, d[k])
  BY DEF Moved
<1> QED
  BY <1>2, <1>4, <1>5, <1>6

\* The part of a frame that is shown.
LEMMA FilteredFacts ==
    ASSUME NEW d \in Tables
    PROVE  /\ Filtered(d) \in Tables /\ DOMAIN Filtered(d) = DOMAIN d \cap Filter
           /\ \A k \in DOMAIN Filtered(d) : Filtered(d)[k] = d[k]
           /\ \A k \in Filter : Count(Filtered(d), k) = Count(d, k)
<1>1. DOMAIN d \subseteq Keys /\ \A k \in DOMAIN d : d[k] \in Counts
  BY TableFacts
<1>2. /\ DOMAIN Filtered(d) = DOMAIN d \cap Filter
      /\ \A k \in DOMAIN Filtered(d) : Filtered(d)[k] = d[k]
      /\ Filtered(d) \in [DOMAIN d \cap Filter -> Counts]
  BY <1>1 DEF Filtered
<1>3. Filtered(d) \in Tables
  BY <1>1, <1>2, TableFacts
<1> QED
  BY <1>2, <1>3 DEF Count

\* The values of key k in the last NVals of the first n frames of em.
HistoryAt(em, n, k) ==
    [i \in 1..NVals |->
        IF n - NVals + i < 1 THEN 0 ELSE Plotted(em, n - NVals + i, k)]

\* What is plotted for a frame depends on it and on the frames before it only.
LEMMA PlottedAlike ==
    ASSUME NEW em \in Seq(Tables), NEW fr \in Seq(Tables), NEW n \in Nat,
           \A m \in 1..n : fr[m] = em[m], NEW k
    PROVE  \A m \in 1..n : Plotted(fr, m, k) = Plotted(em, m, k)
<1> SUFFICES ASSUME NEW m \in 1..n PROVE Plotted(fr, m, k) = Plotted(em, m, k)
  OBVIOUS
<1>1. \A j \in 1..(m - 1) : Count(fr[j], k) = Count(em[j], k)
  <2>1. \A j \in 1..(m - 1) : j \in 1..n
    OBVIOUS
  <2> QED
    BY <2>1
<1>2. Begins(fr, m, k) <=> Begins(em, m, k)
  BY <1>1 DEF Begins
<1>3. Count(fr[m], k) = Count(em[m], k)
  OBVIOUS
<1> QED
  BY <1>2, <1>3, Zenon DEF Plotted

\* A frame plots nothing for a key without a count, and something for one with a count.
LEMMA PlottedFacts ==
    ASSUME NEW em, NEW n \in Nat, NEW k, Count(em[n], k) \in Nat
    PROVE  Plotted(em, n, k) \in Nat /\ (Plotted(em, n, k) = 0 <=> Count(em[n], k) = 0)
<1> DEFINE c == Count(em[n], k)
<1>1. c \in Nat /\ Plotted(em, n, k) = (IF Begins(em, n, k) THEN 1 ELSE PerSecond) * c
  BY DEF Plotted
<1> HIDE DEF c
<1>2. PICK f \in {1, PerSecond} : Plotted(em, n, k) = f * c
  BY <1>1
<1>3. f \in Nat /\ f >= 1
  BY SizesAssumption
<1>4. f * c \in Nat
  BY <1>1, <1>3
<1>5. f * c >= c
  BY <1>1, <1>3
<1>6. c = 0 => f * c = 0
  BY <1>3
<1>7. Plotted(em, n, k) \in Nat /\ (Plotted(em, n, k) = 0 <=> c = 0)
  BY <1>1, <1>2, <1>4, <1>5, <1>6
<1> QED
  BY <1>7 DEF c

\* History(k), said without the sequence of the painted frames.
LEMMA PaintedFacts ==
    ASSUME NEW em \in Seq(Tables), NEW n \in 0..Len(em), NEW k
    PROVE  HistoryAt(em, n, k) =
             [i \in 1..NVals |->
                 LET m == Len(SubSeq(em, 1, n)) - NVals + i
                 IN  IF m < 1 THEN 0 ELSE Plotted(SubSeq(em, 1, n), m, k)]
<1>1. NVals \in Nat
  BY SizesAssumption
<1>2. Len(SubSeq(em, 1, n)) = n /\ \A m \in 1..n : SubSeq(em, 1, n)[m] = em[m]
  OBVIOUS
<1> DEFINE painted == SubSeq(em, 1, n)
<1> HIDE DEF painted
<1>3. Len(painted) = n /\ \A m \in 1..n : Plotted(painted, m, k) = Plotted(em, m, k)
  <2>1. Len(painted) = n /\ n \in Nat /\ painted \in Seq(Tables)
        /\ \A m \in 1..n : painted[m] = em[m]
    BY <1>2 DEF painted
  <2> QED
    BY <2>1, PlottedAlike
<1>4. ASSUME NEW i \in 1..NVals
      PROVE  (IF n - NVals + i < 1 THEN 0 ELSE Plotted(em, n - NVals + i, k))
              = IF Len(painted) - NVals + i < 1 THEN 0
                ELSE Plotted(painted, Len(painted) - NVals + i, k)
  <2>1. CASE n - NVals + i < 1
    BY <1>3, <2>1
  <2>2. CASE ~(n - NVals + i < 1)
    <3>1. n - NVals + i \in 1..n
      BY <1>1, <2>2
    <3> QED
      BY <1>3, <2>2, <3>1
  <2> QED
    BY <2>1, <2>2
<1>5. HistoryAt(em, n, k) =
        [i \in 1..NVals |-> IF Len(painted) - NVals + i < 1 THEN 0
                            ELSE Plotted(painted, Len(painted) - NVals + i, k)]
  BY <1>4 DEF HistoryAt
<1> QED
  BY <1>5 DEF painted

\* A further frame moves the history on by one place.
LEMMA HistoryMoves ==
    ASSUME NEW em \in Seq(Tables), NEW n \in Nat, NEW m \in 1..Len(em), m = n + 1,
           NEW k \in Keys
    PROVE  HistoryAt(em, m, k) =
             [i \in 1..NVals |-> IF i < NVals THEN HistoryAt(em, n, k)[i + 1]
                                              ELSE Plotted(em, m, k)]
<1>1. NVals \in Nat \ {0}
  BY SizesAssumption
<1>2. ASSUME NEW i \in 1..NVals
      PROVE  (IF m - NVals + i < 1 THEN 0 ELSE Plotted(em, m - NVals + i, k))
              = IF i < NVals THEN HistoryAt(em, n, k)[i + 1] ELSE Plotted(em, m, k)
  <2>1. CASE i < NVals
    <3>1. i + 1 \in 1..NVals /\ n - NVals + (i + 1) = m - NVals + i
      BY <1>1, <2>1
    <3> QED
      BY <2>1, <3>1 DEF HistoryAt
  <2>2. CASE i = NVals
    <3>1. m - NVals + i = m /\ ~(m < 1) /\ ~(i < NVals)
      BY <1>1, <2>2
    <3> QED
      BY <3>1
  <2> QED
    BY <1>1, <2>1, <2>2
<1> DEFINE old == HistoryAt(em, n, k)
           last == Plotted(em, m, k)
<1> HIDE DEF old, last
<1>3. \A i \in 1..NVals :
        (IF m - NVals + i < 1 THEN 0 ELSE Plotted(em, m - NVals + i, k))
         = IF i < NVals THEN old[i + 1] ELSE last
  BY <1>2 DEF old, last
<1>4. HistoryAt(em, m, k) =
        [i \in 1..NVals |-> IF m - NVals + i < 1 THEN 0
                            ELSE Plotted(em, m - NVals + i, k)]
  BY Zenon DEF HistoryAt
<1>5. HistoryAt(em, m, k) = [i \in 1..NVals |-> IF i < NVals THEN old[i + 1] ELSE last]
  BY <1>3, <1>4, Zenon
<1> QED
  BY <1>5 DEF old, last

\* A series begins with a frame if and only if its key's history before it is zeros.
LEMMA HistoryEmpty ==
    ASSUME NEW em \in Seq(Tables), NEW n \in Nat, NEW m \in 1..Len(em), m = n + 1,
           NEW k \in Keys
    PROVE  Begins(em, m, k) <=> AllZero(HistoryAt(em, n, k))
<1>1. NVals \in Nat \ {0}
  BY SizesAssumption
<1>2. \A j \in 1..n : Count(em[j], k) \in Nat
  <2>1. \A j \in 1..n : em[j] \in Tables
    OBVIOUS
  <2> QED
    BY <2>1, TableFacts
<1>3. \A j \in 1..n : Plotted(em, j, k) = 0 <=> Count(em[j], k) = 0
  BY <1>2, PlottedFacts
<1> DEFINE P(j) == Plotted(em, j, k)
           C(j) == Count(em[j], k)
<1>4. \A j \in 1..n : P(j) = 0 <=> C(j) = 0
  BY <1>3
<1>5. AllZero(HistoryAt(em, n, k))
        <=> \A i \in 1..NVals : (IF n - NVals + i < 1 THEN 0 ELSE P(n - NVals + i)) = 0
  BY DEF AllZero, HistoryAt
<1>6. Begins(em, m, k) <=> \A j \in 1..(m - 1) : m - j <= NVals => C(j) = 0
  BY DEF Begins
<1> HIDE DEF P, C
<1>7. ASSUME \A j \in 1..(m - 1) : m - j <= NVals => C(j) = 0, NEW i \in 1..NVals
      PROVE  (IF n - NVals + i < 1 THEN 0 ELSE P(n - NVals + i)) = 0
  <2>1. CASE n - NVals + i < 1
    BY <2>1
  <2>2. CASE ~(n - NVals + i < 1)
    <3>1. n - NVals + i \in 1..n /\ n - NVals + i \in 1..(m - 1) /\ m - (n - NVals + i) <= NVals
      BY <1>1, <2>2
    <3> QED
      BY <1>4, <1>7, <2>2, <3>1
  <2> QED
    BY <2>1, <2>2
<1>8. ASSUME \A i \in 1..NVals : (IF n - NVals + i < 1 THEN 0 ELSE P(n - NVals + i)) = 0,
             NEW j \in 1..(m - 1), m - j <= NVals
      PROVE  C(j) = 0
  <2> DEFINE i == j - n + NVals
  <2>1. i \in 1..NVals /\ n - NVals + i = j /\ ~(n - NVals + i < 1) /\ j \in 1..n
    BY <1>1, <1>8
  <2> HIDE DEF i
  <2>2. P(j) = 0
    BY <1>8, <2>1
  <2> QED
    BY <1>4, <2>1, <2>2
<1> QED
  BY <1>5, <1>6, <1>7, <1>8

\* Without a frame there is nothing to show.
LEMMA HistoryBegins ==
    ASSUME NEW em, NEW k
    PROVE  AllZero(HistoryAt(em, 0, k))
<1>1. \A i \in 1..NVals : 0 - NVals + i < 1
  BY SizesAssumption
<1> QED
  BY <1>1 DEF HistoryAt, AllZero

\* The series of the first n frames.
Shown(em, n) == [k \in {j \in Filter : ~AllZero(HistoryAt(em, n, j))} |-> HistoryAt(em, n, k)]

\* The frames painted are those emitted that are no longer signals.
LEMMA ShownFacts ==
    ASSUME SignalsInv
    PROVE  SeriesShowRates <=> data = Shown(emitted, Len(emitted) - Len(signals))
<1>1. emitted \in Seq(Tables) /\ Len(emitted) - Len(signals) \in 0..Len(emitted)
  BY DEF SignalsInv
<1>2. \A k : History(k) = HistoryAt(emitted, Len(emitted) - Len(signals), k)
  BY <1>1, PaintedFacts DEF History, Painted
<1> QED
  BY <1>2 DEF SeriesShowRates, Shown
-----------------------------------------------------------------------------
(* The steps of the monitor *)

\* What repaint makes of the frame it takes.
LEMMA SeriesStep ==
    ASSUME SeriesInv, SignalsInv, Repaint
    PROVE  SeriesInv'
<1> DEFINE d == Filtered(Head(signals))
<1>1. d \in Tables /\ DOMAIN d \subseteq Filter
  <2>1. Head(signals) \in Tables
    BY TakeSignal DEF Repaint, history
  <2> QED
    BY <2>1, FilteredFacts
<1>2. data' = [k \in {j \in DOMAIN Moved(d) : ~AllZero(Moved(d)[j])} |-> Moved(d)[k]]
  BY DEF Repaint
<1> HIDE DEF d
<1>3. DOMAIN data' \subseteq DOMAIN Moved(d) /\ \A k \in DOMAIN data' : data'[k] = Moved(d)[k]
  BY <1>2
<1>4. \A k \in DOMAIN Moved(d) : Moved(d)[k] \in Seq(Nat) /\ Len(Moved(d)[k]) = NVals
  BY <1>1, MovedFacts
<1>5. DOMAIN Moved(d) \subseteq Filter
  BY <1>1, MovedFacts DEF SeriesInv
<1> QED
  BY <1>3, <1>4, <1>5 DEF SeriesInv

LEMMA Initially == Init => IInv
<1> SUFFICES ASSUME Init PROVE IInv
  OBVIOUS
<1>1. 0 \in Counts
  BY WidthFacts DEF Counts
<1>2. Present = {}
  BY DEF Init, Present
<1>3. KernelInv
  BY <1>1, <1>2 DEF Init, KernelInv
<1>4. <<>> \in Tables
  <2>1. <<>> \in [{} -> Counts]
    OBVIOUS
  <2> QED
    BY <2>1, TableFacts
<1>5. PollerInv
  BY <1>4 DEF Init, PollerInv
<1>6. SignalsInv
  BY DEF Init, SignalsInv
<1>7. SeriesInv
  BY DEF Init, SeriesInv
<1> QED
  BY <1>3, <1>5, <1>6, <1>7 DEF IInv

LEMMA Invariance == IInv /\ [Next]_vars => IInv'
<1> SUFFICES ASSUME IInv, [Next]_vars PROVE IInv'
  OBVIOUS
<1> USE DEF IInv
<1>1. ASSUME UNCHANGED kernel, UNCHANGED produced PROVE KernelInv'
  BY <1>1 DEF KernelInv, Present, kernel
<1>2. ASSUME UNCHANGED poller PROVE PollerInv'
  BY <1>2 DEF PollerInv, poller
<1>3. ASSUME UNCHANGED signals, UNCHANGED emitted PROVE SignalsInv'
  BY <1>3 DEF SignalsInv
<1>4. ASSUME UNCHANGED data PROVE SeriesInv'
  BY <1>4 DEF SeriesInv
<1>5. <<>> \in Tables /\ Present \subseteq Keys
  <2>1. <<>> \in [{} -> Counts]
    OBVIOUS
  <2> QED
    BY <2>1, TableFacts DEF KernelInv
<1>6. ASSUME NEW h \in Handlers, Load(h) PROVE IInv'
  BY <1>6, <1>2, <1>3, <1>4, LoadStep DEF Load, gui
<1>7. ASSUME NEW h \in Handlers, Store(h) PROVE IInv'
  BY <1>7, <1>2, <1>3, <1>4, StoreStep DEF Store, gui
<1>8. CASE WakeUp
  <2>1. PollerInv'
    BY <1>5, <1>8 DEF WakeUp, PollerInv
  <2> QED
    BY <2>1, <1>1, <1>3, <1>4, <1>8 DEF WakeUp, gui, history
<1>9. CASE ReadEntry
  BY <1>9, <1>1, <1>3, <1>4, ReadStep DEF ReadEntry, gui, history
<1>10. CASE ReadDone
  <2>1. PollerInv'
    BY <1>5, <1>10 DEF ReadDone, PollerInv
  <2> QED
    BY <2>1, <1>1, <1>3, <1>4, <1>10 DEF ReadDone, gui, history
<1>11. CASE ClearEntry
  BY <1>11, <1>3, <1>4, ClearStep DEF ClearEntry, gui, history
<1>12. CASE Emit
  <2>1. PollerInv'
    BY <1>5, <1>12 DEF Emit, PollerInv
  <2>2. SignalsInv'
    BY <1>12, EmitStep DEF Emit, PollerInv
  <2> QED
    BY <2>1, <2>2, <1>1, <1>4, <1>12 DEF Emit
<1>13. CASE Repaint
  <2>1. SignalsInv'
    BY <1>13, TakeSignal DEF Repaint, history
  <2> QED
    BY <2>1, <1>1, <1>2, <1>13, SeriesStep DEF Repaint, history
<1>14. CASE UNCHANGED vars
  BY <1>14, <1>1, <1>2, <1>3, <1>4 DEF vars, gui, history
<1>15. CASE Finished
  BY <1>14, <1>15 DEF Finished
<1> QED
  BY <1>6, <1>7, <1>8, <1>9, <1>10, <1>11, <1>12, <1>13, <1>14, <1>15 DEF Next

\* Every variable has its type: no two keys ever share an entry of the kernel's table,
\* whatever the handlers and the poller interleave, and a series is as long as its axis.
THEOREM TypeCorrect == Spec => []TypeOK
<1>1. IInv => TypeOK
  <2> SUFFICES ASSUME IInv PROVE TypeOK
    OBVIOUS
  <2>1. value \in [Slots -> 0..(Width - 1)]
    BY DEF IInv, KernelInv, Counts
  <2>2. ASSUME NEW h \in Handlers, handler[h].busy PROVE handler[h].slot \in Slots
    <3>1. handler[h] \in Busy
      BY <2>2 DEF IInv, KernelInv, Idle
    <3> QED
      BY <3>1 DEF Busy
  <2>3. \A i \in DOMAIN signals : signals[i] \in Tables
    BY DEF IInv, SignalsInv
  <2> QED
    BY <2>1, <2>2, <2>3 DEF IInv, KernelInv, PollerInv, SeriesInv, TypeOK
<1> QED
  BY <1>1, Initially, Invariance, PTL DEF Spec

\* A frame that is painted moves every series on by what it says of its key.
LEMMA WindowStep ==
    ASSUME SeriesInv, SignalsInv, SeriesShowRates, Repaint
    PROVE  SeriesShowRates'
<1> DEFINE d == Filtered(Head(signals))
           n == Len(emitted) - Len(signals)
           m == n + 1
<1>1. /\ emitted \in Seq(Tables) /\ emitted' = emitted /\ n \in Nat /\ m = n + 1 /\ m \in 1..Len(emitted)
      /\ Len(emitted') - Len(signals') = m
      /\ Head(signals) = emitted[m] /\ Head(signals) \in Tables
      /\ SignalsInv'
  BY TakeSignal DEF Repaint, history, SignalsInv
<1>2. data' = [k \in {j \in DOMAIN Moved(d) : ~AllZero(Moved(d)[j])} |-> Moved(d)[k]]
  BY DEF Repaint
<1>3. /\ d \in Tables /\ DOMAIN d \subseteq Filter
      /\ \A k \in DOMAIN d : d[k] = Count(d, k)
      /\ \A k \in Filter : Count(d, k) = Count(emitted[m], k)
  BY <1>1, FilteredFacts DEF Count
<1>4. data = Shown(emitted, n)
  BY ShownFacts
<1> HIDE DEF d, n, m
<1>5. /\ DOMAIN data = {j \in Filter : ~AllZero(HistoryAt(emitted, n, j))}
      /\ \A k \in DOMAIN data : data[k] = HistoryAt(emitted, n, k)
  BY <1>4 DEF Shown
<1>6. NVals \in Nat \ {0} /\ Filter \subseteq Keys
  BY SizesAssumption, FilterAssumption
<1>7. \A k \in Filter \ DOMAIN data : \A i \in 1..NVals : HistoryAt(emitted, n, k)[i] = 0
  BY <1>5 DEF AllZero, HistoryAt
<1>8. DOMAIN Moved(d) = DOMAIN data \cup DOMAIN d /\ DOMAIN Moved(d) \subseteq Filter
  BY <1>3, <1>5, MovedFacts
<1>9. ASSUME NEW k \in Filter
      PROVE  HistoryAt(emitted, m, k) =
               [i \in 1..NVals |-> IF i < NVals THEN HistoryAt(emitted, n, k)[i + 1]
                                                ELSE Plotted(emitted, m, k)]
  BY <1>1, <1>6, HistoryMoves
<1> DEFINE last(k) == IF k \in DOMAIN data THEN PerSecond * Count(d, k) ELSE Count(d, k)
<1>10. ASSUME NEW k \in Filter
       PROVE  Plotted(emitted, m, k) = last(k)
  <2>1. Begins(emitted, m, k) <=> k \notin DOMAIN data
    BY <1>1, <1>5, <1>6, HistoryEmpty
  <2>2. Count(d, k) = Count(emitted[m], k) /\ Count(d, k) \in Nat
    BY <1>3, <1>6, TableFacts
  <2> QED
    BY <2>1, <2>2 DEF Plotted
<1>11. ASSUME NEW k \in DOMAIN Moved(d)
       PROVE  Moved(d)[k] = HistoryAt(emitted, m, k)
  <2>1. Moved(d)[k] = [i \in 1..NVals |->
            IF i < NVals THEN IF k \in DOMAIN data THEN data[k][i + 1] ELSE 0
            ELSE IF k \in DOMAIN data THEN PerSecond * Count(d, k) ELSE d[k]]
    BY <1>3, MovedFacts
  <2>2. k \in Filter /\ (k \notin DOMAIN data => k \in DOMAIN d)
    BY <1>8
  <2> DEFINE old == HistoryAt(emitted, n, k)
             newest == Plotted(emitted, m, k)
  <2>3. newest = last(k)
    BY <1>10, <2>2
  <2>4. /\ k \in DOMAIN data => data[k] = old /\ PerSecond * Count(d, k) = newest
        /\ k \notin DOMAIN data => d[k] = newest /\ \A i \in 1..NVals : old[i] = 0
    BY <1>3, <1>5, <1>7, <2>2, <2>3
  <2>5. HistoryAt(emitted, m, k) =
            [i \in 1..NVals |-> IF i < NVals THEN old[i + 1] ELSE newest]
    BY <1>9, <2>2
  <2> HIDE DEF old, newest
  <2>6. \A i \in 1..NVals : i < NVals => i + 1 \in 1..NVals
    BY <1>6
  <2>7. ASSUME NEW i \in 1..NVals
        PROVE  (IF i < NVals THEN IF k \in DOMAIN data THEN data[k][i + 1] ELSE 0
                ELSE IF k \in DOMAIN data THEN PerSecond * Count(d, k) ELSE d[k])
                = IF i < NVals THEN old[i + 1] ELSE newest
    BY <2>4, <2>6, Zenon
  <2> QED
    BY <2>1, <2>5, <2>7, Zenon
<1>12. ASSUME NEW k \in Filter \ DOMAIN Moved(d)
       PROVE  AllZero(HistoryAt(emitted, m, k))
  <2>1. Count(d, k) = 0 /\ \A i \in 1..NVals : HistoryAt(emitted, n, k)[i] = 0
    BY <1>7, <1>8 DEF Count
  <2>2. \A i \in 1..NVals : i < NVals => i + 1 \in 1..NVals
    BY <1>6
  <2> DEFINE old == HistoryAt(emitted, n, k)
             newest == Plotted(emitted, m, k)
  <2>3. HistoryAt(emitted, m, k) =
            [i \in 1..NVals |-> IF i < NVals THEN old[i + 1] ELSE newest]
    BY <1>9
  <2>4. newest = 0 /\ \A i \in 1..NVals : old[i] = 0
    BY <1>8, <1>10, <2>1
  <2> HIDE DEF old, newest
  <2> QED
    BY <2>2, <2>3, <2>4 DEF AllZero
<1>13. data' = Shown(emitted', m)
  <2>1. {j \in DOMAIN Moved(d) : ~AllZero(Moved(d)[j])}
          = {j \in Filter : ~AllZero(HistoryAt(emitted, m, j))}
    BY <1>8, <1>11, <1>12
  <2>2. \A k \in {j \in Filter : ~AllZero(HistoryAt(emitted, m, j))} :
           Moved(d)[k] = HistoryAt(emitted, m, k)
    BY <1>11, <2>1
  <2> QED
    BY <1>1, <1>2, <2>1, <2>2 DEF Shown
<1>14. \A k : History(k)' = HistoryAt(emitted', m, k)
  <2>1. /\ m \in 0..Len(emitted') /\ emitted' \in Seq(Tables)
        /\ Len(emitted') - Len(signals') = m
    BY <1>1
  <2> QED
    BY <2>1, PaintedFacts DEF History, Painted
<1> QED
  BY <1>13, <1>14 DEF SeriesShowRates, Shown

\* mon_mig.py and mon_tp.py show the last NVals frames they were sent: every value at its
\* place and, but for the first of a series, divided by the interval in mon_tp.py, for any
\* filter and any order of the threads.  A key that is missing in frames, or whose series was
\* deleted, does not break this.
THEOREM WindowIsHistory == Spec => []SeriesShowRates
<1>1. Init => SeriesShowRates
  <2> SUFFICES ASSUME Init PROVE SeriesShowRates
    OBVIOUS
  <2>1. SignalsInv /\ emitted = <<>> /\ Len(emitted) - Len(signals) = 0 /\ data = <<>>
    BY DEF Init, SignalsInv
  <2>2. Shown(emitted, 0) = <<>>
    BY HistoryBegins DEF Shown
  <2> QED
    BY <2>1, <2>2, ShownFacts
<1>2. IInv /\ SeriesShowRates /\ [Next]_vars => SeriesShowRates'
  <2> SUFFICES ASSUME IInv, SeriesShowRates, [Next]_vars PROVE SeriesShowRates'
    OBVIOUS
  <2>1. ASSUME UNCHANGED <<signals, data, emitted>> PROVE SeriesShowRates'
    BY <2>1 DEF SeriesShowRates, History, Painted
  <2>2. CASE Emit
    <3> DEFINE n == Len(emitted) - Len(signals)
    <3>1. /\ emitted \in Seq(Tables) /\ emitted' \in Seq(Tables) /\ n \in 0..Len(emitted)
          /\ n \in 0..Len(emitted') /\ Len(emitted') - Len(signals') = n
          /\ \A i \in 1..Len(emitted) : emitted'[i] = emitted[i]
      <4>1. SignalsInv' /\ Len(emitted') - Len(signals') = n
            /\ \A i \in 1..Len(emitted) : emitted'[i] = emitted[i]
        BY <2>2, EmitStep DEF Emit, IInv, PollerInv
      <4> QED
        BY <4>1 DEF IInv, SignalsInv
    <3> HIDE DEF n
    <3>2. \A k : HistoryAt(emitted', n, k) = HistoryAt(emitted, n, k)
      <4> SUFFICES ASSUME NEW k PROVE HistoryAt(emitted', n, k) = HistoryAt(emitted, n, k)
        OBVIOUS
      <4>1. \A i \in 1..NVals : ~(n - NVals + i < 1) => n - NVals + i \in 1..Len(emitted)
        BY <3>1, SizesAssumption
      <4>2. \A m \in 1..Len(emitted) : Plotted(emitted', m, k) = Plotted(emitted, m, k)
        <5>1. Len(emitted) \in Nat
          BY <3>1
        <5> QED
          BY <3>1, <5>1, PlottedAlike
      <4>3. \A i \in 1..NVals :
              (IF n - NVals + i < 1 THEN 0 ELSE Plotted(emitted', n - NVals + i, k))
               = IF n - NVals + i < 1 THEN 0 ELSE Plotted(emitted, n - NVals + i, k)
        BY <4>1, <4>2, Zenon
      <4> QED
        BY <4>3, Zenon DEF HistoryAt
    <3>3. \A k : History(k)' = HistoryAt(emitted', n, k)
      BY <3>1, PaintedFacts DEF History, Painted
    <3>4. data = Shown(emitted, n)
      BY ShownFacts DEF IInv, n
    <3>5. data' = data
      BY <2>2 DEF Emit
    <3> QED
      BY <3>2, <3>3, <3>4, <3>5 DEF SeriesShowRates, Shown
  <2>3. CASE Repaint
    BY <2>3, WindowStep DEF IInv
  <2> QED
    BY <2>1, <2>2, <2>3 DEF Next, Load, Store, WakeUp, ReadEntry, ReadDone, ClearEntry,
                            Finished, vars, gui, history
<1> QED
  BY <1>1, <1>2, Initially, Invariance, PTL DEF Spec
-----------------------------------------------------------------------------
(* What Total computes: the recursive function behind it has to be shown to exist *)
(* first, by induction, which is obtained from the well-foundedness of < on Nat. *)

\* A set with 0 and with the successor of each of its numbers has every natural number.
LEMMA Induction ==
    ASSUME NEW S, 0 \in S, \A n \in Nat : n \in S => n + 1 \in S
    PROVE  Nat \subseteq S
<1> DEFINE T == Nat \ S
           less == OpToRel(<, Nat)
<1>1. IsWellFoundedOn(less, Nat)
  BY NatLessThanWellFounded
<1>2. \A m, n \in Nat : m < n => <<m, n>> \in less
  BY Zenon DEF OpToRel
<1> HIDE DEF less
<1>3. SUFFICES ASSUME T # {} PROVE FALSE
  OBVIOUS
<1>4. PICK x \in T : \A y \in T : ~(<<y, x>> \in less)
  BY <1>1, <1>3, WFMin
<1>5. x # 0 /\ x \in Nat /\ x - 1 \in Nat
  BY <1>4
<1>6. x - 1 \in T
  BY <1>5
<1>7. <<x - 1, x>> \in less
  BY <1>2, <1>5
<1> QED
  BY <1>4, <1>6, <1>7

\* h has the sums of the first numbers of s, up to the first n of them.
Partial(s, n, h) == h[0] = 0 /\ \A m \in 1..n : h[m] = h[m - 1] + s[m]

\* There are such sums, and no other ones.
LEMMA PartialExists ==
    ASSUME NEW s \in Seq(Nat)
    PROVE  \E h \in [0..Len(s) -> Nat] : Partial(s, Len(s), h)
<1> DEFINE P == {n \in Nat : n <= Len(s) => \E h \in [0..n -> Nat] : Partial(s, n, h)}
<1>1. 0 \in P
  <2>1. [m \in 0..0 |-> 0] \in [0..0 -> Nat] /\ Partial(s, 0, [m \in 0..0 |-> 0])
    BY DEF Partial
  <2> QED
    BY <2>1
<1>2. ASSUME NEW n \in Nat, n \in P PROVE n + 1 \in P
  <2> SUFFICES ASSUME n + 1 <= Len(s)
               PROVE  \E h \in [0..(n + 1) -> Nat] : Partial(s, n + 1, h)
    OBVIOUS
  <2>1. PICK h \in [0..n -> Nat] : Partial(s, n, h)
    BY <1>2
  <2> DEFINE g == [m \in 0..(n + 1) |-> IF m = n + 1 THEN h[n] + s[n + 1] ELSE h[m]]
  <2>2. s[n + 1] \in Nat /\ h[n] \in Nat
    BY <2>1
  <2>3. g \in [0..(n + 1) -> Nat]
    BY <2>1, <2>2
  <2>4. Partial(s, n + 1, g)
    BY <2>1 DEF Partial
  <2> QED
    BY <2>3, <2>4
<1> HIDE DEF P
<1>3. Len(s) \in P
  BY <1>1, <1>2, Induction
<1> QED
  BY <1>3 DEF P

LEMMA PartialUnique ==
    ASSUME NEW s, NEW t, NEW k \in Nat, NEW g, NEW h, Partial(s, k, g), Partial(t, k, h),
           \A i \in 1..k : s[i] = t[i]
    PROVE  \A n \in 0..k : g[n] = h[n]
<1> DEFINE P == {n \in Nat : n <= k => g[n] = h[n]}
<1>1. 0 \in P
  BY DEF Partial
<1>2. ASSUME NEW n \in Nat, n \in P PROVE n + 1 \in P
  BY <1>2 DEF Partial
<1> HIDE DEF P
<1>3. Nat \subseteq P
  BY <1>1, <1>2, Induction
<1> QED
  BY <1>3 DEF P

\* The total is the last of these sums.
LEMMA TotalPartial ==
    ASSUME NEW s \in Seq(Nat)
    PROVE  \E h \in [0..Len(s) -> Nat] : Partial(s, Len(s), h) /\ Total(s) = h[Len(s)]
<1> DEFINE Sums(f) == f = [n \in 0..Len(s) |-> IF n = 0 THEN 0 ELSE f[n - 1] + s[n]]
           sum == CHOOSE f : Sums(f)
<1>1. PICK h \in [0..Len(s) -> Nat] : Partial(s, Len(s), h)
  BY PartialExists
<1>2. Sums(h)
  BY <1>1 DEF Partial
<1>3. Sums(sum)
  BY <1>2
<1>4. Total(s) = sum[Len(s)]
  BY DEF Total
<1> HIDE DEF sum
<1>5. Partial(s, Len(s), sum)
  <2>1. sum[0] = 0
    BY <1>3
  <2>2. ASSUME NEW m \in 1..Len(s) PROVE sum[m] = sum[m - 1] + s[m]
    <3>1. m \in 0..Len(s) /\ m # 0
      OBVIOUS
    <3> QED
      BY <1>3, <3>1
  <2> HIDE DEF Sums
  <2> QED
    BY <2>1, <2>2 DEF Partial
<1>6. sum[Len(s)] = h[Len(s)]
  BY <1>1, <1>5, PartialUnique
<1> QED
  BY <1>1, <1>4, <1>6

\* A total of natural numbers is one, and nothing adds up to 0.
LEMMA TotalType == \A s \in Seq(Nat) : Total(s) \in Nat
  BY TotalPartial

LEMMA TotalEmpty == Total(<<>>) = 0
<1>1. <<>> \in Seq(Nat) /\ Len(<<>>) = 0
  OBVIOUS
<1>2. PICK h : Partial(<<>>, 0, h) /\ Total(<<>>) = h[0]
  BY <1>1, TotalPartial
<1> QED
  BY <1>2 DEF Partial

\* A number that is appended is added.
LEMMA TotalAppend ==
    ASSUME NEW s \in Seq(Nat), NEW x \in Nat
    PROVE  Total(Append(s, x)) = Total(s) + x
<1> DEFINE n == Len(s)
           t == Append(s, x)
<1>1. /\ n \in Nat /\ Len(t) = n + 1 /\ t[n + 1] = x /\ t \in Seq(Nat)
      /\ \A i \in 1..n : s[i] = t[i]
  OBVIOUS
<1> HIDE DEF n, t
<1>2. PICK g : Partial(s, n, g) /\ Total(s) = g[n]
  BY TotalPartial DEF n
<1>3. PICK h : Partial(t, n + 1, h) /\ Total(t) = h[n + 1]
  BY <1>1, TotalPartial
<1>4. g[n] = h[n]
  <2>1. Partial(t, n, h)
    BY <1>1, <1>3 DEF Partial
  <2>2. \A m \in 0..n : g[m] = h[m]
    BY <1>1, <1>2, <2>1, PartialUnique
  <2> QED
    BY <1>1, <2>2
<1> QED
  BY <1>1, <1>2, <1>3, <1>4 DEF Partial, t

-----------------------------------------------------------------------------
(* What is counted when no windows overlap *)

\* The handlers between their load and their store.
Loaded == {h \in Handlers : handler[h].busy}

\* The keys of a frame are in the table until it is cleared, when they are still to be
\* visited or have been.
FrameKept ==
    /\ pc = "sleep" => frame = <<>>
    /\ pc = "read" => DOMAIN frame \subseteq Present
    /\ pc = "clear" => DOMAIN frame \subseteq visited \cup todo

\* No call produces more than most items, and those of the calls under way are yet to come.
CallsBounded(most) ==
    /\ events \in 0..MaxEvents
    /\ IsFiniteSet(Loaded) /\ Cardinality(Loaded) <= events
    /\ \A k \in Keys : produced[k] <= most * (events - Cardinality(Loaded))

\* As long as no windows have overlapped, each handler under way holds the entry of its key,
\* nobody else holds it, and it has not changed since it was loaded.
HoldersApart ==
    /\ \A h \in Loaded : /\ handler[h].key \in Present
                         /\ slot[handler[h].key] = handler[h].slot
                         /\ handler[h].loaded = value[handler[h].slot]
    /\ \A g, h \in Loaded : g # h => handler[g].slot # handler[h].slot

RaceInv(most) ==
    /\ raced \in BOOLEAN
    /\ FrameKept
    /\ CallsBounded(most)
    /\ ~raced => HoldersApart /\ \A k \in Keys : Counted(k) = produced[k]

\* The three parts of Counted.
InFrames(k) == Total([i \in DOMAIN emitted |-> Count(emitted[i], k)])
InFrame(k) == IF pc = "clear" /\ k \in visited THEN Count(frame, k) ELSE 0
InTable(k) == IF k \in Present THEN value[slot[k]] ELSE 0

\* They are natural numbers.
LEMMA CountedTerms ==
    ASSUME IInv, NEW k \in Keys
    PROVE  /\ Counted(k) = InFrames(k) + InFrame(k) + InTable(k)
           /\ InFrames(k) \in Nat /\ InFrame(k) \in Nat /\ InTable(k) \in Nat
<1>1. emitted \in Seq(Tables) /\ frame \in Tables
  BY DEF IInv, SignalsInv, PollerInv
<1>2. InFrames(k) \in Nat
  <2> DEFINE s == [i \in DOMAIN emitted |-> Count(emitted[i], k)]
  <2>1. Len(emitted) \in Nat /\ DOMAIN emitted = 1..Len(emitted)
        /\ \A i \in 1..Len(emitted) : emitted[i] \in Tables
    BY <1>1
  <2>2. \A i \in 1..Len(emitted) : Count(emitted[i], k) \in Nat
    BY <2>1, TableFacts
  <2>3. s \in [1..Len(emitted) -> Nat]
    BY <2>1, <2>2
  <2>4. s \in Seq(Nat)
    BY <2>1, <2>3
  <2> QED
    BY <2>4, TotalType DEF InFrames
<1>3. InFrame(k) \in Nat
  BY <1>1, TableFacts DEF InFrame
<1>4. InTable(k) \in Nat
  <2>1. k \in Present => value[slot[k]] \in Counts
    BY DEF IInv, KernelInv
  <2>2. Counts \subseteq Nat
    BY WidthFacts DEF Counts
  <2> QED
    BY <2>1, <2>2 DEF InTable
<1> QED
  BY <1>2, <1>3, <1>4 DEF Counted, InFrames, InFrame, InTable

\* A frame that is emitted adds its counts to those of the frames.
LEMMA FramesAppend ==
    ASSUME NEW em \in Seq(Tables), NEW f \in Tables, NEW k \in Keys
    PROVE  Total([i \in DOMAIN Append(em, f) |-> Count(Append(em, f)[i], k)]) =
               Total([i \in DOMAIN em |-> Count(em[i], k)]) + Count(f, k)
<1> DEFINE s == [i \in DOMAIN em |-> Count(em[i], k)]
           t == Append(em, f)
           l == Append(s, Count(f, k))
<1>1. /\ Len(em) \in Nat /\ DOMAIN em = 1..Len(em)
      /\ DOMAIN t = 1..(Len(em) + 1) /\ t[Len(em) + 1] = f
      /\ \A i \in 1..Len(em) : t[i] = em[i] /\ em[i] \in Tables
  OBVIOUS
<1>2. Count(f, k) \in Nat /\ \A i \in 1..Len(em) : Count(em[i], k) \in Nat
  <2>1. \A g \in Tables : Count(g, k) \in Nat
    BY TableFacts
  <2> QED
    BY <1>1, <2>1
<1>3. s \in Seq(Nat) /\ DOMAIN s = 1..Len(em) /\ Len(s) = Len(em) /\ \A i \in 1..Len(em) : s[i] = Count(em[i], k)
  <2>1. s \in [1..Len(em) -> Nat]
    BY <1>1, <1>2
  <2>2. s \in Seq(Nat) /\ Len(s) = Len(em)
    BY <1>1, <2>1
  <2> QED
    BY <1>1, <2>1, <2>2
<1> HIDE DEF s, t
<1>4. /\ l \in Seq(Nat) /\ DOMAIN l = 1..(Len(em) + 1) /\ l[Len(em) + 1] = Count(f, k)
      /\ \A i \in 1..Len(em) : l[i] = Count(em[i], k)
  BY <1>1, <1>2, <1>3
<1>5. l = [i \in DOMAIN l |-> l[i]]
  <2>1. \A q \in Seq(Nat) : q = [i \in DOMAIN q |-> q[i]]
    OBVIOUS
  <2> QED
    BY <1>4, <2>1
<1> HIDE DEF l
<1>6. \A i \in 1..(Len(em) + 1) : l[i] = Count(t[i], k)
  <2>1. \A i \in 1..(Len(em) + 1) : i \in 1..Len(em) \/ i = Len(em) + 1
    BY <1>1
  <2> QED
    BY <1>1, <1>4, <2>1
<1>7. [i \in DOMAIN t |-> Count(t[i], k)] = l
  BY <1>1, <1>4, <1>5, <1>6
<1>8. Total(l) = Total(s) + Count(f, k)
  BY <1>2, <1>3, TotalAppend DEF l
<1> QED
  BY <1>7, <1>8 DEF s, t

\* What a busy handler is.
LEMMA LoadedFacts ==
    ASSUME IInv
    PROVE  /\ \A h \in Loaded : /\ handler[h].key \in Keys /\ handler[h].slot \in Slots
                                /\ handler[h].loaded \in Nat /\ handler[h].ret \in Returns
           /\ Held = {handler[h].slot : h \in Loaded}
<1>1. ASSUME NEW h \in Loaded PROVE handler[h] \in Busy
  BY <1>1 DEF IInv, KernelInv, Idle, Loaded
<1>2. Counts \subseteq Nat
  BY WidthFacts DEF Counts
<1> QED
  BY <1>1, <1>2 DEF Busy, Held, Loaded

\* A handler that begins is one more call under way.
LEMMA CallBegins ==
    ASSUME IInv, IInv', NEW most \in Nat, CallsBounded(most), NEW h \in Handlers, Load(h)
    PROVE  Loaded' = Loaded \cup {h} /\ h \notin Loaded /\ CallsBounded(most)'
<1>1. /\ ~handler[h].busy /\ events < MaxEvents /\ events' = events + 1 /\ produced' = produced
      /\ \A g \in Handlers \ {h} : handler'[g] = handler[g]
      /\ handler'[h].busy
  <2>1. handler \in [Handlers -> Busy \cup {Idle}]
    BY DEF IInv, KernelInv
  <2> QED
    BY <2>1 DEF Load
<1>2. Loaded' = Loaded \cup {h} /\ h \notin Loaded
  BY <1>1 DEF Loaded
<1>3. IsFiniteSet(Loaded) /\ events \in 0..MaxEvents /\ Cardinality(Loaded) <= events
  BY DEF CallsBounded
<1>4. Cardinality(Loaded) \in Nat
  BY <1>3, FS_CardinalityType
<1>5. IsFiniteSet(Loaded') /\ Cardinality(Loaded') = Cardinality(Loaded) + 1
  BY <1>2, <1>3, FS_AddElement
<1>6. events' - Cardinality(Loaded') = events - Cardinality(Loaded)
  BY <1>1, <1>3, <1>4, <1>5
<1>7. \A k \in Keys : produced'[k] <= most * (events' - Cardinality(Loaded'))
  BY <1>1, <1>6 DEF CallsBounded
<1>8. MaxEvents \in Nat
  BY BoundsAssumption
<1>9. events' \in 0..MaxEvents /\ Cardinality(Loaded') <= events'
  BY <1>1, <1>3, <1>4, <1>5, <1>8
<1> QED
  BY <1>2, <1>5, <1>7, <1>9 DEF CallsBounded

\* A handler that ends adds no more than one call's items, and the sum has room in a counter.
LEMMA CallEnds ==
    ASSUME IInv, NEW most \in Nat, Returns \subseteq 0..most, most * MaxEvents < Width,
           CallsBounded(most), NEW h \in Handlers, Store(h)
    PROVE  /\ Loaded' = Loaded \ {h} /\ h \in Loaded /\ CallsBounded(most)'
           /\ handler[h].ret \in Nat /\ produced \in [Keys -> Nat]
           /\ produced' = [produced EXCEPT ![handler[h].key] = @ + handler[h].ret]
           /\ produced[handler[h].key] + handler[h].ret < Width
<1>1. /\ h \in Loaded /\ handler' = [handler EXCEPT ![h] = Idle] /\ events' = events
      /\ handler \in [Handlers -> Busy \cup {Idle}] /\ produced \in [Keys -> Nat]
      /\ produced' = [produced EXCEPT ![handler[h].key] =
            @ + IF handler[h].ret = -1 THEN 0 ELSE handler[h].ret]
  BY DEF Store, Loaded, IInv, KernelInv
<1>2. handler[h].key \in Keys /\ handler[h].ret \in 0..most
  BY <1>1, LoadedFacts
<1>3. produced' = [produced EXCEPT ![handler[h].key] = @ + handler[h].ret]
  <2>1. (IF handler[h].ret = -1 THEN 0 ELSE handler[h].ret) = handler[h].ret
    BY <1>2
  <2> QED
    BY <1>1, <2>1
<1>4. Loaded' = Loaded \ {h}
  BY <1>1 DEF Loaded, Idle
<1>5. IsFiniteSet(Loaded) /\ events \in 0..MaxEvents /\ Cardinality(Loaded) <= events
      /\ MaxEvents \in Nat
  BY BoundsAssumption DEF CallsBounded
<1>6. Cardinality(Loaded) \in Nat
  BY <1>5, FS_CardinalityType
<1>7. IsFiniteSet(Loaded') /\ Cardinality(Loaded') = Cardinality(Loaded) - 1
  BY <1>1, <1>4, <1>5, FS_RemoveElement
<1>8. Cardinality(Loaded') \in Nat
  BY <1>7, FS_CardinalityType
<1> DEFINE n == events - Cardinality(Loaded)
<1>9. /\ n \in Nat /\ events' - Cardinality(Loaded') = n + 1 /\ n + 1 <= MaxEvents
      /\ Cardinality(Loaded') <= events'
  BY <1>1, <1>5, <1>6, <1>7, <1>8
<1>10. \A k \in Keys : produced[k] <= most * n
  BY DEF CallsBounded
<1> HIDE DEF n
<1>11. most * (n + 1) = most * n + most /\ most * n \in Nat /\ most * (n + 1) <= most * MaxEvents
       /\ most * MaxEvents \in Nat
  <2>1. most * (n + 1) = most * n + most /\ most * n \in Nat
    BY <1>9
  <2>2. \A a, b \in Nat : a <= b => most * a <= most * b
    <3> SUFFICES ASSUME NEW a \in Nat, NEW b \in Nat, a <= b PROVE most * a <= most * b
      OBVIOUS
    <3>1. PICK e \in Nat : b = a + e
      <4>1. b - a \in Nat /\ b = a + (b - a)
        OBVIOUS
      <4> QED
        BY <4>1
    <3>2. most * b = most * a + most * e /\ most * e \in Nat /\ most * a \in Nat
      BY <3>1
    <3> QED
      BY <3>2
  <2>3. n + 1 \in Nat /\ MaxEvents \in Nat /\ n + 1 <= MaxEvents
    BY <1>5, <1>9
  <2>4. most * MaxEvents \in Nat
    BY <1>5
  <2> QED
    BY <2>1, <2>2, <2>3, <2>4
<1> DEFINE now == most * n
           more == most * (n + 1)
           all == most * MaxEvents
<1>12. now \in Nat /\ all \in Nat /\ more = now + most /\ more <= all /\ all < Width
       /\ \A k \in Keys : produced[k] <= now
  BY <1>10, <1>11
<1> HIDE DEF now, more, all
<1>13. \A k \in Keys : produced[k] \in Nat
  BY <1>1
<1>14. \A k \in Keys : produced'[k] <= more
  <2> SUFFICES ASSUME NEW k \in Keys PROVE produced'[k] <= more
    OBVIOUS
  <2>1. produced[k] <= now /\ produced[k] \in Nat
    BY <1>12, <1>13
  <2>2. produced'[k] = IF k = handler[h].key THEN produced[k] + handler[h].ret ELSE produced[k]
    BY <1>1, <1>3
  <2> QED
    BY <1>2, <1>12, <2>1, <2>2
<1>15. produced[handler[h].key] + handler[h].ret < Width
  <2>1. produced[handler[h].key] <= now /\ produced[handler[h].key] \in Nat
    BY <1>2, <1>12, <1>13
  <2>2. Width \in Nat
    BY WidthFacts
  <2> QED
    BY <1>2, <1>12, <2>1, <2>2
<1>16. CallsBounded(most)'
  BY <1>1, <1>5, <1>7, <1>9, <1>14 DEF CallsBounded, more
<1>17. handler[h].ret \in Nat
  BY <1>2
<1> QED
  BY <1>1, <1>3, <1>4, <1>15, <1>16, <1>17

\* What the frames and the poller hold of the keys does not change in a handler's step.
LEMMA SameFrames ==
    ASSUME UNCHANGED <<pc, visited, frame, emitted>>, NEW k
    PROVE  InFrames(k)' = InFrames(k) /\ InFrame(k)' = InFrame(k)
  BY DEF InFrames, InFrame

\* The counting stays exact when a handler finds or creates its entry.
LEMMA RaceLoad ==
    ASSUME IInv, IInv', NEW most \in Nat, RaceInv(most), NEW h \in Handlers, Load(h)
    PROVE  RaceInv(most)'
<1>1. PICK k \in CountsFor[h], r \in Returns :
        \E s \in IF k \in Present THEN {slot[k]} ELSE Slots \ {slot[j] : j \in Present} :
          /\ slot' = [j \in Present \cup {k} |-> IF j = k THEN s ELSE slot[j]]
          /\ value' = IF k \in Present THEN value ELSE [value EXCEPT ![s] = 0]
          /\ handler' = [handler EXCEPT ![h] =
                [busy |-> TRUE, key |-> k, slot |-> s, loaded |-> value'[s], ret |-> r]]
          /\ raced' = (raced \/ s \in Held)
  BY DEF Load
<1>2. PICK s \in IF k \in Present THEN {slot[k]} ELSE Slots \ {slot[j] : j \in Present} :
          /\ slot' = [j \in Present \cup {k} |-> IF j = k THEN s ELSE slot[j]]
          /\ value' = IF k \in Present THEN value ELSE [value EXCEPT ![s] = 0]
          /\ handler' = [handler EXCEPT ![h] =
                [busy |-> TRUE, key |-> k, slot |-> s, loaded |-> value'[s], ret |-> r]]
          /\ raced' = (raced \/ s \in Held)
  BY <1>1
<1>3. UNCHANGED <<pc, todo, visited, frame, emitted, produced>>
  BY DEF Load, poller
<1>4. /\ s \in Slots /\ (k \in Present => s = slot[k])
      /\ (k \notin Present => \A j \in Present : slot[j] # s)
      /\ value \in [Slots -> Counts] /\ \A j \in Present : slot[j] \in Slots
  BY <1>2 DEF IInv, KernelInv
<1>5. Present' = Present \cup {k} /\ slot'[k] = s /\ \A j \in Present : slot'[j] = slot[j]
  BY <1>2, <1>4 DEF Present
<1>6. /\ k \in Present => value' = value
      /\ k \notin Present => value'[s] = 0 /\ \A t \in Slots \ {s} : value'[t] = value[t]
  BY <1>2, <1>4
<1>7. /\ handler'[h] = [busy |-> TRUE, key |-> k, slot |-> s, loaded |-> value'[s], ret |-> r]
      /\ \A g \in Handlers \ {h} : handler'[g] = handler[g]
  BY <1>2 DEF IInv, KernelInv
<1>8. Loaded' = Loaded \cup {h} /\ h \notin Loaded /\ CallsBounded(most)'
  BY CallBegins DEF RaceInv
<1>9. FrameKept'
  BY <1>3, <1>5 DEF RaceInv, FrameKept
<1>10. raced' \in BOOLEAN
  BY <1>2 DEF RaceInv
<1>11. ASSUME ~raced' PROVE HoldersApart'
  <2>1. ~raced /\ s \notin Held /\ HoldersApart
    BY <1>2, <1>11 DEF RaceInv
  <2>2. \A g \in Loaded : handler'[g] = handler[g] /\ handler[g].slot # s /\ handler[g].slot \in Slots
    BY <1>7, <1>8, <2>1, LoadedFacts DEF Loaded
  <2>3. ASSUME NEW g \in Loaded'
        PROVE  /\ handler'[g].key \in Present'
               /\ slot'[handler'[g].key] = handler'[g].slot
               /\ handler'[g].loaded = value'[handler'[g].slot]
    <3>1. CASE g = h
      BY <1>5, <1>7, <3>1
    <3>2. CASE g # h
      <4>1. g \in Loaded /\ handler'[g] = handler[g]
        BY <1>8, <2>2, <3>2
      <4>2. /\ handler[g].key \in Present /\ slot[handler[g].key] = handler[g].slot
            /\ handler[g].loaded = value[handler[g].slot]
        BY <2>1, <4>1 DEF HoldersApart
      <4>3. value'[handler[g].slot] = value[handler[g].slot]
        BY <1>6, <2>2, <4>1
      <4> QED
        BY <1>5, <4>1, <4>2, <4>3
    <3> QED
      BY <3>1, <3>2
  <2>4. ASSUME NEW g \in Loaded', NEW i \in Loaded', g # i PROVE handler'[g].slot # handler'[i].slot
    <3>1. handler'[h].slot = s
      BY <1>7
    <3>2. \A f, j \in Loaded : f # j => handler[f].slot # handler[j].slot
      BY <2>1 DEF HoldersApart
    <3> QED
      BY <1>8, <2>2, <2>4, <3>1, <3>2
  <2> QED
    BY <2>3, <2>4 DEF HoldersApart
<1>12. ASSUME NEW j \in Keys PROVE InTable(j)' = InTable(j)
  <2>1. CASE j = k
    BY <1>4, <1>5, <1>6, <2>1 DEF InTable
  <2>2. CASE j # k
    <3>1. j \in Present' <=> j \in Present
      BY <1>5, <2>2
    <3>2. ASSUME j \in Present PROVE value'[slot'[j]] = value[slot[j]]
      BY <1>4, <1>5, <1>6, <3>2
    <3> QED
      BY <3>1, <3>2 DEF InTable
  <2> QED
    BY <2>1, <2>2
<1>13. ASSUME ~raced', NEW j \in Keys PROVE Counted(j)' = produced'[j]
  <2>1. Counted(j) = produced[j]
    BY <1>2, <1>13 DEF RaceInv
  <2>2. Counted(j)' = Counted(j)
    BY <1>3, <1>12, SameFrames DEF Counted, InFrames, InFrame, InTable
  <2> QED
    BY <1>3, <2>1, <2>2
<1> QED
  BY <1>8, <1>9, <1>10, <1>11, <1>13 DEF RaceInv

\* The counting stays exact when a handler stores its sum in an entry that it alone holds.
LEMMA RaceStore ==
    ASSUME IInv, IInv', NEW most \in Nat, Returns \subseteq 0..most, most * MaxEvents < Width,
           RaceInv(most), NEW h \in Handlers, Store(h)
    PROVE  RaceInv(most)'
<1> DEFINE k == handler[h].key
           s == handler[h].slot
           r == handler[h].ret
<1>1. /\ Loaded' = Loaded \ {h} /\ h \in Loaded /\ CallsBounded(most)'
      /\ r \in Nat /\ produced \in [Keys -> Nat]
      /\ produced' = [produced EXCEPT ![k] = @ + r]
      /\ produced[k] + r < Width
  BY CallEnds DEF RaceInv
<1>2. UNCHANGED <<slot, pc, todo, visited, frame, emitted, raced>> /\ Present' = Present
  BY DEF Store, poller, Present
<1>3. /\ k \in Keys /\ s \in Slots /\ handler[h].loaded \in Nat /\ value \in [Slots -> Counts]
      /\ handler \in [Handlers -> Busy \cup {Idle}] /\ handler' = [handler EXCEPT ![h] = Idle]
  BY <1>1, LoadedFacts DEF Store, IInv, KernelInv
<1>4. value' = [value EXCEPT ![s] = (handler[h].loaded + r) % Width]
  <2>1. Register(r) = {r}
    BY <1>1 DEF Register
  <2> QED
    BY <2>1 DEF Store
<1> HIDE DEF k, s, r
<1>5. FrameKept'
  BY <1>2 DEF RaceInv, FrameKept
<1>6. ASSUME ~raced PROVE HoldersApart' /\ \A j \in Keys : Counted(j)' = produced'[j]
  <2>1. HoldersApart /\ \A j \in Keys : Counted(j) = produced[j]
    BY <1>6 DEF RaceInv
  <2>2. k \in Present /\ slot[k] = s /\ handler[h].loaded = value[s]
    BY <1>1, <2>1 DEF HoldersApart, k, s
  <2>3. \A g \in Loaded' : g \in Loaded /\ g # h /\ handler'[g] = handler[g] /\ handler[g].slot # s
    BY <1>1, <1>3, <2>1 DEF HoldersApart, s, Loaded
  <2>4. HoldersApart'
    <3>1. \A g \in Loaded' : handler[g].slot \in Slots
      BY <2>3, LoadedFacts
    <3>2. \A t \in Slots \ {s} : value'[t] = value[t]
      BY <1>3, <1>4
    <3> QED
      BY <1>2, <2>1, <2>3, <3>1, <3>2 DEF HoldersApart
  <2>5. /\ Counted(k) = InFrames(k) + InFrame(k) + InTable(k)
        /\ InFrames(k) \in Nat /\ InFrame(k) \in Nat /\ InTable(k) = value[s] /\ value[s] \in Nat
    BY <1>3, <2>2, CountedTerms DEF InTable
  <2>6. value'[s] = value[s] + r
    <3>1. value[s] + r < Width
      <4>1. produced[k] = InFrames(k) + InFrame(k) + value[s]
        BY <1>3, <2>1, <2>5
      <4>2. value[s] <= produced[k]
        BY <2>5, <4>1
      <4> QED
        BY <1>1, <1>3, <2>5, <4>2, WidthFacts
    <3>2. \A x \in Nat, w \in Nat \ {0} : x < w => x % w = x
      OBVIOUS
    <3>3. (value[s] + r) % Width = value[s] + r
      <4>1. value[s] + r \in Nat /\ Width \in Nat \ {0}
        BY <1>1, <2>5, WidthFacts
      <4> QED
        BY <3>1, <3>2, <4>1
    <3> QED
      BY <1>3, <1>4, <2>2, <3>3
  <2>7. ASSUME NEW j \in Keys PROVE Counted(j)' = produced'[j]
    <3>1. Counted(j)' = InFrames(j) + InFrame(j) + InTable(j)'
      BY <1>2, SameFrames DEF Counted, InFrames, InFrame, InTable
    <3>2. CASE j = k
      <4>1. InTable(j)' = value[s] + r
        BY <1>2, <2>2, <2>6, <3>2 DEF InTable
      <4>2. produced'[j] = produced[j] + r
        BY <1>1, <1>3, <3>2
      <4> QED
        BY <1>1, <2>1, <2>5, <3>1, <3>2, <4>1, <4>2
    <3>3. CASE j # k
      <4>1. produced'[j] = produced[j]
        BY <1>1, <3>3
      <4>2. InTable(j)' = InTable(j)
        <5>1. ASSUME j \in Present PROVE value'[slot[j]] = value[slot[j]]
          <6>1. slot[j] \in Slots /\ slot[j] # s
            BY <2>2, <3>3, <5>1 DEF IInv, KernelInv
          <6> QED
            BY <1>3, <1>4, <6>1
        <5> QED
          BY <1>2, <5>1 DEF InTable
      <4> QED
        BY <2>1, <3>1, <4>1, <4>2, CountedTerms
    <3> QED
      BY <3>2, <3>3
  <2> QED
    BY <2>4, <2>7
<1>7. raced' = raced /\ raced \in BOOLEAN
  BY <1>2 DEF RaceInv
<1> QED
  BY <1>1, <1>5, <1>6, <1>7 DEF RaceInv

\* The calls under way are those of the handlers.
LEMMA SameCalls ==
    ASSUME UNCHANGED <<handler, events, produced>>, NEW most, CallsBounded(most)
    PROVE  Loaded' = Loaded /\ CallsBounded(most)'
  BY DEF Loaded, CallsBounded

\* The counting stays exact when the poller deletes an entry that it has read, that has not
\* changed since and that nobody holds.
LEMMA RaceClear ==
    ASSUME IInv, IInv', NEW most \in Nat, RaceInv(most), ClearEntry
    PROVE  RaceInv(most)'
<1>1. PICK k \in Present \ visited :
          /\ slot' = [j \in Present \ {k} |-> slot[j]]
          /\ todo' = todo \ {k} /\ visited' = visited \cup {k}
          /\ raced' = (raced \/ slot[k] \in Held \/ value[slot[k]] # Count(frame, k))
  BY DEF ClearEntry
<1>2. pc = "clear" /\ UNCHANGED <<pc, frame, value, handler, produced, events, emitted>>
  BY DEF ClearEntry, history
<1>3. Present' = Present \ {k} /\ \A j \in Present' : slot'[j] = slot[j]
  BY <1>1 DEF Present
<1>4. Loaded' = Loaded /\ CallsBounded(most)'
  BY <1>2, SameCalls DEF RaceInv
<1>5. FrameKept'
  BY <1>1, <1>2 DEF RaceInv, FrameKept
<1>6. ASSUME ~raced' PROVE HoldersApart' /\ \A j \in Keys : Counted(j)' = produced'[j]
  <2>1. /\ ~raced /\ slot[k] \notin Held /\ value[slot[k]] = Count(frame, k)
        /\ HoldersApart /\ \A j \in Keys : Counted(j) = produced[j]
    BY <1>1, <1>6 DEF RaceInv
  <2>2. HoldersApart'
    <3>1. \A h \in Loaded : handler[h].key # k
      BY <2>1, LoadedFacts DEF HoldersApart
    <3> QED
      BY <1>2, <1>3, <1>4, <2>1, <3>1 DEF HoldersApart
  <2>3. ASSUME NEW j \in Keys PROVE Counted(j)' = produced'[j]
    <3>1. Counted(j)' = InFrames(j) + InFrame(j)' + InTable(j)'
      BY <1>2 DEF Counted, InFrames, InFrame, InTable
    <3>2. /\ Counted(j) = InFrames(j) + InFrame(j) + InTable(j)
          /\ InFrames(j) \in Nat /\ InFrame(j) \in Nat /\ InTable(j) \in Nat
      BY CountedTerms
    <3>3. CASE j = k
      <4>1. InFrame(j) = 0 /\ InTable(j) = value[slot[k]]
        BY <3>3 DEF InFrame, InTable
      <4>2. InFrame(j)' = Count(frame, k) /\ InTable(j)' = 0
        BY <1>1, <1>2, <1>3, <3>3 DEF InFrame, InTable
      <4> QED
        BY <1>2, <2>1, <3>1, <3>2, <4>1, <4>2
    <3>4. CASE j # k
      <4>1. InFrame(j)' = InFrame(j)
        BY <1>1, <1>2, <3>4 DEF InFrame
      <4>2. InTable(j)' = InTable(j)
        BY <1>2, <1>3, <3>4 DEF InTable
      <4> QED
        BY <1>2, <2>1, <3>1, <3>2, <4>1, <4>2
    <3> QED
      BY <3>3, <3>4
  <2> QED
    BY <2>2, <2>3
<1>7. raced' \in BOOLEAN
  BY <1>1 DEF RaceInv
<1> QED
  BY <1>4, <1>5, <1>6, <1>7 DEF RaceInv

\* And when the frame is emitted: all its keys have been visited.
LEMMA RaceEmit ==
    ASSUME IInv, IInv', NEW most \in Nat, RaceInv(most), Emit
    PROVE  RaceInv(most)'
<1>1. /\ pc = "clear" /\ todo = {} /\ pc' = "sleep" /\ frame' = <<>>
      /\ emitted' = Append(emitted, frame)
      /\ UNCHANGED <<slot, value, handler, produced, events, raced>>
  BY DEF Emit, kernel
<1>2. Present' = Present /\ Loaded' = Loaded /\ CallsBounded(most)'
  BY <1>1, SameCalls DEF RaceInv, Present
<1>3. FrameKept'
  BY <1>1 DEF FrameKept
<1>4. HoldersApart => HoldersApart'
  BY <1>1, <1>2 DEF HoldersApart
<1>5. ASSUME NEW j \in Keys PROVE Counted(j)' = Counted(j)
  <2>1. emitted \in Seq(Tables) /\ frame \in Tables
    BY DEF IInv, SignalsInv, PollerInv
  <2>2. InFrames(j)' = InFrames(j) + Count(frame, j)
    BY <1>1, <2>1, FramesAppend DEF InFrames
  <2>3. InFrame(j) = Count(frame, j)
    <3>1. DOMAIN frame \subseteq visited
      BY <1>1 DEF RaceInv, FrameKept
    <3> QED
      BY <1>1, <3>1 DEF InFrame, Count
  <2>4. Counted(j)' = InFrames(j)' + 0 + InTable(j)
    BY <1>1, <1>2 DEF Counted, InFrames, InTable
  <2> QED
    BY <2>2, <2>3, <2>4, CountedTerms
<1> QED
  BY <1>1, <1>2, <1>3, <1>4, <1>5 DEF RaceInv

\* And while the poller sleeps, wakes up and reads.
LEMMA RaceRead ==
    ASSUME IInv, IInv', NEW most \in Nat, RaceInv(most), WakeUp \/ ReadEntry \/ ReadDone
    PROVE  RaceInv(most)'
<1>1. UNCHANGED <<slot, value, handler, produced, events, emitted, raced>>
  BY DEF WakeUp, ReadEntry, ReadDone, kernel, history
<1>2. Present' = Present /\ Loaded' = Loaded /\ CallsBounded(most)'
  BY <1>1, SameCalls DEF RaceInv, Present
<1>3. FrameKept'
  <2>1. CASE WakeUp
    BY <2>1 DEF WakeUp, FrameKept
  <2>2. CASE ReadEntry
    BY <1>2, <2>2 DEF ReadEntry, FrameKept, RaceInv
  <2>3. CASE ReadDone
    BY <2>3 DEF ReadDone, FrameKept, RaceInv
  <2> QED
    BY <2>1, <2>2, <2>3
<1>4. HoldersApart => HoldersApart'
  BY <1>1, <1>2 DEF HoldersApart
<1>5. ASSUME NEW j \in Keys PROVE Counted(j)' = Counted(j)
  <2>1. InFrame(j)' = 0 /\ InFrame(j) = 0
    BY DEF WakeUp, ReadEntry, ReadDone, InFrame
  <2>2. Counted(j)' = InFrames(j) + 0 + InTable(j) /\ Counted(j) = InFrames(j) + 0 + InTable(j)
    BY <1>1, <1>2, <2>1 DEF Counted, InFrames, InFrame, InTable
  <2> QED
    BY <2>2
<1> QED
  BY <1>1, <1>2, <1>3, <1>4, <1>5 DEF RaceInv

\* The rest does not touch the counting.
LEMMA RaceOther ==
    ASSUME NEW most \in Nat, RaceInv(most),
           UNCHANGED <<slot, value, handler, pc, todo, visited, frame, produced, events, emitted, raced>>
    PROVE  RaceInv(most)'
<1>1. Present' = Present /\ Loaded' = Loaded
  BY DEF Present, Loaded
<1>2. FrameKept' /\ CallsBounded(most)' /\ (HoldersApart => HoldersApart')
  BY <1>1 DEF RaceInv, FrameKept, CallsBounded, HoldersApart
<1>3. \A j \in Keys : Counted(j)' = Counted(j)
  BY <1>1 DEF Counted
<1> QED
  BY <1>2, <1>3 DEF RaceInv

\* Nothing is lost or counted twice unless two windows have overlapped, whatever number of
\* handlers and keys there are and however the poller and the handlers interleave, provided
\* that no call returns -1 and that the calls add up to less than a counter holds: so it is
\* for mon_mig.py, which adds 1 for each event (Returns = {1}, most = 1).
THEOREM CountingExact ==
    ASSUME NEW CONSTANT most \in Nat, Returns \subseteq 0..most, most * MaxEvents < Width
    PROVE  Spec => []ExactUnlessRaced
<1>1. Init => RaceInv(most)
  <2> SUFFICES ASSUME Init PROVE RaceInv(most)
    OBVIOUS
  <2>1. /\ events = 0 /\ emitted = <<>> /\ pc = "sleep" /\ frame = <<>> /\ raced = FALSE
        /\ Present = {} /\ Loaded = {} /\ \A k \in Keys : produced[k] = 0
    BY DEF Init, Present, Loaded, Idle
  <2>2. IsFiniteSet(Loaded) /\ Cardinality(Loaded) = 0
    BY <2>1, FS_EmptySet
  <2>3. most * 0 = 0 /\ 0 - 0 = 0 /\ MaxEvents \in Nat
    BY BoundsAssumption
  <2>4. CallsBounded(most)
    BY <2>1, <2>2, <2>3 DEF CallsBounded
  <2>5. ASSUME NEW k \in Keys PROVE Counted(k) = 0
    <3>1. [i \in DOMAIN emitted |-> Count(emitted[i], k)] = <<>>
      BY <2>1
    <3> QED
      BY <2>1, <3>1, TotalEmpty DEF Counted
  <2> QED
    BY <2>1, <2>4, <2>5 DEF RaceInv, FrameKept, HoldersApart
<1>2. IInv /\ IInv' /\ RaceInv(most) /\ [Next]_vars => RaceInv(most)'
  <2> SUFFICES ASSUME IInv, IInv', RaceInv(most), [Next]_vars PROVE RaceInv(most)'
    OBVIOUS
  <2>1. ASSUME NEW h \in Handlers, Load(h) PROVE RaceInv(most)'
    BY <2>1, RaceLoad
  <2>2. ASSUME NEW h \in Handlers, Store(h) PROVE RaceInv(most)'
    BY <2>2, RaceStore
  <2>3. CASE WakeUp \/ ReadEntry \/ ReadDone
    BY <2>3, RaceRead
  <2>4. CASE ClearEntry
    BY <2>4, RaceClear
  <2>5. CASE Emit
    BY <2>5, RaceEmit
  <2>6. CASE Repaint \/ Finished \/ UNCHANGED vars
    BY <2>6, RaceOther DEF Repaint, Finished, vars, kernel, poller, history
  <2> QED
    BY <2>1, <2>2, <2>3, <2>4, <2>5, <2>6 DEF Next
<1>3. RaceInv(most) => ExactUnlessRaced
  BY DEF RaceInv, ExactUnlessRaced
<1> QED
  BY <1>1, <1>2, <1>3, Initially, Invariance, PTL DEF Spec
=============================================================================
