-------------------------- MODULE CacheMonitor_proofs --------------------------
(***************************************************************************)
(* What the monitors of utils/mon_cache.py and utils/bcc_perf.py show only *)
(* moves forward, for any number of processors, ticks and misses and any   *)
(* size of the rings.                                                      *)
(*                                                                         *)
(* The events of a processor lie in a row: those shown, then the one in    *)
(* the dictionary, then those in the ring, then the tick to come.  The     *)
(* inductive invariant says that their ticks increase along this row.      *)
(*                                                                         *)
(* The misses they carry add up to those the processor has counted, as     *)
(* long as no event of it is lost.                                         *)
(***************************************************************************)
EXTENDS CacheMonitor, FiniteSetTheorems, WellFoundedInduction, TLAPS

\* The ticks of the events of s increase, and all come before tick n.
Increasing(s, n) ==
    /\ \A i, j \in DOMAIN s : i < j => s[i].at < s[j].at
    /\ \A i \in DOMAIN s : s[i].at < n

\* What the type invariant says, with the domains of the functions; the printer has no
\* dictionary.
TypeInv ==
    /\ program \in {"mon_cache", "bcc_perf"}
    /\ misses \in [Cpus -> Nat] /\ old \in [Cpus -> Nat] /\ ticks \in [Cpus -> Nat]
    /\ ring \in [Cpus -> Seq(Events)] /\ emitted \in [Cpus -> Seq(Events)]
    /\ \A c \in Cpus : Len(ring[c]) <= RingSize
    /\ DOMAIN d \subseteq Cpus /\ \A c \in DOMAIN d : d[c] \in Events /\ d[c].cpu = c
    /\ first \in BOOLEAN
    /\ program = "bcc_perf" => DOMAIN d = {}
    /\ program = "mon_cache" /\ first => \A c \in Cpus : emitted[c] = <<>>
    /\ Complete(d) => ~first /\ \A c \in Cpus : emitted[c] = <<>>
    /\ program = "mon_cache" /\ 2 * Cardinality(Cpus) <= FrameKeys =>
           \A b, c \in Cpus : Len(emitted[b]) = Len(emitted[c])

\* A counter is never behind what was remembered of it, and an event names its processor.
CounterInv ==
    \A c \in Cpus : old[c] <= misses[c] /\ \A i \in DOMAIN ring[c] : ring[c][i].cpu = c

\* The events of processor c, in the order of the row above.
Ordered(c) ==
    /\ Increasing(ring[c], ticks[c])
    /\ Increasing(emitted[c], ticks[c])
    /\ \A i \in DOMAIN emitted[c], j \in DOMAIN ring[c] : emitted[c][i].at < ring[c][j].at
    /\ c \in DOMAIN d =>
          /\ d[c].at < ticks[c]
          /\ \A i \in DOMAIN emitted[c] : emitted[c][i].at < d[c].at
          /\ \A j \in DOMAIN ring[c] : d[c].at < ring[c][j].at

IInv == TypeInv /\ CounterInv /\ \A c \in Cpus : Ordered(c)
-----------------------------------------------------------------------------
(* Sequences of events *)

\* The head of a ring and what is left of it.
LEMMA TakeFacts ==
    ASSUME NEW s \in Seq(Events), s # <<>>
    PROVE  /\ Head(s) = s[1] /\ Head(s) \in Events /\ 1 \in DOMAIN s
           /\ Tail(s) \in Seq(Events) /\ Len(Tail(s)) = Len(s) - 1
           /\ DOMAIN Tail(s) = 1..(Len(s) - 1)
           /\ \A i \in DOMAIN Tail(s) : i + 1 \in DOMAIN s /\ Tail(s)[i] = s[i + 1]
<1>1. Len(s) \in Nat \ {0} /\ DOMAIN s = 1..Len(s)
  OBVIOUS
<1>2. Tail(s) \in Seq(Events) /\ Len(Tail(s)) = Len(s) - 1
  OBVIOUS
<1>3. \A i \in 1..(Len(s) - 1) : Tail(s)[i] = s[i + 1]
  OBVIOUS
<1>4. Head(s) = s[1] /\ s[1] \in Events
  BY <1>1
<1> QED
  BY <1>1, <1>2, <1>3, <1>4

\* A sequence with one more event.
LEMMA AddFacts ==
    ASSUME NEW s \in Seq(Events), NEW e \in Events
    PROVE  /\ Append(s, e) \in Seq(Events) /\ Len(Append(s, e)) = Len(s) + 1
           /\ DOMAIN Append(s, e) = DOMAIN s \cup {Len(s) + 1}
           /\ \A i \in DOMAIN s : i < Len(s) + 1 /\ Append(s, e)[i] = s[i]
           /\ Append(s, e)[Len(s) + 1] = e
<1>1. Len(s) \in Nat /\ DOMAIN s = 1..Len(s)
  OBVIOUS
<1>2. Append(s, e) \in Seq(Events) /\ Len(Append(s, e)) = Len(s) + 1
  OBVIOUS
<1>3. /\ \A i \in 1..Len(s) : Append(s, e)[i] = s[i]
      /\ Append(s, e)[Len(s) + 1] = e
  OBVIOUS
<1>4. DOMAIN Append(s, e) = 1..(Len(s) + 1)
  BY <1>2
<1>5. 1..(Len(s) + 1) = 1..Len(s) \cup {Len(s) + 1}
  BY <1>1
<1> QED
  BY <1>1, <1>2, <1>3, <1>4, <1>5

\* The tail of an increasing sequence increases, and its head comes before it.
LEMMA TakeIncreasing ==
    ASSUME NEW s \in Seq(Events), s # <<>>, NEW n \in Nat, Increasing(s, n)
    PROVE  /\ Increasing(Tail(s), n) /\ Head(s).at < n
           /\ \A i \in DOMAIN Tail(s) : Head(s).at < Tail(s)[i].at
<1>1. \A i, j \in DOMAIN s : i < j => s[i].at < s[j].at
  BY DEF Increasing
<1>2. \A i \in DOMAIN Tail(s) : i \in Nat \ {0} /\ i + 1 \in DOMAIN s /\ Tail(s)[i] = s[i + 1]
  BY TakeFacts
<1>3. \A i, j \in DOMAIN Tail(s) : i < j => Tail(s)[i].at < Tail(s)[j].at
  BY <1>1, <1>2
<1>4. \A i \in DOMAIN Tail(s) : Tail(s)[i].at < n
  BY <1>2 DEF Increasing
<1>5. 1 \in DOMAIN s /\ Head(s) = s[1]
  BY TakeFacts
<1>6. \A i \in DOMAIN Tail(s) : Head(s).at < Tail(s)[i].at
  BY <1>1, <1>2, <1>5
<1> QED
  BY <1>3, <1>4, <1>5, <1>6 DEF Increasing

\* An increasing sequence still increases with a later event behind it.
LEMMA AddIncreasing ==
    ASSUME NEW s \in Seq(Events), NEW e \in Events, NEW n \in Nat,
           \A i, j \in DOMAIN s : i < j => s[i].at < s[j].at,
           \A i \in DOMAIN s : s[i].at < e.at,
           e.at < n
    PROVE  Increasing(Append(s, e), n)
<1> DEFINE t == Append(s, e)
<1>0. \A i \in DOMAIN s : s[i] \in Events
  OBVIOUS
<1>1. e.at \in Nat /\ \A i \in DOMAIN s : s[i].at \in Nat
  BY <1>0 DEF Events
<1>2. \A i \in DOMAIN t : t[i].at < n
  BY <1>1, AddFacts
<1>3. ASSUME NEW i \in DOMAIN t, NEW j \in DOMAIN t, i < j
      PROVE  t[i].at < t[j].at
  <2>1. i \in DOMAIN s \cup {Len(s) + 1} /\ j \in DOMAIN s \cup {Len(s) + 1}
    BY AddFacts
  <2>2. i \in DOMAIN s
    BY <2>1, <1>3, AddFacts
  <2>3. CASE j \in DOMAIN s
    BY <2>2, <2>3, <1>3, AddFacts
  <2>4. CASE j = Len(s) + 1
    BY <2>2, <2>4, AddFacts
  <2> QED
    BY <2>1, <2>3, <2>4
<1> QED
  BY <1>2, <1>3 DEF Increasing
-----------------------------------------------------------------------------
(* The dictionary *)

\* An empty dictionary is not complete.
LEMMA EmptyIncomplete == ASSUME NEW e, DOMAIN e = {} PROVE ~Complete(e)
<1>1. Cardinality(DOMAIN e) = 0
  BY FS_EmptySet
<1> QED
  BY <1>1, FrameAssumption DEF Complete

\* A complete dictionary has every processor if there are no more than complete it.
LEMMA CompleteFrame ==
    ASSUME NEW e, DOMAIN e \subseteq Cpus, Complete(e), 2 * Cardinality(Cpus) <= FrameKeys
    PROVE  DOMAIN e = Cpus
<1>1. /\ IsFiniteSet(DOMAIN e) /\ Cardinality(DOMAIN e) <= Cardinality(Cpus)
      /\ Cardinality(Cpus) = Cardinality(DOMAIN e) => Cpus = DOMAIN e
  BY CpusAssumption, FS_Subset
<1>2. Cardinality(DOMAIN e) \in Nat /\ Cardinality(Cpus) \in Nat
  BY <1>1, CpusAssumption, FS_CardinalityType
<1>3. 2 * Cardinality(DOMAIN e) >= FrameKeys
  BY DEF Complete
<1> QED
  BY <1>1, <1>2, <1>3, FrameAssumption
-----------------------------------------------------------------------------
(* The steps *)

\* At the start nothing has happened.
LEMMA Start == Init => IInv
<1> SUFFICES ASSUME Init PROVE IInv
  OBVIOUS
<1>1. <<>> \in Seq(Events) /\ Len(<<>>) = 0 /\ DOMAIN <<>> = {}
  OBVIOUS
<1>2. \A c \in Cpus : ring[c] = <<>> /\ emitted[c] = <<>>
  BY DEF Init
<1>3. d = <<>> /\ DOMAIN d = {}
  BY <1>1 DEF Init
<1>4. TypeInv
  <2>1. ring \in [Cpus -> Seq(Events)] /\ emitted \in [Cpus -> Seq(Events)]
    BY <1>1 DEF Init
  <2>2. \A c \in Cpus : Len(ring[c]) <= RingSize
    BY <1>1, <1>2, RingAssumption
  <2>3. ~Complete(d)
    BY <1>3, EmptyIncomplete
  <2> QED
    BY <1>2, <1>3, <2>1, <2>2, <2>3 DEF TypeInv, Init
<1>5. CounterInv
  BY <1>1, <1>2 DEF CounterInv, Init
<1>6. \A c \in Cpus : Ordered(c)
  BY <1>1, <1>2, <1>3 DEF Ordered, Increasing
<1> QED
  BY <1>4, <1>5, <1>6 DEF IInv

\* A tick puts its event behind all others, or drops it.
LEMMA TickStep ==
    ASSUME IInv, NEW c \in Cpus, do_perf(c)
    PROVE  IInv'
<1> DEFINE out == Out(c)
<1>1. out \in Events /\ out.cpu = c /\ out.at = ticks[c]
  <2>1. misses[c] \in Nat /\ old[c] \in Nat /\ ticks[c] \in Nat /\ old[c] <= misses[c]
    BY DEF IInv, TypeInv, CounterInv
  <2> QED
    BY <2>1 DEF Out, Events
<1>2. /\ UNCHANGED <<program, misses, d, first, emitted>>
      /\ old' = [old EXCEPT ![c] = misses[c]]
      /\ ticks' = [ticks EXCEPT ![c] = @ + 1]
      /\ \/ ring' = ring
         \/ Len(ring[c]) # RingSize /\ ring' = [ring EXCEPT ![c] = Append(ring[c], out)]
  BY DEF do_perf
<1> HIDE DEF out
<1>3. ring[c] \in Seq(Events) /\ Len(ring[c]) \in Nat /\ Len(ring[c]) <= RingSize
  BY DEF IInv, TypeInv
<1> DEFINE longer == Append(ring[c], out)
<1>8. /\ longer \in Seq(Events) /\ Len(longer) = Len(ring[c]) + 1
      /\ DOMAIN longer = DOMAIN ring[c] \cup {Len(ring[c]) + 1}
      /\ \A i \in DOMAIN ring[c] : longer[i] = ring[c][i]
      /\ longer[Len(ring[c]) + 1] = out
  BY <1>1, <1>3, AddFacts
<1> HIDE DEF longer
<1>9. \/ ring' = ring
      \/ /\ Len(ring[c]) # RingSize /\ ring'[c] = longer /\ ring' = [ring EXCEPT ![c] = longer]
         /\ \A b \in Cpus \ {c} : ring'[b] = ring[b]
  BY <1>2 DEF longer, IInv, TypeInv
<1>4. TypeInv'
  <2>1. ring' \in [Cpus -> Seq(Events)]
    BY <1>8, <1>9 DEF IInv, TypeInv
  <2>2. ASSUME NEW b \in Cpus PROVE Len(ring'[b]) <= RingSize
    <3>1. Len(ring[b]) <= RingSize
      BY DEF IInv, TypeInv
    <3>2. Len(ring[c]) # RingSize => Len(longer) <= RingSize
      BY <1>3, <1>8, RingAssumption
    <3> QED
      BY <1>9, <3>1, <3>2
  <2>3. old' \in [Cpus -> Nat] /\ ticks' \in [Cpus -> Nat]
    BY <1>2 DEF IInv, TypeInv
  <2> QED
    BY <1>2, <2>1, <2>2, <2>3 DEF IInv, TypeInv
<1>5. CounterInv'
  <2>1. \A b \in Cpus : old'[b] <= misses'[b]
    BY <1>2 DEF IInv, TypeInv, CounterInv
  <2>2. \A b \in Cpus : \A i \in DOMAIN ring'[b] : ring'[b][i].cpu = b
    <3>1. \A b \in Cpus : \A i \in DOMAIN ring[b] : ring[b][i].cpu = b
      BY DEF IInv, CounterInv
    <3>2. \A i \in DOMAIN longer : longer[i].cpu = c
      BY <1>1, <1>8, <3>1
    <3> QED
      BY <1>9, <3>1, <3>2
  <2> QED
    BY <2>1, <2>2 DEF CounterInv
<1>6. ASSUME NEW b \in Cpus, b # c PROVE Ordered(b)'
  <2>1. ring'[b] = ring[b] /\ ticks'[b] = ticks[b] /\ emitted' = emitted /\ d' = d
    BY <1>2, <1>6 DEF IInv, TypeInv
  <2> QED
    BY <2>1 DEF IInv, Ordered, Increasing
<1>7. Ordered(c)'
  <2>1. ticks[c] \in Nat /\ ticks'[c] = ticks[c] + 1 /\ emitted' = emitted /\ d' = d
    BY <1>2 DEF IInv, TypeInv
  <2>2. /\ \A i \in DOMAIN ring[c] : ring[c][i] \in Events /\ ring[c][i].at \in Nat
        /\ \A i \in DOMAIN emitted[c] : emitted[c][i] \in Events /\ emitted[c][i].at \in Nat
        /\ c \in DOMAIN d => d[c].at \in Nat
    <3>1. emitted[c] \in Seq(Events)
      BY DEF IInv, TypeInv
    <3>2. /\ \A i \in DOMAIN ring[c] : ring[c][i] \in Events
          /\ \A i \in DOMAIN emitted[c] : emitted[c][i] \in Events
      BY <1>3, <3>1
    <3> QED
      BY <3>2 DEF IInv, TypeInv, Events
  <2>3. Increasing(emitted'[c], ticks'[c])
    BY <2>1, <2>2 DEF IInv, Ordered, Increasing
  <2>4. CASE ring' = ring
    BY <2>1, <2>2, <2>3, <2>4 DEF IInv, Ordered, Increasing
  <2>5. CASE ring'[c] = longer
    <3>1. Increasing(longer, ticks'[c])
      <4>1. /\ \A i, j \in DOMAIN ring[c] : i < j => ring[c][i].at < ring[c][j].at
            /\ \A i \in DOMAIN ring[c] : ring[c][i].at < out.at
        BY <1>1 DEF IInv, Ordered, Increasing
      <4>2. out.at < ticks'[c] /\ ticks'[c] \in Nat
        BY <1>1, <2>1
      <4> QED
        BY <1>1, <1>3, <4>1, <4>2, AddIncreasing DEF longer
    <3>2. \A i \in DOMAIN emitted[c], j \in DOMAIN longer : emitted[c][i].at < longer[j].at
      BY <1>1, <1>8 DEF IInv, Ordered, Increasing
    <3>3. c \in DOMAIN d => d[c].at < ticks'[c] /\ \A j \in DOMAIN longer : d[c].at < longer[j].at
      BY <1>1, <1>8, <2>1, <2>2 DEF IInv, Ordered
    <3>4. c \in DOMAIN d => \A i \in DOMAIN emitted[c] : emitted[c][i].at < d[c].at
      BY DEF IInv, Ordered
    <3> QED
      BY <2>1, <2>3, <2>5, <3>1, <3>2, <3>3, <3>4 DEF Ordered
  <2> QED
    BY <1>9, <2>4, <2>5
<1> QED
  BY <1>4, <1>5, <1>6, <1>7 DEF IInv

\* Taking the oldest event of a ring: the part of it that does not depend on where the
\* event goes.
LEMMA PollStep ==
    ASSUME IInv, NEW c \in Cpus, ring[c] # <<>>, ring' = [ring EXCEPT ![c] = Tail(@)],
           UNCHANGED <<program, misses, old, ticks>>
    PROVE  /\ ring' \in [Cpus -> Seq(Events)] /\ \A b \in Cpus : Len(ring'[b]) <= RingSize
           /\ CounterInv'
           /\ \A b \in Cpus \ {c} : ring'[b] = ring[b]
           /\ Increasing(ring'[c], ticks[c])
           /\ Head(ring[c]) \in Events /\ Head(ring[c]).cpu = c
           /\ Head(ring[c]).at < ticks[c]
           /\ \A j \in DOMAIN ring'[c] : Head(ring[c]).at < ring'[c][j].at
           /\ \A i \in DOMAIN emitted[c] : emitted[c][i].at < Head(ring[c]).at
           /\ \A i \in DOMAIN emitted[c], j \in DOMAIN ring'[c] : emitted[c][i].at < ring'[c][j].at
           /\ c \in DOMAIN d => d[c].at < Head(ring[c]).at
<1>1. ring[c] \in Seq(Events) /\ ticks[c] \in Nat /\ Increasing(ring[c], ticks[c])
  BY DEF IInv, TypeInv, Ordered
<1>2. ring'[c] = Tail(ring[c]) /\ \A b \in Cpus \ {c} : ring'[b] = ring[b]
  BY DEF IInv, TypeInv
<1>3. /\ Head(ring[c]) = ring[c][1] /\ Head(ring[c]) \in Events /\ 1 \in DOMAIN ring[c]
      /\ Tail(ring[c]) \in Seq(Events) /\ Len(Tail(ring[c])) = Len(ring[c]) - 1
      /\ \A i \in DOMAIN Tail(ring[c]) : i + 1 \in DOMAIN ring[c] /\ Tail(ring[c])[i] = ring[c][i + 1]
  BY <1>1, TakeFacts
<1>4. ring' \in [Cpus -> Seq(Events)]
  BY <1>3 DEF IInv, TypeInv
<1>5. \A b \in Cpus : Len(ring'[b]) <= RingSize
  <2>1. Len(ring[c]) \in Nat /\ Len(ring[c]) <= RingSize
    BY <1>1 DEF IInv, TypeInv
  <2>2. Len(ring'[c]) <= RingSize
    BY <1>2, <1>3, <2>1, RingAssumption
  <2> QED
    BY <1>2, <2>2 DEF IInv, TypeInv
<1>6. CounterInv'
  BY <1>2, <1>3 DEF IInv, CounterInv
<1>7. /\ Increasing(ring'[c], ticks[c]) /\ Head(ring[c]).at < ticks[c]
      /\ \A j \in DOMAIN ring'[c] : Head(ring[c]).at < ring'[c][j].at
  BY <1>1, <1>2, TakeIncreasing
<1>8. Head(ring[c]).cpu = c
  BY <1>3 DEF IInv, CounterInv
<1>9. /\ \A i \in DOMAIN emitted[c] : emitted[c][i].at < Head(ring[c]).at
      /\ \A i \in DOMAIN emitted[c], j \in DOMAIN ring'[c] : emitted[c][i].at < ring'[c][j].at
      /\ c \in DOMAIN d => d[c].at < Head(ring[c]).at
  BY <1>2, <1>3 DEF IInv, Ordered
<1> QED
  BY <1>2, <1>3, <1>4, <1>5, <1>6, <1>7, <1>8, <1>9

\* The dictionary with the event that has been taken: each of its events lies between
\* what has been shown and what is left in the ring.
LEMMA CollectedFacts ==
    ASSUME IInv, NEW c \in Cpus, ring[c] # <<>>, ring' = [ring EXCEPT ![c] = Tail(@)],
           UNCHANGED <<program, misses, old, ticks>>,
           NEW b \in DOMAIN Collected(c)
    PROVE  /\ b \in Cpus /\ Collected(c)[b] \in Events /\ Collected(c)[b].cpu = b
           /\ Collected(c)[b].at < ticks[b]
           /\ \A i \in DOMAIN emitted[b] : emitted[b][i].at < Collected(c)[b].at
           /\ \A j \in DOMAIN ring'[b] : Collected(c)[b].at < ring'[b][j].at
<1>1. DOMAIN Collected(c) = DOMAIN d \cup {c} /\ DOMAIN d \subseteq Cpus
  BY DEF Collected, IInv, TypeInv
<1>2. CASE b = c
  <2>1. Collected(c)[b] = Head(ring[c])
    BY <1>2 DEF Collected
  <2> QED
    BY <1>2, <2>1, PollStep
<1>3. CASE b # c
  <2>1. Collected(c)[b] = d[b] /\ b \in DOMAIN d /\ b \in Cpus
    BY <1>1, <1>3 DEF Collected
  <2>2. ring'[b] = ring[b]
    BY <1>3, <2>1, PollStep
  <2> QED
    BY <2>1, <2>2 DEF IInv, TypeInv, Ordered
<1> QED
  BY <1>2, <1>3

\* What is left of the order of processor b when an event of c has been taken.
LEMMA PolledOrder ==
    ASSUME IInv, NEW c \in Cpus, ring[c] # <<>>, ring' = [ring EXCEPT ![c] = Tail(@)],
           UNCHANGED <<program, misses, old, ticks>>, NEW b \in Cpus
    PROVE  /\ Increasing(ring'[b], ticks[b]) /\ Increasing(emitted[b], ticks[b])
           /\ \A i \in DOMAIN emitted[b], j \in DOMAIN ring'[b] : emitted[b][i].at < ring'[b][j].at
<1>1. Ordered(b)
  BY DEF IInv
<1>2. CASE b = c
  BY <1>1, <1>2, PollStep DEF Ordered
<1>3. CASE b # c
  <2>1. ring'[b] = ring[b]
    BY <1>3, PollStep
  <2> QED
    BY <1>1, <2>1 DEF Ordered
<1> QED
  BY <1>2, <1>3

\* An event that lies between what has been shown and the ring can be shown.
LEMMA ShowFacts ==
    ASSUME IInv, NEW b \in Cpus, NEW e \in Events, e.at < ticks[b],
           \A i \in DOMAIN emitted[b] : emitted[b][i].at < e.at,
           \A i \in DOMAIN emitted[b], j \in DOMAIN ring'[b] : emitted[b][i].at < ring'[b][j].at,
           \A j \in DOMAIN ring'[b] : e.at < ring'[b][j].at
    PROVE  LET shown == Append(emitted[b], e)
           IN  /\ shown \in Seq(Events) /\ Len(shown) = Len(emitted[b]) + 1
               /\ Increasing(shown, ticks[b])
               /\ \A i \in DOMAIN shown, j \in DOMAIN ring'[b] : shown[i].at < ring'[b][j].at
<1> DEFINE shown == Append(emitted[b], e)
<1>1. emitted[b] \in Seq(Events) /\ ticks[b] \in Nat
  BY DEF IInv, TypeInv
<1>2. /\ shown \in Seq(Events) /\ Len(shown) = Len(emitted[b]) + 1
      /\ DOMAIN shown = DOMAIN emitted[b] \cup {Len(emitted[b]) + 1}
      /\ \A i \in DOMAIN emitted[b] : shown[i] = emitted[b][i]
      /\ shown[Len(emitted[b]) + 1] = e
  BY <1>1, AddFacts
<1>3. \A i, j \in DOMAIN emitted[b] : i < j => emitted[b][i].at < emitted[b][j].at
  BY DEF IInv, Ordered, Increasing
<1>4. Increasing(shown, ticks[b])
  BY <1>1, <1>3, AddIncreasing
<1> HIDE DEF shown
<1>5. \A i \in DOMAIN shown, j \in DOMAIN ring'[b] : shown[i].at < ring'[b][j].at
  BY <1>2
<1> QED
  BY <1>2, <1>4, <1>5 DEF shown

\* mon_cache.py takes an event: the dictionary is kept, also when it is the first
\* complete one, or it is shown and emptied.
LEMMA CollectStep ==
    ASSUME IInv, NEW c \in Cpus, handle_output(c)
    PROVE  IInv'
<1> DEFINE e == Collected(c)
<1>1. /\ program = "mon_cache" /\ ring[c] # <<>> /\ ring' = [ring EXCEPT ![c] = Tail(@)]
      /\ UNCHANGED <<program, misses, old, ticks>>
  BY DEF handle_output
<1>2. /\ ring' \in [Cpus -> Seq(Events)] /\ \A b \in Cpus : Len(ring'[b]) <= RingSize
      /\ CounterInv'
  BY <1>1, PollStep
<1>3. \A b \in DOMAIN e :
         /\ b \in Cpus /\ e[b] \in Events /\ e[b].cpu = b /\ e[b].at < ticks[b]
         /\ \A i \in DOMAIN emitted[b] : emitted[b][i].at < e[b].at
         /\ \A j \in DOMAIN ring'[b] : e[b].at < ring'[b][j].at
  BY <1>1, CollectedFacts
<1>4. \A b \in Cpus :
         /\ Increasing(ring'[b], ticks[b]) /\ Increasing(emitted[b], ticks[b])
         /\ \A i \in DOMAIN emitted[b], j \in DOMAIN ring'[b] : emitted[b][i].at < ring'[b][j].at
  BY <1>1, PolledOrder
<1>5. CASE /\ d' = e /\ emitted' = emitted
           /\ \/ ~Complete(e) /\ first' = first
              \/ Complete(e) /\ first /\ first' = FALSE
  <2>1. first' \in BOOLEAN /\ (first' => first)
    <3>1. first \in BOOLEAN
      BY DEF IInv, TypeInv
    <3>2. first' = first \/ first' = FALSE
      BY <1>5
    <3>3. CASE first' = first
      BY <3>1, <3>3, Zenon
    <3>4. CASE first' = FALSE
      BY <3>4
    <3> QED
      BY <3>2, <3>3, <3>4, Zenon
  <2>2. Complete(e) => ~first' /\ \A b \in Cpus : emitted'[b] = <<>>
    BY <1>1, <1>5 DEF IInv, TypeInv
  <2>3. TypeInv'
    <3> HIDE DEF e
    <3> QED
      BY <1>1, <1>2, <1>3, <1>5, <2>1, <2>2 DEF IInv, TypeInv
  <2>4. \A b \in Cpus : Ordered(b)'
    BY <1>1, <1>3, <1>4, <1>5 DEF Ordered
  <2> QED
    BY <1>2, <2>3, <2>4 DEF IInv
<1>6. CASE Complete(e) /\ ~first /\ d' = <<>> /\ emitted' = Shows(e) /\ first' = first
  <2>1. DOMAIN e \subseteq Cpus /\ DOMAIN d' = {} /\ ~Complete(d')
    BY <1>3, <1>6, EmptyIncomplete
  <2>2. ASSUME NEW b \in Cpus
        PROVE  /\ emitted'[b] \in Seq(Events)
               /\ Len(emitted'[b]) = IF b \in DOMAIN e THEN Len(emitted[b]) + 1 ELSE Len(emitted[b])
               /\ Increasing(emitted'[b], ticks[b])
               /\ \A i \in DOMAIN emitted'[b], j \in DOMAIN ring'[b] :
                     emitted'[b][i].at < ring'[b][j].at
    <3>1. emitted'[b] = IF b \in DOMAIN e THEN Append(emitted[b], e[b]) ELSE emitted[b]
      BY <1>6 DEF Shows
    <3> HIDE DEF e
    <3>2. CASE b \in DOMAIN e
      BY <1>3, <1>4, <3>1, <3>2, ShowFacts
    <3>3. CASE b \notin DOMAIN e
      BY <1>4, <3>1, <3>3 DEF IInv, TypeInv
    <3> QED
      BY <3>2, <3>3
  <2>3. TypeInv'
    <3>1. emitted' \in [Cpus -> Seq(Events)]
      <4>1. emitted' = [b \in Cpus |-> emitted'[b]]
        BY <1>6 DEF Shows
      <4> QED
        BY <2>2, <4>1
    <3>2. 2 * Cardinality(Cpus) <= FrameKeys => \A a, b \in Cpus : Len(emitted'[a]) = Len(emitted'[b])
      <4> SUFFICES ASSUME 2 * Cardinality(Cpus) <= FrameKeys, NEW a \in Cpus, NEW b \in Cpus
                   PROVE  Len(emitted'[a]) = Len(emitted'[b])
        OBVIOUS
      <4>1. DOMAIN e = Cpus
        BY <1>6, <2>1, CompleteFrame
      <4>2. Len(emitted[a]) = Len(emitted[b])
        BY <1>1 DEF IInv, TypeInv
      <4> HIDE DEF e
      <4> QED
        BY <2>2, <4>1, <4>2
    <3>3. ~first'
      BY <1>6
    <3> QED
      BY <1>1, <1>2, <1>6, <2>1, <3>1, <3>2, <3>3 DEF IInv, TypeInv
  <2>4. \A b \in Cpus : Ordered(b)'
    BY <1>1, <1>4, <2>1, <2>2 DEF Ordered
  <2> QED
    BY <1>2, <2>3, <2>4 DEF IInv
<1> QED
  BY <1>5, <1>6 DEF handle_output, IInv, TypeInv

\* bcc_perf.py prints an event.
LEMMA PrintStep ==
    ASSUME IInv, NEW c \in Cpus, handle_output_print(c)
    PROVE  IInv'
<1> DEFINE e == Head(ring[c])
<1>1. /\ program = "bcc_perf" /\ ring[c] # <<>> /\ ring' = [ring EXCEPT ![c] = Tail(@)]
      /\ UNCHANGED <<program, misses, old, ticks, d, first>>
      /\ emitted' = [emitted EXCEPT ![c] = Append(@, e)]
  BY DEF handle_output_print
<1>2. /\ ring' \in [Cpus -> Seq(Events)] /\ \A b \in Cpus : Len(ring'[b]) <= RingSize
      /\ CounterInv'
      /\ \A b \in Cpus \ {c} : ring'[b] = ring[b]
      /\ e \in Events /\ e.at < ticks[c]
      /\ \A j \in DOMAIN ring'[c] : e.at < ring'[c][j].at
      /\ \A i \in DOMAIN emitted[c] : emitted[c][i].at < e.at
  BY <1>1, PollStep
<1>3. \A b \in Cpus :
         /\ Increasing(ring'[b], ticks[b]) /\ Increasing(emitted[b], ticks[b])
         /\ \A i \in DOMAIN emitted[b], j \in DOMAIN ring'[b] : emitted[b][i].at < ring'[b][j].at
  BY <1>1, PolledOrder
<1> DEFINE shown == Append(emitted[c], e)
<1>4. /\ shown \in Seq(Events) /\ Len(shown) = Len(emitted[c]) + 1
      /\ Increasing(shown, ticks[c])
      /\ \A i \in DOMAIN shown, j \in DOMAIN ring'[c] : shown[i].at < ring'[c][j].at
  <2> HIDE DEF e
  <2> QED
    BY <1>2, <1>3, ShowFacts
<1>5. emitted'[c] = shown /\ \A b \in Cpus \ {c} : emitted'[b] = emitted[b]
  BY <1>1 DEF IInv, TypeInv
<1> HIDE DEF e, shown
<1>6. DOMAIN d = {} /\ DOMAIN d' = {} /\ ~Complete(d')
  BY <1>1, EmptyIncomplete DEF IInv, TypeInv
<1>7. TypeInv'
  <2>1. emitted' = [emitted EXCEPT ![c] = shown]
    BY <1>1 DEF shown
  <2>2. emitted' \in [Cpus -> Seq(Events)]
    BY <1>4, <2>1 DEF IInv, TypeInv
  <2> QED
    BY <1>1, <1>2, <1>6, <2>2 DEF IInv, TypeInv
<1>8. ASSUME NEW b \in Cpus PROVE Ordered(b)'
  <2>1. CASE b = c
    BY <1>1, <1>3, <1>4, <1>5, <1>6, <2>1 DEF Ordered
  <2>2. CASE b # c
    <3>1. emitted'[b] = emitted[b]
      BY <1>5, <2>2
    <3> QED
      BY <1>1, <1>3, <1>6, <3>1 DEF Ordered
  <2> QED
    BY <2>1, <2>2
<1> QED
  BY <1>2, <1>7, <1>8 DEF IInv

\* A miss advances a counter.
LEMMA MissStep ==
    ASSUME IInv, NEW c \in Cpus, Miss(c)
    PROVE  IInv'
<1>1. /\ UNCHANGED <<program, old, ticks, ring, d, first, emitted>>
      /\ misses' = [misses EXCEPT ![c] = @ + 1]
  BY DEF Miss
<1>2. TypeInv'
  BY <1>1 DEF IInv, TypeInv
<1>3. CounterInv'
  BY <1>1 DEF IInv, TypeInv, CounterInv
<1>4. \A b \in Cpus : Ordered(b)'
  BY <1>1 DEF IInv, Ordered, Increasing
<1> QED
  BY <1>2, <1>3, <1>4 DEF IInv

-----------------------------------------------------------------------------
(* What Total computes: the recursive function behind it has to be shown to exist *)
(* first, by induction, which is obtained from the well-foundedness of < on Nat. *)

\* A set with 0 and with the successor of each of its numbers has every natural number.
LEMMA Induction ==
    ASSUME NEW S, 0 \in S, \A n \in Nat : n \in S => n + 1 \in S
    PROVE  Nat \subseteq S
<1> DEFINE T == Nat \ S
           less == OpToRel(<, Nat)
<1>1. IsWellFoundedOn(less, Nat)
  BY NatLessThanWellFounded
<1>2. \A m, n \in Nat : m < n => <<m, n>> \in less
  BY Zenon DEF OpToRel
<1> HIDE DEF less
<1>3. SUFFICES ASSUME T # {} PROVE FALSE
  OBVIOUS
<1>4. PICK x \in T : \A y \in T : ~(<<y, x>> \in less)
  BY <1>1, <1>3, WFMin
<1>5. x # 0 /\ x \in Nat /\ x - 1 \in Nat
  BY <1>4
<1>6. x - 1 \in T
  BY <1>5
<1>7. <<x - 1, x>> \in less
  BY <1>2, <1>5
<1> QED
  BY <1>4, <1>6, <1>7

\* h has the sums of the first numbers of s, up to the first n of them.
Partial(s, n, h) == h[0] = 0 /\ \A m \in 1..n : h[m] = h[m - 1] + s[m]

\* There are such sums, and no other ones.
LEMMA PartialExists ==
    ASSUME NEW s \in Seq(Nat)
    PROVE  \E h \in [0..Len(s) -> Nat] : Partial(s, Len(s), h)
<1> DEFINE P == {n \in Nat : n <= Len(s) => \E h \in [0..n -> Nat] : Partial(s, n, h)}
<1>1. 0 \in P
  <2>1. [m \in 0..0 |-> 0] \in [0..0 -> Nat] /\ Partial(s, 0, [m \in 0..0 |-> 0])
    BY DEF Partial
  <2> QED
    BY <2>1
<1>2. ASSUME NEW n \in Nat, n \in P PROVE n + 1 \in P
  <2> SUFFICES ASSUME n + 1 <= Len(s)
               PROVE  \E h \in [0..(n + 1) -> Nat] : Partial(s, n + 1, h)
    OBVIOUS
  <2>1. PICK h \in [0..n -> Nat] : Partial(s, n, h)
    BY <1>2
  <2> DEFINE g == [m \in 0..(n + 1) |-> IF m = n + 1 THEN h[n] + s[n + 1] ELSE h[m]]
  <2>2. s[n + 1] \in Nat /\ h[n] \in Nat
    BY <2>1
  <2>3. g \in [0..(n + 1) -> Nat]
    BY <2>1, <2>2
  <2>4. Partial(s, n + 1, g)
    BY <2>1 DEF Partial
  <2> QED
    BY <2>3, <2>4
<1> HIDE DEF P
<1>3. Len(s) \in P
  BY <1>1, <1>2, Induction
<1> QED
  BY <1>3 DEF P

LEMMA PartialUnique ==
    ASSUME NEW s, NEW t, NEW k \in Nat, NEW g, NEW h, Partial(s, k, g), Partial(t, k, h),
           \A i \in 1..k : s[i] = t[i]
    PROVE  \A n \in 0..k : g[n] = h[n]
<1> DEFINE P == {n \in Nat : n <= k => g[n] = h[n]}
<1>1. 0 \in P
  BY DEF Partial
<1>2. ASSUME NEW n \in Nat, n \in P PROVE n + 1 \in P
  BY <1>2 DEF Partial
<1> HIDE DEF P
<1>3. Nat \subseteq P
  BY <1>1, <1>2, Induction
<1> QED
  BY <1>3 DEF P

\* The total is the last of these sums.
LEMMA TotalPartial ==
    ASSUME NEW s \in Seq(Nat)
    PROVE  \E h \in [0..Len(s) -> Nat] : Partial(s, Len(s), h) /\ Total(s) = h[Len(s)]
<1> DEFINE Sums(f) == f = [n \in 0..Len(s) |-> IF n = 0 THEN 0 ELSE f[n - 1] + s[n]]
           sum == CHOOSE f : Sums(f)
<1>1. PICK h \in [0..Len(s) -> Nat] : Partial(s, Len(s), h)
  BY PartialExists
<1>2. Sums(h)
  BY <1>1 DEF Partial
<1>3. Sums(sum)
  BY <1>2
<1>4. Total(s) = sum[Len(s)]
  BY DEF Total
<1> HIDE DEF sum
<1>5. Partial(s, Len(s), sum)
  <2>1. sum[0] = 0
    BY <1>3
  <2>2. ASSUME NEW m \in 1..Len(s) PROVE sum[m] = sum[m - 1] + s[m]
    <3>1. m \in 0..Len(s) /\ m # 0
      OBVIOUS
    <3> QED
      BY <1>3, <3>1
  <2> HIDE DEF Sums
  <2> QED
    BY <2>1, <2>2 DEF Partial
<1>6. sum[Len(s)] = h[Len(s)]
  BY <1>1, <1>5, PartialUnique
<1> QED
  BY <1>1, <1>4, <1>6

\* A total of natural numbers is one, and nothing adds up to 0.
LEMMA TotalType == \A s \in Seq(Nat) : Total(s) \in Nat
  BY TotalPartial

LEMMA TotalEmpty == Total(<<>>) = 0
<1>1. <<>> \in Seq(Nat) /\ Len(<<>>) = 0
  OBVIOUS
<1>2. PICK h : Partial(<<>>, 0, h) /\ Total(<<>>) = h[0]
  BY <1>1, TotalPartial
<1> QED
  BY <1>2 DEF Partial

\* A number that is appended is added.
LEMMA TotalAppend ==
    ASSUME NEW s \in Seq(Nat), NEW x \in Nat
    PROVE  Total(Append(s, x)) = Total(s) + x
<1> DEFINE n == Len(s)
           t == Append(s, x)
<1>1. /\ n \in Nat /\ Len(t) = n + 1 /\ t[n + 1] = x /\ t \in Seq(Nat)
      /\ \A i \in 1..n : s[i] = t[i]
  OBVIOUS
<1> HIDE DEF n, t
<1>2. PICK g : Partial(s, n, g) /\ Total(s) = g[n]
  BY TotalPartial DEF n
<1>3. PICK h : Partial(t, n + 1, h) /\ Total(t) = h[n + 1]
  BY <1>1, TotalPartial
<1>4. g[n] = h[n]
  <2>1. Partial(t, n, h)
    BY <1>1, <1>3 DEF Partial
  <2>2. \A m \in 0..n : g[m] = h[m]
    BY <1>1, <1>2, <2>1, PartialUnique
  <2> QED
    BY <1>1, <2>2
<1> QED
  BY <1>1, <1>2, <1>3, <1>4 DEF Partial, t

\* And the total loses what is taken off the front.
LEMMA TotalTail ==
    ASSUME NEW s \in Seq(Nat), s # <<>>
    PROVE  Total(s) = Head(s) + Total(Tail(s))
<1> DEFINE n == Len(s) - 1
           t == Tail(s)
<1>1. /\ n \in Nat /\ Len(s) = n + 1 /\ Len(t) = n /\ t \in Seq(Nat) /\ Head(s) = s[1]
      /\ \A i \in 1..n : t[i] = s[i + 1]
      /\ \A i \in 1..(n + 1) : s[i] \in Nat
  OBVIOUS
<1> HIDE DEF n, t
<1>2. PICK g \in [0..(n + 1) -> Nat] : Partial(s, n + 1, g) /\ Total(s) = g[n + 1]
  BY <1>1, TotalPartial
<1>3. PICK h \in [0..n -> Nat] : Partial(t, n, h) /\ Total(t) = h[n]
  BY <1>1, TotalPartial
<1> DEFINE less == [m \in 0..n |-> g[m + 1] - s[1]]
<1>4. Partial(t, n, less)
  <2>1. g[1] = g[0] + s[1] /\ s[1] \in Nat /\ g[0] = 0
    BY <1>1, <1>2 DEF Partial
  <2>2. less[0] = 0
    BY <1>1, <2>1
  <2>3. ASSUME NEW m \in 1..n PROVE less[m] = less[m - 1] + t[m]
    <3>0. m + 1 \in 1..(n + 1) /\ m \in 0..(n + 1) /\ (m + 1) - 1 = m /\ m \in 0..n /\ m - 1 \in 0..n
      BY <1>1
    <3>1. g[m + 1] = g[m] + s[m + 1] /\ t[m] = s[m + 1] /\ g[m] \in Nat /\ s[m + 1] \in Nat
      BY <1>1, <1>2, <3>0 DEF Partial
    <3> QED
      BY <1>1, <2>1, <3>0, <3>1
  <2> HIDE DEF less
  <2> QED
    BY <2>2, <2>3 DEF Partial
<1>5. less[n] = g[n + 1] - s[1] /\ g[n + 1] \in Nat /\ s[1] \in Nat /\ h[n] \in Nat
  BY <1>1, <1>2, <1>3
<1> HIDE DEF less
<1>6. \A m \in 0..n : less[m] = h[m]
  BY <1>1, <1>3, <1>4, PartialUnique
<1>7. less[n] = h[n]
  BY <1>1, <1>6
<1> QED
  BY <1>1, <1>2, <1>3, <1>5, <1>7 DEF t

-----------------------------------------------------------------------------
(* The misses along the row *)

\* Nothing shows no misses.
LEMMA SumEmpty == SumOf(<<>>) = 0
<1>1. [i \in DOMAIN <<>> |-> <<>>[i].miss] = <<>>
  OBVIOUS
<1> QED
  BY <1>1, TotalEmpty DEF SumOf

\* The misses of a sequence of events are natural numbers, and so is their sum.
LEMMA SumType ==
    ASSUME NEW s \in Seq(Events)
    PROVE  /\ [i \in DOMAIN s |-> s[i].miss] \in Seq(Nat)
           /\ SumOf(s) \in Nat
<1>1. Len(s) \in Nat /\ DOMAIN s = 1..Len(s) /\ \A i \in 1..Len(s) : s[i] \in Events
  OBVIOUS
<1>2. \A i \in 1..Len(s) : s[i].miss \in Nat
  BY <1>1 DEF Events
<1>3. [i \in DOMAIN s |-> s[i].miss] \in [1..Len(s) -> Nat]
  BY <1>1, <1>2
<1>4. [i \in DOMAIN s |-> s[i].miss] \in Seq(Nat)
  BY <1>1, <1>3
<1> QED
  BY <1>4, TotalType DEF SumOf

\* An event that is appended adds its misses.
LEMMA SumAppend ==
    ASSUME NEW s \in Seq(Events), NEW e \in Events
    PROVE  SumOf(Append(s, e)) = SumOf(s) + e.miss
<1> DEFINE m == [i \in DOMAIN s |-> s[i].miss]
           t == Append(s, e)
           l == Append(m, e.miss)
<1>1. m \in Seq(Nat) /\ Len(m) = Len(s) /\ e.miss \in Nat /\ Len(s) \in Nat /\ DOMAIN s = 1..Len(s)
  <2>1. m \in Seq(Nat) /\ DOMAIN m = DOMAIN s
    BY SumType
  <2>2. DOMAIN s = 1..Len(s) /\ Len(s) \in Nat
    OBVIOUS
  <2>3. e.miss \in Nat
    BY DEF Events
  <2> HIDE DEF m
  <2>4. DOMAIN m = 1..Len(m) /\ Len(m) \in Nat
    BY <2>1
  <2>5. Len(m) = Len(s)
    BY <2>1, <2>2, <2>4
  <2> QED
    BY <2>1, <2>2, <2>3, <2>5
<1>2. /\ l \in Seq(Nat) /\ Len(l) = Len(s) + 1 /\ l[Len(s) + 1] = e.miss
      /\ \A i \in 1..Len(s) : l[i] = s[i].miss
  <2>1. \A i \in 1..Len(s) : m[i] = s[i].miss
    BY <1>1
  <2> HIDE DEF m
  <2> QED
    BY <1>1, <2>1
<1>3. /\ DOMAIN t = DOMAIN s \cup {Len(s) + 1} /\ t[Len(s) + 1] = e
      /\ \A i \in DOMAIN s : t[i] = s[i]
  BY AddFacts
<1>4. l = [i \in DOMAIN l |-> l[i]] /\ DOMAIN l = 1..(Len(s) + 1)
  <2> HIDE DEF l
  <2> QED
    BY <1>2
<1>5. DOMAIN l = DOMAIN t
  BY <1>1, <1>3, <1>4
<1>6. \A i \in DOMAIN t : l[i] = t[i].miss
  BY <1>1, <1>2, <1>3
<1> HIDE DEF l, t
<1>7. [i \in DOMAIN t |-> t[i].miss] = l
  BY <1>4, <1>5, <1>6
<1> QED
  BY <1>1, <1>7, TotalAppend DEF SumOf, l, t

\* An event that is taken off the front takes its misses along.
LEMMA SumTake ==
    ASSUME NEW s \in Seq(Events), s # <<>>
    PROVE  SumOf(s) = Head(s).miss + SumOf(Tail(s))
<1> DEFINE m == [i \in DOMAIN s |-> s[i].miss]
           t == Tail(s)
<1>1. m \in Seq(Nat) /\ DOMAIN m = DOMAIN s /\ DOMAIN s = 1..Len(s) /\ Len(s) \in Nat \ {0}
      /\ \A i \in DOMAIN s : m[i] = s[i].miss
  BY SumType
<1>2. /\ Head(s) = s[1] /\ 1 \in DOMAIN s /\ DOMAIN t = 1..(Len(s) - 1)
      /\ \A i \in DOMAIN t : i + 1 \in DOMAIN s /\ t[i] = s[i + 1]
  BY TakeFacts
<1> HIDE DEF m, t
<1>3. Len(m) = Len(s) /\ m # <<>> /\ Head(m) = m[1]
  BY <1>1
<1>4. /\ Tail(m) \in Seq(Nat) /\ DOMAIN Tail(m) = 1..(Len(s) - 1)
      /\ \A i \in 1..(Len(s) - 1) : Tail(m)[i] = m[i + 1]
  BY <1>1, <1>3
<1>5. Tail(m) = [i \in DOMAIN Tail(m) |-> Tail(m)[i]]
  <2>1. \A q \in Seq(Nat) : q = [i \in DOMAIN q |-> q[i]]
    OBVIOUS
  <2> QED
    BY <1>4, <2>1
<1>6. \A i \in DOMAIN t : Tail(m)[i] = t[i].miss
  BY <1>1, <1>2, <1>4
<1>7. [i \in DOMAIN t |-> t[i].miss] = Tail(m)
  BY <1>2, <1>4, <1>5, <1>6
<1>8. Total(m) = Head(m) + Total(Tail(m))
  BY <1>1, <1>3, TotalTail
<1> QED
  BY <1>1, <1>2, <1>3, <1>7, <1>8 DEF SumOf, m, t

\* The event in the dictionary.
Pending(c) == IF c \in DOMAIN d THEN d[c].miss ELSE 0

\* All the terms of Shown are natural numbers.
LEMMA ShownTerms ==
    ASSUME IInv, NEW c \in Cpus
    PROVE  /\ Shown(c) = SumOf(emitted[c]) + Pending(c) + SumOf(ring[c]) + (misses[c] - old[c])
           /\ SumOf(emitted[c]) \in Nat /\ Pending(c) \in Nat /\ SumOf(ring[c]) \in Nat
           /\ misses[c] \in Nat /\ old[c] \in Nat /\ misses[c] - old[c] \in Nat
<1>1. emitted[c] \in Seq(Events) /\ ring[c] \in Seq(Events)
      /\ misses[c] \in Nat /\ old[c] \in Nat /\ old[c] <= misses[c]
  BY DEF IInv, TypeInv, CounterInv
<1>2. Pending(c) \in Nat
  BY DEF IInv, TypeInv, Pending, Events
<1>3. SumOf(emitted[c]) \in Nat /\ SumOf(ring[c]) \in Nat
  BY <1>1, SumType
<1>4. misses[c] - old[c] \in Nat
  BY <1>1
<1>5. Shown(c) = SumOf(emitted[c]) + Pending(c) + SumOf(ring[c]) + (misses[c] - old[c])
  BY DEF Shown, Pending
<1> QED
  BY <1>1, <1>2, <1>3, <1>4, <1>5

\* No miss is shown twice, and only a lost event leaves one out.
MissInv == overrun \in [Cpus -> BOOLEAN] /\ MissesShownOnce

\* A miss is one to be shown, and shown by the next tick.
LEMMA MissBalance ==
    ASSUME IInv, IInv', MissInv, NEW c \in Cpus, Miss(c)
    PROVE  MissInv'
<1>1. /\ UNCHANGED <<old, ring, d, emitted, overrun>>
      /\ misses' = [misses EXCEPT ![c] = @ + 1] /\ misses \in [Cpus -> Nat]
  BY DEF Miss, IInv, TypeInv
<1>2. ASSUME NEW b \in Cpus
      PROVE  Shown(b)' <= misses'[b] /\ (~overrun'[b] => Shown(b)' = misses'[b])
  <2>1. Shown(b) <= misses[b] /\ (~overrun[b] => Shown(b) = misses[b])
    BY DEF MissInv, MissesShownOnce
  <2>2. /\ Shown(b) = SumOf(emitted[b]) + Pending(b) + SumOf(ring[b]) + (misses[b] - old[b])
        /\ SumOf(emitted[b]) \in Nat /\ Pending(b) \in Nat /\ SumOf(ring[b]) \in Nat
        /\ misses[b] \in Nat /\ old[b] \in Nat
    BY ShownTerms
  <2>3. Shown(b)' = SumOf(emitted[b]) + Pending(b) + SumOf(ring[b]) + (misses'[b] - old[b])
    BY <1>1 DEF Shown, Pending
  <2>4. misses'[b] = misses[b] \/ misses'[b] = misses[b] + 1
    BY <1>1
  <2> QED
    BY <1>1, <2>1, <2>2, <2>3, <2>4
<1> QED
  BY <1>1, <1>2 DEF MissInv, MissesShownOnce

\* A tick moves the misses since the last one to the ring, or loses them with the event.
LEMMA TickBalance ==
    ASSUME IInv, IInv', MissInv, NEW c \in Cpus, do_perf(c)
    PROVE  MissInv'
<1> DEFINE out == Out(c)
           full == Len(ring[c]) = RingSize
<1>1. /\ UNCHANGED <<misses, d, emitted>> /\ old' = [old EXCEPT ![c] = misses[c]]
      /\ ring' = IF full THEN ring ELSE [ring EXCEPT ![c] = Append(@, out)]
      /\ overrun' = [overrun EXCEPT ![c] = @ \/ full]
  BY DEF do_perf
<1>2. /\ ring \in [Cpus -> Seq(Events)] /\ old \in [Cpus -> Nat] /\ misses \in [Cpus -> Nat]
      /\ overrun \in [Cpus -> BOOLEAN]
  BY DEF IInv, TypeInv, MissInv
<1>3. overrun' \in [Cpus -> BOOLEAN]
  BY <1>1, <1>2
<1>4. out \in Events /\ out.miss = misses[c] - old[c]
  BY <1>2 DEF IInv, TypeInv, CounterInv, Out, Events
<1> HIDE DEF out
<1>5. ASSUME NEW b \in Cpus
      PROVE  Shown(b)' <= misses'[b] /\ (~overrun'[b] => Shown(b)' = misses'[b])
  <2>1. Shown(b) <= misses[b] /\ (~overrun[b] => Shown(b) = misses[b])
    BY DEF MissInv, MissesShownOnce
  <2>2. /\ Shown(b) = SumOf(emitted[b]) + Pending(b) + SumOf(ring[b]) + (misses[b] - old[b])
        /\ SumOf(emitted[b]) \in Nat /\ Pending(b) \in Nat /\ SumOf(ring[b]) \in Nat
        /\ misses[b] \in Nat /\ old[b] \in Nat /\ misses[b] - old[b] \in Nat
    BY ShownTerms
  <2>3. Shown(b)' = SumOf(emitted[b]) + Pending(b) + SumOf(ring'[b]) + (misses[b] - old'[b])
    BY <1>1 DEF Shown, Pending
  <2>4. CASE b # c
    <3>1. ring'[b] = ring[b] /\ old'[b] = old[b] /\ overrun'[b] = overrun[b]
      BY <1>1, <1>2, <2>4
    <3> QED
      BY <1>1, <2>1, <2>2, <2>3, <3>1
  <2>5. CASE b = c /\ full
    <3>1. ring'[b] = ring[b] /\ old'[b] = misses[b] /\ overrun'[b]
      BY <1>1, <1>2, <2>5
    <3> QED
      BY <1>1, <2>1, <2>2, <2>3, <3>1
  <2>6. CASE b = c /\ ~full
    <3>1. ring'[b] = Append(ring[b], out) /\ old'[b] = misses[b] /\ (overrun'[b] <=> overrun[b])
      BY <1>1, <1>2, <2>6
    <3>2. SumOf(ring'[b]) = SumOf(ring[b]) + (misses[b] - old[b])
      <4>1. ring[b] \in Seq(Events)
        BY <1>2
      <4> QED
        BY <1>4, <2>6, <3>1, <4>1, SumAppend
    <3> QED
      BY <1>1, <2>1, <2>2, <2>3, <3>1, <3>2
  <2> QED
    BY <2>4, <2>5, <2>6
<1> QED
  BY <1>3, <1>5 DEF MissInv, MissesShownOnce

\* mon_cache.py moves the misses of an event to the dictionary, where they replace those of
\* an event that has not been shown, and those of a whole dictionary to the window.
LEMMA CollectBalance ==
    ASSUME IInv, IInv', MissInv, NEW c \in Cpus, handle_output(c)
    PROVE  MissInv'
<1> DEFINE e == Collected(c)
<1>1. /\ ring[c] # <<>> /\ ring' = [ring EXCEPT ![c] = Tail(@)] /\ UNCHANGED <<program, misses, old, ticks>>
      /\ overrun' = [overrun EXCEPT ![c] = @ \/ c \in DOMAIN d]
  BY DEF handle_output
<1>2. ring \in [Cpus -> Seq(Events)] /\ overrun \in [Cpus -> BOOLEAN] /\ DOMAIN d \subseteq Cpus
  BY DEF IInv, TypeInv, MissInv
<1>3. overrun' \in [Cpus -> BOOLEAN]
  BY <1>1, <1>2
<1> DEFINE held(b) == IF b \in DOMAIN e THEN e[b].miss ELSE 0
<1>4. ASSUME NEW b \in Cpus
      PROVE  /\ held(b) \in Nat
             /\ IF b = c THEN held(b) = Head(ring[c]).miss ELSE held(b) = Pending(b)
  <2>1. DOMAIN e = DOMAIN d \cup {c} /\ (b \in DOMAIN e => e[b] = IF b = c THEN Head(ring[c]) ELSE d[b])
    BY DEF Collected
  <2>2. Head(ring[c]) \in Events
    BY <1>1, <1>2, TakeFacts
  <2>3. Head(ring[c]).miss \in Nat /\ Pending(b) \in Nat
    BY <2>2, ShownTerms DEF Events
  <2> HIDE DEF e
  <2> QED
    BY <2>1, <2>3 DEF Pending
<1>5. ASSUME NEW b \in Cpus
      PROVE  Shown(b)' = SumOf(emitted[b]) + held(b) + SumOf(ring'[b]) + (misses[b] - old[b])
  <2>1. CASE d' = e /\ emitted' = emitted
    BY <1>1, <2>1 DEF Shown
  <2>2. CASE Complete(e) /\ d' = <<>> /\ emitted' = Shows(e)
    <3>1. DOMAIN d' = {}
      BY <2>2
    <3>2. emitted'[b] = IF b \in DOMAIN e THEN Append(emitted[b], e[b]) ELSE emitted[b]
      BY <2>2 DEF Shows
    <3>3. b \in DOMAIN e => e[b] \in Events
      BY <1>1, CollectedFacts
    <3> HIDE DEF e
    <3>4. held(b) \in Nat /\ SumOf(emitted[b]) \in Nat /\ emitted[b] \in Seq(Events)
      BY <1>4, ShownTerms DEF IInv, TypeInv
    <3>5. SumOf(emitted'[b]) = SumOf(emitted[b]) + held(b)
      <4>1. CASE b \in DOMAIN e
        <5>1. held(b) = e[b].miss
          BY <4>1
        <5> QED
          BY <3>2, <3>3, <3>4, <4>1, <5>1, SumAppend
      <4>2. CASE b \notin DOMAIN e
        BY <3>2, <3>4, <4>2
      <4> QED
        BY <4>1, <4>2
    <3>6. Shown(b)' = SumOf(emitted'[b]) + 0 + SumOf(ring'[b]) + (misses[b] - old[b])
      BY <1>1, <3>1 DEF Shown
    <3> HIDE DEF held
    <3> QED
      BY <3>4, <3>5, <3>6
  <2> QED
    BY <2>1, <2>2 DEF handle_output
<1> HIDE DEF e, held
<1>6. ASSUME NEW b \in Cpus
      PROVE  Shown(b)' <= misses'[b] /\ (~overrun'[b] => Shown(b)' = misses'[b])
  <2>1. Shown(b) <= misses[b] /\ (~overrun[b] => Shown(b) = misses[b])
    BY DEF MissInv, MissesShownOnce
  <2>2. /\ Shown(b) = SumOf(emitted[b]) + Pending(b) + SumOf(ring[b]) + (misses[b] - old[b])
        /\ SumOf(emitted[b]) \in Nat /\ Pending(b) \in Nat /\ SumOf(ring[b]) \in Nat
        /\ misses[b] \in Nat /\ old[b] \in Nat /\ misses[b] - old[b] \in Nat
    BY ShownTerms
  <2>3. CASE b # c
    <3>1. ring'[b] = ring[b] /\ overrun'[b] = overrun[b]
      BY <1>1, <1>2, <2>3
    <3> QED
      BY <1>1, <1>4, <1>5, <2>1, <2>2, <2>3, <3>1
  <2>4. CASE b = c
    <3>1. ring'[b] = Tail(ring[b]) /\ (overrun'[b] <=> overrun[b] \/ b \in DOMAIN d)
      BY <1>1, <1>2, <2>4
    <3>2. ring[b] \in Seq(Events) /\ ring[b] # <<>>
      BY <1>1, <1>2, <2>4
    <3>3. SumOf(ring[b]) = held(b) + SumOf(ring'[b]) /\ SumOf(ring'[b]) \in Nat /\ held(b) \in Nat
      <4>1. SumOf(ring[b]) = Head(ring[b]).miss + SumOf(Tail(ring[b]))
        BY <3>2, SumTake
      <4>2. Tail(ring[b]) \in Seq(Events)
        BY <3>2, TakeFacts
      <4>3. SumOf(Tail(ring[b])) \in Nat
        BY <4>2, SumType
      <4> QED
        BY <1>4, <2>4, <3>1, <4>1, <4>3
    <3>4. Shown(b)' + Pending(b) = Shown(b)
      BY <1>5, <2>2, <3>3
    <3>5. ~overrun'[b] => Pending(b) = 0
      BY <3>1 DEF Pending
    <3>6. Shown(b)' \in Int /\ Shown(b) \in Int
      BY <1>5, <2>2, <3>3
    <3> QED
      BY <1>1, <2>1, <2>2, <3>1, <3>4, <3>5, <3>6
  <2> QED
    BY <2>3, <2>4
<1> QED
  BY <1>3, <1>6 DEF MissInv, MissesShownOnce

\* bcc_perf.py moves the misses of an event to the terminal.
LEMMA PrintBalance ==
    ASSUME IInv, IInv', MissInv, NEW c \in Cpus, handle_output_print(c)
    PROVE  MissInv'
<1> DEFINE e == Head(ring[c])
<1>1. /\ ring[c] # <<>> /\ ring' = [ring EXCEPT ![c] = Tail(@)]
      /\ emitted' = [emitted EXCEPT ![c] = Append(@, e)]
      /\ UNCHANGED <<misses, old, d, overrun>>
  BY DEF handle_output_print
<1>2. /\ ring \in [Cpus -> Seq(Events)] /\ emitted \in [Cpus -> Seq(Events)]
      /\ overrun' \in [Cpus -> BOOLEAN]
  BY <1>1 DEF IInv, TypeInv, MissInv
<1>3. /\ e \in Events /\ Tail(ring[c]) \in Seq(Events)
      /\ SumOf(ring[c]) = e.miss + SumOf(Tail(ring[c]))
  BY <1>1, <1>2, TakeFacts, SumTake
<1>4. e.miss \in Nat /\ SumOf(Tail(ring[c])) \in Nat
  BY <1>3, SumType DEF Events
<1> HIDE DEF e
<1>5. ASSUME NEW b \in Cpus PROVE Shown(b)' = Shown(b)
  <2>1. /\ Shown(b) = SumOf(emitted[b]) + Pending(b) + SumOf(ring[b]) + (misses[b] - old[b])
        /\ SumOf(emitted[b]) \in Nat /\ Pending(b) \in Nat /\ SumOf(ring[b]) \in Nat
        /\ misses[b] - old[b] \in Nat
    BY ShownTerms
  <2>2. Shown(b)' = SumOf(emitted'[b]) + Pending(b) + SumOf(ring'[b]) + (misses[b] - old[b])
    BY <1>1 DEF Shown, Pending
  <2>3. CASE b # c
    <3>1. ring'[b] = ring[b] /\ emitted'[b] = emitted[b]
      BY <1>1, <1>2, <2>3
    <3> QED
      BY <2>1, <2>2, <3>1
  <2>4. CASE b = c
    <3>1. ring'[b] = Tail(ring[b]) /\ emitted'[b] = Append(emitted[b], e)
      BY <1>1, <1>2, <2>4
    <3>2. SumOf(emitted'[b]) = SumOf(emitted[b]) + e.miss
      <4>1. emitted[b] \in Seq(Events)
        BY <1>2
      <4> QED
        BY <1>3, <3>1, <4>1, SumAppend
    <3> QED
      BY <1>3, <1>4, <2>1, <2>2, <2>4, <3>1, <3>2
  <2> QED
    BY <2>3, <2>4
<1> QED
  BY <1>1, <1>2, <1>5 DEF MissInv, MissesShownOnce

LEMMA Invariance == Spec => []IInv
<1>1. Init => IInv
  BY Start
<1>2. IInv /\ [Next]_vars => IInv'
  <2> SUFFICES ASSUME IInv, [Next]_vars PROVE IInv'
    OBVIOUS
  <2>1. ASSUME NEW c \in Cpus, Miss(c) PROVE IInv'
    BY <2>1, MissStep
  <2>2. ASSUME NEW c \in Cpus, do_perf(c) PROVE IInv'
    BY <2>2, TickStep
  <2>3. ASSUME NEW c \in Cpus, handle_output(c) PROVE IInv'
    BY <2>3, CollectStep
  <2>4. ASSUME NEW c \in Cpus, handle_output_print(c) PROVE IInv'
    BY <2>4, PrintStep
  <2>5. CASE UNCHANGED vars
    BY <2>5 DEF vars, IInv, TypeInv, CounterInv, Ordered, Increasing
  <2> QED
    BY <2>1, <2>2, <2>3, <2>4, <2>5 DEF Next, Finished
<1> QED
  BY <1>1, <1>2, PTL DEF Spec

\* Every variable has its type; the rings keep to their size, a complete dictionary is only kept
\* until the first frame, and frames have an event of every processor where there are no more
\* processors than it takes to complete one.
THEOREM TypeCorrect == Spec => []TypeOK
<1>1. IInv => TypeOK
  BY DEF IInv, TypeInv, TypeOK
<1> QED
  BY Invariance, <1>1, PTL

\* However the processors tick, the rings overflow and the plot thread polls, no frame of
\* mon_cache.py and no line of bcc_perf.py shows an event that is not later than the one
\* before: the dictionary kept at the start is never shown again.
THEOREM FramesMoveForward == Spec => []FramesAdvance
<1>1. IInv => FramesAdvance
  <2> SUFFICES ASSUME IInv, NEW c \in Cpus, NEW i \in 1..(Len(emitted[c]) - 1)
               PROVE  emitted[c][i].at < emitted[c][i + 1].at
    BY DEF FramesAdvance
  <2>1. emitted[c] \in Seq(Events)
    BY DEF IInv, TypeInv
  <2>2. i \in DOMAIN emitted[c] /\ i + 1 \in DOMAIN emitted[c] /\ i < i + 1
    BY <2>1
  <2> QED
    BY <2>2 DEF IInv, Ordered, Increasing
<1> QED
  BY Invariance, <1>1, PTL

\* Whatever the rings drop and the dictionary overwrites, no cache miss is shown twice, and a
\* processor of which no event is lost has each of its misses shown once, or still to come.
THEOREM MissesExact == Spec => []MissesShownOnce
<1>1. Init => MissInv
  <2> SUFFICES ASSUME Init, NEW c \in Cpus PROVE Shown(c) = misses[c]
    BY DEF Init, MissInv, MissesShownOnce
  <2>1. emitted[c] = <<>> /\ ring[c] = <<>> /\ DOMAIN d = {} /\ misses[c] = 0 /\ old[c] = 0
    BY DEF Init
  <2> QED
    BY <2>1, SumEmpty DEF Shown
<1>2. IInv /\ IInv' /\ MissInv /\ [Next]_vars => MissInv'
  <2> SUFFICES ASSUME IInv, IInv', MissInv, [Next]_vars PROVE MissInv'
    OBVIOUS
  <2>1. ASSUME NEW c \in Cpus, Miss(c) PROVE MissInv'
    BY <2>1, MissBalance
  <2>2. ASSUME NEW c \in Cpus, do_perf(c) PROVE MissInv'
    BY <2>2, TickBalance
  <2>3. ASSUME NEW c \in Cpus, handle_output(c) PROVE MissInv'
    BY <2>3, CollectBalance
  <2>4. ASSUME NEW c \in Cpus, handle_output_print(c) PROVE MissInv'
    BY <2>4, PrintBalance
  <2>5. CASE UNCHANGED vars
    BY <2>5 DEF vars, MissInv, MissesShownOnce, Shown
  <2> QED
    BY <2>1, <2>2, <2>3, <2>4, <2>5 DEF Next, Finished
<1>3. MissInv => MissesShownOnce
  BY DEF MissInv
<1> QED
  BY Invariance, <1>1, <1>2, <1>3, PTL DEF Spec
=============================================================================
