-------------------------- MODULE LatencyPath_proofs --------------------------
(***************************************************************************)
(* Proofs about LatencyPath for every length of the chain, every buffer    *)
(* size, granularity and max_copy.  The invariant has two halves: where    *)
(* items may be (BufferInv), and which marks source and sink have traced   *)
(* (TxInv, RxInv).                                                         *)
(* The chain is reasoned about through pairs of its blocks, so that no     *)
(* induction on its length is needed.                                      *)
(***************************************************************************)
EXTENDS LatencyPath, WellFoundedInduction, TLAPS

\* No block reads ahead of any block before it.
ChainOrdered ==
    \A i \in Writers, j \in Readers : i < j => read[j] <= written[i]

\* What a block has let in and a later one has not read fits in the buffers between them.
InFlightBounded ==
    \A i \in Writers, j \in Readers :
        i < j => written[i] + held[i] <= read[j] + (j - i) * BufferSize

BufferInv ==
    /\ written \in [Writers -> Nat]
    /\ read \in [Readers -> Nat]
    /\ held \in [Blocks -> Nat]
    /\ BuffersRespected
    /\ ChainOrdered
    /\ InFlightBounded

\* The source's half of MarksExact, and the loop of its work never more than one past its bound.
TxInv ==
    /\ txi \in Nat \ {0}
    /\ tx \in Seq(Nat)
    /\ held[Source] > 0 => txi <= Marks(written[Source], held[Source]) + 1
    /\ \A k \in 1..Len(tx) : tx[k] = k
    /\ Len(tx) = (written[Source] \div Granularity) + (IF held[Source] = 0 THEN 0 ELSE txi - 1)

\* The sink's half.
RxInv ==
    /\ rxi \in Nat \ {0}
    /\ rx \in Seq(Nat)
    /\ held[Sink] > 0 => rxi <= Marks(read[Sink], held[Sink]) + 1
    /\ \A k \in 1..Len(rx) : rx[k] = k
    /\ Len(rx) = (read[Sink] \div Granularity) + (IF held[Sink] = 0 THEN 0 ELSE rxi - 1)

Inv == BufferInv /\ TxInv /\ RxInv
-----------------------------------------------------------------------------
(* Arithmetic of \div, which the provers know only by its defining bounds. *)

\* A positive factor can be cancelled.
LEMMA MulLess ==
    ASSUME NEW g \in Nat \ {0}, NEW a \in Int, NEW b \in Int, g * a < g * b
    PROVE  a < b
  BY SMT

\* The bounds that define the quotient.
LEMMA DivBounds ==
    ASSUME NEW g \in Nat \ {0}, NEW a \in Nat
    PROVE  /\ a \div g \in Nat
           /\ g * (a \div g) <= a
           /\ a < g * ((a \div g) + 1)
  BY SMT

\* More items never mean fewer marks.
LEMMA DivMonotonic ==
    ASSUME NEW g \in Nat \ {0}, NEW a \in Nat, NEW b \in Nat, a <= b
    PROVE  a \div g <= b \div g
<1> DEFINE p == a \div g
           q == b \div g
<1>1. p \in Nat /\ q \in Nat /\ g * p <= a /\ b < g * (q + 1)
  BY DivBounds
<1>2. g * p < g * (q + 1)
  BY <1>1, SMT
<1>3. p < q + 1
  BY <1>1, <1>2, MulLess
<1> QED
  BY <1>1, <1>3

\* A stretch of b items passes at most one mark more than b items from a mark on.
LEMMA DivSum ==
    ASSUME NEW g \in Nat \ {0}, NEW a \in Nat, NEW b \in Nat
    PROVE  (a + b) \div g <= (a \div g) + (b \div g) + 1
<1> DEFINE p == a \div g
           q == b \div g
           r == (a + b) \div g
<1>1. p \in Nat /\ q \in Nat /\ r \in Nat
  BY DivBounds
<1>2. g * r <= a + b /\ a < g * (p + 1) /\ b < g * (q + 1)
  BY DivBounds
<1>3. g * (p + 1) + g * (q + 1) = g * (p + q + 2)
  BY <1>1
<1>4. g * r < g * (p + q + 2)
  <2> HIDE DEF p, q, r
  <2>1. g * r \in Int /\ g * (p + 1) \in Int /\ g * (q + 1) \in Int
    BY <1>1
  <2> QED
    BY <1>2, <1>3, <2>1
<1>5. r < p + q + 2
  BY <1>1, <1>4, MulLess
<1> QED
  BY <1>1, <1>5

\* One more buffer in the chain holds one buffer's size more.
LEMMA MulStep ==
    ASSUME NEW d \in Nat, NEW s \in Nat
    PROVE  s + d * s = (d + 1) * s /\ d * s \in Nat
  BY SMT
-----------------------------------------------------------------------------
(* The buffers *)

\* What the assumptions say of the parameters and of the chain's numbering.
LEMMA Chain ==
    /\ NCopy \in Nat /\ MaxCopy \in Nat /\ BufferSize \in Nat /\ Granularity \in Nat \ {0}
    /\ Source = 0 /\ Sink = NCopy + 1
    /\ Writers = 0..NCopy /\ Readers = 1..(NCopy + 1) /\ Blocks = 0..(NCopy + 1)
    /\ Copies = 1..NCopy
  BY ChainAssumption, BufferAssumption, GranularityAssumption
     DEF Source, Sink, Writers, Readers, Blocks, Copies

\* What the invariant says of one writer and of one reader.
LEMMA WriterFacts ==
    ASSUME BufferInv, NEW b \in Writers
    PROVE  /\ b \in Blocks /\ b # Sink /\ b + 1 \in Readers
           /\ written[b] \in Nat /\ held[b] \in Nat /\ read[b + 1] \in Nat
           /\ Room(b) \in Int /\ Room(b) = BufferSize - (written[b] - read[b + 1])
           /\ written[b] + held[b] - read[b + 1] <= BufferSize
<1>1. b \in Blocks /\ b # Sink /\ b + 1 \in Readers
  BY Chain
<1>2. written[b] \in Nat /\ held[b] \in Nat /\ read[b + 1] \in Nat
  BY <1>1 DEF BufferInv
<1>3. BufferSize \in Nat
  BY Chain
<1>4. Room(b) = BufferSize - (written[b] - read[b + 1])
  BY DEF Room
<1>5. written[b] + held[b] - read[b + 1] <= BufferSize
  BY DEF BufferInv, BuffersRespected
<1> QED
  BY <1>1, <1>2, <1>3, <1>4, <1>5

\* The same for a reader and its input.
LEMMA ReaderFacts ==
    ASSUME BufferInv, NEW b \in Readers
    PROVE  /\ b \in Blocks /\ b - 1 \in Writers
           /\ written[b - 1] \in Nat /\ held[b] \in Nat /\ read[b] \in Nat
           /\ Available(b) = written[b - 1] - read[b]
           /\ read[b] <= written[b - 1]
<1>1. b \in Blocks /\ b - 1 \in Writers
  BY Chain
<1> QED
  BY <1>1 DEF BufferInv, BuffersRespected, Available

\* A block that may read up to v of its input stays behind every block before it.
LEMMA ReadBehind ==
    ASSUME BufferInv, NEW b \in Readers, NEW v \in Nat, v <= written[b - 1],
           NEW i \in Writers, i < b
    PROVE  v <= written[i]
<1>1. CASE i = b - 1
  BY <1>1
<1>2. CASE i < b - 1
  <2>1. /\ b - 1 \in Copies /\ b - 1 \in Readers /\ b - 1 \in Writers /\ b - 1 \in Blocks
        /\ i < b - 1
    BY <1>2, Chain
  <2>2. written[b - 1] <= read[b - 1]
    <3>1. read[b - 1] = written[b - 1] + held[b - 1]
      BY <2>1 DEF BufferInv, BuffersRespected
    <3>2. written[b - 1] \in Nat /\ held[b - 1] \in Nat
      BY <2>1 DEF BufferInv
    <3> QED
      BY <3>1, <3>2
  <2>3. read[b - 1] <= written[i]
    BY <1>2, <2>1 DEF BufferInv, ChainOrdered
  <2> QED
    BY <2>1, <2>2, <2>3 DEF BufferInv
<1> QED
  BY <1>1, <1>2, Chain

\* A call that fits in the room of its output buffer keeps the distance to every later block.
LEMMA WorkInFlight ==
    ASSUME BufferInv, NEW b \in Writers, NEW n \in Nat, n <= Room(b),
           NEW j \in Readers, b < j
    PROVE  written[b] + n <= read[j] + (j - b) * BufferSize
<1>1. b + 1 \in Readers /\ written[b] \in Nat /\ read[b + 1] \in Nat /\ read[j] \in Nat
  BY Chain DEF BufferInv
<1>2. written[b] + n <= read[b + 1] + BufferSize
  BY <1>1, Chain DEF Room
<1>3. CASE j = b + 1
  <2>1. (j - b) * BufferSize = BufferSize
    BY <1>3, Chain
  <2> QED
    BY <1>2, <1>3, <2>1
<1>4. CASE b + 1 < j
  <2>1. b + 1 \in Copies /\ b + 1 \in Writers
    BY <1>4, Chain
  <2>2. read[b + 1] = written[b + 1] + held[b + 1]
    BY <2>1 DEF BufferInv, BuffersRespected
  <2>3. read[b + 1] <= read[j] + (j - (b + 1)) * BufferSize
    BY <1>4, <2>1, <2>2 DEF BufferInv, InFlightBounded
  <2>4. j - (b + 1) \in Nat /\ (j - (b + 1)) + 1 = j - b
    BY <1>4, Chain
  <2>5. BufferSize + (j - (b + 1)) * BufferSize = (j - b) * BufferSize
        /\ (j - (b + 1)) * BufferSize \in Nat
    BY <2>4, MulStep, Chain
  <2> DEFINE far  == (j - (b + 1)) * BufferSize
             near == (j - b) * BufferSize
  <2>6. /\ BufferSize \in Nat /\ far \in Nat /\ near = BufferSize + far
        /\ read[b + 1] <= read[j] + far
    BY <2>3, <2>5, Chain
  <2> HIDE DEF far, near
  <2>7. written[b] + n <= read[j] + near
    BY <1>1, <1>2, <2>6
  <2> QED
    BY <2>7 DEF near
<1> QED
  BY <1>3, <1>4, Chain

\* Empty buffers satisfy the invariant.
LEMMA BufferInit == Init => BufferInv
<1> SUFFICES ASSUME Init PROVE BufferInv
  OBVIOUS
<1>1. /\ \A b \in Writers : written[b] = 0
      /\ \A b \in Readers : read[b] = 0
      /\ \A b \in Blocks : held[b] = 0
      /\ Sink \in Readers /\ Sink \in Blocks /\ NCopy \in Writers
  BY Chain DEF Init
<1>2. ChainOrdered
  BY <1>1, Chain DEF ChainOrdered
<1>3. InFlightBounded
  <2> SUFFICES ASSUME NEW i \in Writers, NEW j \in Readers, i < j
               PROVE  written[i] + held[i] <= read[j] + (j - i) * BufferSize
    BY DEF InFlightBounded
  <2>1. j - i \in Nat
    BY Chain
  <2>2. (j - i) * BufferSize \in Nat
    BY <2>1, Chain, MulStep
  <2> QED
    BY <1>1, <2>2, Chain
<1>4. BuffersRespected
  BY <1>1, Chain DEF BuffersRespected
<1> QED
  BY <1>2, <1>3, <1>4, Chain DEF Init, BufferInv

\* A work call of the source fits in its buffer and in all the buffers of the chain.
LEMMA BufferSourceWork == BufferInv /\ SourceWork => BufferInv'
<1> SUFFICES ASSUME BufferInv, SourceWork PROVE BufferInv'
  OBVIOUS
<1>1. PICK n \in 1..Room(Source) : held' = [held EXCEPT ![Source] = n]
  BY DEF SourceWork
<1>2. Source \in Writers /\ Source \in Blocks /\ Source # Sink /\ Sink \in Blocks /\ 1 \in Readers
  BY Chain
<1>3. written' = written /\ read' = read /\ held[Source] = 0 /\ n \in Nat /\ n <= Room(Source)
  <2>1. Room(Source) \in Int
    BY <1>2, Chain DEF Room, BufferInv
  <2> QED
    BY <1>1, <2>1 DEF SourceWork
<1>4. held' \in [Blocks -> Nat] /\ held'[Source] = n /\ \A b \in Blocks \ {Source} : held'[b] = held[b]
  BY <1>1, <1>2, <1>3 DEF BufferInv
<1>5. BuffersRespected'
  <2>1. \A b \in Writers : written'[b] + held'[b] - read'[b + 1] <= BufferSize
    <3> SUFFICES ASSUME NEW b \in Writers PROVE written[b] + held'[b] - read[b + 1] <= BufferSize
      BY <1>3
    <3>1. CASE b = Source
      <4>1. /\ written[b] \in Nat /\ read[b + 1] \in Nat
            /\ Room(b) = BufferSize - (written[b] - read[b + 1])
        BY WriterFacts
      <4>2. BufferSize \in Nat
        BY Chain
      <4> QED
        BY <3>1, <4>1, <4>2, <1>3, <1>4
    <3>2. CASE b # Source
      BY <3>2, <1>4, WriterFacts
    <3> QED
      BY <3>1, <3>2
  <2>2. \A b \in Readers : read'[b] <= written'[b - 1]
    BY <1>3 DEF BufferInv, BuffersRespected
  <2>3. read'[Sink] + held'[Sink] <= written'[NCopy]
    BY <1>2, <1>3, <1>4 DEF BufferInv, BuffersRespected
  <2>4. \A b \in Copies : read'[b] = written'[b] + held'[b]
    <3>1. \A b \in Copies : b \in Blocks /\ b # Source
      BY Chain
    <3> QED
      BY <3>1, <1>3, <1>4 DEF BufferInv, BuffersRespected
  <2> QED
    BY <2>1, <2>2, <2>3, <2>4 DEF BuffersRespected
<1>6. ChainOrdered'
  BY <1>3 DEF BufferInv, ChainOrdered
<1>7. InFlightBounded'
  <2> SUFFICES ASSUME NEW i \in Writers, NEW j \in Readers, i < j
               PROVE  written[i] + held'[i] <= read[j] + (j - i) * BufferSize
    BY <1>3 DEF InFlightBounded
  <2>1. CASE i = Source
    BY <2>1, <1>2, <1>3, <1>4, WorkInFlight
  <2>2. CASE i # Source
    BY <2>2, <1>4, Chain DEF BufferInv, InFlightBounded
  <2> QED
    BY <2>1, <2>2
<1> QED
  BY <1>3, <1>4, <1>5, <1>6, <1>7 DEF BufferInv

\* What a writer does when its call returns: the items it held become written.
LEMMA BufferReturn ==
    ASSUME BufferInv, NEW c \in Writers,
           written' = [written EXCEPT ![c] = @ + held[c]],
           held' = [held EXCEPT ![c] = 0],
           UNCHANGED read
    PROVE  BufferInv'
<1>1. c \in Blocks /\ c # Sink /\ Sink \in Blocks /\ NCopy \in Writers
  BY Chain
<1>2. /\ written' \in [Writers -> Nat] /\ held' \in [Blocks -> Nat]
      /\ written'[c] = written[c] + held[c] /\ held'[c] = 0
      /\ \A b \in Writers \ {c} : written'[b] = written[b]
      /\ \A b \in Blocks \ {c} : held'[b] = held[b]
  BY <1>1 DEF BufferInv
<1>3. \A b \in Writers : /\ written'[b] + held'[b] = written[b] + held[b]
                         /\ written[b] <= written'[b]
                         /\ written[b] \in Nat /\ written'[b] \in Nat
  <2> SUFFICES ASSUME NEW b \in Writers
               PROVE  /\ written'[b] + held'[b] = written[b] + held[b]
                      /\ written[b] <= written'[b]
                      /\ written[b] \in Nat /\ written'[b] \in Nat
    OBVIOUS
  <2>1. CASE b = c
    BY <2>1, <1>2, WriterFacts
  <2>2. CASE b # c
    BY <2>2, <1>2, WriterFacts
  <2> QED
    BY <2>1, <2>2
<1>4. BuffersRespected'
  <2>1. \A b \in Writers : written'[b] + held'[b] - read'[b + 1] <= BufferSize
    BY <1>3, WriterFacts
  <2>2. \A b \in Readers : read'[b] <= written'[b - 1]
    <3> SUFFICES ASSUME NEW b \in Readers PROVE read[b] <= written'[b - 1]
      OBVIOUS
    <3> QED
      BY <1>3, ReaderFacts
  <2>3. read'[Sink] + held'[Sink] <= written'[NCopy]
    <3>1. read[Sink] + held[Sink] <= written[NCopy] /\ read[Sink] \in Nat /\ held[Sink] \in Nat
      BY <1>1, Chain DEF BufferInv, BuffersRespected
    <3> QED
      BY <3>1, <1>1, <1>2, <1>3
  <2>4. \A b \in Copies : read'[b] = written'[b] + held'[b]
    BY <1>3, Chain DEF BufferInv, BuffersRespected
  <2> QED
    BY <2>1, <2>2, <2>3, <2>4 DEF BuffersRespected
<1>5. ChainOrdered'
  <2> SUFFICES ASSUME NEW i \in Writers, NEW j \in Readers, i < j
               PROVE  read[j] <= written'[i]
    BY DEF ChainOrdered
  <2>1. read[j] <= written[i] /\ read[j] \in Nat
    BY DEF BufferInv, ChainOrdered
  <2> QED
    BY <2>1, <1>3
<1>6. InFlightBounded'
  BY <1>3 DEF BufferInv, InFlightBounded
<1> QED
  BY <1>2, <1>4, <1>5, <1>6 DEF BufferInv

\* A work call of copy_rand takes no more than it finds and writes no more than fits.
LEMMA BufferCopyWork == ASSUME BufferInv, NEW b \in Copies, CopyWork(b) PROVE BufferInv'
<1>0. PICK noutput \in 1..Room(b) :
          \E m \in Copied(noutput, Available(b)) :
              /\ read' = [read EXCEPT ![b] = @ + m]
              /\ held' = [held EXCEPT ![b] = m]
  BY DEF CopyWork
<1>1. PICK m \in Copied(noutput, Available(b)) :
          /\ read' = [read EXCEPT ![b] = @ + m]
          /\ held' = [held EXCEPT ![b] = m]
  BY <1>0
<1>2. /\ b \in Writers /\ b \in Readers /\ b \in Blocks /\ b # Sink /\ b + 1 \in Readers
      /\ b - 1 \in Writers /\ Sink \in Blocks /\ Sink \in Readers /\ NCopy \in Writers
  BY Chain
<1>3. written' = written /\ held[b] = 0 /\ m \in Nat /\ m <= Room(b) /\ m <= Available(b)
  <2>1. Room(b) \in Int
    BY <1>2, WriterFacts
  <2> QED
    BY <1>1, <2>1 DEF CopyWork, Copied
<1>4. /\ read' \in [Readers -> Nat] /\ held' \in [Blocks -> Nat]
      /\ held'[b] = m /\ read'[b] = read[b] + m
      /\ \A c \in Blocks \ {b} : held'[c] = held[c]
      /\ \A c \in Readers \ {b} : read'[c] = read[c]
  BY <1>1, <1>2, <1>3 DEF BufferInv
<1>5. read[b] + m <= written[b - 1]
  BY <1>2, <1>3 DEF Available, BufferInv
<1>6. \A c \in Readers : read[c] <= read'[c] /\ read[c] \in Nat /\ read'[c] \in Nat
  BY <1>2, <1>3, <1>4 DEF BufferInv
<1>7. BuffersRespected'
  <2>1. \A c \in Writers : written'[c] + held'[c] - read'[c + 1] <= BufferSize
    <3> SUFFICES ASSUME NEW c \in Writers
                 PROVE  written[c] + held'[c] - read'[c + 1] <= BufferSize
      BY <1>3
    <3>1. c + 1 \in Readers /\ c \in Blocks
      BY Chain
    <3>2. CASE c = b
      <4>1. written[b] + m - read[b + 1] <= BufferSize
        <5>1. /\ written[b] \in Nat /\ read[b + 1] \in Nat
              /\ Room(b) = BufferSize - (written[b] - read[b + 1])
          BY <1>2, WriterFacts
        <5>2. BufferSize \in Nat
          BY Chain
        <5> QED
          BY <5>1, <5>2, <1>3
      <4> QED
        BY <3>2, <4>1, <1>2, <1>4, Chain
    <3>3. CASE c # b
      <4>1. written[c] + held[c] - read[c + 1] <= BufferSize
        BY DEF BufferInv, BuffersRespected
      <4>2. written[c] \in Nat /\ held[c] \in Nat /\ BufferSize \in Nat
        BY <3>1, Chain DEF BufferInv
      <4> QED
        BY <3>1, <3>3, <4>1, <4>2, <1>4, <1>6
    <3> QED
      BY <3>2, <3>3
  <2>2. \A c \in Readers : read'[c] <= written'[c - 1]
    BY <1>3, <1>4, <1>5 DEF BufferInv, BuffersRespected
  <2>3. read'[Sink] + held'[Sink] <= written'[NCopy]
    BY <1>2, <1>3, <1>4 DEF BufferInv, BuffersRespected
  <2>4. \A c \in Copies : read'[c] = written'[c] + held'[c]
    <3> SUFFICES ASSUME NEW c \in Copies PROVE read'[c] = written[c] + held'[c]
      BY <1>3
    <3>1. c \in Readers /\ c \in Blocks /\ c \in Writers
      BY Chain
    <3>2. read[c] = written[c] + held[c] /\ written[c] \in Nat
      BY <3>1 DEF BufferInv, BuffersRespected
    <3>3. CASE c = b
      BY <3>2, <3>3, <1>3, <1>4
    <3>4. CASE c # b
      BY <3>1, <3>2, <3>4, <1>4
    <3> QED
      BY <3>3, <3>4
  <2> QED
    BY <2>1, <2>2, <2>3, <2>4 DEF BuffersRespected
<1>8. ChainOrdered'
  <2> SUFFICES ASSUME NEW i \in Writers, NEW j \in Readers, i < j
               PROVE  read'[j] <= written[i]
    BY <1>3 DEF ChainOrdered
  <2>1. CASE j = b
    BY <2>1, <1>2, <1>4, <1>5, <1>6, ReadBehind
  <2>2. CASE j # b
    BY <2>2, <1>4 DEF BufferInv, ChainOrdered
  <2> QED
    BY <2>1, <2>2
<1>9. InFlightBounded'
  <2> SUFFICES ASSUME NEW i \in Writers, NEW j \in Readers, i < j
               PROVE  written[i] + held'[i] <= read'[j] + (j - i) * BufferSize
    BY <1>3 DEF InFlightBounded
  <2>1. written[i] + held'[i] <= read[j] + (j - i) * BufferSize
    <3>1. CASE i = b
      BY <3>1, <1>2, <1>3, <1>4, WorkInFlight
    <3>2. CASE i # b
      BY <3>2, <1>4, Chain DEF BufferInv, InFlightBounded
    <3> QED
      BY <3>1, <3>2
  <2>2. /\ written[i] \in Nat /\ held'[i] \in Nat /\ (j - i) * BufferSize \in Nat
    <3>1. j - i \in Nat /\ i \in Blocks
      BY Chain
    <3> QED
      BY <3>1, <1>4, MulStep, Chain DEF BufferInv
  <2> DEFINE d == (j - i) * BufferSize
  <2>3. d \in Nat /\ written[i] + held'[i] <= read[j] + d
    BY <2>1, <2>2
  <2> HIDE DEF d
  <2>4. written[i] + held'[i] <= read'[j] + d
    BY <2>2, <2>3, <1>6
  <2> QED
    BY <2>4 DEF d
<1> QED
  BY <1>3, <1>4, <1>7, <1>8, <1>9 DEF BufferInv

\* A work call of the sink takes no more than it finds.
LEMMA BufferSinkWork == BufferInv /\ SinkWork => BufferInv'
<1> SUFFICES ASSUME BufferInv, SinkWork PROVE BufferInv'
  OBVIOUS
<1>1. PICK n \in 1..Available(Sink) : held' = [held EXCEPT ![Sink] = n]
  BY DEF SinkWork
<1>2. /\ Sink \in Readers /\ Sink \in Blocks /\ Sink - 1 = NCopy
      /\ \A b \in Writers : b \in Blocks \ {Sink}
      /\ \A b \in Copies : b \in Writers
  BY Chain
<1>3. written' = written /\ read' = read
  BY DEF SinkWork
<1>4. n \in Nat /\ read[Sink] \in Nat /\ read[Sink] + n <= written[NCopy]
  BY <1>1, <1>2, ReaderFacts
<1>5. /\ held' \in [Blocks -> Nat] /\ held'[Sink] = n
      /\ \A b \in Writers : held'[b] = held[b]
  BY <1>1, <1>2, <1>4 DEF BufferInv
<1>6. BuffersRespected'
  BY <1>2, <1>3, <1>4, <1>5 DEF BufferInv, BuffersRespected
<1>7. ChainOrdered' /\ InFlightBounded'
  BY <1>3, <1>5 DEF BufferInv, ChainOrdered, InFlightBounded
<1> QED
  BY <1>3, <1>5, <1>6, <1>7 DEF BufferInv

\* When the sink's call returns, its items leave the chain.
LEMMA BufferSinkReturn == BufferInv /\ SinkReturn => BufferInv'
<1> SUFFICES ASSUME BufferInv, SinkReturn PROVE BufferInv'
  OBVIOUS
<1>1. /\ Sink \in Readers /\ Sink \in Blocks /\ Sink - 1 = NCopy /\ NCopy \in Writers
      /\ \A b \in Writers : b \in Blocks \ {Sink}
      /\ \A b \in Copies : b \in Writers /\ b \in Readers \ {Sink}
  BY Chain
<1>2. /\ written' = written
      /\ read' = [read EXCEPT ![Sink] = @ + held[Sink]]
      /\ held' = [held EXCEPT ![Sink] = 0]
  BY DEF SinkReturn
<1>3. /\ read' \in [Readers -> Nat] /\ read'[Sink] = read[Sink] + held[Sink]
      /\ \A b \in Readers \ {Sink} : read'[b] = read[b]
      /\ held' \in [Blocks -> Nat] /\ held'[Sink] = 0
      /\ \A b \in Writers : held'[b] = held[b]
  BY <1>1, <1>2 DEF BufferInv
<1>4. \A b \in Readers : read[b] <= read'[b] /\ read[b] \in Nat /\ read'[b] \in Nat
  BY <1>1, <1>3 DEF BufferInv
<1>5. read'[Sink] <= written[Sink - 1]
  BY <1>1, <1>3 DEF BufferInv, BuffersRespected
<1>6. BuffersRespected'
  <2>1. \A b \in Writers : written'[b] + held'[b] - read'[b + 1] <= BufferSize
    <3> SUFFICES ASSUME NEW b \in Writers PROVE written[b] + held[b] - read'[b + 1] <= BufferSize
      BY <1>2, <1>3
    <3>1. BufferSize \in Nat
      BY Chain
    <3> QED
      BY <3>1, <1>4, WriterFacts
  <2>2. \A b \in Readers : read'[b] <= written'[b - 1]
    BY <1>2, <1>3, <1>5 DEF BufferInv, BuffersRespected
  <2>3. read'[Sink] + held'[Sink] <= written'[NCopy]
    BY <1>1, <1>2, <1>3, <1>4, <1>5
  <2>4. \A b \in Copies : read'[b] = written'[b] + held'[b]
    BY <1>1, <1>2, <1>3 DEF BufferInv, BuffersRespected
  <2> QED
    BY <2>1, <2>2, <2>3, <2>4 DEF BuffersRespected
<1>7. ChainOrdered'
  <2> SUFFICES ASSUME NEW i \in Writers, NEW j \in Readers, i < j
               PROVE  read'[j] <= written[i]
    BY <1>2 DEF ChainOrdered
  <2>1. CASE j = Sink
    BY <2>1, <1>1, <1>4, <1>5, ReadBehind
  <2>2. CASE j # Sink
    BY <2>2, <1>3 DEF BufferInv, ChainOrdered
  <2> QED
    BY <2>1, <2>2
<1>8. InFlightBounded'
  <2> SUFFICES ASSUME NEW i \in Writers, NEW j \in Readers, i < j
               PROVE  written[i] + held[i] <= read'[j] + (j - i) * BufferSize
    BY <1>2, <1>3 DEF InFlightBounded
  <2> DEFINE d == (j - i) * BufferSize
  <2>1. d \in Nat
    <3>1. j - i \in Nat
      BY Chain
    <3> QED
      BY <3>1, MulStep, Chain
  <2>2. written[i] + held[i] <= read[j] + d
    BY DEF BufferInv, InFlightBounded
  <2> HIDE DEF d
  <2>3. written[i] + held[i] <= read'[j] + d
    BY <2>1, <2>2, <1>4, WriterFacts
  <2> QED
    BY <2>3 DEF d
<1> QED
  BY <1>2, <1>3, <1>6, <1>7, <1>8 DEF BufferInv

\* Everything that is not a work call or its return leaves the buffers alone.
LEMMA BufferUnchanged == BufferInv /\ UNCHANGED <<written, read, held>> => BufferInv'
  BY DEF BufferInv, BuffersRespected, ChainOrdered, InFlightBounded

\* Every step keeps the buffers' invariant.
LEMMA BufferNext == BufferInv /\ [Next]_vars => BufferInv'
<1> SUFFICES ASSUME BufferInv, [Next]_vars PROVE BufferInv'
  OBVIOUS
<1>1. CASE SourceWork
  BY <1>1, BufferSourceWork
<1>2. CASE SourceTrace \/ SinkTrace \/ Finished \/ UNCHANGED vars
  BY <1>2, BufferUnchanged DEF SourceTrace, SinkTrace, Finished, vars
<1>3. CASE SourceReturn
  <2>1. Source \in Writers
    BY Chain
  <2> QED
    BY <1>3, <2>1, BufferReturn DEF SourceReturn
<1>4. ASSUME NEW b \in Copies, CopyStep(b) PROVE BufferInv'
  <2>1. CASE CopyWork(b)
    BY <2>1, BufferCopyWork
  <2>2. CASE CopyReturn(b)
    <3>1. b \in Writers
      BY Chain
    <3> QED
      BY <2>2, <3>1, BufferReturn DEF CopyReturn
  <2> QED
    BY <1>4, <2>1, <2>2 DEF CopyStep
<1>5. CASE SinkWork
  BY <1>5, BufferSinkWork
<1>6. CASE SinkReturn
  BY <1>6, BufferSinkReturn
<1> QED
  BY <1>1, <1>2, <1>3, <1>4, <1>5, <1>6 DEF Next, SourceStep, SinkStep
-----------------------------------------------------------------------------
(* The marks *)

\* Source and sink are different blocks, with natural counters.
LEMMA EndFacts ==
    ASSUME BufferInv
    PROVE  /\ Source \in Writers /\ Source \in Blocks /\ Sink \in Readers /\ Sink \in Blocks
           /\ Source # Sink /\ Source \notin Copies /\ Sink \notin Copies /\ Source < Sink
           /\ written[Source] \in Nat /\ held[Source] \in Nat
           /\ read[Sink] \in Nat /\ held[Sink] \in Nat
<1>1. /\ Source \in Writers /\ Source \in Blocks /\ Sink \in Readers /\ Sink \in Blocks
      /\ Source # Sink /\ Source \notin Copies /\ Sink \notin Copies /\ Source < Sink
  BY Chain
<1> QED
  BY <1>1 DEF BufferInv

\* The marks of successive calls add up: none falls on both sides of a cut, and none between.
LEMMA MarksFacts ==
    ASSUME NEW a \in Nat, NEW n \in Nat
    PROVE  /\ Marks(a, n) \in Nat
           /\ a \div Granularity \in Nat
           /\ (a \div Granularity) + Marks(a, n) = (a + n) \div Granularity
<1>1. a + n \in Nat /\ a <= a + n /\ Granularity \in Nat \ {0}
  BY Chain
<1>2. /\ a \div Granularity \in Nat /\ (a + n) \div Granularity \in Nat
      /\ a \div Granularity <= (a + n) \div Granularity
  BY <1>1, DivBounds, DivMonotonic
<1> DEFINE p == a \div Granularity
           q == (a + n) \div Granularity
<1>3. Marks(a, n) = q - p
  BY DEF Marks
<1>4. p \in Nat /\ q \in Nat /\ p <= q
  BY <1>2
<1> HIDE DEF p, q
<1>5. Marks(a, n) \in Nat /\ p \in Nat /\ p + Marks(a, n) = q
  BY <1>3, <1>4
<1> QED
  BY <1>5 DEF p, q

\* A step that touches neither the source's counters nor its marks.
LEMMA TxUnchanged ==
    ASSUME TxInv, UNCHANGED <<txi, tx>>, written'[Source] = written[Source],
           held'[Source] = held[Source]
    PROVE  TxInv'
  BY DEF TxInv, Marks

\* A step that touches neither the sink's counters nor its marks.
LEMMA RxUnchanged ==
    ASSUME RxInv, UNCHANGED <<rxi, rx>>, read'[Sink] = read[Sink], held'[Sink] = held[Sink]
    PROVE  RxInv'
  BY DEF RxInv, Marks

\* The source's call starts with the first mark of its stretch.
LEMMA TxSourceWork == BufferInv /\ TxInv /\ SourceWork => TxInv'
<1> SUFFICES ASSUME BufferInv, TxInv, SourceWork PROVE TxInv'
  OBVIOUS
<1>1. PICK n \in 1..Room(Source) : held' = [held EXCEPT ![Source] = n]
  BY DEF SourceWork
<1>2. n \in Nat /\ n > 0
  BY <1>1, EndFacts, WriterFacts
<1>3. held'[Source] = n /\ txi' = 1 /\ tx' = tx /\ written' = written /\ held[Source] = 0
  BY <1>1, EndFacts DEF SourceWork, BufferInv
<1>4. Marks(written[Source], n) \in Nat /\ written[Source] \div Granularity \in Nat
  BY <1>2, EndFacts, MarksFacts
<1>5. txi' <= Marks(written'[Source], held'[Source]) + 1
  BY <1>3, <1>4 DEF Marks
<1>6. Len(tx') = (written'[Source] \div Granularity) + (IF held'[Source] = 0 THEN 0 ELSE txi' - 1)
  BY <1>2, <1>3, <1>4 DEF TxInv
<1> QED
  BY <1>3, <1>5, <1>6 DEF TxInv, Marks

\* The source traces the next mark of its stretch.
LEMMA TxSourceTrace == BufferInv /\ TxInv /\ SourceTrace => TxInv' /\ Len(tx') = Len(tx) + 1
<1> SUFFICES ASSUME BufferInv, TxInv, SourceTrace PROVE TxInv' /\ Len(tx') = Len(tx) + 1
  OBVIOUS
<1> DEFINE before == written[Source] \div Granularity
           marks == Marks(written[Source], held[Source])
<1>1. before \in Nat /\ marks \in Nat
  BY EndFacts, MarksFacts
<1>2. held[Source] > 0 /\ txi <= marks /\ txi' = txi + 1 /\ tx' = Append(tx, before + txi)
      /\ written' = written /\ held' = held
  BY DEF SourceTrace
<1>4. /\ txi \in Nat \ {0} /\ tx \in Seq(Nat) /\ Len(tx) \in Nat
      /\ Len(tx) = before + (txi - 1)
      /\ \A k \in 1..Len(tx) : tx[k] = k
  BY <1>2, EndFacts DEF TxInv
<1>5. /\ held'[Source] > 0
      /\ written'[Source] \div Granularity = before
      /\ Marks(written'[Source], held'[Source]) = marks
  BY <1>2 DEF Marks
<1> HIDE DEF before, marks
<1>6. before + txi \in Nat /\ before + txi = Len(tx) + 1
  BY <1>1, <1>4
<1>7. tx' \in Seq(Nat) /\ Len(tx') = Len(tx) + 1 /\ \A k \in 1..Len(tx') : tx'[k] = k
  BY <1>2, <1>4, <1>6
<1>8. txi' \in Nat \ {0} /\ txi' <= marks + 1 /\ Len(tx') = before + (txi' - 1)
  BY <1>1, <1>2, <1>4, <1>7
<1> QED
  BY <1>5, <1>7, <1>8 DEF TxInv

\* The source's call returns when the marks of its stretch are traced.
LEMMA TxSourceReturn == BufferInv /\ TxInv /\ SourceReturn => TxInv'
<1> SUFFICES ASSUME BufferInv, TxInv, SourceReturn PROVE TxInv'
  OBVIOUS
<1>1. /\ held[Source] > 0 /\ txi > Marks(written[Source], held[Source])
      /\ written'[Source] = written[Source] + held[Source] /\ held'[Source] = 0
      /\ txi' = txi /\ tx' = tx
  BY EndFacts DEF SourceReturn, BufferInv
<1> DEFINE before == written[Source] \div Granularity
           after == (written[Source] + held[Source]) \div Granularity
           marks == Marks(written[Source], held[Source])
<1>2. before \in Nat /\ marks \in Nat /\ before + marks = after
  BY EndFacts, MarksFacts
<1>3. txi \in Nat /\ txi <= marks + 1 /\ marks < txi /\ Len(tx) = before + (txi - 1)
  BY <1>1, EndFacts DEF TxInv
<1>4. written'[Source] \div Granularity = after
  BY <1>1
<1> HIDE DEF before, after, marks
<1>5. Len(tx) = after + 0
  BY <1>2, <1>3
<1> QED
  BY <1>1, <1>4, <1>5 DEF TxInv

\* The sink's call starts with the first mark of its stretch.
LEMMA RxSinkWork == BufferInv /\ RxInv /\ SinkWork => RxInv'
<1> SUFFICES ASSUME BufferInv, RxInv, SinkWork PROVE RxInv'
  OBVIOUS
<1>1. PICK n \in 1..Available(Sink) : held' = [held EXCEPT ![Sink] = n]
  BY DEF SinkWork
<1>2. n \in Nat /\ n > 0
  BY <1>1, EndFacts, ReaderFacts
<1>3. held'[Sink] = n /\ rxi' = 1 /\ rx' = rx /\ read' = read /\ held[Sink] = 0
  BY <1>1, EndFacts DEF SinkWork, BufferInv
<1>4. Marks(read[Sink], n) \in Nat /\ read[Sink] \div Granularity \in Nat
  BY <1>2, EndFacts, MarksFacts
<1>5. rxi' <= Marks(read'[Sink], held'[Sink]) + 1
  BY <1>3, <1>4 DEF Marks
<1>6. Len(rx') = (read'[Sink] \div Granularity) + (IF held'[Sink] = 0 THEN 0 ELSE rxi' - 1)
  BY <1>2, <1>3, <1>4 DEF RxInv
<1> QED
  BY <1>3, <1>5, <1>6 DEF RxInv, Marks

\* The sink traces the next mark of its stretch.
LEMMA RxSinkTrace == BufferInv /\ RxInv /\ SinkTrace => RxInv' /\ Len(rx') = Len(rx) + 1
<1> SUFFICES ASSUME BufferInv, RxInv, SinkTrace PROVE RxInv' /\ Len(rx') = Len(rx) + 1
  OBVIOUS
<1> DEFINE before == read[Sink] \div Granularity
           marks == Marks(read[Sink], held[Sink])
<1>1. before \in Nat /\ marks \in Nat
  BY EndFacts, MarksFacts
<1>2. held[Sink] > 0 /\ rxi <= marks /\ rxi' = rxi + 1 /\ rx' = Append(rx, before + rxi)
      /\ read' = read /\ held' = held
  BY DEF SinkTrace
<1>3. /\ rxi \in Nat \ {0} /\ rx \in Seq(Nat) /\ Len(rx) \in Nat
      /\ Len(rx) = before + (rxi - 1)
      /\ \A k \in 1..Len(rx) : rx[k] = k
  BY <1>2, EndFacts DEF RxInv
<1>4. /\ held'[Sink] > 0
      /\ read'[Sink] \div Granularity = before
      /\ Marks(read'[Sink], held'[Sink]) = marks
  BY <1>2 DEF Marks
<1> HIDE DEF before, marks
<1>5. before + rxi \in Nat /\ before + rxi = Len(rx) + 1
  BY <1>1, <1>3
<1>6. rx' \in Seq(Nat) /\ Len(rx') = Len(rx) + 1 /\ \A k \in 1..Len(rx') : rx'[k] = k
  BY <1>2, <1>3, <1>5
<1>7. rxi' \in Nat \ {0} /\ rxi' <= marks + 1 /\ Len(rx') = before + (rxi' - 1)
  BY <1>1, <1>2, <1>3, <1>6
<1> QED
  BY <1>4, <1>6, <1>7 DEF RxInv

\* The sink's call returns when the marks of its stretch are traced.
LEMMA RxSinkReturn == BufferInv /\ RxInv /\ SinkReturn => RxInv'
<1> SUFFICES ASSUME BufferInv, RxInv, SinkReturn PROVE RxInv'
  OBVIOUS
<1>1. /\ held[Sink] > 0 /\ rxi > Marks(read[Sink], held[Sink])
      /\ read'[Sink] = read[Sink] + held[Sink] /\ held'[Sink] = 0
      /\ rxi' = rxi /\ rx' = rx
  BY EndFacts DEF SinkReturn, BufferInv
<1> DEFINE before == read[Sink] \div Granularity
           after == (read[Sink] + held[Sink]) \div Granularity
           marks == Marks(read[Sink], held[Sink])
<1>2. before \in Nat /\ marks \in Nat /\ before + marks = after
  BY EndFacts, MarksFacts
<1>3. rxi \in Nat /\ rxi <= marks + 1 /\ marks < rxi /\ Len(rx) = before + (rxi - 1)
  BY <1>1, EndFacts DEF RxInv
<1>4. read'[Sink] \div Granularity = after
  BY <1>1
<1> HIDE DEF before, after, marks
<1>5. Len(rx) = after + 0
  BY <1>2, <1>3
<1> QED
  BY <1>1, <1>4, <1>5 DEF RxInv
-----------------------------------------------------------------------------
(* The invariant *)

\* The chain starts in the invariant.
LEMMA InvInit == Init => Inv
<1> SUFFICES ASSUME Init PROVE Inv
  OBVIOUS
<1>1. BufferInv
  BY BufferInit
<1>2. held[Source] = 0 /\ held[Sink] = 0 /\ written[Source] = 0 /\ read[Sink] = 0
  BY Chain DEF Init
<1>3. 0 \div Granularity = 0
  BY Chain, SMT
<1>4. TxInv /\ RxInv
  BY <1>2, <1>3 DEF Init, TxInv, RxInv
<1> QED
  BY <1>1, <1>4 DEF Inv

\* Every step keeps the invariant.
LEMMA InvNext == Inv /\ [Next]_vars => Inv'
<1> SUFFICES ASSUME Inv, [Next]_vars PROVE Inv'
  OBVIOUS
<1>1. BufferInv /\ TxInv /\ RxInv
  BY DEF Inv
<1>2. BufferInv'
  BY <1>1, BufferNext
<1>3. /\ Source \in Writers /\ Source \in Blocks /\ Sink \in Readers /\ Sink \in Blocks
      /\ Source # Sink /\ Source \notin Copies /\ Sink \notin Copies
  BY <1>1, EndFacts
<1>4. CASE SourceWork
  <2>1. read'[Sink] = read[Sink] /\ held'[Sink] = held[Sink] /\ UNCHANGED <<rxi, rx>>
    BY <1>1, <1>3, <1>4 DEF SourceWork, BufferInv
  <2> QED
    BY <1>1, <1>2, <1>4, <2>1, TxSourceWork, RxUnchanged DEF Inv
<1>5. CASE SourceTrace
  <2>1. UNCHANGED <<read, held, rxi, rx>>
    BY <1>5 DEF SourceTrace
  <2> QED
    BY <1>1, <1>2, <1>5, <2>1, TxSourceTrace, RxUnchanged DEF Inv
<1>6. CASE SourceReturn
  <2>1. read'[Sink] = read[Sink] /\ held'[Sink] = held[Sink] /\ UNCHANGED <<rxi, rx>>
    BY <1>1, <1>3, <1>6 DEF SourceReturn, BufferInv
  <2> QED
    BY <1>1, <1>2, <1>6, <2>1, TxSourceReturn, RxUnchanged DEF Inv
<1>7. ASSUME NEW b \in Copies, CopyStep(b) PROVE Inv'
  <2>1. UNCHANGED <<txi, tx, rxi, rx>> /\ b # Source /\ b # Sink
    BY <1>3, <1>7 DEF CopyStep, CopyWork, CopyReturn
  <2>2. CASE CopyWork(b)
    <3>1. /\ written' = written /\ read'[Sink] = read[Sink]
          /\ held'[Source] = held[Source] /\ held'[Sink] = held[Sink]
      BY <1>1, <1>3, <2>1, <2>2 DEF CopyWork, BufferInv
    <3> QED
      BY <1>1, <1>2, <2>1, <3>1, TxUnchanged, RxUnchanged DEF Inv
  <2>3. CASE CopyReturn(b)
    <3>1. /\ read' = read /\ written'[Source] = written[Source]
          /\ held'[Source] = held[Source] /\ held'[Sink] = held[Sink]
      BY <1>1, <1>3, <2>1, <2>3 DEF CopyReturn, BufferInv
    <3> QED
      BY <1>1, <1>2, <2>1, <3>1, TxUnchanged, RxUnchanged DEF Inv
  <2> QED
    BY <1>7, <2>2, <2>3 DEF CopyStep
<1>8. CASE SinkWork
  <2>1. written' = written /\ held'[Source] = held[Source] /\ UNCHANGED <<txi, tx>>
    BY <1>1, <1>3, <1>8 DEF SinkWork, BufferInv
  <2> QED
    BY <1>1, <1>2, <1>8, <2>1, RxSinkWork, TxUnchanged DEF Inv
<1>9. CASE SinkTrace
  <2>1. UNCHANGED <<written, held, txi, tx>>
    BY <1>9 DEF SinkTrace
  <2> QED
    BY <1>1, <1>2, <1>9, <2>1, RxSinkTrace, TxUnchanged DEF Inv
<1>10. CASE SinkReturn
  <2>1. written' = written /\ held'[Source] = held[Source] /\ UNCHANGED <<txi, tx>>
    BY <1>1, <1>3, <1>10 DEF SinkReturn, BufferInv
  <2> QED
    BY <1>1, <1>2, <1>10, <2>1, RxSinkReturn, TxUnchanged DEF Inv
<1>11. CASE Finished \/ UNCHANGED vars
  <2>1. UNCHANGED vars
    BY <1>11 DEF Finished
  <2> QED
    BY <1>1, <1>2, <2>1, TxUnchanged, RxUnchanged DEF Inv, vars
<1> QED
  BY <1>4, <1>5, <1>6, <1>7, <1>8, <1>9, <1>10, <1>11 DEF Next, SourceStep, SinkStep

\* The inductive invariant holds in every behaviour.
LEMMA Invariance == Spec => []Inv
<1>1. Init => Inv
  BY InvInit
<1>2. Inv /\ [Next]_vars => Inv'
  BY InvNext
<1> QED
  BY <1>1, <1>2, PTL DEF Spec
-----------------------------------------------------------------------------
(* What follows from it *)

\* The counters of items and marks keep their types in every chain of copy_rand blocks.
THEOREM TypeCorrect == Spec => []TypeOK
<1>1. Inv => TypeOK
  BY DEF Inv, BufferInv, TxInv, RxInv, TypeOK
<1> QED
  BY <1>1, Invariance, PTL

\* However work calls interleave, no buffer is overrun or read ahead of its writer.
THEOREM BuffersSafe == Spec => []BuffersRespected
<1>1. Inv => BuffersRespected
  BY DEF Inv, BufferInv
<1> QED
  BY <1>1, Invariance, PTL

\* Source and sink trace each of their marks once and in order, for every granularity
\* and every way the scheduler cuts the stream into work calls.
THEOREM MarksOnce == Spec => []MarksExact
<1>1. Inv => MarksExact
  BY DEF Inv, TxInv, RxInv, MarksExact
<1> QED
  BY <1>1, Invariance, PTL

\* The window is a number of marks.
LEMMA WindowType == Window \in Nat
<1> DEFINE room == (NCopy + 1) * BufferSize
<1>1. room \in Nat
  <2>1. NCopy + 1 \in Nat /\ BufferSize \in Nat
    BY Chain
  <2> QED
    BY <2>1, MulStep
<1> HIDE DEF room
<1>2. room \div Granularity \in Nat
  BY <1>1, Chain, DivBounds
<1> QED
  BY <1>2 DEF Window, room

\* The marks up to the end of the source's call leave room in the window.
LEMMA SourceWithinWindow ==
    ASSUME Inv
    PROVE  /\ (written[Source] + held[Source]) \div Granularity <= Len(rx) + Window
           /\ Len(tx) <= (written[Source] + held[Source]) \div Granularity
<1>1. BufferInv /\ TxInv /\ RxInv
  BY DEF Inv
<1> DEFINE room == (NCopy + 1) * BufferSize
           in == written[Source] + held[Source]
           q == read[Sink] \div Granularity
<1>2. /\ written[Source] \in Nat /\ held[Source] \in Nat /\ read[Sink] \in Nat /\ held[Sink] \in Nat
      /\ Source \in Writers /\ Sink \in Readers /\ Source < Sink
  BY <1>1, EndFacts
<1>3. Granularity \in Nat \ {0} /\ room \in Nat /\ Sink - Source = NCopy + 1 /\ in \in Nat
  <2>1. NCopy + 1 \in Nat /\ BufferSize \in Nat
    BY Chain
  <2> QED
    BY <1>2, <2>1, MulStep, Chain
<1>4. in <= read[Sink] + room
  BY <1>1, <1>2, <1>3 DEF BufferInv, InFlightBounded
<1>5. in \div Granularity <= (read[Sink] + room) \div Granularity
  <2> HIDE DEF room, in
  <2>1. read[Sink] + room \in Nat
    BY <1>2, <1>3
  <2> QED
    BY <2>1, <1>3, <1>4, DivMonotonic
<1>6. (read[Sink] + room) \div Granularity <= q + (room \div Granularity) + 1
  <2> HIDE DEF room
  <2> QED
    BY <1>2, <1>3, DivSum
<1>7. q <= Len(rx) /\ q \in Nat /\ Len(rx) \in Nat
  <2>1. q \in Nat
    BY <1>2, <1>3, DivBounds
  <2>2. rxi \in Nat \ {0} /\ rx \in Seq(Nat)
        /\ Len(rx) = q + (IF held[Sink] = 0 THEN 0 ELSE rxi - 1)
    BY <1>1 DEF RxInv
  <2> HIDE DEF q
  <2> QED
    BY <2>1, <2>2
<1>8. room \div Granularity \in Nat /\ in \div Granularity \in Nat
      /\ (read[Sink] + room) \div Granularity \in Nat
  <2> HIDE DEF room, in
  <2>1. read[Sink] + room \in Nat
    BY <1>2, <1>3
  <2> QED
    BY <2>1, <1>3, DivBounds
<1>9. in \div Granularity <= Len(rx) + Window
  <2> DEFINE a == in \div Granularity
             c == (read[Sink] + room) \div Granularity
             w == room \div Granularity
  <2>1. a <= c /\ c <= q + w + 1 /\ a \in Nat /\ c \in Nat /\ w \in Nat /\ Window = w + 1
    BY <1>5, <1>6, <1>8 DEF Window
  <2> HIDE DEF a, c, w, q
  <2>2. a <= Len(rx) + Window
    BY <2>1, <1>7
  <2> QED
    BY <2>2 DEF a
<1>10. Len(tx) <= in \div Granularity
  <2> DEFINE p == written[Source] \div Granularity
             m == Marks(written[Source], held[Source])
             e == in \div Granularity
  <2>1. p \in Nat /\ m \in Nat /\ p + m = e
    BY <1>2, MarksFacts
  <2>2. /\ Len(tx) = p + (IF held[Source] = 0 THEN 0 ELSE txi - 1)
        /\ held[Source] > 0 => txi <= m + 1
        /\ txi \in Nat
    BY <1>1, Zenon DEF TxInv
  <2> HIDE DEF p, m, e
  <2>3. Len(tx) <= e
    BY <1>2, <2>1, <2>2
  <2> QED
    BY <2>3 DEF e
<1> QED
  BY <1>9, <1>10

\* The marks up to the end of the sink's call have been traced at the source.
LEMMA SinkBehindSource ==
    ASSUME Inv
    PROVE  /\ (read[Sink] + held[Sink]) \div Granularity <= Len(tx)
           /\ Len(rx) <= (read[Sink] + held[Sink]) \div Granularity
<1>1. BufferInv /\ TxInv /\ RxInv
  BY DEF Inv
<1> DEFINE out == read[Sink] + held[Sink]
<1>2. /\ written[Source] \in Nat /\ read[Sink] \in Nat /\ held[Sink] \in Nat /\ held[Source] \in Nat
      /\ Source \in Writers /\ Sink \in Readers /\ Source < Sink /\ Sink - 1 = NCopy
      /\ Granularity \in Nat \ {0} /\ out \in Nat
  BY <1>1, EndFacts, Chain
<1>3. out <= written[Sink - 1]
  BY <1>1, <1>2 DEF BufferInv, BuffersRespected
<1>4. out <= written[Source]
  BY <1>1, <1>2, <1>3, ReadBehind
<1>5. out \div Granularity <= written[Source] \div Granularity
  <2> HIDE DEF out
  <2> QED
    BY <1>2, <1>4, DivMonotonic
<1>6. written[Source] \div Granularity <= Len(tx)
      /\ written[Source] \div Granularity \in Nat /\ Len(tx) \in Nat
  BY <1>1, <1>2, DivBounds DEF TxInv
<1>7. out \div Granularity \in Nat
  <2> HIDE DEF out
  <2> QED
    BY <1>2, DivBounds
<1>8. out \div Granularity <= Len(tx)
  <2> DEFINE a == out \div Granularity
             c == written[Source] \div Granularity
  <2>1. a <= c /\ c <= Len(tx) /\ a \in Nat /\ c \in Nat /\ Len(tx) \in Nat
    BY <1>5, <1>6, <1>7
  <2> HIDE DEF a, c
  <2>2. a <= Len(tx)
    BY <2>1
  <2> QED
    BY <2>2 DEF a
<1>9. Len(rx) <= out \div Granularity
  <2> DEFINE p == read[Sink] \div Granularity
             m == Marks(read[Sink], held[Sink])
             e == out \div Granularity
  <2>1. p \in Nat /\ m \in Nat /\ p + m = e
    BY <1>2, MarksFacts
  <2>2. /\ Len(rx) = p + (IF held[Sink] = 0 THEN 0 ELSE rxi - 1)
        /\ held[Sink] > 0 => rxi <= m + 1
        /\ rxi \in Nat
    BY <1>1, Zenon DEF RxInv
  <2> HIDE DEF p, m, e
  <2>3. Len(rx) <= e
    BY <1>2, <2>1, <2>2
  <2> QED
    BY <2>3 DEF e
<1> QED
  BY <1>8, <1>9

\* No mark is traced at the sink before it was traced at the source, and no more marks
\* are under way than the buffers of the chain can hold, for every length of the chain.
THEOREM Causality == Spec => []MarksCausal
<1>1. Inv => MarksCausal
  <2> SUFFICES ASSUME Inv PROVE MarksCausal
    OBVIOUS
  <2> DEFINE in == (written[Source] + held[Source]) \div Granularity
             out == (read[Sink] + held[Sink]) \div Granularity
  <2>1. in <= Len(rx) + Window /\ Len(tx) <= in /\ out <= Len(tx) /\ Len(rx) <= out
    BY SourceWithinWindow, SinkBehindSource
  <2>2. in \in Nat /\ out \in Nat /\ Len(tx) \in Nat /\ Len(rx) \in Nat
    <3>1. /\ written[Source] + held[Source] \in Nat
          /\ read[Sink] + held[Sink] \in Nat
          /\ Granularity \in Nat \ {0}
      BY EndFacts, Chain DEF Inv
    <3> QED
      BY <3>1, DivBounds DEF Inv, TxInv, RxInv
  <2>3. Window \in Nat
    BY WindowType
  <2> HIDE DEF in, out
  <2> QED
    BY <2>1, <2>2, <2>3 DEF MarksCausal
<1> QED
  BY <1>1, Invariance, PTL

\* The chain of threads and buffers implements the promise of the probes: seen from the
\* two tracepoints, every step is a mark traced in order and within the window, or nothing.
THEOREM ImplementsProbe == Spec => ProbeSpec
<1>1. Init => Probe!Init
  BY DEF Init, Probe!Init
<1>2. Inv /\ [Next]_vars => [Probe!Next]_(Probe!vars)
  <2> SUFFICES ASSUME Inv, [Next]_vars PROVE [Probe!Next]_(Probe!vars)
    OBVIOUS
  <2>1. BufferInv /\ TxInv /\ RxInv
    BY DEF Inv
  <2>2. CASE SourceTrace
    <3> DEFINE before == written[Source] \div Granularity
               m == Marks(written[Source], held[Source])
               in == (written[Source] + held[Source]) \div Granularity
    <3>1. before \in Nat /\ m \in Nat /\ before + m = in /\ in <= Len(rx) + Window
      BY <2>1, EndFacts, MarksFacts, SourceWithinWindow
    <3>2. txi <= m /\ txi \in Nat \ {0} /\ Len(tx) = before + (txi - 1)
          /\ tx \in Seq(Nat) /\ Len(tx) \in Nat
      BY <2>1, <2>2, EndFacts DEF SourceTrace, TxInv
    <3>3. Len(tx') = Len(tx) + 1 /\ rx' = rx
      BY <2>1, <2>2, TxSourceTrace DEF SourceTrace
    <3>4. Window \in Nat /\ Len(rx) \in Nat
      BY <2>1, WindowType DEF RxInv
    <3> HIDE DEF before, m, in
    <3>5. Len(tx) < Len(rx) + Window
      BY <3>1, <3>2, <3>4
    <3> QED
      BY <3>3, <3>5 DEF Probe!Next, Probe!Tx
  <2>3. CASE SinkTrace
    <3> DEFINE before == read[Sink] \div Granularity
               m == Marks(read[Sink], held[Sink])
               out == (read[Sink] + held[Sink]) \div Granularity
    <3>1. before \in Nat /\ m \in Nat /\ before + m = out /\ out <= Len(tx)
      BY <2>1, EndFacts, MarksFacts, SinkBehindSource
    <3>2. rxi <= m /\ rxi \in Nat \ {0} /\ Len(rx) = before + (rxi - 1) /\ Len(tx) \in Nat
      BY <2>1, <2>3, EndFacts DEF SinkTrace, RxInv, TxInv
    <3>3. Len(rx') = Len(rx) + 1 /\ tx' = tx
      BY <2>1, <2>3, RxSinkTrace DEF SinkTrace
    <3> HIDE DEF before, m, out
    <3>4. Len(rx) < Len(tx)
      BY <3>1, <3>2
    <3> QED
      BY <3>3, <3>4 DEF Probe!Next, Probe!Rx
  <2>4. ASSUME UNCHANGED <<tx, rx>> PROVE [Probe!Next]_(Probe!vars)
    BY <2>4 DEF Probe!vars
  <2>5. CASE SourceWork \/ SourceReturn \/ SinkWork \/ SinkReturn \/ Finished \/ UNCHANGED vars
    BY <2>4, <2>5 DEF SourceWork, SourceReturn, SinkWork, SinkReturn, Finished, vars
  <2>6. CASE \E b \in Copies : CopyStep(b)
    BY <2>4, <2>6 DEF CopyStep, CopyWork, CopyReturn
  <2> QED
    BY <2>2, <2>3, <2>5, <2>6 DEF Next, SourceStep, SinkStep
<1> QED
  BY <1>1, <1>2, Invariance, PTL DEF Spec, ProbeSpec, Probe!Spec
-----------------------------------------------------------------------------
(* The chain never gets stuck *)

\* What source, copy blocks and sink need for a step that moves items: the guards of
\* SourceWork, CopyWork and SinkWork, or a call to go on with.
SourceCanMove == held[Source] > 0 \/ \E n \in 1..Room(Source) : written[Source] + n <= MaxItems
CopyCanMove(b) ==
    \/ held[b] > 0
    \/ \E noutput \in 1..Room(b) :
           forecast(b, noutput) /\ \E m \in Copied(noutput, Available(b)) : m > 0
SinkCanMove == held[Sink] > 0 \/ 1..Available(Sink) # {}

\* Until all the items offered have come through, some block can move items.
NeverStuck ==
    \/ written[Source] = MaxItems /\ read[Sink] = MaxItems
    \/ SourceCanMove \/ (\E b \in Copies : CopyCanMove(b)) \/ SinkCanMove

\* The source stops at the bound.
OfferInv == written[Source] + held[Source] <= MaxItems

LEMMA OfferStep == ASSUME Inv, OfferInv, [Next]_vars PROVE OfferInv'
<1>1. /\ written[Source] \in Nat /\ held[Source] \in Nat /\ MaxItems \in Nat
      /\ Source \in Writers /\ Source \in Blocks /\ Sink \in Blocks
      /\ Source # Sink /\ Source \notin Copies
      /\ written \in [Writers -> Nat] /\ held \in [Blocks -> Nat]
  BY EndFacts, MaxItemsAssumption DEF Inv, BufferInv
<1>2. CASE SourceWork
  <2>1. PICK n \in 1..Room(Source) : /\ written[Source] + n <= MaxItems
                                     /\ held' = [held EXCEPT ![Source] = n]
    BY <1>2 DEF SourceWork
  <2>2. written' = written /\ held'[Source] = n
    BY <1>1, <1>2, <2>1 DEF SourceWork
  <2> QED
    BY <2>1, <2>2 DEF OfferInv
<1>3. CASE SourceReturn
  <2>1. /\ written' = [written EXCEPT ![Source] = @ + held[Source]]
        /\ held' = [held EXCEPT ![Source] = 0]
    BY <1>3 DEF SourceReturn
  <2>2. written'[Source] = written[Source] + held[Source] /\ held'[Source] = 0
    BY <1>1, <2>1
  <2> QED
    BY <1>1, <2>2 DEF OfferInv
<1>4. ASSUME written'[Source] = written[Source], held'[Source] = held[Source]
      PROVE  OfferInv'
  BY <1>4 DEF OfferInv
<1>5. CASE SourceTrace \/ UNCHANGED vars
  BY <1>4, <1>5 DEF SourceTrace, vars
<1>6. ASSUME NEW b \in Copies, CopyStep(b) PROVE OfferInv'
  <2>1. b # Source
    BY <1>1, <1>6
  <2>2. written'[Source] = written[Source] /\ held'[Source] = held[Source]
    BY <1>1, <1>6, <2>1 DEF CopyStep, CopyWork, CopyReturn
  <2> QED
    BY <1>4, <2>2
<1>7. CASE SinkStep
  BY <1>1, <1>4, <1>7 DEF SinkStep, SinkWork, SinkTrace, SinkReturn
<1> QED
  BY <1>2, <1>3, <1>5, <1>6, <1>7 DEF Next, SourceStep, Finished

\* So it is in every run.
LEMMA OfferKept == Spec => []OfferInv
<1>1. Init => OfferInv
  BY EndFacts, InvInit, MaxItemsAssumption DEF Init, OfferInv, Inv
<1> QED
  BY <1>1, OfferStep, Invariance, PTL DEF Spec

\* A set of numbers has a least one.
LEMMA Least ==
    ASSUME NEW S, S \subseteq Nat, S # {}
    PROVE  \E m \in S : \A n \in S : m <= n
<1> DEFINE less == OpToRel(<, Nat)
<1>1. IsWellFoundedOn(less, Nat)
  BY NatLessThanWellFounded
<1>2. \A m, n \in Nat : m < n => <<m, n>> \in less
  BY Zenon DEF OpToRel
<1> HIDE DEF less
<1>3. PICK m \in S : \A n \in S : ~(<<n, m>> \in less)
  BY <1>1, WFMin
<1>4. \A n \in S : ~(n < m)
  BY <1>2, <1>3, Zenon
<1> QED
  BY <1>4

\* The last block with items to read has an empty buffer before it, so it can read them; if
\* there is none, all buffers are empty and the source has room.
LEMMA SomeoneMoves ==
    ASSUME Inv, OfferInv, MaxCopy > 0 \/ NCopy = 0
    PROVE  NeverStuck
<1> SUFFICES ASSUME ~SourceCanMove, ~SinkCanMove, \A b \in Copies : ~CopyCanMove(b)
             PROVE  written[Source] = MaxItems /\ read[Sink] = MaxItems
  BY DEF NeverStuck
<1>1. /\ written[Source] \in Nat /\ MaxItems \in Nat /\ read[Sink] \in Nat
      /\ Source \in Writers /\ Sink \in Readers /\ BufferSize \in Nat \ {0}
      /\ held[Source] \in Nat /\ held[Sink] \in Nat
  BY EndFacts, MaxItemsAssumption, BufferAssumption DEF Inv
<1>2. ASSUME NEW b \in Writers
      PROVE  Available(b + 1) = 0 => Room(b) = BufferSize
  <2>1. /\ b + 1 \in Readers /\ written[b] \in Nat /\ read[b + 1] \in Nat
        /\ Room(b) = BufferSize - (written[b] - read[b + 1])
    BY WriterFacts DEF Inv
  <2>2. Available(b + 1) = written[b] - read[b + 1]
    <3>1. (b + 1) - 1 = b
      BY Chain
    <3> QED
      BY <3>1 DEF Available
  <2> QED
    BY <1>1, <2>1, <2>2
<1>3. \A b \in Readers : Available(b) = 0
  <2> DEFINE S == {d \in 0..NCopy : Available(Sink - d) # 0}
  <2> SUFFICES ASSUME S # {} PROVE FALSE
    <3>1. S = {}
      OBVIOUS
    <3>2. ASSUME NEW b \in Readers PROVE Available(b) = 0
      <4>1. Sink - b \in 0..NCopy /\ Sink - (Sink - b) = b
        BY Chain
      <4> QED
        BY <3>1, <4>1
    <3> QED
      BY <3>2
  <2>1. S \subseteq Nat
    BY Chain
  <2>2. PICK d \in S : \A e \in S : d <= e
    BY <2>1, Least
  <2>3. d \in 0..NCopy /\ Available(Sink - d) # 0 /\ d \in Nat
    BY <2>1, <2>2
  <2> DEFINE b == Sink - d
  <2>4. b \in Readers /\ b \in Int
    BY <2>3, Chain
  <2>5. /\ Available(b) \in Nat \ {0} /\ held[b] \in Nat
    <3>1. /\ written[b - 1] \in Nat /\ read[b] \in Nat /\ read[b] <= written[b - 1]
          /\ Available(b) = written[b - 1] - read[b] /\ held[b] \in Nat
      BY <2>4, ReaderFacts DEF Inv
    <3> QED
      BY <2>3, <3>1
  <2>6. CASE d = 0
    <3>1. b = Sink
      BY <2>6, Chain
    <3>2. 1 \in 1..Available(Sink)
      BY <2>5, <3>1
    <3> QED
      BY <3>2 DEF SinkCanMove
  <2>7. CASE d # 0
    <3>1. b \in Copies /\ b \in Writers /\ d - 1 \in 0..NCopy /\ Sink - (d - 1) = b + 1
      BY <2>3, <2>7, Chain
    <3>2. ~(d <= d - 1)
      BY <2>3
    <3>3. Available(b + 1) = 0
      BY <2>2, <3>1, <3>2
    <3>4. Room(b) = BufferSize
      BY <1>2, <3>1, <3>3
    <3>5. MaxCopy \in Nat \ {0} /\ NCopy \in Nat
      BY <3>1, Chain
    <3>6. 1 \in 1..Room(b) /\ forecast(b, 1)
      BY <1>1, <2>5, <3>4 DEF forecast
    <3>7. 1 \in Copied(1, Available(b))
      BY <2>5, <3>5 DEF Copied
    <3>8. CopyCanMove(b)
      BY <3>6, <3>7 DEF CopyCanMove
    <3> QED
      BY <3>1, <3>8
  <2> QED
    BY <2>6, <2>7
<1>4. written[Source] = MaxItems
  <2>1. Source + 1 \in Readers
    BY Chain
  <2>2. Room(Source) = BufferSize
    BY <1>1, <1>2, <1>3, <2>1
  <2>3. 1 \in 1..Room(Source)
    BY <1>1, <2>2
  <2>4. ~(written[Source] + 1 <= MaxItems)
    BY <2>3 DEF SourceCanMove
  <2> QED
    BY <1>1, <2>4 DEF OfferInv
<1>5. \A b \in Copies : written[b] = written[b - 1]
  <2> SUFFICES ASSUME NEW b \in Copies PROVE written[b] = written[b - 1]
    OBVIOUS
  <2>1. b \in Readers /\ b \in Writers
    BY Chain
  <2>2. held[b] \in Nat /\ ~(held[b] > 0) /\ written[b] \in Nat /\ written[b - 1] \in Nat
    BY <2>1, ReaderFacts, WriterFacts DEF CopyCanMove, Inv
  <2>3. read[b] = written[b] + held[b] /\ read[b] \in Nat
    BY <2>1, ReaderFacts DEF Inv, BufferInv, BuffersRespected
  <2>4. written[b - 1] - read[b] = 0
    BY <1>3, <2>1 DEF Available
  <2> QED
    BY <2>2, <2>3, <2>4
<1>6. \A b \in Writers : written[b] = MaxItems
  <2> DEFINE S == {b \in Writers : written[b] # MaxItems}
  <2> SUFFICES ASSUME S # {} PROVE FALSE
    OBVIOUS
  <2>0. S \subseteq Nat
    BY Chain
  <2>1. PICK b \in S : \A c \in S : b <= c
    BY <2>0, Least
  <2>2. b # Source /\ b \in Writers
    BY <1>4, <2>1
  <2>3. b \in Copies /\ b - 1 \in Writers /\ ~(b <= b - 1)
    BY <2>2, Chain
  <2> QED
    BY <1>5, <2>1, <2>3
<1>7. read[Sink] = MaxItems
  <2>1. Sink - 1 \in Writers
    BY Chain
  <2>2. written[Sink - 1] - read[Sink] = 0
    BY <1>1, <1>3 DEF Available
  <2> QED
    BY <1>1, <1>6, <2>1, <2>2
<1> QED
  BY <1>4, <1>7

\* Whatever copy_rand draws and wherever a probe is between tracing and returning, some
\* block can move items until all have come through, for chains and buffers of any length;
\* copy_rand must be allowed to copy something (max_copy 0 stops the chain).
THEOREM ChainNeverStuck ==
    ASSUME MaxCopy > 0 \/ NCopy = 0
    PROVE  Spec => []NeverStuck
<1>1. Inv /\ OfferInv => NeverStuck
  BY SomeoneMoves
<1> QED
  BY <1>1, OfferKept, Invariance, PTL
-----------------------------------------------------------------------------
(* Every run is finite *)

\* How far block b has come: two stages for every item it has let in and every item it has
\* let out, one for the call it is in, and one for every mark it has traced.
ItemsIn(b) == IF b \in Readers THEN read[b] ELSE 0
ItemsOut(b) == IF b \in Writers THEN written[b] ELSE 0
InCall(b) == IF held[b] > 0 THEN 1 ELSE 0
Traced(b) == IF b = Source THEN Len(tx) ELSE IF b = Sink THEN Len(rx) ELSE 0
Progress(b) == 2 * ItemsIn(b) + 2 * ItemsOut(b) + InCall(b) + Traced(b)

\* No block goes further than the items offered let it.
ProgressBounded == \A b \in Blocks : Progress(b) \in 0..(4 * MaxItems + 1)

\* Every step takes a block further and sets none back.
ProgressMade ==
    [][/\ \A b \in Blocks : Progress(b)' >= Progress(b)
       /\ \E b \in Blocks : Progress(b)' > Progress(b)]_vars

\* No more marks are traced than items offered.
LEMMA FewMarks ==
    ASSUME Inv, OfferInv
    PROVE  Len(tx) \in Nat /\ Len(tx) <= MaxItems /\ Len(rx) \in Nat /\ Len(rx) <= MaxItems
<1>1. /\ written[Source] \in Nat /\ held[Source] \in Nat /\ MaxItems \in Nat
      /\ read[Sink] \in Nat /\ held[Sink] \in Nat
      /\ written[Source] + held[Source] <= MaxItems
      /\ read[Sink] + held[Sink] <= written[NCopy]
  BY EndFacts, MaxItemsAssumption DEF Inv, OfferInv, BufferInv, BuffersRespected
<1>2. read[Sink] + held[Sink] <= MaxItems
  <2>1. /\ Sink \in Readers /\ Sink - 1 = NCopy /\ Source \in Writers /\ Source < Sink
        /\ read[Sink] + held[Sink] \in Nat
    BY <1>1, Chain, EndFacts DEF Inv
  <2>2. read[Sink] + held[Sink] <= written[Source]
    BY <1>1, <2>1, ReadBehind DEF Inv
  <2> QED
    BY <1>1, <2>1, <2>2
<1>3. ASSUME NEW a \in Nat, NEW n \in Nat, a + n <= MaxItems
      PROVE  (a \div Granularity) + Marks(a, n) <= MaxItems
  <2>1. (a \div Granularity) + Marks(a, n) = (a + n) \div Granularity
    BY <1>3, MarksFacts
  <2>2. (a + n) \div Granularity \in Nat /\ Granularity * ((a + n) \div Granularity) <= a + n
    BY <1>3, Chain, DivBounds
  <2>3. \A g \in Nat \ {0}, q \in Nat : q <= g * q
    BY SMT
  <2>4. (a + n) \div Granularity <= Granularity * ((a + n) \div Granularity)
    BY <2>2, <2>3, Chain
  <2>5. Granularity * ((a + n) \div Granularity) \in Nat
    BY <2>2, Chain
  <2> HIDE <2>3
  <2> QED
    BY <1>1, <1>3, <2>1, <2>2, <2>4, <2>5
<1>4. /\ Marks(written[Source], held[Source]) \in Nat /\ written[Source] \div Granularity \in Nat
      /\ Marks(read[Sink], held[Sink]) \in Nat /\ read[Sink] \div Granularity \in Nat
      /\ (written[Source] \div Granularity) + Marks(written[Source], held[Source]) <= MaxItems
      /\ (read[Sink] \div Granularity) + Marks(read[Sink], held[Sink]) <= MaxItems
  BY <1>1, <1>2, <1>3, MarksFacts
<1>5. /\ txi \in Nat \ {0} /\ Len(tx) \in Nat
      /\ held[Source] > 0 => txi <= Marks(written[Source], held[Source]) + 1
      /\ Len(tx) = (written[Source] \div Granularity) + (IF held[Source] = 0 THEN 0 ELSE txi - 1)
  BY DEF Inv, TxInv
<1>6. /\ rxi \in Nat \ {0} /\ Len(rx) \in Nat
      /\ held[Sink] > 0 => rxi <= Marks(read[Sink], held[Sink]) + 1
      /\ Len(rx) = (read[Sink] \div Granularity) + (IF held[Sink] = 0 THEN 0 ELSE rxi - 1)
  BY DEF Inv, RxInv
<1>7. Len(tx) <= MaxItems
  <2>1. CASE held[Source] = 0
    <3>1. Len(tx) = written[Source] \div Granularity
      BY <1>4, <1>5, <2>1
    <3> QED
      BY <1>1, <1>4, <3>1
  <2>2. CASE held[Source] > 0
    <3>1. Len(tx) = (written[Source] \div Granularity) + (txi - 1)
      BY <1>5, <2>2
    <3> QED
      BY <1>1, <1>4, <1>5, <2>2, <3>1
  <2> QED
    BY <1>1, <2>1, <2>2
<1>8. Len(rx) <= MaxItems
  <2>1. CASE held[Sink] = 0
    <3>1. Len(rx) = read[Sink] \div Granularity
      BY <1>4, <1>6, <2>1
    <3> QED
      BY <1>1, <1>4, <3>1
  <2>2. CASE held[Sink] > 0
    <3>1. Len(rx) = (read[Sink] \div Granularity) + (rxi - 1)
      BY <1>6, <2>2
    <3> QED
      BY <1>1, <1>4, <1>6, <2>2, <3>1
  <2> QED
    BY <1>1, <2>1, <2>2
<1> QED
  BY <1>5, <1>6, <1>7, <1>8

\* All are natural numbers.
LEMMA ProgressTerms ==
    ASSUME Inv, NEW b \in Blocks
    PROVE  /\ ItemsIn(b) \in Nat /\ ItemsOut(b) \in Nat /\ InCall(b) \in Nat /\ Traced(b) \in Nat
           /\ Progress(b) \in Nat
<1>1. ItemsIn(b) \in Nat /\ ItemsOut(b) \in Nat
  BY DEF Inv, BufferInv, ItemsIn, ItemsOut
<1>2. InCall(b) \in Nat /\ Traced(b) \in Nat
  BY DEF Inv, TxInv, RxInv, InCall, Traced
<1> QED
  BY <1>1, <1>2 DEF Progress

\* The same, to be cited for the next state too.
LEMMA ProgressNat == Inv => \A b \in Blocks : Progress(b) \in Nat
  BY ProgressTerms

\* The bound is far from tight: it only has to exist.
LEMMA ProgressBound == ASSUME Inv, OfferInv PROVE ProgressBounded
<1> SUFFICES ASSUME NEW b \in Blocks PROVE Progress(b) \in 0..(4 * MaxItems + 1)
  BY DEF ProgressBounded
<1>1. /\ written[Source] \in Nat /\ held[Source] \in Nat /\ MaxItems \in Nat
      /\ Source \in Writers /\ Source \notin Readers /\ Sink \in Readers /\ Sink \notin Writers
      /\ Source # Sink
      /\ written[Source] + held[Source] <= MaxItems
  BY EndFacts, Chain, MaxItemsAssumption DEF Inv, OfferInv
<1>2. b \in Blocks /\ held[b] \in Nat
  BY DEF Inv, BufferInv
<1>3. \A c \in Readers : read[c] \in Nat /\ read[c] <= MaxItems
  <2> SUFFICES ASSUME NEW c \in Readers PROVE read[c] \in Nat /\ read[c] <= MaxItems
    OBVIOUS
  <2>1. Source < c
    BY Chain
  <2>2. read[c] <= written[Source] /\ read[c] \in Nat
    BY <1>1, <2>1 DEF Inv, BufferInv, ChainOrdered
  <2> QED
    BY <1>1, <2>2
<1>4. CASE b = Source
  <2>1. ItemsIn(b) = 0 /\ ItemsOut(b) = written[Source] /\ InCall(b) \in {0, 1} /\ Traced(b) = Len(tx)
    BY <1>1, <1>4 DEF ItemsIn, ItemsOut, InCall, Traced
  <2>2. Len(tx) \in Nat /\ Len(tx) <= MaxItems
    BY FewMarks
  <2> QED
    BY <1>1, <1>4, <2>1, <2>2 DEF Progress
<1>5. CASE b = Sink
  <2>1. ItemsIn(b) = read[Sink] /\ ItemsOut(b) = 0 /\ InCall(b) \in {0, 1} /\ Traced(b) = Len(rx)
    BY <1>1, <1>5 DEF ItemsIn, ItemsOut, InCall, Traced
  <2>2. Len(rx) \in Nat /\ Len(rx) <= MaxItems
    BY FewMarks
  <2>3. read[Sink] \in Nat /\ read[Sink] <= MaxItems
    BY <1>1, <1>3
  <2> QED
    BY <1>1, <2>1, <2>2, <2>3 DEF Progress
<1>6. CASE b \in Copies
  <2>1. b \in Readers /\ b \in Writers /\ b # Source /\ b # Sink
    BY <1>6, Chain
  <2>2. read[b] = written[b] + held[b] /\ written[b] \in Nat
    BY <1>6, <2>1 DEF Inv, BufferInv, BuffersRespected
  <2> QED
    <3>1. /\ ItemsIn(b) = read[b] /\ ItemsOut(b) = written[b] /\ InCall(b) \in {0, 1}
          /\ Traced(b) = 0
      BY <2>1 DEF ItemsIn, ItemsOut, InCall, Traced
    <3>2. read[b] \in Nat /\ read[b] <= MaxItems
      BY <1>3, <2>1
    <3> QED
      BY <1>1, <1>2, <2>2, <3>1, <3>2 DEF Progress
<1> QED
  BY <1>4, <1>5, <1>6, Chain

\* A call that begins, a mark and a call that returns: each is progress of one block.
LEMMA ProgressStep ==
    ASSUME Inv, Inv', Next, ~UNCHANGED vars
    PROVE  /\ \A b \in Blocks : Progress(b)' >= Progress(b)
           /\ \E b \in Blocks : Progress(b)' > Progress(b)
<1>1. /\ written \in [Writers -> Nat] /\ read \in [Readers -> Nat] /\ held \in [Blocks -> Nat]
      /\ Source \in Writers /\ Source \notin Readers /\ Sink \in Readers /\ Sink \notin Writers
      /\ Source # Sink /\ Source \in Blocks /\ Sink \in Blocks
      /\ Copies \subseteq Blocks /\ Copies \subseteq Readers /\ Copies \subseteq Writers
  <2>1. written \in [Writers -> Nat] /\ read \in [Readers -> Nat] /\ held \in [Blocks -> Nat]
    BY DEF Inv, BufferInv
  <2>2. Source \notin Readers /\ Sink \notin Writers
    BY Chain
  <2>3. Copies \subseteq Blocks /\ Copies \subseteq Readers /\ Copies \subseteq Writers
    BY Chain
  <2> QED
    BY <2>1, <2>2, <2>3, EndFacts DEF Inv
<1>2. \A b \in Blocks : Progress(b) \in Nat /\ Progress(b)' \in Nat
  <2>1. (Inv => \A b \in Blocks : Progress(b) \in Nat)'
    BY ProgressNat, PTL
  <2> QED
    BY <2>1, ProgressNat
<1>3. ASSUME NEW b \in Blocks, Progress(b)' > Progress(b),
             \A c \in Blocks : c # b => Progress(c)' = Progress(c)
      PROVE  /\ \A c \in Blocks : Progress(c)' >= Progress(c)
             /\ \E c \in Blocks : Progress(c)' > Progress(c)
  <2>1. ASSUME NEW c \in Blocks PROVE Progress(c)' >= Progress(c)
    <3>1. Progress(c) \in Nat /\ Progress(c)' \in Nat
      BY <1>2
    <3>2. CASE c = b
      BY <1>3, <3>1, <3>2
    <3>3. CASE c # b
      <4>1. Progress(c)' = Progress(c)
        BY <1>3, <3>3
      <4> QED
        BY <3>1, <4>1
    <3> QED
      BY <3>2, <3>3
  <2> QED
    BY <1>3, <2>1
\* A call begins and, in copy_rand, consumes.
<1>4. ASSUME NEW b \in Blocks, held[b] = 0, held'[b] > 0, held'[b] \in Nat,
             \A c \in Blocks \ {b} : held'[c] = held[c],
             b \in Readers => read'[b] \in Nat /\ read'[b] >= read[b],
             \A c \in Readers \ {b} : read'[c] = read[c], UNCHANGED <<written, tx, rx>>
      PROVE  /\ Progress(b)' > Progress(b)
             /\ \A c \in Blocks : c # b => Progress(c)' = Progress(c)
  <2>1. \A c \in Blocks : c # b => Progress(c)' = Progress(c)
    BY <1>4 DEF Progress, ItemsIn, ItemsOut, InCall, Traced
  <2>2. /\ InCall(b) = 0 /\ InCall(b)' = 1
        /\ ItemsOut(b)' = ItemsOut(b) /\ Traced(b)' = Traced(b)
    BY <1>4 DEF InCall, ItemsOut, Traced
  <2>3. ItemsIn(b)' \in Nat /\ ItemsIn(b)' >= ItemsIn(b)
    BY <1>4, ProgressTerms DEF ItemsIn
  <2>4. Progress(b)' = 2 * ItemsIn(b)' + 2 * ItemsOut(b)' + InCall(b)' + Traced(b)'
    BY DEF Progress
  <2>5. Progress(b)' > Progress(b)
    BY <2>2, <2>3, <2>4, ProgressTerms DEF Progress
  <2> QED
    BY <2>1, <2>5
\* A call returns: its items count twice, itself once.
<1>5. ASSUME NEW b \in Blocks, held[b] > 0, held[b] \in Nat, held'[b] = 0,
             \A c \in Blocks \ {b} : held'[c] = held[c],
             UNCHANGED <<tx, rx>>,
             \/ /\ b \in Writers /\ written'[b] = written[b] + held[b] /\ read' = read
                /\ \A c \in Writers \ {b} : written'[c] = written[c]
             \/ /\ b \in Readers /\ read'[b] = read[b] + held[b] /\ written' = written
                /\ \A c \in Readers \ {b} : read'[c] = read[c]
      PROVE  /\ Progress(b)' > Progress(b)
             /\ \A c \in Blocks : c # b => Progress(c)' = Progress(c)
  <2>1. \A c \in Blocks : c # b => Progress(c)' = Progress(c)
    BY <1>5 DEF Progress, ItemsIn, ItemsOut, InCall, Traced
  <2>2. InCall(b) = 1 /\ InCall(b)' = 0 /\ Traced(b)' = Traced(b)
    BY <1>5 DEF InCall, Traced
  <2>3. \/ ItemsOut(b)' = ItemsOut(b) + held[b] /\ ItemsIn(b)' = ItemsIn(b)
        \/ ItemsIn(b)' = ItemsIn(b) + held[b] /\ ItemsOut(b)' = ItemsOut(b)
    BY <1>5 DEF ItemsIn, ItemsOut
  <2>4. Progress(b)' = 2 * ItemsIn(b)' + 2 * ItemsOut(b)' + InCall(b)' + Traced(b)'
    BY DEF Progress
  <2>5. Progress(b)' > Progress(b)
    BY <1>5, <2>2, <2>3, <2>4, ProgressTerms DEF Progress
  <2> QED
    BY <2>1, <2>5
<1>6. CASE SourceWork
  <2>1. PICK n \in 1..Room(Source) : held' = [held EXCEPT ![Source] = n]
    BY <1>6 DEF SourceWork
  <2>2. /\ held[Source] = 0 /\ held'[Source] > 0 /\ held'[Source] \in Nat
        /\ \A c \in Blocks \ {Source} : held'[c] = held[c]
        /\ UNCHANGED <<written, read, tx, rx>>
    BY <1>1, <1>6, <2>1 DEF SourceWork
  <2> QED
    BY <1>1, <1>3, <1>4, <2>2
<1>7. CASE SinkWork
  <2>1. PICK n \in 1..Available(Sink) : held' = [held EXCEPT ![Sink] = n]
    BY <1>7 DEF SinkWork
  <2>2. /\ held[Sink] = 0 /\ held'[Sink] > 0 /\ held'[Sink] \in Nat
        /\ \A c \in Blocks \ {Sink} : held'[c] = held[c]
        /\ UNCHANGED <<written, read, tx, rx>>
        /\ read[Sink] \in Nat
    BY <1>1, <1>7, <2>1 DEF SinkWork
  <2>3. read'[Sink] \in Nat /\ read'[Sink] >= read[Sink]
    BY <2>2
  <2>4. \A c \in Readers \ {Sink} : read'[c] = read[c]
    BY <2>2
  <2> QED
    BY <1>1, <1>3, <1>4, <2>2, <2>3, <2>4
<1>8. ASSUME NEW b \in Copies, CopyWork(b)
      PROVE  \E c \in Blocks : /\ Progress(c)' > Progress(c)
                               /\ \A e \in Blocks : e # c => Progress(e)' = Progress(e)
  <2>1. PICK noutput \in 1..Room(b) : \E m \in Copied(noutput, Available(b)) :
                /\ read' = [read EXCEPT ![b] = @ + m]
                /\ held' = [held EXCEPT ![b] = m]
    BY <1>8 DEF CopyWork
  <2>2. PICK m \in Copied(noutput, Available(b)) :
                /\ read' = [read EXCEPT ![b] = @ + m]
                /\ held' = [held EXCEPT ![b] = m]
    BY <2>1
  <2>3. m \in Nat /\ b \in Blocks /\ b \in Readers /\ read[b] \in Nat /\ held[b] = 0
    BY <1>1, <1>8 DEF Copied, CopyWork
  <2>4. /\ held'[b] = m /\ read'[b] = read[b] + m
        /\ \A c \in Blocks \ {b} : held'[c] = held[c]
        /\ \A c \in Readers \ {b} : read'[c] = read[c]
        /\ UNCHANGED <<written, txi, rxi, tx, rx>>
    BY <1>1, <1>8, <2>2, <2>3 DEF CopyWork
  <2>5. m # 0
    <3> SUFFICES ASSUME m = 0 PROVE UNCHANGED vars
      OBVIOUS
    <3>1. \A c \in Blocks : held'[c] = held[c]
      BY <2>3, <2>4
    <3>2. held' = held
      BY <1>1, <2>2, <3>1
    <3>3. \A c \in Readers : read'[c] = read[c]
      BY <2>3, <2>4
    <3>4. read' = read
      BY <1>1, <2>2, <3>3
    <3> QED
      BY <2>4, <3>2, <3>4 DEF vars
  <2> QED
    BY <1>4, <2>3, <2>4, <2>5
<1>9. CASE SourceReturn
  <2>1. /\ held[Source] > 0 /\ held' = [held EXCEPT ![Source] = 0]
        /\ written' = [written EXCEPT ![Source] = @ + held[Source]] /\ UNCHANGED <<read, tx, rx>>
    BY <1>9 DEF SourceReturn
  <2>2. /\ held'[Source] = 0 /\ \A c \in Blocks \ {Source} : held'[c] = held[c]
        /\ written'[Source] = written[Source] + held[Source]
        /\ \A c \in Writers \ {Source} : written'[c] = written[c]
    BY <1>1, <2>1
  <2>3. held[Source] \in Nat
    BY <1>1
  <2> QED
    BY <1>1, <1>3, <1>5, <2>1, <2>2, <2>3
<1>10. ASSUME NEW b \in Copies, CopyReturn(b)
       PROVE  \E c \in Blocks : /\ Progress(c)' > Progress(c)
                                /\ \A e \in Blocks : e # c => Progress(e)' = Progress(e)
  <2>1. /\ held[b] > 0 /\ held' = [held EXCEPT ![b] = 0]
        /\ written' = [written EXCEPT ![b] = @ + held[b]] /\ UNCHANGED <<read, tx, rx>>
    BY <1>10 DEF CopyReturn
  <2>2. /\ b \in Blocks /\ b \in Writers /\ held[b] \in Nat
        /\ held'[b] = 0 /\ \A c \in Blocks \ {b} : held'[c] = held[c]
        /\ written'[b] = written[b] + held[b]
        /\ \A c \in Writers \ {b} : written'[c] = written[c]
    BY <1>1, <2>1
  <2> QED
    BY <1>5, <2>1, <2>2
<1>11. CASE SinkReturn
  <2>1. /\ held[Sink] > 0 /\ held' = [held EXCEPT ![Sink] = 0]
        /\ read' = [read EXCEPT ![Sink] = @ + held[Sink]] /\ UNCHANGED <<written, tx, rx>>
    BY <1>11 DEF SinkReturn
  <2>2. /\ held'[Sink] = 0 /\ \A c \in Blocks \ {Sink} : held'[c] = held[c]
        /\ read'[Sink] = read[Sink] + held[Sink]
        /\ \A c \in Readers \ {Sink} : read'[c] = read[c]
    BY <1>1, <2>1
  <2>3. held[Sink] \in Nat
    BY <1>1
  <2> QED
    BY <1>1, <1>3, <1>5, <2>1, <2>2, <2>3
<1>12. CASE SourceTrace
  <2>1. PICK k : tx' = Append(tx, k) /\ UNCHANGED <<written, read, held, rx>>
    BY <1>12 DEF SourceTrace
  <2>2. Len(tx') = Len(tx) + 1
    BY <1>12, TxSourceTrace DEF Inv
  <2>3. \A c \in Blocks : c # Source => Progress(c)' = Progress(c)
    BY <2>1 DEF Progress, ItemsIn, ItemsOut, InCall, Traced
  <2>4. /\ ItemsIn(Source)' = ItemsIn(Source) /\ ItemsOut(Source)' = ItemsOut(Source)
        /\ InCall(Source)' = InCall(Source)
    BY <2>1 DEF ItemsIn, ItemsOut, InCall
  <2>5. Traced(Source)' = Traced(Source) + 1
    BY <1>1, <2>2 DEF Traced
  <2>6. Progress(Source)' = 2 * ItemsIn(Source)' + 2 * ItemsOut(Source)' + InCall(Source)' + Traced(Source)'
    BY DEF Progress
  <2>7. Progress(Source)' > Progress(Source)
    BY <1>1, <2>4, <2>5, <2>6, ProgressTerms DEF Progress
  <2> QED
    BY <1>1, <1>3, <2>3, <2>7
<1>13. CASE SinkTrace
  <2>1. PICK k : rx' = Append(rx, k) /\ UNCHANGED <<written, read, held, tx>>
    BY <1>13 DEF SinkTrace
  <2>2. Len(rx') = Len(rx) + 1
    BY <1>13, RxSinkTrace DEF Inv
  <2>3. \A c \in Blocks : c # Sink => Progress(c)' = Progress(c)
    BY <2>1 DEF Progress, ItemsIn, ItemsOut, InCall, Traced
  <2>4. /\ ItemsIn(Sink)' = ItemsIn(Sink) /\ ItemsOut(Sink)' = ItemsOut(Sink)
        /\ InCall(Sink)' = InCall(Sink)
    BY <2>1 DEF ItemsIn, ItemsOut, InCall
  <2>5. Traced(Sink)' = Traced(Sink) + 1
    BY <1>1, <2>2 DEF Traced
  <2>6. Progress(Sink)' = 2 * ItemsIn(Sink)' + 2 * ItemsOut(Sink)' + InCall(Sink)' + Traced(Sink)'
    BY DEF Progress
  <2>7. Progress(Sink)' > Progress(Sink)
    BY <1>1, <2>4, <2>5, <2>6, ProgressTerms DEF Progress
  <2> QED
    BY <1>1, <1>3, <2>3, <2>7
<1> QED
  BY <1>3, <1>6, <1>7, <1>8, <1>9, <1>10, <1>11, <1>12, <1>13
     DEF Next, SourceStep, CopyStep, SinkStep, Finished

\* How far a block can come is bounded by the items the source offers, and
THEOREM ProgressEnds == Spec => []ProgressBounded
<1>1. Inv /\ OfferInv => ProgressBounded
  BY ProgressBound
<1> QED
  BY <1>1, OfferKept, Invariance, PTL

\* every step that changes anything takes a block further and sets none back: no call,
\* trace or short copy is repeated for nothing, so with ChainNeverStuck the items offered
\* come through after finitely many steps, whatever copy_rand draws.
THEOREM EveryStepCounts == Spec => ProgressMade
<1>1. Inv /\ Inv' /\ [Next]_vars =>
        [/\ \A b \in Blocks : Progress(b)' >= Progress(b)
         /\ \E b \in Blocks : Progress(b)' > Progress(b)]_vars
  BY ProgressStep
<1> QED
  BY <1>1, Invariance, PTL DEF Spec, ProgressMade
==============================================================================
