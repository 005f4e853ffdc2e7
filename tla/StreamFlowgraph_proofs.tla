------------------------ MODULE StreamFlowgraph_proofs ------------------------
(***************************************************************************)
(* Proofs about StreamFlowgraph, for every set of command lines and every  *)
(* size of the buffers.  The last part shows that no run gets stuck, which *)
(* needs no fairness, and that every run is finite.                        *)
(***************************************************************************)
EXTENDS StreamFlowgraph, WellFoundedInduction, TLAPS

-----------------------------------------------------------------------------
(* The graphs *)

LEMMA CommandLineFacts ==
    ASSUME NEW o \in CommandLines
    PROVE  /\ o.pipes \in Nat \ {0} /\ o.samples \in Nat /\ o.max_noutput \in Nat \ {0}
           /\ ChainLength(o) \in Nat \ {0}
           /\ OutCopies(o) # {} => o.config = "fork"
<1>1. IsCommandLine(o)
  BY CommandLinesAssumption
<1>2. /\ o.pipes \in Nat \ {0} /\ o.samples \in Nat /\ o.max_noutput \in Nat \ {0}
      /\ o.stages \in Int
  BY <1>1 DEF IsCommandLine
<1> QED
  BY <1>2 DEF ChainLength, OutCopies

\* The names keep blocks of different kinds apart.
LEMMA Names ==
    ASSUME NEW o
    PROVE  /\ \A b \in Sources(o) : b[1] = "source" /\ b = Source(b[2]) /\ b[2] \in Roots(o)
           /\ \A b \in Heads(o) : b[1] = "head" /\ b = Head(b[2]) /\ b[2] \in Roots(o)
           /\ \A b \in Copies(o) : /\ b[1] = "copy" /\ b = Copy(b[2], b[3])
                                   /\ b[2] \in 1..o.pipes /\ b[3] \in 1..ChainLength(o)
           /\ \A b \in OutCopies(o) : b[1] = "outcopy" /\ b[2] \in 1..o.pipes /\ b = OutCopy(b[2])
           /\ \A b \in Joins(o) : b[1] = "interleave"
           /\ \A b \in Sinks(o) : b[1] = "sink"
<1>1. \A b \in Sources(o) : b[1] = "source" /\ b = Source(b[2]) /\ b[2] \in Roots(o)
  BY DEF Sources, Source
<1>2. \A b \in Heads(o) : b[1] = "head" /\ b = Head(b[2]) /\ b[2] \in Roots(o)
  BY DEF Heads, Head
<1>3. \A b \in Copies(o) : /\ b[1] = "copy" /\ b = Copy(b[2], b[3])
                           /\ b[2] \in 1..o.pipes /\ b[3] \in 1..ChainLength(o)
  BY DEF Copies, Copy
<1>4. \A b \in OutCopies(o) : b[1] = "outcopy" /\ b[2] \in 1..o.pipes /\ b = OutCopy(b[2])
  BY DEF OutCopies, OutCopy
<1>5. \A b \in Joins(o) : b[1] = "interleave"
  BY DEF Joins, Interleave
<1>6. \A b \in Sinks(o) : b[1] = "sink"
  BY DEF Sinks, Sink
<1> QED
  BY <1>1, <1>2, <1>3, <1>4, <1>5, <1>6

\* What each kind of block is connected to.
LEMMA ConnectedFacts ==
    ASSUME NEW o \in CommandLines
    PROVE  /\ \A b \in Sources(o) : Connected(o, b) = {}
           /\ \A b \in Heads(o) : Connected(o, b) = {Source(b[2])}
           /\ \A b \in Copies(o) : Connected(o, b) = Chain(o, b)
           /\ \A b \in OutCopies(o) : Connected(o, b) = {Copy(b[2], ChainLength(o))}
           /\ \A b \in Joins(o) : Connected(o, b) = {Copy(p, ChainLength(o)) : p \in 1..o.pipes}
           /\ \A b \in Sinks(o) :
                  Connected(o, b) = IF o.config = "diamond" THEN {Interleave}
                                    ELSE IF OutCopies(o) # {} THEN {OutCopy(b[2])}
                                    ELSE {Copy(b[2], ChainLength(o))}
<1>1. OutCopies(o) # {} => o.config # "diamond"
  BY CommandLineFacts
<1>2. \A b \in Sources(o) : Connected(o, b) = {}
  BY DEF Connected
<1>3. \A b \in Heads(o) : Connected(o, b) = {Source(b[2])}
  <2> SUFFICES ASSUME NEW b \in Heads(o) PROVE Connected(o, b) = {Source(b[2])}
    OBVIOUS
  <2>1. b \notin Sources(o) /\ b # Interleave /\ b \notin Sinks(o) /\ b \notin OutCopies(o)
    BY Names DEF Interleave
  <2> QED
    BY <2>1 DEF Connected, create_fork, create_diamond, py_create_fork
<1>4. \A b \in Copies(o) : Connected(o, b) = Chain(o, b)
  <2> SUFFICES ASSUME NEW b \in Copies(o) PROVE Connected(o, b) = Chain(o, b)
    OBVIOUS
  <2>1. /\ b \notin Sources(o) /\ b # Interleave /\ b \notin Sinks(o) /\ b \notin OutCopies(o)
        /\ b \notin Heads(o)
    BY Names DEF Interleave
  <2> QED
    BY <2>1 DEF Connected, create_fork, create_diamond, py_create_fork
<1>5. \A b \in OutCopies(o) : Connected(o, b) = {Copy(b[2], ChainLength(o))}
  <2> SUFFICES ASSUME NEW b \in OutCopies(o)
               PROVE  Connected(o, b) = {Copy(b[2], ChainLength(o))}
    OBVIOUS
  <2>1. b \notin Sources(o)
    BY Names
  <2> QED
    BY <2>1 DEF Connected, py_create_fork
<1>6. \A b \in Joins(o) : Connected(o, b) = {Copy(p, ChainLength(o)) : p \in 1..o.pipes}
  <2> SUFFICES ASSUME NEW b \in Joins(o)
               PROVE  Connected(o, b) = {Copy(p, ChainLength(o)) : p \in 1..o.pipes}
    OBVIOUS
  <2>1. b \notin Sources(o) /\ b = Interleave /\ o.config = "diamond"
    BY Names DEF Joins
  <2> QED
    BY <1>1, <2>1 DEF Connected, create_diamond
<1>7. \A b \in Sinks(o) :
          Connected(o, b) = IF o.config = "diamond" THEN {Interleave}
                            ELSE IF OutCopies(o) # {} THEN {OutCopy(b[2])}
                            ELSE {Copy(b[2], ChainLength(o))}
  <2> SUFFICES ASSUME NEW b \in Sinks(o)
               PROVE  Connected(o, b) = IF o.config = "diamond" THEN {Interleave}
                                        ELSE IF OutCopies(o) # {} THEN {OutCopy(b[2])}
                                        ELSE {Copy(b[2], ChainLength(o))}
    OBVIOUS
  <2>1. /\ b \notin Sources(o) /\ b # Interleave /\ b \notin OutCopies(o)
        /\ b \notin Heads(o) /\ b \notin Copies(o)
    BY Names DEF Interleave
  <2> QED
    BY <1>1, <2>1 DEF Connected, create_fork, create_diamond, py_create_fork
<1> QED
  BY <1>2, <1>3, <1>4, <1>5, <1>6, <1>7

\* What block b takes in from each of its inputs over a run.
Takes(o, b) ==
    IF b \in Sinks(o) /\ o.config = "diamond" THEN o.pipes * o.samples ELSE o.samples

LEMMA Inside ==
    ASSUME NEW o \in CommandLines
    PROVE  /\ \A p \in 1..o.pipes, s \in 1..ChainLength(o) : Copy(p, s) \in Copies(o)
           /\ \A p \in 1..o.pipes : Head(Root(o, p)) \in Heads(o)
           /\ \A b \in Copies(o) : Chain(o, b) # {} /\ Chain(o, b) \subseteq Heads(o) \cup Copies(o)
           /\ OutCopies(o) # {} => \A p \in 1..o.pipes : OutCopy(p) \in OutCopies(o)
<1>1. ChainLength(o) \in Nat \ {0}
  BY CommandLineFacts
<1>2. \A p \in 1..o.pipes, s \in 1..ChainLength(o) : Copy(p, s) \in Copies(o)
  BY DEF Copies
<1>3. \A p \in 1..o.pipes : Head(Root(o, p)) \in Heads(o)
  BY DEF Heads, Roots
<1>4. ASSUME NEW b \in Copies(o)
      PROVE  Chain(o, b) # {} /\ Chain(o, b) \subseteq Heads(o) \cup Copies(o)
  <2>1. b[2] \in 1..o.pipes /\ b[3] \in 1..ChainLength(o)
    BY Names
  <2>2. b[3] # 1 => b[3] - 1 \in 1..ChainLength(o)
    BY <1>1, <2>1
  <2> QED
    BY <1>2, <1>3, <2>1, <2>2 DEF Chain
<1>5. OutCopies(o) # {} => \A p \in 1..o.pipes : OutCopy(p) \in OutCopies(o)
  BY DEF OutCopies
<1> QED
  BY <1>2, <1>3, <1>4, <1>5

\* The sets of blocks: a source reads nothing, a sink writes nothing.
LEMMA BlockSets ==
    ASSUME NEW o \in CommandLines
    PROVE  /\ Sources(o) \cap Readers(o) = {} /\ Sinks(o) \cap Writers(o) = {}
           /\ Heads(o) \subseteq Readers(o) \cap Writers(o)
           /\ Copies(o) \cup OutCopies(o) \cup Joins(o) \subseteq (Readers(o) \cap Writers(o)) \ Heads(o)
           /\ Sinks(o) \subseteq Readers(o) \ Heads(o)
           /\ Writers(o) \ Readers(o) = Sources(o)
<1> QED
  BY Names DEF Writers, Readers

\* Inputs are blocks that write; only a head reads from a source, and no two share one.
LEMMA InputFacts ==
    ASSUME NEW o \in CommandLines
    PROVE  /\ \A b \in Sources(o) : Connected(o, b) = {}
           /\ \A b \in Readers(o) : Connected(o, b) # {} /\ Connected(o, b) \subseteq Writers(o)
           /\ \A h \in Heads(o) : Connected(o, h) \subseteq Sources(o)
           /\ \A b \in Readers(o) \ Heads(o) :
                  Connected(o, b) \subseteq Heads(o) \cup Copies(o) \cup OutCopies(o) \cup Joins(o)
           /\ \A s \in Sources(o), c \in Readers(o) : s \in Connected(o, c) => c = Head(s[2])
<1>1. o.pipes \in Nat \ {0} /\ ChainLength(o) \in 1..ChainLength(o)
  BY CommandLineFacts
<1>2. \A b \in Sources(o) : Connected(o, b) = {}
  BY ConnectedFacts
<1>3. \A h \in Heads(o) : Connected(o, h) = {Source(h[2])} /\ Source(h[2]) \in Sources(o)
  BY ConnectedFacts, Names DEF Sources
<1>4. \A b \in Copies(o) : /\ Connected(o, b) # {}
                           /\ Connected(o, b) \subseteq Heads(o) \cup Copies(o)
  BY ConnectedFacts, Inside
<1>5. \A b \in OutCopies(o) : Connected(o, b) # {} /\ Connected(o, b) \subseteq Copies(o)
  <2> SUFFICES ASSUME NEW b \in OutCopies(o)
               PROVE  Connected(o, b) # {} /\ Connected(o, b) \subseteq Copies(o)
    OBVIOUS
  <2>1. Connected(o, b) = {Copy(b[2], ChainLength(o))}
    BY ConnectedFacts
  <2>2. b[2] \in 1..o.pipes
    BY Names
  <2> QED
    BY <1>1, <2>1, <2>2, Inside
<1>6. \A b \in Joins(o) : Connected(o, b) # {} /\ Connected(o, b) \subseteq Copies(o)
  <2> SUFFICES ASSUME NEW b \in Joins(o)
               PROVE  Connected(o, b) # {} /\ Connected(o, b) \subseteq Copies(o)
    OBVIOUS
  <2>1. Connected(o, b) = {Copy(p, ChainLength(o)) : p \in 1..o.pipes}
    BY ConnectedFacts
  <2>2. 1 \in 1..o.pipes
    BY <1>1
  <2> QED
    BY <1>1, <2>1, <2>2, Inside
<1>7. \A b \in Sinks(o) : /\ Connected(o, b) # {}
                          /\ Connected(o, b) \subseteq Copies(o) \cup OutCopies(o) \cup Joins(o)
  <2> SUFFICES ASSUME NEW b \in Sinks(o)
               PROVE  /\ Connected(o, b) # {}
                      /\ Connected(o, b) \subseteq Copies(o) \cup OutCopies(o) \cup Joins(o)
    OBVIOUS
  <2>1. CASE o.config = "diamond"
    BY <2>1, ConnectedFacts DEF Joins
  <2>2. CASE o.config # "diamond"
    <3>1. b[2] \in 1..o.pipes
      BY <2>2 DEF Sinks, Sink
    <3> QED
      BY <1>1, <2>2, <3>1, ConnectedFacts, Inside
  <2> QED
    BY <2>1, <2>2
<1>8. \A s \in Sources(o), c \in Readers(o) : s \in Connected(o, c) => c = Head(s[2])
  <2> SUFFICES ASSUME NEW s \in Sources(o), NEW c \in Readers(o), s \in Connected(o, c)
               PROVE  c = Head(s[2])
    OBVIOUS
  <2>1. s[1] = "source"
    BY Names
  <2>2. c \in Heads(o)
    BY <1>4, <1>5, <1>6, <1>7, <2>1, Names DEF Readers
  <2>3. s = Source(c[2]) /\ c = Head(c[2])
    BY <1>3, <2>2, Names
  <2> QED
    BY <2>3 DEF Source
<1> QED
  BY <1>2, <1>3, <1>4, <1>5, <1>6, <1>7, <1>8 DEF Readers, Writers

\* Behind a head every block takes in all that its inputs write over a run.
LEMMA RateFacts ==
    ASSUME NEW o \in CommandLines
    PROVE  /\ \A b \in Writers(o) : RateOf(o, b) \in Nat \ {0}
           /\ \A h \in Heads(o) : RateOf(o, h) = 1
           /\ \A b \in Readers(o) \ Heads(o) : \A a \in Connected(o, b) :
                  o.samples * RateOf(o, a) = Takes(o, b)
           /\ \A b \in Readers(o) : Takes(o, b) \in Nat
           /\ \A b \in Readers(o) \cap Writers(o) : Takes(o, b) = o.samples
<1>1. o.pipes \in Nat \ {0} /\ o.samples \in Nat
  BY CommandLineFacts
<1>2. \A b : RateOf(o, b) \in Nat \ {0}
  BY <1>1 DEF RateOf
<1>3. \A b \in Heads(o) \cup Copies(o) \cup OutCopies(o) : RateOf(o, b) = 1
  BY Names DEF RateOf, Interleave
<1>4. \A b \in Readers(o) \cap Writers(o) : Takes(o, b) = o.samples
  BY BlockSets DEF Takes
<1>5. o.pipes * o.samples \in Nat /\ o.samples * o.pipes = o.pipes * o.samples
      /\ o.samples * 1 = o.samples
  BY <1>1
<1>6. ASSUME NEW b \in Readers(o) \ Heads(o), NEW a \in Connected(o, b)
      PROVE  o.samples * RateOf(o, a) = Takes(o, b)
  <2>1. CASE a \in Joins(o)
    <3>1. a[1] = "interleave" /\ a = Interleave /\ o.config = "diamond"
      BY <2>1, Names DEF Joins
    <3>2. b \in Sinks(o)
      <4>1. b \in Copies(o) => a \in Heads(o) \cup Copies(o)
        BY ConnectedFacts, Inside
      <4>2. b \in OutCopies(o) \cup Joins(o) => a[1] = "copy"
        BY ConnectedFacts DEF Copy
      <4> QED
        BY <3>1, <4>1, <4>2, Names DEF Readers
    <3> QED
      BY <1>5, <3>1, <3>2 DEF RateOf, Takes
  <2>2. CASE a \notin Joins(o)
    <3>1. a \in Heads(o) \cup Copies(o) \cup OutCopies(o)
      BY <2>2, InputFacts
    <3>2. ~(b \in Sinks(o) /\ o.config = "diamond")
      BY <2>2, ConnectedFacts DEF Joins
    <3> QED
      BY <1>3, <1>5, <3>1, <3>2 DEF Takes
  <2> QED
    BY <2>1, <2>2
<1>7. \A b \in Readers(o) : Takes(o, b) \in Nat
  BY <1>1, <1>5 DEF Takes
<1> QED
  BY <1>2, <1>3, <1>4, <1>6, <1>7

\* All of this for the flowgraph of the command line in use.
LEMMA Wiring ==
    ASSUME opt \in CommandLines
    PROVE  /\ tb.blocks = tb.writers \cup tb.readers
           /\ tb.heads \subseteq tb.readers \cap tb.writers
           /\ tb.sinks \subseteq tb.readers \ tb.writers
           /\ \A b \in tb.readers : tb.inputs[b] # {} /\ tb.inputs[b] \subseteq tb.writers
           /\ \A b \in tb.blocks \ tb.readers : tb.inputs[b] = {}
           /\ \A b \in tb.readers \ tb.heads : tb.inputs[b] \subseteq tb.readers
           /\ \A h \in tb.heads : tb.inputs[h] \cap tb.readers = {}
           /\ \A a \in tb.writers : tb.outputs[a] = {c \in tb.readers : a \in tb.inputs[c]}
           /\ \A a \in tb.writers \ tb.readers : \A c, e \in tb.outputs[a] : c = e
           /\ \A b \in tb.writers : tb.rate[b] \in Nat \ {0}
           /\ \A h \in tb.heads : tb.rate[h] = 1
<1> DEFINE o == opt
<1>1. /\ tb.blocks = Blocks(o) /\ tb.writers = Writers(o) /\ tb.readers = Readers(o)
      /\ tb.heads = Heads(o) /\ tb.sinks = Sinks(o)
      /\ tb.inputs = [b \in Blocks(o) |-> Connected(o, b)]
      /\ tb.outputs = [b \in Writers(o) |-> {c \in Readers(o) : b \in Connected(o, c)}]
      /\ tb.rate = [b \in Writers(o) |-> RateOf(o, b)]
  BY DEF tb, Graphs
<1>2. Blocks(o) = Writers(o) \cup Readers(o)
  BY DEF Blocks
<1>3. /\ Heads(o) \subseteq Readers(o) \cap Writers(o)
      /\ Sinks(o) \subseteq Readers(o) \ Writers(o)
      /\ Writers(o) \ Readers(o) = Sources(o)
      /\ Sources(o) \cap Readers(o) = {}
      /\ Heads(o) \cup Copies(o) \cup OutCopies(o) \cup Joins(o) \subseteq Readers(o)
  BY BlockSets
<1> HIDE DEF o
<1>4. o \in CommandLines
  BY DEF o
<1>5. \A b \in Blocks(o) : tb.inputs[b] = Connected(o, b)
  BY <1>1
<1>6. \A b \in Writers(o) : /\ tb.outputs[b] = {c \in Readers(o) : b \in Connected(o, c)}
                            /\ tb.rate[b] = RateOf(o, b)
  BY <1>1
<1>7. \A b \in tb.readers : tb.inputs[b] # {} /\ tb.inputs[b] \subseteq tb.writers
  BY <1>1, <1>2, <1>4, <1>5, InputFacts
<1>8. \A b \in tb.blocks \ tb.readers : tb.inputs[b] = {}
  BY <1>1, <1>2, <1>3, <1>4, <1>5, InputFacts
<1>9. \A b \in tb.readers \ tb.heads : tb.inputs[b] \subseteq tb.readers
  BY <1>1, <1>2, <1>3, <1>4, <1>5, InputFacts
<1>10. \A h \in tb.heads : tb.inputs[h] \cap tb.readers = {}
  BY <1>1, <1>2, <1>3, <1>4, <1>5, InputFacts
<1>11. \A a \in tb.writers : tb.outputs[a] = {c \in tb.readers : a \in tb.inputs[c]}
  BY <1>1, <1>2, <1>5, <1>6
<1>12. \A a \in tb.writers \ tb.readers : \A c, e \in tb.outputs[a] : c = e
  BY <1>1, <1>3, <1>4, <1>6, InputFacts
<1>13. \A b \in tb.writers : tb.rate[b] \in Nat \ {0}
  BY <1>1, <1>4, <1>6, RateFacts
<1>14. \A h \in tb.heads : tb.rate[h] = 1
  BY <1>1, <1>3, <1>4, <1>6, RateFacts
<1>15. /\ tb.blocks = tb.writers \cup tb.readers
       /\ tb.heads \subseteq tb.readers \cap tb.writers
       /\ tb.sinks \subseteq tb.readers \ tb.writers
  BY <1>1, <1>2, <1>3
<1> QED
  BY <1>7, <1>8, <1>9, <1>10, <1>11, <1>12, <1>13, <1>14, <1>15, Zenon

\* What the blocks of a run take in.
LEMMA Workloads ==
    ASSUME opt \in CommandLines
    PROVE  /\ opt.samples \in Nat
           /\ \A b \in tb.readers : Takes(opt, b) \in Nat /\ Takes(opt, b) <= Load
           /\ \A b \in tb.readers \cap tb.writers : Takes(opt, b) = opt.samples
           /\ \A b \in tb.sinks : Takes(opt, b) = Load
           /\ \A b \in tb.readers \ tb.heads : \A a \in tb.inputs[b] :
                  opt.samples * tb.rate[a] = Takes(opt, b)
<1>1. /\ tb.writers = Writers(opt) /\ tb.readers = Readers(opt)
      /\ tb.heads = Heads(opt) /\ tb.sinks = Sinks(opt)
      /\ tb.inputs = [b \in Blocks(opt) |-> Connected(opt, b)]
      /\ tb.rate = [b \in Writers(opt) |-> RateOf(opt, b)]
  BY DEF tb, Graphs
<1>2. opt.pipes \in Nat \ {0} /\ opt.samples \in Nat
  BY CommandLineFacts
<1>3. opt.pipes * opt.samples \in Nat /\ opt.samples <= opt.pipes * opt.samples
  BY <1>2
<1>4. \A b \in tb.readers : Takes(opt, b) \in Nat /\ Takes(opt, b) <= Load
  BY <1>2, <1>3 DEF Takes, Load
<1>5. \A b \in tb.sinks : Takes(opt, b) = Load
  BY <1>1 DEF Takes, Load
<1>6. \A b \in tb.readers \cap tb.writers : Takes(opt, b) = opt.samples
  BY <1>1, RateFacts
<1>7. ASSUME NEW b \in tb.readers \ tb.heads, NEW a \in tb.inputs[b]
      PROVE  opt.samples * tb.rate[a] = Takes(opt, b)
  <2>1. b \in Readers(opt) \ Heads(opt) /\ a \in Connected(opt, b)
    BY <1>1, <1>7 DEF Blocks
  <2>2. a \in Writers(opt)
    BY <2>1, InputFacts
  <2>3. tb.rate[a] = RateOf(opt, a)
    BY <1>1, <2>2
  <2> QED
    BY <2>1, <2>3, RateFacts
<1> QED
  BY <1>2, <1>4, <1>5, <1>6, <1>7

LEMMA Products ==
    ASSUME NEW x \in Nat, NEW y \in Nat, NEW r \in Nat \ {0}
    PROVE  /\ x * r \in Nat /\ (x + y) * r = x * r + y * r
           /\ x <= y => x * r <= y * r
           /\ x * r <= y * r => x <= y
<1>1. x * r \in Nat /\ (x + y) * r = x * r + y * r
  OBVIOUS
<1>2. x <= y => x * r <= y * r
  OBVIOUS
<1>3. x * r <= y * r => x <= y
  <2> SUFFICES ASSUME y + 1 <= x PROVE y * r < x * r
    OBVIOUS
  <2>1. (y + 1) * r <= x * r
    OBVIOUS
  <2> QED
    BY <2>1
<1> QED
  BY <1>1, <1>2, <1>3
-----------------------------------------------------------------------------
(* The inductive invariant *)

TypeInv ==
    /\ opt \in CommandLines
    /\ written \in [tb.writers -> Nat]
    /\ read \in [tb.readers -> Nat]
    /\ held \in [tb.blocks -> Nat]
    /\ marked \in [tb.writers -> BOOLEAN]
    /\ ended \in [tb.blocks -> BOOLEAN]
    /\ returned \in BOOLEAN

\* Work calls under way count as read on one side of a buffer and as written on the other.
BufferInv ==
    /\ \A c \in tb.readers : \A a \in tb.inputs[c] :
           /\ read[c] + held[c] <= written[a]
           /\ written[a] + held[a] * tb.rate[a] - read[c] <= BufferSize
    /\ \A b \in tb.readers \cap tb.writers : written[b] = read[b] * tb.rate[b]
    /\ \A b \in tb.readers : read[b] + held[b] <= Takes(opt, b)

\* A done buffer belongs to a block that has its workload behind it, or to a source whose
\* head has ended: this is why a mark set from behind by one reader of a shared buffer
\* cannot end the others early.
EndInv ==
    /\ \A b \in tb.blocks : ended[b] => held[b] = 0
    /\ \A b \in tb.readers : ended[b] => read[b] = Takes(opt, b)
    /\ \A a \in tb.writers : marked[a] =>
           IF a \in tb.readers THEN read[a] = opt.samples
                               ELSE \A c \in tb.readers : a \in tb.inputs[c] => ended[c]
    /\ returned => \A b \in tb.blocks : ended[b]

IInv == TypeInv /\ BufferInv /\ EndInv

LEMMA Initially == Init => IInv
<1> SUFFICES ASSUME Init PROVE IInv
  OBVIOUS
<1>1. /\ opt \in CommandLines /\ returned = FALSE
      /\ written = [b \in tb.writers |-> 0] /\ read = [b \in tb.readers |-> 0]
      /\ held = [b \in tb.blocks |-> 0] /\ marked = [b \in tb.writers |-> FALSE]
      /\ ended = [b \in tb.blocks |-> FALSE]
  BY DEF Init
<1>2. TypeInv
  BY <1>1 DEF TypeInv
<1>3. /\ tb.blocks = tb.writers \cup tb.readers
      /\ \A b \in tb.readers : tb.inputs[b] \subseteq tb.writers
      /\ \A b \in tb.writers : tb.rate[b] \in Nat \ {0}
  BY <1>1, Wiring
<1>4. \A b \in tb.readers : Takes(opt, b) \in Nat
  BY <1>1, Workloads
<1>5. ASSUME NEW c \in tb.readers, NEW a \in tb.inputs[c]
      PROVE  /\ read[c] + held[c] <= written[a]
             /\ written[a] + held[a] * tb.rate[a] - read[c] <= BufferSize
  <2>1. a \in tb.writers /\ tb.rate[a] \in Nat
    BY <1>3, <1>5
  <2>2. read[c] = 0 /\ held[c] = 0 /\ written[a] = 0 /\ held[a] = 0
    BY <1>1, <1>3, <2>1
  <2> QED
    BY <2>1, <2>2, BufferAssumption
<1>6. \A b \in tb.readers \cap tb.writers : written[b] = read[b] * tb.rate[b]
  BY <1>1, <1>3
<1>7. \A b \in tb.readers : read[b] + held[b] <= Takes(opt, b)
  BY <1>1, <1>3, <1>4
<1>8. EndInv
  BY <1>1, <1>3 DEF EndInv
<1> QED
  BY <1>2, <1>5, <1>6, <1>7, <1>8 DEF IInv, BufferInv

\* A block of a pipe never gets past its share of the workload: writing more than that
\* would need a head that lets more through.
LEMMA WritersBounded ==
    ASSUME IInv, NEW a \in tb.readers \cap tb.writers
    PROVE  /\ read[a] \in Nat /\ held[a] \in Nat /\ written[a] \in Nat
           /\ read[a] + held[a] <= opt.samples
           /\ written[a] = read[a] * tb.rate[a]
           /\ written[a] <= opt.samples * tb.rate[a]
<1>1. opt \in CommandLines /\ read[a] \in Nat /\ held[a] \in Nat /\ written[a] \in Nat
  BY Wiring DEF IInv, TypeInv
<1>2. read[a] + held[a] <= opt.samples /\ opt.samples \in Nat
  BY <1>1, Workloads DEF IInv, BufferInv
<1>3. tb.rate[a] \in Nat \ {0}
  BY <1>1, Wiring
<1>4. read[a] * tb.rate[a] <= opt.samples * tb.rate[a]
  BY <1>1, <1>2, <1>3, Products
<1> QED
  BY <1>1, <1>2, <1>4 DEF IInv, BufferInv

LEMMA WorkStep ==
    ASSUME IInv, NEW b \in tb.blocks, Work(b)
    PROVE  IInv'
<1>1. PICK n \in 1..CallLimit :
         /\ Fits(b, n)
         /\ b \in tb.heads => n <= HeadLimit - written[b]
         /\ held' = [held EXCEPT ![b] = n]
  BY DEF Work
<1>2. /\ ~ended[b] /\ held[b] = 0
      /\ UNCHANGED <<opt, written, read, marked, ended, returned>>
  BY DEF Work
<1>3. tb' = tb
  BY <1>2 DEF tb
<1>4. opt \in CommandLines /\ TypeInv
  BY DEF IInv, TypeInv
<1>5. n \in Nat
  <2>1. CallLimit \in Int
    BY <1>4, CommandLineFacts, BufferAssumption DEF CallLimit
  <2> QED
    BY <1>1, <2>1
<1>6. TypeInv'
  BY <1>1, <1>2, <1>3, <1>4, <1>5 DEF TypeInv
<1>7. /\ \A a \in tb.inputs[b] : n <= written[a] - read[b]
      /\ b \in tb.writers => \A c \in tb.readers :
             b \in tb.inputs[c] => n * tb.rate[b] <= BufferSize - (written[b] - read[c])
  BY <1>1, <1>4, Wiring DEF Fits, HasRoom, Inputs, Outputs, Rate, Available
<1>8. ASSUME NEW c \in tb.readers, NEW a \in tb.inputs[c]
      PROVE  /\ read[c] + held'[c] <= written[a]
             /\ written[a] + held'[a] * tb.rate[a] - read[c] <= BufferSize
  <2>1. a \in tb.writers /\ a \in tb.blocks /\ c \in tb.blocks /\ tb.rate[a] \in Nat
    BY <1>4, Wiring
  <2>2. /\ read[c] + held[c] <= written[a]
        /\ written[a] + held[a] * tb.rate[a] - read[c] <= BufferSize
    BY DEF IInv, BufferInv
  <2>3. read[c] \in Nat /\ written[a] \in Nat
    BY <1>4, <2>1 DEF TypeInv
  <2>4. read[c] + held'[c] <= written[a]
    BY <1>1, <1>4, <1>5, <1>7, <2>1, <2>2, <2>3 DEF TypeInv
  <2>5. written[a] + held'[a] * tb.rate[a] - read[c] <= BufferSize
    <3>1. CASE a = b
      <4>1. held'[a] = n /\ n * tb.rate[a] \in Nat
        BY <1>1, <1>4, <1>5, <2>1, <3>1 DEF TypeInv
      <4> QED
        BY <1>7, <2>1, <2>3, <3>1, <4>1, BufferAssumption
    <3>2. CASE a # b
      <4>1. held'[a] = held[a]
        BY <1>1, <1>4, <2>1, <3>2 DEF TypeInv
      <4> QED
        BY <2>2, <4>1
    <3> QED
      BY <3>1, <3>2
  <2> QED
    BY <2>4, <2>5
<1>9. ASSUME NEW c \in tb.readers
      PROVE  read[c] + held'[c] <= Takes(opt, c)
  <2>1. CASE c # b
    BY <1>1, <1>4, <2>1, Wiring DEF IInv, BufferInv, TypeInv
  <2>2. CASE c = b /\ b \in tb.heads
    <3>1. read[b] \in Nat /\ read[b] * 1 = read[b] /\ written[b] = read[b] * tb.rate[b]
      BY <1>4, <2>2, WritersBounded, Wiring
    <3>2. tb.rate[b] = 1 /\ Takes(opt, b) = opt.samples /\ opt.samples \in Nat
      BY <1>4, <2>2, Wiring, Workloads
    <3>3. held'[b] = n /\ n <= opt.samples - written[b]
      BY <1>1, <1>4, <2>2 DEF TypeInv, HeadLimit
    <3> QED
      BY <1>5, <2>2, <3>1, <3>2, <3>3
  <2>3. CASE c = b /\ b \notin tb.heads
    <3>1. PICK a \in tb.inputs[b] : a \in tb.readers \cap tb.writers
      BY <1>4, <2>3, Wiring
    <3>2. written[a] \in Nat /\ written[a] <= opt.samples * tb.rate[a]
      BY <3>1, WritersBounded
    <3>3. opt.samples * tb.rate[a] = Takes(opt, b) /\ Takes(opt, b) \in Nat
      BY <1>4, <2>3, <3>1, Workloads
    <3>4. held'[b] = n /\ read[b] \in Nat
      BY <1>1, <1>4, <2>3 DEF TypeInv
    <3> QED
      BY <1>5, <1>7, <2>3, <3>1, <3>2, <3>3, <3>4
  <2> QED
    BY <2>1, <2>2, <2>3
<1>10. BufferInv'
  BY <1>2, <1>3, <1>8, <1>9 DEF IInv, BufferInv
<1>11. EndInv'
  <2>1. \A c \in tb.blocks : ended[c] => held'[c] = 0
    BY <1>1, <1>2, <1>4 DEF IInv, EndInv, TypeInv
  <2> QED
    BY <1>2, <1>3, <2>1 DEF IInv, EndInv
<1> QED
  BY <1>6, <1>10, <1>11 DEF IInv

LEMMA ReturnStep ==
    ASSUME IInv, NEW b \in tb.blocks, Return(b)
    PROVE  IInv'
<1>1. /\ held[b] > 0
      /\ written' = IF b \in tb.writers THEN [written EXCEPT ![b] = @ + held[b] * Rate(b)] ELSE written
      /\ read' = IF b \in tb.readers THEN [read EXCEPT ![b] = @ + held[b]] ELSE read
      /\ held' = [held EXCEPT ![b] = 0]
      /\ UNCHANGED <<opt, marked, ended, returned>>
  BY DEF Return
<1>2. tb' = tb
  BY <1>1 DEF tb
<1>3. opt \in CommandLines /\ TypeInv
  BY DEF IInv, TypeInv
<1>4. held[b] \in Nat /\ ~ended[b]
  BY <1>1, <1>3 DEF IInv, EndInv, TypeInv
<1>5. ASSUME NEW a \in tb.writers
      PROVE  /\ written[a] \in Nat /\ written'[a] \in Nat /\ held[a] \in Nat /\ held'[a] \in Nat
             /\ held[a] * tb.rate[a] \in Nat /\ held'[a] * tb.rate[a] \in Nat
             /\ written'[a] + held'[a] * tb.rate[a] = written[a] + held[a] * tb.rate[a]
             /\ written'[a] >= written[a]
  <2>1. tb.rate[a] \in Nat \ {0} /\ a \in tb.blocks
    BY <1>3, Wiring
  <2>2. written[a] \in Nat /\ held[a] \in Nat /\ held[a] * tb.rate[a] \in Nat
    BY <1>3, <2>1, Products DEF TypeInv
  <2>3. CASE a = b
    <3>1. held'[a] = 0 /\ written'[a] = written[a] + held[a] * tb.rate[a]
      BY <1>1, <1>3, <2>1, <2>3 DEF TypeInv, Rate
    <3>2. 0 * tb.rate[a] = 0
      BY <2>1
    <3> QED
      BY <2>2, <3>1, <3>2
  <2>4. CASE a # b
    <3>1. held'[a] = held[a] /\ written'[a] = written[a]
      BY <1>1, <1>3, <2>1, <2>4 DEF TypeInv
    <3> QED
      BY <2>2, <3>1
  <2> QED
    BY <2>3, <2>4
<1>6. ASSUME NEW c \in tb.readers
      PROVE  /\ read[c] \in Nat /\ read'[c] \in Nat /\ held[c] \in Nat /\ held'[c] \in Nat
             /\ read'[c] + held'[c] = read[c] + held[c]
             /\ read'[c] >= read[c]
             /\ c # b => read'[c] = read[c]
  <2>1. c \in tb.blocks /\ read[c] \in Nat /\ held[c] \in Nat
    BY <1>3, Wiring DEF TypeInv
  <2>2. c = b => read'[c] = read[c] + held[c] /\ held'[c] = 0
    BY <1>1, <1>3, <2>1 DEF TypeInv
  <2>3. c # b => read'[c] = read[c] /\ held'[c] = held[c]
    BY <1>1, <1>3, <2>1 DEF TypeInv
  <2> QED
    BY <2>1, <2>2, <2>3
<1>7. TypeInv'
  <2>1. written' \in [tb.writers -> Nat]
    BY <1>1, <1>3, <1>5 DEF TypeInv
  <2>2. read' \in [tb.readers -> Nat]
    BY <1>1, <1>3, <1>6 DEF TypeInv
  <2>3. held' \in [tb.blocks -> Nat]
    BY <1>1, <1>3 DEF TypeInv
  <2> QED
    BY <1>1, <1>2, <1>3, <2>1, <2>2, <2>3 DEF TypeInv
<1>8. ASSUME NEW c \in tb.readers, NEW a \in tb.inputs[c]
      PROVE  /\ read'[c] + held'[c] <= written'[a]
             /\ written'[a] + held'[a] * tb.rate[a] - read'[c] <= BufferSize
  <2>1. a \in tb.writers
    BY <1>3, Wiring
  <2>2. /\ read[c] + held[c] <= written[a]
        /\ written[a] + held[a] * tb.rate[a] - read[c] <= BufferSize
    BY DEF IInv, BufferInv
  <2> QED
    BY <1>5, <1>6, <2>1, <2>2, BufferAssumption
<1>9. ASSUME NEW c \in tb.readers \cap tb.writers
      PROVE  written'[c] = read'[c] * tb.rate[c]
  <2>1. written[c] = read[c] * tb.rate[c]
    BY DEF IInv, BufferInv
  <2>2. CASE c = b
    <3>1. tb.rate[c] \in Nat \ {0} /\ read[c] \in Nat /\ held[c] \in Nat
      BY <1>3, <1>6, Wiring
    <3>2. written'[c] = written[c] + held[c] * tb.rate[c] /\ read'[c] = read[c] + held[c]
      BY <1>1, <1>3, <2>2 DEF TypeInv, Rate
    <3>3. (read[c] + held[c]) * tb.rate[c] = read[c] * tb.rate[c] + held[c] * tb.rate[c]
      BY <3>1, Products
    <3> QED
      BY <2>1, <3>2, <3>3
  <2>3. CASE c # b
    <3>1. written'[c] = written[c]
      BY <1>1, <1>3, <2>3 DEF TypeInv
    <3>2. read'[c] = read[c]
      BY <1>6, <2>3
    <3> QED
      BY <2>1, <3>1, <3>2
  <2> QED
    BY <2>2, <2>3
<1>10. \A c \in tb.readers : read'[c] + held'[c] <= Takes(opt, c)
  BY <1>6 DEF IInv, BufferInv
<1>11. BufferInv'
  BY <1>1, <1>2, <1>8, <1>9, <1>10 DEF BufferInv
<1>12. \A c \in tb.blocks : ended[c] => held'[c] = 0
  BY <1>1, <1>3, <1>4 DEF IInv, EndInv, TypeInv
<1>13. \A c \in tb.readers : ended[c] => read'[c] = Takes(opt, c)
  BY <1>4, <1>6 DEF IInv, EndInv
<1>14. ASSUME NEW a \in tb.writers, marked[a]
       PROVE  IF a \in tb.readers THEN read'[a] = opt.samples
                                  ELSE \A c \in tb.readers : a \in tb.inputs[c] => ended[c]
  <2>1. CASE a \in tb.readers
    <3>1. read[a] = opt.samples
      BY <1>14, <2>1 DEF IInv, EndInv
    <3>2. a # b
      <4>1. read[a] + held[a] <= opt.samples /\ held[a] \in Nat /\ read[a] \in Nat
        BY <2>1, WritersBounded
      <4> QED
        BY <1>1, <3>1, <4>1
    <3> QED
      BY <1>6, <2>1, <3>1, <3>2
  <2>2. CASE a \notin tb.readers
    BY <1>14, <2>2 DEF IInv, EndInv
  <2> QED
    BY <2>1, <2>2
<1>15. EndInv'
  <2>1. returned => \A c \in tb.blocks : ended[c]
    BY DEF IInv, EndInv
  <2> QED
    BY <1>1, <1>2, <1>12, <1>13, <1>14, <2>1 DEF EndInv
<1> QED
  BY <1>7, <1>11, <1>15 DEF IInv

\* A block that ends has its workload behind it.
LEMMA EndsComplete ==
    ASSUME IInv, NEW b \in tb.readers, End(b)
    PROVE  read[b] = Takes(opt, b)
<1>1. ~ended[b] /\ held[b] = 0 /\ (InputOver(b) \/ OutputOver(b) \/ HeadOver(b))
  BY DEF End
<1>2. opt \in CommandLines /\ read[b] \in Nat
  BY DEF IInv, TypeInv
<1>3. CASE InputOver(b)
  <2>1. PICK a \in tb.inputs[b] : marked[a] /\ written[a] - read[b] = 0
    BY <1>3 DEF InputOver, Inputs, Available
  <2>2. a \in tb.writers /\ written[a] \in Nat
    BY <1>2, Wiring DEF IInv, TypeInv
  <2>3. b \notin tb.heads
    <3> SUFFICES ASSUME b \in tb.heads PROVE FALSE
      OBVIOUS
    <3>1. a \notin tb.readers
      BY <1>2, Wiring
    <3> QED
      BY <1>1, <2>1, <2>2, <3>1 DEF IInv, EndInv
  <2>4. a \in tb.readers
    BY <1>2, <2>3, Wiring
  <2>5. read[a] = opt.samples /\ written[a] = read[a] * tb.rate[a]
    BY <2>1, <2>2, <2>4 DEF IInv, EndInv, BufferInv
  <2>6. opt.samples * tb.rate[a] = Takes(opt, b)
    BY <1>2, <2>3, Workloads
  <2> QED
    BY <1>2, <2>1, <2>2, <2>5, <2>6
<1>4. CASE OutputOver(b)
  <2>1. b \in tb.writers /\ marked[b]
    BY <1>4 DEF OutputOver
  <2> QED
    BY <1>2, <2>1, Workloads DEF IInv, EndInv
<1>5. CASE HeadOver(b)
  <2>1. b \in tb.heads /\ written[b] = opt.samples
    BY <1>5 DEF HeadOver, HeadLimit
  <2>2. b \in tb.readers \cap tb.writers /\ tb.rate[b] = 1
    BY <1>2, <2>1, Wiring
  <2>3. written[b] = read[b] * tb.rate[b] /\ Takes(opt, b) = opt.samples
    BY <1>2, <2>2, WritersBounded, Workloads
  <2>4. read[b] * 1 = read[b]
    BY <1>2
  <2> QED
    BY <2>1, <2>2, <2>3, <2>4
<1> QED
  BY <1>1, <1>3, <1>4, <1>5

LEMMA EndStep ==
    ASSUME IInv, NEW b \in tb.blocks, End(b)
    PROVE  IInv'
<1>1. /\ ~ended[b] /\ held[b] = 0 /\ (InputOver(b) \/ OutputOver(b) \/ HeadOver(b))
      /\ ended' = [ended EXCEPT ![b] = TRUE]
      /\ marked' = [a \in tb.writers |-> marked[a] \/ a = b \/ a \in tb.inputs[b]]
      /\ UNCHANGED <<opt, written, read, held, returned>>
  BY DEF End, Inputs
<1>2. tb' = tb
  BY <1>1 DEF tb
<1>3. opt \in CommandLines /\ TypeInv
  BY DEF IInv, TypeInv
<1>4. TypeInv'
  BY <1>1, <1>2, <1>3 DEF TypeInv
<1>5. BufferInv'
  BY <1>1, <1>2 DEF IInv, BufferInv
<1>6. \A c \in tb.blocks : ended'[c] <=> ended[c] \/ c = b
  BY <1>1, <1>3 DEF TypeInv
<1>7. \A c \in tb.blocks : ended'[c] => held[c] = 0
  BY <1>1, <1>6 DEF IInv, EndInv
<1>8. \A c \in tb.readers : ended'[c] => read[c] = Takes(opt, c)
  BY <1>3, <1>6, EndsComplete, Wiring DEF IInv, EndInv
<1>9. ASSUME NEW a \in tb.writers, marked'[a]
      PROVE  IF a \in tb.readers THEN read[a] = opt.samples
                                 ELSE \A c \in tb.readers : a \in tb.inputs[c] => ended'[c]
  <2>1. marked[a] \/ a = b \/ a \in tb.inputs[b]
    BY <1>1, <1>9
  <2>2. CASE marked[a]
    BY <1>3, <1>6, <2>2, Wiring DEF IInv, EndInv
  <2>3. CASE ~marked[a] /\ a = b
    <3>1. a \in tb.readers => read[a] = opt.samples
      BY <1>3, <2>3, EndsComplete, Workloads
    <3>2. a \in tb.readers
      <4> SUFFICES ASSUME a \notin tb.readers PROVE FALSE
        OBVIOUS
      <4>1. tb.inputs[b] = {} /\ b \notin tb.heads
        BY <1>3, <2>3, Wiring
      <4> QED
        BY <1>1, <2>3, <4>1 DEF InputOver, OutputOver, HeadOver, Inputs
    <3> QED
      BY <3>1, <3>2
  <2>4. CASE a \in tb.inputs[b]
    <3>1. b \in tb.readers
      BY <1>3, <2>4, Wiring
    <3>2. CASE a \in tb.readers
      <4>1. b \notin tb.heads
        BY <1>3, <2>4, <3>2, Wiring
      <4>2. opt.samples * tb.rate[a] = Takes(opt, b) /\ read[b] = Takes(opt, b)
        BY <1>3, <2>4, <3>1, <4>1, EndsComplete, Workloads
      <4>3. /\ read[a] \in Nat /\ held[a] \in Nat /\ read[a] + held[a] <= opt.samples
            /\ written[a] = read[a] * tb.rate[a] /\ written[a] \in Nat
        BY <3>2, WritersBounded
      <4>4. read[b] + held[b] <= written[a] /\ read[b] \in Nat
        BY <1>3, <2>4, <3>1 DEF IInv, BufferInv, TypeInv
      <4>5. tb.rate[a] \in Nat \ {0} /\ opt.samples \in Nat
        BY <1>3, Wiring, Workloads
      <4>6. opt.samples * tb.rate[a] <= read[a] * tb.rate[a]
        BY <1>1, <4>2, <4>3, <4>4
      <4>7. opt.samples <= read[a]
        BY <4>3, <4>5, <4>6, Products
      <4> QED
        BY <3>2, <4>3, <4>5, <4>7
    <3>3. CASE a \notin tb.readers
      <4>1. tb.outputs[a] = {c \in tb.readers : a \in tb.inputs[c]}
        BY <1>3, Wiring
      <4>2. \A c, e \in tb.outputs[a] : c = e
        BY <1>3, <3>3, Wiring
      <4>3. \A c \in tb.readers : a \in tb.inputs[c] => c = b
        BY <2>4, <3>1, <4>1, <4>2
      <4> QED
        BY <1>6, <3>3, <4>3
    <3> QED
      BY <3>2, <3>3
  <2> QED
    BY <2>1, <2>2, <2>3, <2>4
<1>10. EndInv'
  <2>1. returned => \A c \in tb.blocks : ended'[c]
    BY <1>6 DEF IInv, EndInv
  <2> QED
    BY <1>1, <1>2, <1>7, <1>8, <1>9, <2>1 DEF EndInv
<1> QED
  BY <1>4, <1>5, <1>10 DEF IInv

LEMMA Step == IInv /\ [Next]_vars => IInv'
<1> SUFFICES ASSUME IInv, [Next]_vars PROVE IInv'
  OBVIOUS
<1>1. ASSUME NEW b \in tb.blocks, Thread(b) PROVE IInv'
  BY <1>1, WorkStep, ReturnStep, EndStep DEF Thread
<1>2. CASE RunReturns
  <2>1. /\ \A b \in tb.blocks : ended[b]
        /\ returned' = TRUE /\ UNCHANGED <<opt, written, read, held, marked, ended>>
    BY <1>2 DEF RunReturns
  <2>2. tb' = tb
    BY <2>1 DEF tb
  <2> QED
    BY <2>1, <2>2 DEF IInv, TypeInv, BufferInv, EndInv
<1>3. CASE UNCHANGED vars
  <2>1. tb' = tb
    BY <1>3 DEF tb, vars
  <2> QED
    BY <1>3, <2>1 DEF IInv, TypeInv, BufferInv, EndInv, vars
<1> QED
  BY <1>1, <1>2, <1>3 DEF Next, Done

LEMMA Invariance == Spec => []IInv
<1> QED
  BY Initially, Step, PTL DEF Spec
-----------------------------------------------------------------------------
(* Theorems *)

\* The state of a run keeps its types, and no block takes in more than the workload, for
\* every graph the three programs build.
THEOREM TypeCorrect == Spec => []TypeOK
<1>1. IInv => TypeOK
  <2> SUFFICES ASSUME IInv PROVE TypeOK
    OBVIOUS
  <2>1. \A b \in tb.readers : read[b] \in Nat /\ held[b] \in Nat /\ read[b] + held[b] <= Load
    <3>1. \A b \in tb.readers : /\ read[b] \in Nat /\ held[b] \in Nat
                                /\ read[b] + held[b] <= Takes(opt, b)
      BY Wiring DEF IInv, TypeInv, BufferInv
    <3>2. \A b \in tb.readers : Takes(opt, b) \in Nat /\ Takes(opt, b) <= Load
      BY Workloads DEF IInv, TypeInv
    <3>3. Load \in Int
      BY CommandLineFacts DEF IInv, TypeInv, Load
    <3> QED
      BY <3>1, <3>2, <3>3
  <2>2. \A b \in tb.readers : read[b] \in 0..Load
    <3>1. Load \in Int
      BY CommandLineFacts DEF IInv, TypeInv, Load
    <3> QED
      BY <2>1, <3>1
  <2> QED
    BY <2>2 DEF IInv, TypeInv, TypeOK
<1> QED
  BY Invariance, <1>1, PTL

\* However the threads interleave, and for every number of pipes and stages, the first
\* blocks of the pipes behind one head are never further apart than one buffer is long.
THEOREM InStep == Spec => []PipesInStep
<1>1. IInv => PipesInStep
  <2> SUFFICES ASSUME IInv, opt.config \in {"fork", "diamond"},
                      NEW p \in 1..opt.pipes, NEW q \in 1..opt.pipes
               PROVE  read[Copy(p, 1)] <= read[Copy(q, 1)] + BufferSize
    BY DEF PipesInStep
  <2>1. opt \in CommandLines /\ 1 \in 1..ChainLength(opt)
    BY CommandLineFacts DEF IInv, TypeInv
  <2>2. ASSUME NEW r \in 1..opt.pipes
        PROVE  Copy(r, 1) \in tb.readers /\ tb.inputs[Copy(r, 1)] = {Head(0)}
    <3>1. Copy(r, 1) \in Copies(opt)
      BY <2>1, Inside
    <3>2. Connected(opt, Copy(r, 1)) = Chain(opt, Copy(r, 1))
      BY <2>1, <3>1, ConnectedFacts
    <3>3. Chain(opt, Copy(r, 1)) = {Head(0)}
      BY DEF Chain, Copy, Root
    <3>4. Copy(r, 1) \in Readers(opt) /\ Copy(r, 1) \in Blocks(opt)
      BY <3>1 DEF Readers, Blocks
    <3>5. tb.readers = Readers(opt) /\ tb.inputs = [b \in Blocks(opt) |-> Connected(opt, b)]
      BY <2>1 DEF tb, Graphs
    <3> QED
      BY <3>2, <3>3, <3>4, <3>5
  <2>3. Head(0) \in tb.writers
    BY <2>1, <2>2, Wiring
  <2>4. tb.rate[Head(0)] \in Nat \ {0} /\ Head(0) \in tb.blocks
    BY <2>1, <2>3, Wiring
  <2>5. held[Head(0)] * tb.rate[Head(0)] \in Nat /\ written[Head(0)] \in Nat
    BY <2>3, <2>4, Products DEF IInv, TypeInv
  <2>6. /\ read[Copy(p, 1)] \in Nat /\ held[Copy(p, 1)] \in Nat /\ read[Copy(q, 1)] \in Nat
    BY <2>1, <2>2, Wiring DEF IInv, TypeInv
  <2>7. /\ read[Copy(p, 1)] + held[Copy(p, 1)] <= written[Head(0)]
        /\ written[Head(0)] + held[Head(0)] * tb.rate[Head(0)] - read[Copy(q, 1)] <= BufferSize
    BY <2>2 DEF IInv, BufferInv
  <2> QED
    BY <2>5, <2>6, <2>7, BufferAssumption
<1> QED
  BY Invariance, <1>1, PTL

\* No block of any pipe ends before all the samples have gone through it, although every
\* ending block marks buffers that others still work on.
THEOREM NoEarlyEnd == Spec => []EndsAfterWorkload
<1>1. IInv => EndsAfterWorkload
  <2> SUFFICES ASSUME IInv PROVE EndsAfterWorkload
    OBVIOUS
  <2>1. opt \in CommandLines
    BY DEF IInv, TypeInv
  <2>2. ASSUME NEW b \in tb.readers \cap tb.writers, ended[b]
        PROVE  written[b] = opt.samples * Rate(b)
    BY <2>1, <2>2, Workloads DEF IInv, BufferInv, EndInv, Rate
  <2>3. ASSUME NEW b \in tb.sinks, ended[b]
        PROVE  read[b] = Load
    BY <2>1, <2>3, Wiring, Workloads DEF IInv, EndInv
  <2> QED
    BY <2>2, <2>3 DEF EndsAfterWorkload
<1> QED
  BY Invariance, <1>1, PTL

\* Every graph implements the workload it is timed for: every sink takes in exactly its
\* samples before run() returns.
THEOREM ImplementsWorkload == Spec => WorkloadSpec
<1> DEFINE load == [k \in tb.sinks |-> Load]
           consumed == [k \in tb.sinks |-> read[k]]
<1>1. Init => Workload!Init
  <2> SUFFICES ASSUME Init PROVE Workload!Init
    OBVIOUS
  <2>1. opt \in CommandLines /\ read = [b \in tb.readers |-> 0] /\ returned = FALSE
    BY DEF Init
  <2>2. tb.sinks \subseteq tb.readers /\ Load \in Nat
    <3>1. opt.pipes \in Nat /\ opt.samples \in Nat
      BY <2>1, CommandLineFacts
    <3>2. opt.pipes * opt.samples \in Nat
      BY <3>1
    <3> QED
      BY <2>1, <3>1, <3>2, Wiring DEF Load
  <2>3. load \in [DOMAIN load -> Nat] /\ DOMAIN load = tb.sinks
    BY <2>2
  <2>4. consumed = [k \in DOMAIN load |-> 0]
    BY <2>1, <2>2, <2>3
  <2> QED
    BY <2>1, <2>3, <2>4 DEF Workload!Init, Workload!Sinks
<1>2. IInv /\ [Next]_vars => [Workload!Next]_(Workload!vars)
  <2> SUFFICES ASSUME IInv, [Next]_vars PROVE [Workload!Next]_(Workload!vars)
    OBVIOUS
  <2>1. /\ opt \in CommandLines /\ tb.sinks \subseteq tb.readers
        /\ tb.sinks \cap tb.writers = {} /\ tb.readers \subseteq tb.blocks
    BY Wiring DEF IInv, TypeInv
  <2>2. DOMAIN load = tb.sinks
    OBVIOUS
  <2>3. ASSUME UNCHANGED <<opt, read, returned>>
        PROVE  UNCHANGED Workload!vars
    <3>1. tb' = tb /\ Load' = Load
      BY <2>3 DEF tb, Load
    <3> QED
      BY <2>3, <3>1 DEF Workload!vars
  <2>4. ASSUME NEW b \in tb.blocks, Work(b) PROVE UNCHANGED Workload!vars
    BY <2>3, <2>4 DEF Work
  <2>5. ASSUME NEW b \in tb.blocks, End(b) PROVE UNCHANGED Workload!vars
    BY <2>3, <2>5 DEF End
  <2>6. ASSUME NEW b \in tb.blocks, Return(b)
        PROVE  Workload!Next \/ UNCHANGED Workload!vars
    <3>1. /\ held[b] > 0 /\ UNCHANGED <<opt, returned>>
          /\ read' = IF b \in tb.readers THEN [read EXCEPT ![b] = @ + held[b]] ELSE read
      BY <2>6 DEF Return
    <3>2. tb' = tb /\ Load' = Load /\ load' = load
      BY <3>1 DEF tb, Load
    <3>3. CASE b \in tb.sinks
      <4>1. ~returned
        BY <3>1 DEF IInv, EndInv, TypeInv
      <4>2. read \in [tb.readers -> Nat] /\ held[b] \in Nat
        BY DEF IInv, TypeInv
      <4>3. read[b] + held[b] <= Load /\ Load \in Nat
        BY <2>1, <3>3, Workloads DEF IInv, BufferInv
      <4>4. held[b] \in 1..(load[b] - consumed[b])
        BY <2>1, <3>1, <3>3, <4>2, <4>3
      <4>5. consumed' = [consumed EXCEPT ![b] = @ + held[b]]
        BY <2>1, <3>1, <3>2, <3>3, <4>2
      <4>6. Workload!Consume(b)
        BY <3>1, <3>2, <4>1, <4>4, <4>5 DEF Workload!Consume
      <4> QED
        BY <2>2, <3>3, <4>6 DEF Workload!Next, Workload!Sinks
    <3>4. CASE b \notin tb.sinks
      <4>1. consumed' = consumed
        BY <2>1, <3>1, <3>2, <3>4 DEF IInv, TypeInv
      <4> QED
        BY <3>1, <3>2, <4>1 DEF Workload!vars
    <3> QED
      BY <3>3, <3>4
  <2>7. CASE RunReturns
    <3>1. /\ ~returned /\ \A b \in tb.blocks : ended[b]
          /\ returned' = TRUE /\ UNCHANGED <<opt, read>>
      BY <2>7 DEF RunReturns
    <3>2. tb' = tb /\ Load' = Load /\ load' = load /\ consumed' = consumed
      BY <3>1 DEF tb, Load
    <3>3. \A k \in tb.sinks : read[k] = Load
      BY <2>1, <3>1, Workloads DEF IInv, EndInv
    <3>4. \A k \in tb.sinks : consumed[k] = load[k]
      BY <3>3
    <3> QED
      BY <2>2, <3>1, <3>2, <3>4 DEF Workload!Next, Workload!Return, Workload!Sinks
  <2>8. CASE UNCHANGED vars
    BY <2>3, <2>8 DEF vars
  <2> QED
    BY <2>4, <2>5, <2>6, <2>7, <2>8 DEF Next, Done, Thread
<1> QED
  BY <1>1, <1>2, Invariance, PTL DEF Spec, WorkloadSpec, Workload!Spec
-----------------------------------------------------------------------------
(* No run gets stuck *)

\* The guards of the three actions of Thread(b).
CanWork(b) ==
    /\ ~ended[b] /\ held[b] = 0
    /\ \E n \in 1..CallLimit : Fits(b, n) /\ (b \in tb.heads => n <= HeadLimit - written[b])
CanReturn(b) == held[b] > 0
CanEnd(b) == ~ended[b] /\ held[b] = 0 /\ (InputOver(b) \/ OutputOver(b) \/ HeadOver(b))
CanMove(b) == CanWork(b) \/ CanReturn(b) \/ CanEnd(b)

\* Some thread can go on as long as one has not ended.
NeverStuck == (\A b \in tb.blocks : ended[b]) \/ \E b \in tb.blocks : CanMove(b)

\* A thread that has ended has told its neighbours.
MarksInv ==
    \A b \in tb.blocks : ended[b] =>
        (b \in tb.writers => marked[b]) /\ \A a \in tb.inputs[b] : marked[a]

\* A block that both reads and writes.
Mid == tb.readers \cap tb.writers

\* How far down its pipe a block is.
Depth(b) == IF b[1] = "head" THEN 0 ELSE IF b[1] = "copy" THEN b[3] ELSE ChainLength(opt) + 1

\* A set of numbers has a least one.
LEMMA Least ==
    ASSUME NEW S, S \subseteq Nat, S # {}
    PROVE  \E m \in S : \A n \in S : m <= n
<1> DEFINE less == OpToRel(<, Nat)
<1>1. IsWellFoundedOn(less, Nat)
  BY NatLessThanWellFounded
<1>2. \A m, n \in Nat : m < n => <<m, n>> \in less
  BY Zenon DEF OpToRel
<1> HIDE DEF less
<1>3. PICK m \in S : \A n \in S : ~(<<n, m>> \in less)
  BY <1>1, WFMin
<1>4. \A n \in S : ~(n < m)
  BY <1>2, <1>3, Zenon
<1> QED
  BY <1>4

\* Upstream of a block in the middle of a pipe is one that passes on what it reads and is
\* nearer to the head; a sink has one input; every buffer has room for one item of every
\* pipe; every source feeds a head.
LEMMA Upstream ==
    ASSUME opt \in CommandLines
    PROVE  /\ \A b \in Mid \ tb.heads : \A a \in tb.inputs[b] :
                  a \in Mid /\ tb.rate[a] = 1 /\ Depth(a) < Depth(b)
           /\ \A b \in Mid : Depth(b) \in Nat
           /\ \A c \in tb.readers \ tb.writers : \A a, e \in tb.inputs[c] : a = e
           /\ \A a \in tb.writers : tb.rate[a] \in 1..BufferSize
           /\ \A s \in tb.writers \ tb.readers : tb.outputs[s] # {}
<1> DEFINE o == opt
<1>1. /\ tb.blocks = Blocks(o) /\ tb.writers = Writers(o) /\ tb.readers = Readers(o)
      /\ tb.heads = Heads(o) /\ tb.sinks = Sinks(o)
      /\ tb.inputs = [b \in Blocks(o) |-> Connected(o, b)]
      /\ tb.outputs = [b \in Writers(o) |-> {c \in Readers(o) : b \in Connected(o, c)}]
      /\ tb.rate = [b \in Writers(o) |-> RateOf(o, b)]
  BY DEF tb, Graphs
<1>2. o.pipes \in Nat \ {0} /\ ChainLength(o) \in Nat \ {0} /\ IsCommandLine(o)
  BY CommandLineFacts, CommandLinesAssumption
<1> HIDE DEF o
<1>3. o \in CommandLines
  BY DEF o
<1>4. \A b \in Blocks(o) : tb.inputs[b] = Connected(o, b)
  BY <1>1
<1>5. Mid \ tb.heads = Copies(o) \cup OutCopies(o) \cup Joins(o)
  BY <1>1, <1>3, BlockSets DEF Mid, Readers, Writers
<1>6. tb.readers \ tb.writers = Sinks(o) /\ tb.writers \ tb.readers = Sources(o)
  BY <1>1, <1>3, BlockSets DEF Readers
<1>7. \A b \in Copies(o) : Depth(b) = b[3] /\ b[3] \in 1..ChainLength(o)
  BY Names DEF Depth
<1>8. \A b \in Heads(o) : Depth(b) = 0
  BY Names DEF Depth
<1>9. \A b \in OutCopies(o) \cup Joins(o) : Depth(b) = ChainLength(o) + 1
  <2>1. \A b \in OutCopies(o) \cup Joins(o) : b[1] # "head" /\ b[1] # "copy"
    BY Names
  <2> QED
    BY <2>1 DEF Depth, o
<1>10. \A b \in Heads(o) \cup Copies(o) : RateOf(o, b) = 1 /\ b \in Writers(o) /\ b \in Mid
  BY <1>1, <1>3, BlockSets, Names DEF RateOf, Interleave, Mid
<1>11. ASSUME NEW b \in Mid \ tb.heads, NEW a \in tb.inputs[b]
       PROVE  a \in Mid /\ tb.rate[a] = 1 /\ Depth(a) < Depth(b)
  <2>1. a \in Connected(o, b)
    BY <1>1, <1>4, <1>11 DEF Mid, Blocks
  <2>2. CASE b \in Copies(o)
    <3>1. a \in Chain(o, b) /\ a \in Heads(o) \cup Copies(o)
      BY <1>3, <2>1, <2>2, ConnectedFacts, Inside
    <3>2. b[3] \in 1..ChainLength(o) /\ Depth(b) = b[3]
      BY <1>7, <2>2
    <3>3. CASE b[3] = 1
      <4>1. a = Head(Root(o, b[2])) /\ a[1] = "head"
        BY <3>1, <3>3 DEF Chain, Head
      <4>2. Depth(a) = 0
        BY <4>1 DEF Depth
      <4> QED
        BY <1>1, <1>10, <3>1, <3>2, <3>3, <4>2
    <3>4. CASE b[3] # 1
      <4>1. a = Copy(b[2], b[3] - 1)
        BY <3>1, <3>4 DEF Chain
      <4>2. Depth(a) = b[3] - 1
        BY <4>1 DEF Depth, Copy
      <4> QED
        BY <1>1, <1>2, <1>10, <3>1, <3>2, <4>2
    <3> QED
      BY <3>3, <3>4
  <2>3. CASE b \in OutCopies(o) \cup Joins(o)
    <3>1. PICK p : a = Copy(p, ChainLength(o))
      BY <1>3, <2>1, <2>3, ConnectedFacts
    <3>2. Depth(a) = ChainLength(o)
      BY <3>1 DEF Depth, Copy
    <3>3. a \in Heads(o) \cup Copies(o) \cup OutCopies(o) \cup Joins(o)
      BY <1>1, <1>3, <1>11, <2>1, InputFacts DEF Mid
    <3>4. a \in Copies(o)
      BY <3>1, <3>3, Names DEF Copy
    <3> QED
      BY <1>1, <1>2, <1>9, <1>10, <2>3, <3>2, <3>4
  <2> QED
    BY <1>5, <2>2, <2>3
<1>12. \A b \in Mid : Depth(b) \in Nat
  <2>1. \A b \in Mid : b \in Heads(o) \/ b \in Copies(o) \/ b \in OutCopies(o) \cup Joins(o)
    BY <1>1, <1>5
  <2> QED
    BY <1>2, <1>7, <1>8, <1>9, <2>1
<1>13. ASSUME NEW c \in tb.readers \ tb.writers, NEW a \in tb.inputs[c], NEW e \in tb.inputs[c]
       PROVE  a = e
  <2>1. c \in Sinks(o) /\ a \in Connected(o, c) /\ e \in Connected(o, c)
    BY <1>1, <1>4, <1>6, <1>13 DEF Blocks
  <2> QED
    BY <1>3, <2>1, ConnectedFacts
<1>14. ASSUME NEW a \in tb.writers PROVE tb.rate[a] \in 1..BufferSize
  <2>1. tb.rate[a] = IF a = Interleave THEN o.pipes ELSE 1
    BY <1>1 DEF RateOf
  <2>2. a = Interleave => o.config = "diamond"
    <3>1. a = Interleave => a \in Joins(o)
      BY <1>1, Names DEF Interleave, Writers
    <3> QED
      BY <3>1 DEF Joins
  <2>3. o.config = "diamond" => o.pipes <= BufferSize
    BY <1>2, BufferAssumption DEF IsCommandLine
  <2> QED
    BY <1>2, <2>1, <2>2, <2>3, BufferAssumption
<1>15. ASSUME NEW s \in tb.writers \ tb.readers PROVE tb.outputs[s] # {}
  <2>1. s \in Sources(o) /\ s \in Writers(o)
    BY <1>1, <1>6
  <2>2. PICK r \in Roots(o) : s = Source(r)
    BY <2>1 DEF Sources
  <2>3. Head(r) \in Heads(o) /\ Head(r)[2] = r
    BY <2>2 DEF Heads, Head
  <2>4. Connected(o, Head(r)) = {Source(r)}
    BY <1>3, <2>3, ConnectedFacts
  <2>5. Head(r) \in Readers(o)
    BY <2>3 DEF Readers
  <2> QED
    BY <1>1, <2>1, <2>2, <2>4, <2>5
<1> QED
  BY <1>11, <1>12, <1>13, <1>14, <1>15

\* An ended thread stays ended, and its marks stay.
LEMMA MarksStay ==
    ASSUME IInv, MarksInv, [Next]_vars
    PROVE  MarksInv'
<1>1. opt \in CommandLines /\ TypeInv
  BY DEF IInv, TypeInv
<1>2. \A a \in tb.blocks : tb.inputs[a] \subseteq tb.writers
  BY <1>1, Wiring
<1>3. ASSUME NEW b \in tb.blocks, End(b) PROVE MarksInv'
  <2>1. /\ ended' = [ended EXCEPT ![b] = TRUE] /\ opt' = opt
        /\ marked' = [a \in tb.writers |-> marked[a] \/ a = b \/ a \in tb.inputs[b]]
    BY <1>3 DEF End, Inputs
  <2>2. tb' = tb
    BY <2>1 DEF tb
  <2>3. \A c \in tb.blocks : ended'[c] => ended[c] \/ c = b
    BY <1>1, <2>1 DEF TypeInv
  <2>4. \A a \in tb.writers : marked[a] \/ a = b \/ a \in tb.inputs[b] => marked'[a]
    BY <2>1
  <2> QED
    BY <1>2, <2>2, <2>3, <2>4 DEF MarksInv
<1>4. CASE UNCHANGED <<opt, marked, ended>>
  <2>1. tb' = tb
    BY <1>4 DEF tb
  <2> QED
    BY <1>4, <2>1 DEF MarksInv
<1> QED
  BY <1>3, <1>4 DEF Next, Thread, Work, Return, RunReturns, Done, vars

\* Where nobody can move, the blocks in the middle have all ended: the one that has read
\* least, and among those the one nearest to the head, would otherwise have room, because
\* whoever reads from it has read no less, and input, because its input has read more.
LEMMA MiddleMoves ==
    ASSUME IInv, MarksInv, NEW x \in Mid, ~ended[x], \A b \in tb.blocks : ~CanMove(b)
    PROVE  FALSE
<1>1. opt \in CommandLines /\ TypeInv /\ BufferSize \in Nat \ {0} /\ CallLimit \in Nat \ {0}
  BY BufferAssumption, CommandLineFacts DEF IInv, TypeInv, CallLimit
<1>2. /\ tb.readers \subseteq tb.blocks /\ tb.writers \subseteq tb.blocks
      /\ \A c \in tb.readers : tb.inputs[c] \subseteq tb.writers
      /\ \A a \in tb.writers : /\ tb.outputs[a] = {c \in tb.readers : a \in tb.inputs[c]}
                               /\ tb.rate[a] \in 1..BufferSize
  BY <1>1, Wiring, Upstream
<1>3. ASSUME NEW c \in tb.readers, NEW a \in tb.inputs[c]
      PROVE  written[a] \in Nat /\ read[c] \in Nat /\ read[c] <= written[a]
  <2>1. held[c] \in Nat /\ read[c] + held[c] <= written[a]
    BY <1>1, <1>2 DEF IInv, TypeInv, BufferInv
  <2> QED
    BY <1>1, <1>2, <2>1 DEF TypeInv
<1>4. ASSUME NEW b \in tb.blocks, ~ended[b]
      PROVE  /\ Fits(b, 1) => b \in tb.heads /\ ~(1 <= HeadLimit - written[b])
             /\ ~InputOver(b) /\ ~OutputOver(b) /\ ~HeadOver(b)
  <2>1. held[b] = 0
    BY <1>1, <1>4 DEF CanMove, CanReturn, TypeInv
  <2>2. 1 \in 1..CallLimit
    BY <1>1
  <2> QED
    BY <1>4, <2>1, <2>2 DEF CanMove, CanWork, CanEnd
<1>5. PICK b \in Mid : /\ ~ended[b]
                       /\ \A c \in Mid : ~ended[c] => read[b] <= read[c]
                       /\ \A c \in Mid : ~ended[c] /\ read[c] = read[b] => Depth(b) <= Depth(c)
  <2> DEFINE R == {read[c] : c \in {e \in Mid : ~ended[e]}}
  <2>1. R \subseteq Nat /\ R # {}
    BY <1>1 DEF Mid, TypeInv
  <2>2. PICK m \in R : \A n \in R : m <= n
    BY <2>1, Least
  <2> DEFINE D == {Depth(c) : c \in {e \in Mid : ~ended[e] /\ read[e] = m}}
  <2>3. D \subseteq Nat /\ D # {}
    BY <1>1, <2>2, Upstream
  <2>4. PICK d \in D : \A n \in D : d <= n
    BY <2>3, Least
  <2>5. PICK b \in Mid : ~ended[b] /\ read[b] = m /\ Depth(b) = d
    BY <2>4
  <2> QED
    BY <2>2, <2>4, <2>5
<1>6. /\ b \in tb.readers /\ b \in tb.writers /\ b \in tb.blocks
      /\ read[b] \in Nat /\ written[b] \in Nat /\ tb.rate[b] \in 1..BufferSize
      /\ written[b] = read[b] * tb.rate[b] /\ written[b] <= opt.samples * tb.rate[b]
  BY <1>2, WritersBounded DEF Mid
<1>7. HasRoom(b, tb.rate[b])
  <2> SUFFICES ASSUME NEW c \in tb.readers, b \in tb.inputs[c]
               PROVE  tb.rate[b] <= BufferSize - (written[b] - read[c])
    BY <1>2, <1>6 DEF HasRoom, Outputs
  <2>1. read[c] \in Nat /\ read[c] <= written[b] /\ c \in tb.blocks
    BY <1>2, <1>3
  <2>2. written[b] <= read[c]
    <3>1. c \notin tb.heads
      BY <1>1, <1>6, Wiring
    <3>2. CASE ended[c]
      <4>1. read[c] = opt.samples * tb.rate[b]
        BY <1>1, <2>1, <3>1, <3>2, Workloads DEF IInv, EndInv
      <4> QED
        BY <1>6, <4>1
    <3>3. CASE ~ended[c] /\ c \in Mid
      <4>1. tb.rate[b] = 1 /\ read[b] <= read[c]
        BY <1>1, <1>5, <3>1, <3>3, Upstream
      <4> QED
        BY <1>6, <4>1
    <3>4. CASE ~ended[c] /\ c \notin Mid
      <4>1. c \in tb.readers \ tb.writers /\ \A a \in tb.inputs[c] : a = b
        BY <1>1, <3>4, Upstream DEF Mid
      <4>2. ~Fits(c, 1)
        BY <1>4, <2>1, <3>1, <3>4
      <4>3. ~(1 <= written[b] - read[c])
        BY <4>1, <4>2 DEF Fits, Inputs, Available
      <4> QED
        BY <1>6, <2>1, <4>3
    <3> QED
      BY <3>2, <3>3, <3>4
  <2> QED
    BY <1>1, <1>6, <2>1, <2>2
<1>8. ASSUME ~Fits(b, 1)
      PROVE  \E a \in tb.inputs[b] : /\ written[a] = read[b] /\ ~ended[a]
  <2>1. HasRoom(b, 1 * Rate(b))
    BY <1>6, <1>7 DEF Rate
  <2>2. PICK a \in tb.inputs[b] : ~(1 <= written[a] - read[b])
    BY <1>8, <2>1 DEF Fits, Inputs, Available
  <2>3. written[a] = read[b] /\ a \in tb.writers /\ a \in tb.blocks
    BY <1>2, <1>3, <1>6, <2>2
  <2>4. ~marked[a]
    <3>1. written[a] - read[b] = 0
      BY <1>6, <2>3
    <3> QED
      BY <1>4, <1>5, <1>6, <1>7, <2>2, <3>1 DEF InputOver, Inputs, Available, Rate
  <2> QED
    BY <2>3, <2>4 DEF MarksInv
<1>9. b \in tb.heads
  <2> SUFFICES ASSUME b \notin tb.heads PROVE FALSE
    OBVIOUS
  <2>1. PICK a \in tb.inputs[b] : written[a] = read[b] /\ ~ended[a]
    BY <1>4, <1>5, <1>6, <1>8
  <2>2. a \in Mid /\ tb.rate[a] = 1 /\ Depth(a) < Depth(b)
    BY <1>1, <2>1, Upstream
  <2>3. read[a] = read[b]
    <3>1. written[a] = read[a] * tb.rate[a] /\ read[a] \in Nat
      BY <2>2, WritersBounded DEF Mid
    <3> QED
      BY <2>1, <2>2, <3>1
  <2>4. Depth(a) \in Nat /\ Depth(b) \in Nat
    BY <1>1, <2>2, Upstream
  <2> QED
    BY <1>5, <2>1, <2>2, <2>3, <2>4
<1>10. CASE Fits(b, 1)
  <2>1. ~(1 <= opt.samples - written[b]) /\ written[b] # opt.samples
    BY <1>4, <1>5, <1>6, <1>9, <1>10 DEF HeadLimit, HeadOver
  <2>2. tb.rate[b] = 1 /\ opt.samples \in Nat
    BY <1>1, <1>9, Wiring, Workloads
  <2> QED
    BY <1>6, <2>1, <2>2
<1>11. CASE ~Fits(b, 1)
  <2>1. PICK a \in tb.inputs[b] : written[a] = read[b] /\ ~ended[a]
    BY <1>8, <1>11
  <2>2. a \in tb.writers \ tb.readers /\ a \in tb.blocks /\ a \notin tb.heads
    BY <1>1, <1>2, <1>6, <1>9, <2>1, Wiring
  <2>3. \A c \in tb.outputs[a] : c = b
    BY <1>1, <1>2, <1>6, <2>1, <2>2, Wiring
  <2>4. Fits(a, 1)
    <3>1. tb.inputs[a] = {}
      BY <1>1, <2>2, Wiring
    <3>2. 1 * tb.rate[a] <= BufferSize - (written[a] - read[b])
      BY <1>1, <1>2, <1>6, <2>1, <2>2
    <3> QED
      BY <2>3, <3>1, <3>2 DEF Fits, HasRoom, Inputs, Outputs, Rate
  <2> QED
    BY <1>4, <2>1, <2>2, <2>4
<1> QED
  BY <1>10, <1>11

\* With them the sinks end, and with the heads the sources.
LEMMA SomeoneMoves ==
    ASSUME IInv, MarksInv
    PROVE  NeverStuck
<1> SUFFICES ASSUME NEW x \in tb.blocks, ~ended[x], \A b \in tb.blocks : ~CanMove(b)
             PROVE  FALSE
  BY DEF NeverStuck
<1>1. opt \in CommandLines /\ TypeInv /\ BufferSize \in Nat \ {0} /\ CallLimit \in Nat \ {0}
  BY BufferAssumption, CommandLineFacts DEF IInv, TypeInv, CallLimit
<1>2. \A b \in Mid : ended[b]
  BY MiddleMoves
<1>3. held[x] = 0 /\ ~InputOver(x) /\ ~OutputOver(x) /\ (Fits(x, 1) => x \in tb.heads)
  <2>1. held[x] = 0
    BY <1>1 DEF CanMove, CanReturn, TypeInv
  <2>2. 1 \in 1..CallLimit
    BY <1>1
  <2> QED
    BY <2>1, <2>2 DEF CanMove, CanWork, CanEnd
<1>4. x \notin Mid /\ x \notin tb.heads
  BY <1>1, <1>2, Wiring DEF Mid
<1>5. CASE x \in tb.readers
  <2>1. x \notin tb.writers /\ tb.inputs[x] \subseteq Mid
    BY <1>1, <1>4, <1>5, Wiring DEF Mid
  <2>2. PICK a \in tb.inputs[x] : ~(1 <= written[a] - read[x])
    BY <1>3, <1>4, <2>1 DEF Fits, Inputs, Available
  <2>3. ended[a] /\ a \in tb.writers /\ a \in tb.blocks
    BY <1>1, <1>2, <2>1, <2>2, Wiring DEF Mid
  <2>4. marked[a]
    BY <2>3 DEF MarksInv
  <2>5. written[a] - read[x] = 0
    <3>1. held[x] \in Nat /\ read[x] + held[x] <= written[a]
      BY <1>1, <1>5, <2>2 DEF IInv, TypeInv, BufferInv
    <3>2. read[x] \in Nat /\ written[a] \in Nat
      BY <1>1, <1>5, <2>3 DEF TypeInv
    <3> QED
      BY <2>2, <3>1, <3>2
  <2> QED
    BY <1>3, <2>1, <2>2, <2>4, <2>5 DEF InputOver, Inputs, Available
<1>6. CASE x \in tb.writers \ tb.readers
  <2>1. tb.inputs[x] = {} /\ tb.rate[x] \in Nat /\ 1 * tb.rate[x] = tb.rate[x]
    BY <1>1, <1>6, Wiring
  <2>2. ~HasRoom(x, tb.rate[x])
    BY <1>3, <1>4, <2>1 DEF Fits, Inputs, Rate
  <2>3. PICK c \in tb.outputs[x] : TRUE
    BY <1>1, <1>6, Upstream
  <2>4. c \in tb.readers /\ x \in tb.inputs[c] /\ c \in tb.blocks
    BY <1>1, <1>6, <2>3, Wiring
  <2>5. ended[c]
    <3>1. c \in tb.heads
      BY <1>1, <1>6, <2>4, Wiring
    <3> QED
      BY <1>1, <1>2, <3>1, Wiring DEF Mid
  <2>6. marked[x]
    BY <2>4, <2>5 DEF MarksInv
  <2> QED
    BY <1>3, <1>6, <2>2, <2>6 DEF OutputOver, Rate
<1> QED
  BY <1>1, <1>5, <1>6, Wiring

\* However the threads interleave, and for every graph and every size of the buffers, until
\* all threads have ended one of them can work, return or end: neither the one head that
\* all pipes share nor the interleave that waits for every pipe can block a run for good.
THEOREM RunsNeverStuck == Spec => []NeverStuck
<1>1. Init => MarksInv
  <2> SUFFICES ASSUME Init PROVE MarksInv
    OBVIOUS
  <2>1. \A b \in tb.blocks : ~ended[b]
    BY DEF Init
  <2> QED
    BY <2>1 DEF MarksInv
<1> QED
  BY <1>1, MarksStay, SomeoneMoves, Invariance, PTL DEF Spec

\* How far block b has come: two stages for every item, one for the call it is in, one for
\* its end.
Stage(b) ==
    2 * (IF b \in tb.readers THEN read[b] ELSE written[b])
        + (IF held[b] > 0 THEN 1 ELSE 0) + (IF ended[b] THEN 1 ELSE 0)

\* No thread goes further than its workload, or the workload and one buffer for a source.
StagesBounded == \A b \in tb.blocks : Stage(b) \in 0..(2 * (Load + BufferSize) + 1)

\* No step sets a thread back, and every step but the last one takes a thread further.
StagesRise ==
    [][/\ \A b \in tb.blocks : Stage(b)' >= Stage(b)
       /\ ~returned' => \E b \in tb.blocks : Stage(b)' > Stage(b)]_vars

LEMMA LoadNat ==
    ASSUME opt \in CommandLines
    PROVE  Load \in Nat
BY CommandLineFacts DEF Load

LEMMA StageBound ==
    ASSUME IInv
    PROVE  StagesBounded
<1> SUFFICES ASSUME NEW b \in tb.blocks
             PROVE  Stage(b) \in 0..(2 * (Load + BufferSize) + 1)
  BY DEF StagesBounded
<1>1. opt \in CommandLines /\ TypeInv /\ BufferSize \in Nat /\ held[b] \in Nat
  BY BufferAssumption DEF IInv, TypeInv
<1>2. ended[b] => held[b] = 0
  BY DEF IInv, EndInv
<1>3. CASE b \in tb.readers
  <2>1. /\ read[b] \in Nat /\ read[b] + held[b] <= Takes(opt, b)
        /\ Takes(opt, b) \in Nat /\ Takes(opt, b) <= Load
    BY <1>1, <1>3, Workloads DEF IInv, TypeInv, BufferInv
  <2>2. Load \in Nat
    BY <1>1, LoadNat
  <2> QED
    BY <1>1, <1>2, <1>3, <2>1, <2>2 DEF Stage
<1>4. CASE b \in tb.writers \ tb.readers
  <2>1. PICK h \in tb.outputs[b] : TRUE
    BY <1>1, <1>4, Upstream
  <2>2. h \in tb.readers /\ b \in tb.inputs[h] /\ h \in tb.heads
    BY <1>1, <1>4, <2>1, Wiring
  <2>3. /\ written[b] + held[b] * tb.rate[b] - read[h] <= BufferSize
        /\ written[b] \in Nat /\ read[h] \in Nat /\ held[h] \in Nat
        /\ read[h] + held[h] <= Takes(opt, h)
        /\ Takes(opt, h) \in Nat /\ Takes(opt, h) <= Load
    BY <1>1, <1>4, <2>2, Workloads, Wiring DEF IInv, TypeInv, BufferInv
  <2>4. tb.rate[b] \in Nat \ {0} /\ Load \in Nat
    BY <1>1, <1>4, LoadNat, Wiring
  <2>5. held[b] * tb.rate[b] \in Nat /\ (held[b] > 0 => held[b] * tb.rate[b] >= 1)
    BY <1>1, <2>4
  <2>6. written[b] <= Load + BufferSize /\ (held[b] > 0 => written[b] + 1 <= Load + BufferSize)
    BY <1>1, <2>3, <2>4, <2>5
  <2> QED
    BY <1>1, <1>2, <1>4, <2>3, <2>4, <2>6 DEF Stage
<1> QED
  BY <1>1, <1>3, <1>4, Wiring

LEMMA StageStep ==
    ASSUME IInv, [Next]_vars, ~UNCHANGED vars
    PROVE  /\ \A b \in tb.blocks : Stage(b)' >= Stage(b)
           /\ ~returned' => \E b \in tb.blocks : Stage(b)' > Stage(b)
<1>1. opt \in CommandLines /\ TypeInv
  BY DEF IInv, TypeInv
<1>2. \A c \in tb.blocks : Stage(c) \in Nat
  BY <1>1, Wiring DEF Stage, TypeInv
<1>3. opt' = opt => \A c \in tb.blocks : Stage(c)' \in Nat
  <2>1. opt' = opt => tb' = tb
    BY DEF tb
  <2>2. TypeInv'
    BY Step DEF IInv
  <2> QED
    BY <1>1, <2>1, <2>2, Wiring DEF Stage, TypeInv
<1>4. ASSUME NEW b \in tb.blocks, opt' = opt, Stage(b)' > Stage(b),
             \A c \in tb.blocks : c # b => Stage(c)' = Stage(c)
      PROVE  /\ \A c \in tb.blocks : Stage(c)' >= Stage(c)
             /\ ~returned' => \E c \in tb.blocks : Stage(c)' > Stage(c)
  <2> SUFFICES ASSUME NEW c \in tb.blocks PROVE Stage(c)' >= Stage(c)
    BY <1>4
  <2>1. Stage(c) \in Nat /\ Stage(c)' \in Nat
    BY <1>2, <1>3, <1>4
  <2>2. CASE c = b
    BY <1>4, <2>1, <2>2
  <2>3. CASE c # b
    <3>1. Stage(c)' = Stage(c)
      BY <1>4, <2>3
    <3> QED
      BY <2>1, <3>1
  <2> QED
    BY <2>2, <2>3
<1>5. ASSUME NEW b \in tb.blocks, Work(b)
      PROVE  /\ opt' = opt /\ Stage(b)' > Stage(b)
             /\ \A c \in tb.blocks : c # b => Stage(c)' = Stage(c)
  <2>1. PICK n \in 1..CallLimit : held' = [held EXCEPT ![b] = n]
    BY <1>5 DEF Work
  <2>2. n \in Nat \ {0} /\ held[b] = 0 /\ UNCHANGED <<opt, written, read, ended>>
    BY <1>1, <1>5, BufferAssumption, CommandLineFacts DEF Work, CallLimit
  <2>3. tb' = tb /\ held'[b] = n /\ \A c \in tb.blocks : c # b => held'[c] = held[c]
    BY <1>1, <2>1, <2>2 DEF tb, TypeInv
  <2>4. \A c \in tb.blocks : c # b => Stage(c)' = Stage(c)
    BY <2>2, <2>3 DEF Stage
  <2>5. Stage(b)' = Stage(b) + 1
    BY <1>1, <2>2, <2>3, Wiring DEF Stage, TypeInv
  <2> QED
    BY <1>2, <2>2, <2>4, <2>5
<1>6. ASSUME NEW b \in tb.blocks, Return(b)
      PROVE  /\ opt' = opt /\ Stage(b)' > Stage(b)
             /\ \A c \in tb.blocks : c # b => Stage(c)' = Stage(c)
  <2>1. /\ held[b] > 0 /\ held[b] \in Nat /\ held' = [held EXCEPT ![b] = 0]
        /\ UNCHANGED <<opt, ended>>
        /\ written' = IF b \in tb.writers
                      THEN [written EXCEPT ![b] = @ + held[b] * tb.rate[b]] ELSE written
        /\ read' = IF b \in tb.readers THEN [read EXCEPT ![b] = @ + held[b]] ELSE read
    BY <1>1, <1>6 DEF Return, Rate, TypeInv
  <2>2. tb' = tb /\ held'[b] = 0 /\ \A c \in tb.blocks : c # b => held'[c] = held[c]
    BY <1>1, <2>1 DEF tb, TypeInv
  <2>3. /\ \A c \in tb.readers : c # b => read'[c] = read[c]
        /\ \A c \in tb.writers : c # b => written'[c] = written[c]
    BY <1>1, <2>1 DEF TypeInv
  <2>4. \A c \in tb.blocks : c # b => Stage(c)' = Stage(c)
    BY <1>1, <2>1, <2>2, <2>3, Wiring DEF Stage
  <2>5. CASE b \in tb.readers
    <3>1. read'[b] = read[b] + held[b] /\ read[b] \in Nat
      BY <1>1, <2>1, <2>5 DEF TypeInv
    <3> QED
      BY <2>1, <2>2, <2>4, <2>5, <3>1 DEF Stage
  <2>6. CASE b \in tb.writers \ tb.readers
    <3>1. written'[b] = written[b] + held[b] * tb.rate[b] /\ written[b] \in Nat
      BY <1>1, <2>1, <2>6 DEF TypeInv
    <3>2. held[b] * tb.rate[b] \in Nat /\ held[b] * tb.rate[b] >= 1
      <4>1. tb.rate[b] \in Nat \ {0}
        BY <1>1, <2>6, Wiring
      <4> QED
        BY <2>1, <4>1
    <3> HIDE DEF TypeInv
    <3>3. written'[b] \in Nat /\ written'[b] >= written[b] + 1
      BY <3>1, <3>2
    <3> QED
      BY <2>1, <2>2, <2>4, <2>6, <3>1, <3>3 DEF Stage
  <2> QED
    BY <1>1, <2>5, <2>6, Wiring
<1>7. ASSUME NEW b \in tb.blocks, End(b)
      PROVE  /\ opt' = opt /\ Stage(b)' > Stage(b)
             /\ \A c \in tb.blocks : c # b => Stage(c)' = Stage(c)
  <2>1. ~ended[b] /\ ended' = [ended EXCEPT ![b] = TRUE] /\ UNCHANGED <<opt, written, read, held>>
    BY <1>7 DEF End
  <2>2. tb' = tb /\ ended'[b] /\ \A c \in tb.blocks : c # b => ended'[c] = ended[c]
    BY <1>1, <2>1 DEF tb, TypeInv
  <2>3. \A c \in tb.blocks : c # b => Stage(c)' = Stage(c)
    BY <2>1, <2>2 DEF Stage
  <2>4. Stage(b)' = Stage(b) + 1
    BY <1>1, <2>1, <2>2, Wiring DEF Stage, TypeInv
  <2> QED
    BY <1>2, <2>1, <2>3, <2>4
<1>8. CASE RunReturns
  <2>1. returned' /\ \A c \in tb.blocks : Stage(c)' = Stage(c)
    BY <1>8 DEF RunReturns, Stage, tb
  <2> QED
    BY <1>2, <2>1
<1> QED
  BY <1>4, <1>5, <1>6, <1>7, <1>8 DEF Next, Done, Thread

\* No thread goes on for ever: the stages of every run are bounded, and
THEOREM StagesEnd == Spec => []StagesBounded
<1> QED
  BY StageBound, Invariance, PTL

\* every step of it but the return of tb->run() raises one and lowers none.  So a run takes
\* finitely many steps, and by RunsNeverStuck it can only stop where all threads have ended.
THEOREM EveryStepCounts == Spec => StagesRise
<1>1. IInv /\ [Next]_vars =>
        [/\ \A b \in tb.blocks : Stage(b)' >= Stage(b)
         /\ ~returned' => \E b \in tb.blocks : Stage(b)' > Stage(b)]_vars
  BY StageStep
<1> QED
  BY <1>1, Invariance, PTL DEF Spec, StagesRise
===============================================================================
