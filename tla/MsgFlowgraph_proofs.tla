-------------------------- MODULE MsgFlowgraph_proofs --------------------------
(***************************************************************************)
(* Proofs about MsgFlowgraph for any number of pipes and stages, both      *)
(* topologies, and any burst and number of repetitions.                    *)
(***************************************************************************)
EXTENDS MsgFlowgraph, SequenceTheorems, FiniteSetTheorems, WellFoundedInduction, TLAPS

\* Threads live only in a run, end only when finished, and count their subscribers right;
\* the messages posted are those of the completed repetitions and of the current burst.
Controlled ==
    /\ phase # "run" => \A b \in Blocks : pc[b] = "stopped"
    /\ phase = "run" => \A b \in Blocks : pc[b] \in {"notify", "stopped"} => finished[b]
    /\ \A b \in Blocks : IF pc[b] \in {"pub", "notify"} THEN served[b] < Len(Subscribers(b))
                                                        ELSE served[b] = 0
    /\ phase = "run" => burst = BurstSize
    /\ posted = rep * BurstSize + burst

\* A block of a pipe takes the messages in order of their numbers, and never more than were posted.
Counted ==
    \A c \in Pipeline : cur[c] = handled[c] /\ handled[c] + Len(inq[c]) <= posted

\* If "system" is drained first, a finished block of a pipe that has completed its pass has
\* handled everything that was ever posted.
DrainedWhenFinished ==
    order = "system" /\ phase = "run" =>
        \A c \in Pipeline :
            finished[c] /\ pc[c] \in {"check", "notify", "stopped"} =>
                inq[c] = <<>> /\ handled[c] = posted

Inv ==
    /\ TypeOK
    /\ Controlled
    /\ EdgesConserveMessages
    /\ Counted
    /\ DoneFollowsData
    /\ DrainedWhenFinished
-----------------------------------------------------------------------------
(* The graph *)

\* What the assumptions say of the parameters, with the chain's length made positive.
LEMMA Constants ==
    /\ Pipes \in Nat /\ Pipes > 0
    /\ LastStage \in Nat /\ LastStage > 0
    /\ BurstSize \in Nat /\ Repetitions \in Nat
    /\ Config \in {"fork", "diamond"}
  BY PipesAssumption, StagesAssumption, ConfigAssumption, BurstAssumption DEF LastStage

\* A block's name says what it is.
LEMMA Names ==
    /\ Src[3] = 0 /\ Src # Snk
    /\ \A p, q, s, t \in Int :
          /\ Stage(p, s)[2] = p /\ Stage(p, s)[3] = s
          /\ Stage(p, s) # Src /\ Stage(p, s) # Snk
          /\ Stage(p, s) = Stage(q, t) => p = q /\ s = t
  BY DEF Src, Snk, Stage

\* A block of a pipe is named after its pipe and stage, unlike source and sink.
LEMMA StageNames ==
    ASSUME NEW c \in StageBlocks
    PROVE  /\ c = Stage(c[2], c[3]) /\ c[2] \in 1..Pipes /\ c[3] \in 1..LastStage
           /\ c # Src /\ c # Snk
<1>1. PICK p \in 1..Pipes, s \in 1..LastStage : c = Stage(p, s)
  BY DEF StageBlocks
<1>2. p \in Int /\ s \in Int
  BY Constants
<1> QED
  BY <1>1, <1>2, Names

\* The source publishes to the first stage of every pipe, in order (create_fork, create_diamond).
LEMMA SrcSubscribers ==
    /\ Subscribers(Src) \in Seq(StageBlocks)
    /\ Len(Subscribers(Src)) = Pipes
    /\ \A k \in 1..Pipes : Subscribers(Src)[k] = Stage(k, 1)
<1> DEFINE f == [p \in 1..Pipes |-> Stage(p, 1)]
<1>1. Src \notin {Stage(p, LastStage) : p \in 1..Pipes}
  BY Names, Constants
<1>2. Subscribers(Src) = f
  BY <1>1, Names, Constants DEF Subscribers, create_fork, create_diamond
<1>3. f \in [1..Pipes -> StageBlocks]
  BY Constants DEF StageBlocks
<1>4. f \in Seq(StageBlocks) /\ Len(f) = Pipes
  BY <1>3, Constants
<1> QED
  BY <1>2, <1>4

\* A stage publishes to the next one; the last stage to the sink of a diamond, or to nobody.
LEMMA StageSubscribers ==
    ASSUME NEW c \in StageBlocks
    PROVE  Subscribers(c) = IF c[3] < LastStage THEN <<Stage(c[2], c[3] + 1)>>
                            ELSE IF Config = "diamond" THEN <<Snk>> ELSE <<>>
<1>1. c = Stage(c[2], c[3]) /\ c[2] \in 1..Pipes /\ c[3] \in 1..LastStage /\ c # Src /\ c # Snk
  BY StageNames
<1>2. c \in {Stage(p, LastStage) : p \in 1..Pipes} <=> c[3] = LastStage
  <2>1. ASSUME c \in {Stage(p, LastStage) : p \in 1..Pipes} PROVE c[3] = LastStage
    <3>1. PICK p \in 1..Pipes : c = Stage(p, LastStage)
      BY <2>1
    <3> QED
      BY <3>1, Names, Constants
  <2>2. ASSUME c[3] = LastStage PROVE c \in {Stage(p, LastStage) : p \in 1..Pipes}
    BY <1>1, <2>2
  <2> QED
    BY <2>1, <2>2
<1>3. c[3] \in Int /\ LastStage \in Int /\ c[3] <= LastStage
  BY <1>1, Constants
<1> QED
  BY <1>1, <1>2, <1>3, Constants DEF Subscribers, create_fork, create_diamond

\* The sink of a diamond publishes to nobody.
LEMMA SnkSubscribers == Config = "diamond" => Subscribers(Snk) = <<>>
<1>1. Snk \notin {Stage(p, LastStage) : p \in 1..Pipes}
  BY Names, Constants
<1> QED
  BY <1>1 DEF Subscribers, create_diamond

\* What the connections made by create_fork and create_diamond amount to: every block of a
\* pipe is the Position-th subscriber of its Upstream and of no other block.
LEMMA WiredUp ==
    ASSUME NEW c \in StageBlocks
    PROVE  /\ Upstream(c) \in Pipeline
           /\ Position(c) \in 1..Len(Subscribers(Upstream(c)))
           /\ Subscribers(Upstream(c))[Position(c)] = c
<1>1. c = Stage(c[2], c[3]) /\ c[2] \in 1..Pipes /\ c[3] \in 1..LastStage
  BY StageNames
<1>2. CASE c[3] = 1
  BY <1>1, <1>2, SrcSubscribers DEF Upstream, Position, Pipeline
<1>3. CASE c[3] # 1
  <2> DEFINE a == Stage(c[2], c[3] - 1)
  <2>1. Upstream(c) = a /\ Position(c) = 1
    BY <1>3 DEF Upstream, Position
  <2>2. c[3] - 1 \in 1..LastStage /\ c[3] - 1 < LastStage /\ (c[3] - 1) + 1 = c[3]
    BY <1>1, <1>3, Constants
  <2>3. a \in StageBlocks /\ a[2] = c[2] /\ a[3] = c[3] - 1
    BY <1>1, <2>2, Names, Constants DEF StageBlocks
  <2>4. Subscribers(a) = <<c>>
    BY <1>1, <2>2, <2>3, StageSubscribers
  <2> QED
    BY <2>1, <2>3, <2>4 DEF Pipeline
<1> QED
  BY <1>2, <1>3

\* Every subscriber of a block but the sink is a stage that has the block upstream.
LEMMA WiredDown ==
    ASSUME NEW b \in Blocks, NEW k \in 1..Len(Subscribers(b))
    PROVE  /\ Subscribers(b)[k] \in Blocks
           /\ Subscribers(b)[k] # b
           /\ Subscribers(b)[k] # Snk =>
                /\ Subscribers(b)[k] \in StageBlocks
                /\ Upstream(Subscribers(b)[k]) = b
                /\ Position(Subscribers(b)[k]) = k
<1>1. CASE b = Src
  <2>1. k \in 1..Pipes /\ Subscribers(b)[k] = Stage(k, 1)
    BY <1>1, SrcSubscribers
  <2>2. Stage(k, 1) \in StageBlocks /\ Stage(k, 1)[2] = k /\ Stage(k, 1)[3] = 1
        /\ Stage(k, 1) # Src
    BY <2>1, Names, Constants DEF StageBlocks
  <2> QED
    BY <1>1, <2>1, <2>2 DEF Upstream, Position, Blocks, Pipeline
<1>2. CASE b \in StageBlocks
  <2>1. b = Stage(b[2], b[3]) /\ b[2] \in 1..Pipes /\ b[3] \in 1..LastStage /\ b # Src /\ b # Snk
    BY <1>2, StageNames
  <2>2. CASE b[3] < LastStage
    <3> DEFINE c == Stage(b[2], b[3] + 1)
    <3>1. Subscribers(b) = <<c>>
      BY <1>2, <2>2, StageSubscribers
    <3>2. k = 1 /\ Subscribers(b)[k] = c
      BY <3>1
    <3>3. b[3] + 1 \in 1..LastStage /\ b[3] + 1 # 1 /\ (b[3] + 1) - 1 = b[3] /\ b[3] + 1 # b[3]
      BY <2>1, <2>2, Constants
    <3>4. c \in StageBlocks /\ c[2] = b[2] /\ c[3] = b[3] + 1
      <4>1. c \in StageBlocks
        BY <2>1, <3>3 DEF StageBlocks
      <4>2. c[2] = b[2] /\ c[3] = b[3] + 1
        BY DEF Stage
      <4> QED
        BY <4>1, <4>2
    <3>5. Upstream(c) = b /\ Position(c) = 1 /\ c # b
      BY <2>1, <3>3, <3>4 DEF Upstream, Position
    <3> QED
      BY <3>2, <3>4, <3>5 DEF Blocks, Pipeline
  <2>3. CASE ~(b[3] < LastStage)
    <3>1. Config = "diamond" /\ Subscribers(b)[k] = Snk
      BY <1>2, <2>3, StageSubscribers
    <3> QED
      BY <2>1, <3>1 DEF Blocks
  <2> QED
    BY <2>2, <2>3
<1>3. CASE b = Snk /\ Config = "diamond"
  BY <1>3, SnkSubscribers
<1> QED
  BY <1>1, <1>2, <1>3 DEF Blocks, Pipeline

\* The loops over subscribers have natural bounds.
LEMMA SubscriberCount ==
    ASSUME NEW b \in Blocks
    PROVE  /\ Len(Subscribers(b)) \in Nat
           /\ Subscribers(b) = <<>> <=> Len(Subscribers(b)) = 0
<1>1. CASE b = Src
  BY <1>1, SrcSubscribers, Constants
<1>2. CASE b \in StageBlocks
  BY <1>2, StageSubscribers
<1>3. CASE b = Snk /\ Config = "diamond"
  BY <1>3, SnkSubscribers
<1> QED
  BY <1>1, <1>2, <1>3 DEF Blocks, Pipeline

\* How the sets of blocks include each other.
LEMMA PipelineFacts ==
    /\ Src \in Pipeline /\ Src \in Blocks /\ Src \notin StageBlocks
    /\ Snk \notin Pipeline /\ Pipeline \subseteq Blocks /\ StageBlocks \subseteq Pipeline
  BY Names, StageNames DEF Pipeline, Blocks
-----------------------------------------------------------------------------
(* Queues of consecutive messages *)

\* Taking the first of consecutive messages leaves consecutive messages.
LEMMA QueueTail ==
    ASSUME NEW q \in Seq(Nat), q # <<>>, NEW n \in Nat, \A k \in 1..Len(q) : q[k] = n + k
    PROVE  /\ Head(q) = n + 1
           /\ Tail(q) \in Seq(Nat) /\ Len(q) \in Nat /\ Len(q) > 0 /\ Len(Tail(q)) = Len(q) - 1
           /\ \A k \in 1..Len(Tail(q)) : Tail(q)[k] = (n + 1) + k
<1>1. /\ Tail(q) \in Seq(Nat) /\ Len(Tail(q)) = Len(q) - 1 /\ Len(q) \in Nat /\ Len(q) > 0
      /\ Head(q) = q[1] /\ \A k \in 1..Len(Tail(q)) : Tail(q)[k] = q[k + 1]
  BY HeadTailProperties, EmptySeq
<1>2. ASSUME NEW k \in 1..Len(Tail(q)) PROVE Tail(q)[k] = (n + 1) + k
  <2>1. k + 1 \in 1..Len(q)
    BY <1>1
  <2> QED
    BY <1>1, <2>1
<1> QED
  BY <1>1, <1>2

\* Appending the next message keeps messages consecutive.
LEMMA QueueAppend ==
    ASSUME NEW q \in Seq(Nat), NEW n \in Nat, NEW m \in Nat, \A k \in 1..Len(q) : q[k] = n + k,
           m = n + Len(q) + 1
    PROVE  /\ Append(q, m) \in Seq(Nat) /\ Len(q) \in Nat /\ Len(Append(q, m)) = Len(q) + 1
           /\ \A k \in 1..Len(Append(q, m)) : Append(q, m)[k] = n + k
<1>1. /\ Append(q, m) \in Seq(Nat) /\ Len(Append(q, m)) = Len(q) + 1 /\ Len(q) \in Nat
      /\ \A k \in 1..Len(q) : Append(q, m)[k] = q[k]
      /\ Append(q, m)[Len(q) + 1] = m
  BY AppendProperties, LenProperties
<1>2. ASSUME NEW k \in 1..Len(Append(q, m)) PROVE Append(q, m)[k] = n + k
  <2>1. CASE k \in 1..Len(q)
    BY <1>1, <2>1
  <2>2. CASE k = Len(q) + 1
    BY <1>1, <2>2
  <2> QED
    BY <1>1, <2>1, <2>2
<1> QED
  BY <1>1, <1>2

-----------------------------------------------------------------------------
(* What a step of one thread leaves alone *)

\* A thread exists only while main is in run().
LEMMA Running ==
    ASSUME Inv, NEW b \in Blocks, pc[b] # "stopped"
    PROVE  phase = "run"
  BY DEF Inv, Controlled

\* A thread that moves between places where it does not publish.
LEMMA PublishedKept ==
    ASSUME TypeOK, NEW b \in Blocks, NEW x \in PCs, pc' = [pc EXCEPT ![b] = x],
           x # "pub", pc[b] # "pub", handled' = handled,
           \A a \in Blocks \ {b} : served'[a] = served[a],
           NEW a \in Blocks, NEW k
    PROVE  PublishedTo(a, k)' = PublishedTo(a, k)
  BY DEF TypeOK, PublishedTo

\* Conservation on the edges depends on queues, handlers and what was published only.
LEMMA EdgesKept ==
    ASSUME EdgesConserveMessages, UNCHANGED <<inq, handled, posted>>,
           \A c \in StageBlocks :
               PublishedTo(Upstream(c), Position(c))' = PublishedTo(Upstream(c), Position(c))
    PROVE  EdgesConserveMessages'
  BY DEF EdgesConserveMessages

\* A thread that moves between places where it has not begun to end.
LEMMA DoneSentKept ==
    ASSUME TypeOK, NEW b \in Blocks, NEW x \in PCs, pc' = [pc EXCEPT ![b] = x],
           x \notin {"notify", "stopped"}, pc[b] \notin {"notify", "stopped"},
           \A a \in Blocks \ {b} : served'[a] = served[a] /\ finished'[a] = finished[a],
           NEW a \in Blocks, NEW k
    PROVE  DoneSentTo(a, k)' = DoneSentTo(a, k)
  BY DEF TypeOK, DoneSentTo

\* The order of data and 'done' depends on the system queues and what was sent only.
LEMMA DoneKept ==
    ASSUME DoneFollowsData, UNCHANGED <<phase, sysq, finished>>,
           \A c \in StageBlocks :
               DoneSentTo(Upstream(c), Position(c))' = DoneSentTo(Upstream(c), Position(c))
    PROVE  DoneFollowsData'
  BY DEF DoneFollowsData

\* A pass of b over its queues that goes from one place to the next one without touching them.
LEMMA PassStep ==
    ASSUME Inv, NEW b \in Blocks, NEW x \in {"in", "system", "check", "wait"},
           pc[b] \in {"in", "system", "check", "wait"}, pc' = [pc EXCEPT ![b] = x],
           UNCHANGED <<mainVars, order, inq, sysq, finished, cur, served, handled>>,
           \* with "system" drained first, only an empty "in" leads to "check"
           order = "system" /\ x = "check" => pc[b] = "in" /\ inq[b] = <<>>
    PROVE  Inv'
<1>1. TypeOK /\ Controlled /\ EdgesConserveMessages /\ Counted /\ DoneFollowsData /\ DrainedWhenFinished
      /\ phase = "run" /\ x \in PCs
  BY Running DEF Inv, PCs
<1>2. UNCHANGED <<phase, rep, burst, posted, order, inq, sysq, finished, cur, served, handled>>
  BY DEF mainVars
<1>3. TypeOK'
  BY <1>1, <1>2 DEF TypeOK
<1>4. pc'[b] = x /\ \A a \in Blocks \ {b} : pc'[a] = pc[a]
  BY <1>1 DEF TypeOK
<1>5. Controlled'
  BY <1>1, <1>2, <1>4 DEF Controlled
<1>6. EdgesConserveMessages'
  <2>1. \A c \in StageBlocks :
            PublishedTo(Upstream(c), Position(c))' = PublishedTo(Upstream(c), Position(c))
    BY <1>1, <1>2, WiredUp, PipelineFacts, PublishedKept
  <2> QED
    BY <1>1, <1>2, <2>1, EdgesKept
<1>7. Counted'
  BY <1>1, <1>2 DEF Counted
<1>8. DoneFollowsData'
  <2>1. \A c \in StageBlocks :
            DoneSentTo(Upstream(c), Position(c))' = DoneSentTo(Upstream(c), Position(c))
    BY <1>1, <1>2, WiredUp, PipelineFacts, DoneSentKept
  <2> QED
    BY <1>1, <1>2, <2>1, DoneKept
<1>9. DrainedWhenFinished'
  <2> SUFFICES ASSUME order = "system", NEW c \in Pipeline, finished[c],
                      pc'[c] \in {"check", "notify", "stopped"}
               PROVE  inq[c] = <<>> /\ handled[c] = posted
    BY <1>2 DEF DrainedWhenFinished
  <2>1. CASE c # b
    BY <2>1, <1>1, <1>4, PipelineFacts DEF DrainedWhenFinished
  <2>2. CASE c = b
    <3>1. inq[c] = <<>>
      BY <2>2, <1>4
    <3>2. CASE c = Src
      BY <3>1, <3>2, <1>1, PipelineFacts DEF EdgesConserveMessages, TypeOK
    <3>3. CASE c \in StageBlocks
      <4> DEFINE a == Upstream(c)
                 k == Position(c)
      <4>1. a \in Pipeline /\ a \in Blocks
        BY <3>3, WiredUp, PipelineFacts
      <4>2. DoneSentTo(a, k)
        <5>1. sysq[c] + 1 = IF DoneSentTo(a, k) THEN 1 ELSE 0
          BY <3>3, <1>1 DEF DoneFollowsData
        <5>2. sysq[c] \in Nat
          BY <3>3, <1>1, PipelineFacts DEF TypeOK
        <5>3. CASE ~DoneSentTo(a, k)
          BY <5>1, <5>2, <5>3
        <5> QED
          BY <5>3
      <4>3. finished[a] /\ pc[a] \in {"notify", "stopped"}
        BY <4>1, <4>2, <1>1 DEF DoneSentTo, Controlled
      <4>4. handled[a] = posted
        BY <4>1, <4>3, <1>1 DEF DrainedWhenFinished
      <4>5. PublishedTo(a, k) = handled[a]
        BY <4>3 DEF PublishedTo
      <4>6. handled[c] + Len(inq[c]) = posted
        BY <3>3, <4>4, <4>5, <1>1 DEF EdgesConserveMessages
      <4> QED
        BY <3>1, <4>6, <1>1, PipelineFacts DEF TypeOK
    <3> QED
      BY <3>2, <3>3 DEF Pipeline
  <2> QED
    BY <2>1, <2>2
<1> QED
  BY <1>3, <1>5, <1>6, <1>7, <1>8, <1>9 DEF Inv

-----------------------------------------------------------------------------
(* The steps of a thread *)

\* A pass visits the two queues in their order and then checks for the end.
LEMMA AfterFacts ==
    ASSUME order \in Queues
    PROVE  /\ After("in") = IF order = "in" THEN "system" ELSE "check"
           /\ After("system") = IF order = "system" THEN "in" ELSE "check"
<1>1. (CHOOSE r \in Queues : r # "in") = "system"
  BY DEF Queues
<1>2. (CHOOSE r \in Queues : r # "system") = "in"
  BY DEF Queues
<1> QED
  BY <1>1, <1>2 DEF After, Queues

\* The invariant survives the end of the loop over the data queue.
LEMMA StepInDrained == ASSUME Inv, NEW b \in Blocks, InDrained(b) PROVE Inv'
<1>1. order \in Queues
  BY DEF Inv, TypeOK
<1>2. After("in") \in {"in", "system", "check", "wait"}
  BY <1>1, AfterFacts
<1> QED
  BY <1>2, PassStep DEF InDrained

\* The invariant survives the end of the loop over the system queue.
LEMMA StepSystemDrained == ASSUME Inv, NEW b \in Blocks, SystemDrained(b) PROVE Inv'
<1>1. order \in Queues
  BY DEF Inv, TypeOK
<1>2. After("system") \in {"in", "system", "check", "wait"}
      /\ ~(order = "system" /\ After("system") = "check")
  BY <1>1, AfterFacts
<1> QED
  BY <1>2, PassStep DEF SystemDrained

\* The invariant survives the wake-up of a waiting thread.
LEMMA StepWake == ASSUME Inv, NEW b \in Blocks, Wake(b) PROVE Inv'
<1>1. order \in {"in", "system", "check", "wait"} /\ order # "check"
  BY DEF Inv, TypeOK, Queues
<1> QED
  BY <1>1, PassStep DEF Wake

\* The invariant survives the decision to end or to wait.
LEMMA StepCheckFinished == ASSUME Inv, NEW b \in Blocks, CheckFinished(b) PROVE Inv'
<1>1. CASE ~finished[b]
  BY <1>1, PassStep DEF CheckFinished
<1>2. CASE finished[b]
  <2> DEFINE x == IF Subscribers(b) = <<>> THEN "stopped" ELSE "notify"
  <2>1. /\ TypeOK /\ Controlled /\ EdgesConserveMessages /\ Counted /\ DoneFollowsData /\ DrainedWhenFinished
        /\ phase = "run" /\ x \in PCs /\ x # "pub" /\ pc[b] = "check" /\ pc' = [pc EXCEPT ![b] = x]
    BY <1>2, Running DEF Inv, CheckFinished, PCs
  <2>2. UNCHANGED <<phase, rep, burst, posted, order, inq, sysq, finished, cur, served, handled>>
    BY DEF CheckFinished, mainVars
  <2>3. TypeOK'
    BY <2>1, <2>2 DEF TypeOK
  <2>4. pc'[b] = x /\ \A a \in Blocks \ {b} : pc'[a] = pc[a]
    BY <2>1 DEF TypeOK
  <2>5. served[b] = 0
    BY <2>1 DEF Controlled
  <2>6. Controlled'
    <3>1. x = "notify" => 0 < Len(Subscribers(b))
      BY SubscriberCount
    <3>2. \A a \in Blocks : IF pc'[a] \in {"pub", "notify"} THEN served[a] < Len(Subscribers(a))
                                                             ELSE served[a] = 0
      BY <2>1, <2>4, <2>5, <3>1 DEF Controlled
    <3> QED
      BY <1>2, <2>1, <2>2, <2>4, <3>2 DEF Controlled
  <2>7. EdgesConserveMessages'
    <3>1. \A c \in StageBlocks :
              PublishedTo(Upstream(c), Position(c))' = PublishedTo(Upstream(c), Position(c))
      BY <2>1, <2>2, WiredUp, PipelineFacts, PublishedKept
    <3> QED
      BY <2>1, <2>2, <3>1, EdgesKept
  <2>8. Counted'
    BY <2>1, <2>2 DEF Counted
  <2>9. DoneFollowsData'
    <3>1. ASSUME NEW c \in StageBlocks
          PROVE  DoneSentTo(Upstream(c), Position(c))' = DoneSentTo(Upstream(c), Position(c))
      <4> DEFINE a == Upstream(c)
                 k == Position(c)
      <4>1. a \in Blocks /\ k \in 1..Len(Subscribers(a))
        BY WiredUp, PipelineFacts
      <4>2. CASE a = b
        <5>1. ~DoneSentTo(a, k)
          BY <2>1, <4>2 DEF DoneSentTo
        <5>2. x = "notify"
          BY <4>1, <4>2
        <5>3. ~(k <= served[b])
          BY <2>5, <4>1, <4>2, SubscriberCount
        <5>4. ~DoneSentTo(a, k)'
          BY <2>2, <2>4, <4>2, <5>2, <5>3 DEF DoneSentTo
        <5> QED
          BY <5>1, <5>4 DEF DoneSentTo
      <4>3. CASE a # b
        BY <2>2, <2>4, <4>1, <4>3 DEF DoneSentTo
      <4> QED
        BY <4>2, <4>3
    <3> QED
      BY <2>1, <2>2, <3>1, DoneKept
  <2>10. DrainedWhenFinished'
    BY <2>1, <2>2, <2>4, PipelineFacts DEF DrainedWhenFinished
  <2> QED
    BY <2>3, <2>6, <2>7, <2>8, <2>9, <2>10 DEF Inv
<1> QED
  BY <1>1, <1>2

\* The invariant survives the handling of a 'done'.
LEMMA StepHandleDone == ASSUME Inv, NEW b \in Blocks, HandleDone(b) PROVE Inv'
<1>1. /\ TypeOK /\ Controlled /\ EdgesConserveMessages /\ Counted /\ DoneFollowsData /\ DrainedWhenFinished
      /\ phase = "run" /\ pc[b] = "system" /\ sysq[b] > 0
  BY Running DEF Inv, HandleDone
<1>2. /\ UNCHANGED <<phase, rep, burst, posted, order, pc, inq, cur, served, handled>>
      /\ sysq' = [sysq EXCEPT ![b] = @ - 1] /\ finished' = [finished EXCEPT ![b] = TRUE]
  BY DEF HandleDone, mainVars
<1>3. /\ sysq[b] \in Nat /\ sysq'[b] = sysq[b] - 1 /\ finished'[b] = TRUE
      /\ \A a \in Blocks \ {b} : sysq'[a] = sysq[a] /\ finished'[a] = finished[a]
      /\ sysq' \in [Blocks -> Nat] /\ finished' \in [Blocks -> BOOLEAN]
  BY <1>1, <1>2 DEF TypeOK
<1>4. TypeOK'
  BY <1>1, <1>2, <1>3 DEF TypeOK
<1>5. Controlled'
  <2>1. \A a \in Blocks : finished[a] => finished'[a]
    BY <1>3
  <2> QED
    BY <1>1, <1>2, <2>1 DEF Controlled
<1>6. EdgesConserveMessages'
  BY <1>1, <1>2 DEF EdgesConserveMessages, PublishedTo
<1>7. Counted'
  BY <1>1, <1>2 DEF Counted
<1>8. DoneFollowsData'
  <2>1. ASSUME NEW c \in Pipeline, c # b \/ ~finished[b]
        PROVE  sysq'[c] + (IF finished'[c] THEN 1 ELSE 0) = sysq[c] + (IF finished[c] THEN 1 ELSE 0)
    BY <1>3, <2>1, PipelineFacts
  <2>2. ASSUME b \in Pipeline PROVE ~finished[b]
    <3>1. CASE b = Src
      BY <1>1, <1>3, <3>1 DEF DoneFollowsData
    <3>2. CASE b \in StageBlocks
      <4>1. sysq[b] + (IF finished[b] THEN 1 ELSE 0) \in {0, 1}
        BY <1>1, <3>2 DEF DoneFollowsData
      <4> QED
        BY <1>1, <1>3, <4>1
    <3> QED
      BY <2>2, <3>1, <3>2 DEF Pipeline
  <2>3. \A c \in Pipeline :
          sysq'[c] + (IF finished'[c] THEN 1 ELSE 0) = sysq[c] + (IF finished[c] THEN 1 ELSE 0)
    BY <2>1, <2>2
  <2>5. sysq'[Src] + (IF finished'[Src] THEN 1 ELSE 0) = 1
    BY <1>1, <2>3, PipelineFacts DEF DoneFollowsData
  <2>6. ASSUME NEW c \in StageBlocks
        PROVE  sysq'[c] + (IF finished'[c] THEN 1 ELSE 0) =
                   IF DoneSentTo(Upstream(c), Position(c))' THEN 1 ELSE 0
    <3>1. DoneSentTo(Upstream(c), Position(c))' = DoneSentTo(Upstream(c), Position(c))
      <4> DEFINE a == Upstream(c)
                 k == Position(c)
      <4>1. a \in Blocks
        BY WiredUp, PipelineFacts
      <4>2. finished'[a] = finished[a] \/ pc[a] = "system"
        BY <1>1, <1>3, <4>1
      <4>3. DoneSentTo(a, k)' = DoneSentTo(a, k)
        BY <1>2, <4>2 DEF DoneSentTo
      <4> QED
        BY <4>3
    <3>2. sysq[c] + (IF finished[c] THEN 1 ELSE 0) =
              IF DoneSentTo(Upstream(c), Position(c)) THEN 1 ELSE 0
      BY <1>1 DEF DoneFollowsData
    <3> QED
      BY <2>3, <3>1, <3>2, PipelineFacts
  <2> QED
    BY <1>1, <1>2, <2>5, <2>6 DEF DoneFollowsData
<1>9. DrainedWhenFinished'
  BY <1>1, <1>2, <1>3, PipelineFacts DEF DrainedWhenFinished
<1> QED
  BY <1>4, <1>5, <1>6, <1>7, <1>8, <1>9 DEF Inv

\* The invariant survives taking a message out of the data queue.
LEMMA StepTakeMessage == ASSUME Inv, NEW b \in Blocks, TakeMessage(b) PROVE Inv'
<1> DEFINE x == IF Subscribers(b) = <<>> THEN "in" ELSE "pub"
<1>1. /\ TypeOK /\ Controlled /\ EdgesConserveMessages /\ Counted /\ DoneFollowsData /\ DrainedWhenFinished
      /\ phase = "run" /\ pc[b] = "in" /\ inq[b] # <<>> /\ x \in PCs
      /\ pc' = [pc EXCEPT ![b] = x]
  BY Running DEF Inv, TakeMessage, PCs
<1>2. /\ UNCHANGED <<phase, rep, burst, posted, order, sysq, finished, served>>
      /\ cur' = [cur EXCEPT ![b] = Head(inq[b])] /\ inq' = [inq EXCEPT ![b] = Tail(@)]
      /\ handled' = [handled EXCEPT ![b] = @ + 1]
  BY DEF TakeMessage, mainVars
<1>3. /\ inq[b] \in Seq(Nat) /\ Head(inq[b]) \in Nat /\ Tail(inq[b]) \in Seq(Nat)
      /\ Len(inq[b]) \in Nat /\ Len(inq[b]) > 0 /\ Len(Tail(inq[b])) = Len(inq[b]) - 1
      /\ handled[b] \in Nat
  BY <1>1, HeadTailProperties, EmptySeq DEF TypeOK
<1>4. /\ pc'[b] = x /\ cur'[b] = Head(inq[b]) /\ inq'[b] = Tail(inq[b]) /\ handled'[b] = handled[b] + 1
      /\ \A a \in Blocks \ {b} : /\ pc'[a] = pc[a] /\ cur'[a] = cur[a]
                              /\ inq'[a] = inq[a] /\ handled'[a] = handled[a]
  BY <1>1, <1>2 DEF TypeOK
<1>5. TypeOK'
  BY <1>1, <1>2, <1>3 DEF TypeOK
<1>6. served[b] = 0
  BY <1>1 DEF Controlled
<1>7. Controlled'
  <2>1. x = "pub" => 0 < Len(Subscribers(b))
    BY SubscriberCount
  <2>2. \A a \in Blocks : IF pc'[a] \in {"pub", "notify"} THEN served[a] < Len(Subscribers(a))
                                                           ELSE served[a] = 0
    BY <1>1, <1>4, <1>6, <2>1 DEF Controlled
  <2> QED
    BY <1>1, <1>2, <1>4, <2>2 DEF Controlled
<1>8. b \in Pipeline => /\ Head(inq[b]) = handled[b] + 1
                        /\ \A k \in 1..Len(Tail(inq[b])) : Tail(inq[b])[k] = (handled[b] + 1) + k
  BY <1>1, <1>3, QueueTail DEF EdgesConserveMessages
<1>9. EdgesConserveMessages'
  <2>1. \A c \in Pipeline : handled'[c] + Len(inq'[c]) = handled[c] + Len(inq[c])
    <3> SUFFICES ASSUME NEW c \in Pipeline
                 PROVE  handled'[c] + Len(inq'[c]) = handled[c] + Len(inq[c])
      OBVIOUS
    <3>1. CASE c = b
      BY <3>1, <1>3, <1>4
    <3>2. CASE c # b
      BY <3>2, <1>4, PipelineFacts
    <3> QED
      BY <3>1, <3>2
  <2>2. ASSUME NEW c \in StageBlocks
        PROVE  PublishedTo(Upstream(c), Position(c))' = PublishedTo(Upstream(c), Position(c))
    <3> DEFINE a == Upstream(c)
               k == Position(c)
    <3>1. a \in Blocks /\ k \in 1..Len(Subscribers(a))
      BY WiredUp, PipelineFacts
    <3>2. CASE a = b
      <4>1. PublishedTo(a, k) = handled[b]
        BY <1>1, <3>2 DEF PublishedTo
      <4>2. x = "pub" /\ k > 0
        BY <3>1, <3>2, SubscriberCount
      <4>3. PublishedTo(a, k)' = (handled[b] + 1) - 1
        BY <1>2, <1>4, <1>6, <3>2, <4>2 DEF PublishedTo
      <4> QED
        BY <1>3, <4>1, <4>3
    <3>3. CASE a # b
      BY <1>2, <1>4, <3>1, <3>3 DEF PublishedTo
    <3> QED
      BY <3>2, <3>3
  <2>3. \A c \in Pipeline : \A k \in 1..Len(inq'[c]) : inq'[c][k] = handled'[c] + k
    <3> SUFFICES ASSUME NEW c \in Pipeline
                 PROVE  \A k \in 1..Len(inq'[c]) : inq'[c][k] = handled'[c] + k
      OBVIOUS
    <3>1. CASE c = b
      BY <3>1, <1>4, <1>8
    <3>2. CASE c # b
      BY <3>2, <1>1, <1>4, PipelineFacts DEF EdgesConserveMessages
    <3> QED
      BY <3>1, <3>2
  <2>4. handled'[Src] + Len(inq'[Src]) = posted'
    BY <1>1, <1>2, <2>1, PipelineFacts DEF EdgesConserveMessages
  <2>5. \A c \in StageBlocks :
            handled'[c] + Len(inq'[c]) = PublishedTo(Upstream(c), Position(c))'
    <3> SUFFICES ASSUME NEW c \in StageBlocks
                 PROVE  handled'[c] + Len(inq'[c]) = PublishedTo(Upstream(c), Position(c))'
      OBVIOUS
    <3>1. handled[c] + Len(inq[c]) = PublishedTo(Upstream(c), Position(c))
      BY <1>1 DEF EdgesConserveMessages
    <3> QED
      BY <2>1, <2>2, <3>1, PipelineFacts
  <2> QED
    BY <2>3, <2>4, <2>5 DEF EdgesConserveMessages
<1>10. Counted'
  <2> SUFFICES ASSUME NEW c \in Pipeline
               PROVE  cur'[c] = handled'[c] /\ handled'[c] + Len(inq'[c]) <= posted
    BY <1>2 DEF Counted
  <2>1. CASE c = b
    BY <2>1, <1>1, <1>3, <1>4, <1>8 DEF Counted
  <2>2. CASE c # b
    BY <2>2, <1>1, <1>4, PipelineFacts DEF Counted
  <2> QED
    BY <2>1, <2>2
<1>11. DoneFollowsData'
  <2>1. \A c \in StageBlocks :
            DoneSentTo(Upstream(c), Position(c))' = DoneSentTo(Upstream(c), Position(c))
    BY <1>1, <1>2, WiredUp, PipelineFacts, DoneSentKept
  <2> QED
    BY <1>1, <1>2, <2>1, DoneKept
<1>12. DrainedWhenFinished'
  BY <1>1, <1>2, <1>4, PipelineFacts DEF DrainedWhenFinished
<1> QED
  BY <1>5, <1>7, <1>9, <1>10, <1>11, <1>12 DEF Inv

\* The invariant survives publishing a message to the next subscriber (handle_msg).
LEMMA StepHandleMsg == ASSUME Inv, NEW b \in Blocks, handle_msg(b) PROVE Inv'
<1> DEFINE n == served[b] + 1
           to == Subscribers(b)[n]
           last == n = Len(Subscribers(b))
           x == IF last THEN "in" ELSE "pub"
<1>1. /\ TypeOK /\ Controlled /\ EdgesConserveMessages /\ Counted /\ DoneFollowsData /\ DrainedWhenFinished
      /\ phase = "run" /\ pc[b] = "pub" /\ x \in PCs
      /\ pc' = [pc EXCEPT ![b] = x]
  BY Running DEF Inv, handle_msg, PCs
<1>2. /\ UNCHANGED <<phase, rep, burst, posted, order, sysq, finished, cur, handled>>
      /\ inq' = [inq EXCEPT ![to] = Append(@, cur[b])]
      /\ served' = [served EXCEPT ![b] = IF last THEN 0 ELSE @ + 1]
  BY DEF handle_msg, mainVars
<1>3. served[b] \in Nat /\ n \in 1..Len(Subscribers(b)) /\ Len(Subscribers(b)) \in Nat
  BY <1>1, SubscriberCount DEF Controlled, TypeOK
<1>4. /\ to \in Blocks /\ to # b
      /\ to # Snk => to \in StageBlocks /\ Upstream(to) = b /\ Position(to) = n
  BY <1>3, WiredDown
<1>5. b \in Pipeline
  <2>1. Snk \in Blocks => Len(Subscribers(Snk)) = 0
    BY SnkSubscribers, PipelineFacts DEF Blocks
  <2> QED
    BY <2>1, <1>3 DEF Blocks
<1>6. /\ inq[to] \in Seq(Nat) /\ cur[b] \in Nat /\ cur[b] = handled[b] /\ handled[b] \in Nat /\ posted \in Nat
      /\ handled[b] + Len(inq[b]) <= posted /\ Len(inq[b]) \in Nat
      /\ Append(inq[to], cur[b]) \in Seq(Nat) /\ handled[to] \in Nat
      /\ Len(inq[to]) \in Nat /\ Len(Append(inq[to], cur[b])) = Len(inq[to]) + 1
  <2>1. inq[to] \in Seq(Nat) /\ inq[b] \in Seq(Nat) /\ cur[b] \in Nat /\ handled[b] \in Nat
        /\ handled[to] \in Nat /\ posted \in Nat
    BY <1>1, <1>4 DEF TypeOK
  <2> QED
    BY <2>1, <1>1, <1>5, AppendProperties, LenProperties DEF Counted
<1>7. /\ pc'[b] = x /\ inq'[to] = Append(inq[to], cur[b]) /\ served'[b] = IF last THEN 0 ELSE n
      /\ \A a \in Blocks \ {b} : pc'[a] = pc[a] /\ served'[a] = served[a]
      /\ \A a \in Blocks \ {to} : inq'[a] = inq[a]
  BY <1>1, <1>2, <1>4 DEF TypeOK
<1>8. TypeOK'
  <2>1. inq' \in [Blocks -> Seq(Nat)]
    BY <1>1, <1>2, <1>4, <1>6 DEF TypeOK
  <2>2. served' \in [Blocks -> Nat]
    BY <1>1, <1>2, <1>3 DEF TypeOK
  <2> QED
    BY <2>1, <2>2, <1>1, <1>2 DEF TypeOK
<1>9. Controlled'
  <2>1. \A a \in Blocks : IF pc'[a] \in {"pub", "notify"} THEN served'[a] < Len(Subscribers(a))
                                                           ELSE served'[a] = 0
    BY <1>1, <1>3, <1>7 DEF Controlled
  <2> QED
    BY <1>1, <1>2, <1>7, <2>1 DEF Controlled
<1>10. PublishedTo(b, n) = handled[b] - 1
  BY <1>1, <1>3 DEF PublishedTo
<1>11. to # Snk => handled[to] + Len(inq[to]) = handled[b] - 1
  BY <1>1, <1>4, <1>10 DEF EdgesConserveMessages
<1>12. EdgesConserveMessages'
  <2>1. ASSUME NEW c \in StageBlocks, c # to
        PROVE  PublishedTo(Upstream(c), Position(c))' = PublishedTo(Upstream(c), Position(c))
    <3> DEFINE a == Upstream(c)
               k == Position(c)
    <3>1. a \in Blocks /\ k \in 1..Len(Subscribers(a)) /\ Subscribers(a)[k] = c
      BY WiredUp, PipelineFacts
    <3>2. CASE a = b
      <4>1. k # n /\ k \in Nat /\ k <= Len(Subscribers(b))
        BY <2>1, <3>1, <3>2, <1>3
      <4>2. PublishedTo(a, k) = IF served[b] < k THEN handled[b] - 1 ELSE handled[b]
        BY <1>1, <3>2 DEF PublishedTo
      <4>3. CASE last
        <5>1. ~(served[b] < k)
          BY <4>1, <4>3, <1>3
        <5>2. PublishedTo(a, k)' = handled[b]
          BY <4>3, <3>2, <1>2, <1>7 DEF PublishedTo
        <5> QED
          BY <4>2, <5>1, <5>2
      <4>4. CASE ~last
        <5>1. served[b] < k <=> n < k
          BY <4>1, <1>3
        <5>2. PublishedTo(a, k)' = IF n < k THEN handled[b] - 1 ELSE handled[b]
          BY <4>4, <3>2, <1>2, <1>7 DEF PublishedTo
        <5> QED
          BY <4>2, <5>1, <5>2
      <4> QED
        BY <4>3, <4>4
    <3>3. CASE a # b
      BY <1>2, <1>7, <3>1, <3>3 DEF PublishedTo
    <3> QED
      BY <3>2, <3>3
  <2>2. ASSUME NEW c \in StageBlocks, c = to
        PROVE  PublishedTo(Upstream(c), Position(c))' = handled[b]
    <3> DEFINE a == Upstream(c)
               k == Position(c)
    <3>1. a = b /\ k = n /\ a \in Blocks
      BY <2>2, <1>4, StageNames
    <3>2. PublishedTo(a, k)' = handled[b]
      BY <3>1, <1>2, <1>3, <1>7 DEF PublishedTo
    <3> QED
      BY <3>2
  <2>3. ASSUME NEW c \in StageBlocks
        PROVE  handled'[c] + Len(inq'[c]) = PublishedTo(Upstream(c), Position(c))'
    <3>1. CASE c = to
      <4>1. to # Snk
        BY <3>1, StageNames
      <4> QED
        <5>1. handled'[c] = handled[to] /\ Len(inq'[c]) = Len(inq[to]) + 1
          BY <3>1, <1>2, <1>6, <1>7
        <5>2. handled[to] + Len(inq[to]) = handled[b] - 1
              /\ handled[to] \in Nat /\ Len(inq[to]) \in Nat /\ handled[b] \in Nat
          BY <4>1, <1>6, <1>11
        <5>3. PublishedTo(Upstream(c), Position(c))' = handled[b]
          BY <3>1, <2>2
        <5> HIDE DEF to
        <5> QED
          BY <5>1, <5>2, <5>3
    <3>2. CASE c # to
      <4>1. handled[c] + Len(inq[c]) = PublishedTo(Upstream(c), Position(c))
        BY <1>1 DEF EdgesConserveMessages
      <4>2. inq'[c] = inq[c] /\ handled' = handled
        BY <3>2, <1>2, <1>7, PipelineFacts
      <4>3. PublishedTo(Upstream(c), Position(c))' = PublishedTo(Upstream(c), Position(c))
        BY <3>2, <2>1
      <4> QED
        BY <4>1, <4>2, <4>3
    <3> QED
      BY <3>1, <3>2
  <2>4. ASSUME NEW c \in Pipeline
        PROVE  \A k \in 1..Len(inq'[c]) : inq'[c][k] = handled'[c] + k
    <3>1. CASE c = to
      <4>1. c \in StageBlocks /\ to # Snk
        BY <3>1, <1>4, PipelineFacts
      <4>2. \A k \in 1..Len(inq[to]) : inq[to][k] = handled[to] + k
        BY <3>1, <1>1 DEF EdgesConserveMessages
      <4>3. cur[b] = handled[to] + Len(inq[to]) + 1
        BY <4>1, <1>6, <1>11
      <4>4. \A k \in 1..Len(Append(inq[to], cur[b])) : Append(inq[to], cur[b])[k] = handled[to] + k
        BY <4>2, <4>3, <1>6, QueueAppend
      <4> QED
        BY <3>1, <4>4, <1>2, <1>7
    <3>2. CASE c # to
      BY <3>2, <1>1, <1>2, <1>7, PipelineFacts DEF EdgesConserveMessages
    <3> QED
      BY <3>1, <3>2
  <2>5. handled'[Src] + Len(inq'[Src]) = posted'
    BY <1>1, <1>2, <1>4, <1>7, PipelineFacts DEF EdgesConserveMessages
  <2> QED
    BY <2>3, <2>4, <2>5 DEF EdgesConserveMessages
<1>13. Counted'
  <2> SUFFICES ASSUME NEW c \in Pipeline
               PROVE  cur[c] = handled[c] /\ handled[c] + Len(inq'[c]) <= posted
    BY <1>2 DEF Counted
  <2>1. CASE c = to
    <3>1. to # Snk /\ cur[c] = handled[c]
      BY <2>1, <1>1, PipelineFacts DEF Counted
    <3>2. Len(inq'[c]) = Len(inq[to]) + 1 /\ handled[to] + Len(inq[to]) = handled[b] - 1
      BY <2>1, <3>1, <1>6, <1>7, <1>11
    <3>3. /\ Len(inq[to]) \in Nat /\ handled[to] \in Nat /\ handled[b] \in Nat /\ posted \in Nat
          /\ Len(inq[b]) \in Nat /\ handled[b] + Len(inq[b]) <= posted
      BY <1>6
    <3> HIDE DEF to
    <3>4. handled[to] + (Len(inq[to]) + 1) <= posted
      BY <3>2, <3>3
    <3> QED
      BY <2>1, <3>1, <3>2, <3>4
  <2>2. CASE c # to
    BY <2>2, <1>1, <1>7, PipelineFacts DEF Counted
  <2> QED
    BY <2>1, <2>2
<1>14. DoneFollowsData'
  <2>1. \A c \in StageBlocks :
            DoneSentTo(Upstream(c), Position(c))' = DoneSentTo(Upstream(c), Position(c))
    BY <1>1, <1>2, <1>7, WiredUp, PipelineFacts, DoneSentKept
  <2> QED
    BY <1>1, <1>2, <2>1, DoneKept
<1>15. DrainedWhenFinished'
  <2>1. to # Snk => ~finished[to]
    <3> SUFFICES ASSUME to # Snk PROVE ~finished[to]
      OBVIOUS
    <3>1. ~DoneSentTo(b, n)
      BY <1>1 DEF DoneSentTo
    <3>2. sysq[to] + (IF finished[to] THEN 1 ELSE 0) = 0 /\ sysq[to] \in Nat
      BY <1>1, <1>4, <3>1 DEF DoneFollowsData, TypeOK
    <3> QED
      BY <3>2
  <2> SUFFICES ASSUME order = "system", NEW c \in Pipeline, finished[c],
                      pc'[c] \in {"check", "notify", "stopped"}
               PROVE  inq'[c] = <<>> /\ handled[c] = posted
    BY <1>2 DEF DrainedWhenFinished
  <2>2. c # to /\ c # b /\ c \in Blocks
    BY <2>1, <1>7, PipelineFacts
  <2> QED
    BY <2>2, <1>1, <1>7 DEF DrainedWhenFinished
<1> QED
  BY <1>8, <1>9, <1>12, <1>13, <1>14, <1>15 DEF Inv

\* The invariant survives passing the 'done' on to the next subscriber.
LEMMA StepNotifySubscriber == ASSUME Inv, NEW b \in Blocks, NotifySubscriber(b) PROVE Inv'
<1> DEFINE n == served[b] + 1
           to == Subscribers(b)[n]
           last == n = Len(Subscribers(b))
           x == IF last THEN "stopped" ELSE "notify"
<1>1. /\ TypeOK /\ Controlled /\ EdgesConserveMessages /\ Counted /\ DoneFollowsData /\ DrainedWhenFinished
      /\ phase = "run" /\ pc[b] = "notify" /\ x \in PCs /\ x # "pub"
      /\ pc' = [pc EXCEPT ![b] = x]
  BY Running DEF Inv, NotifySubscriber, PCs
<1>2. /\ UNCHANGED <<phase, rep, burst, posted, order, inq, finished, cur, handled>>
      /\ sysq' = [sysq EXCEPT ![to] = @ + 1]
      /\ served' = [served EXCEPT ![b] = IF last THEN 0 ELSE @ + 1]
  BY DEF NotifySubscriber, mainVars
<1>3. served[b] \in Nat /\ n \in 1..Len(Subscribers(b)) /\ Len(Subscribers(b)) \in Nat /\ finished[b]
  BY <1>1, SubscriberCount DEF Controlled, TypeOK
<1>4. /\ to \in Blocks /\ to # b
      /\ to # Snk => to \in StageBlocks /\ Upstream(to) = b /\ Position(to) = n
  BY <1>3, WiredDown
<1>5. sysq[to] \in Nat
  BY <1>1, <1>4 DEF TypeOK
<1>6. /\ pc'[b] = x /\ sysq'[to] = sysq[to] + 1 /\ served'[b] = IF last THEN 0 ELSE n
      /\ \A a \in Blocks \ {b} : pc'[a] = pc[a] /\ served'[a] = served[a]
      /\ \A a \in Blocks \ {to} : sysq'[a] = sysq[a]
  BY <1>1, <1>2, <1>4 DEF TypeOK
<1>7. TypeOK'
  <2>1. sysq' \in [Blocks -> Nat]
    BY <1>1, <1>2, <1>4, <1>5 DEF TypeOK
  <2>2. served' \in [Blocks -> Nat]
    BY <1>1, <1>2, <1>3 DEF TypeOK
  <2> QED
    BY <2>1, <2>2, <1>1, <1>2 DEF TypeOK
<1>8. Controlled'
  <2>1. \A a \in Blocks : IF pc'[a] \in {"pub", "notify"} THEN served'[a] < Len(Subscribers(a))
                                                           ELSE served'[a] = 0
    BY <1>1, <1>3, <1>6 DEF Controlled
  <2> QED
    BY <1>1, <1>2, <1>3, <1>6, <2>1 DEF Controlled
<1>9. EdgesConserveMessages'
  <2>1. \A c \in StageBlocks :
            PublishedTo(Upstream(c), Position(c))' = PublishedTo(Upstream(c), Position(c))
    BY <1>1, <1>2, <1>6, WiredUp, PipelineFacts, PublishedKept
  <2> QED
    BY <1>1, <1>2, <2>1, EdgesKept
<1>10. Counted'
  BY <1>1, <1>2 DEF Counted
<1>11. DoneFollowsData'
  <2>1. ASSUME NEW c \in StageBlocks, c # to
        PROVE  DoneSentTo(Upstream(c), Position(c))' <=> DoneSentTo(Upstream(c), Position(c))
    <3> DEFINE a == Upstream(c)
               k == Position(c)
    <3>1. a \in Blocks /\ k \in 1..Len(Subscribers(a)) /\ Subscribers(a)[k] = c
      BY WiredUp, PipelineFacts
    <3>2. CASE a = b
      <4>1. k # n /\ k \in Nat /\ k <= Len(Subscribers(b))
        BY <2>1, <3>1, <3>2, <1>3
      <4>2. DoneSentTo(a, k) <=> k <= served[b]
        BY <1>1, <3>2 DEF DoneSentTo
      <4>3. CASE last
        <5>1. k <= served[b]
          BY <4>1, <4>3, <1>3
        <5>2. DoneSentTo(a, k)'
          BY <4>3, <3>2, <1>2, <1>3, <1>6 DEF DoneSentTo
        <5> QED
          BY <4>2, <5>1, <5>2
      <4>4. CASE ~last
        <5>1. k <= served[b] <=> k <= n
          BY <4>1, <1>3
        <5>2. DoneSentTo(a, k)' <=> k <= n
          BY <4>4, <3>2, <1>2, <1>6 DEF DoneSentTo
        <5> QED
          BY <4>2, <5>1, <5>2
      <4> QED
        BY <4>3, <4>4
    <3>3. CASE a # b
      BY <1>2, <1>6, <3>1, <3>3 DEF DoneSentTo
    <3> QED
      BY <3>2, <3>3
  <2>2. ASSUME NEW c \in StageBlocks, c = to
        PROVE  DoneSentTo(Upstream(c), Position(c))' /\ ~DoneSentTo(Upstream(c), Position(c))
    <3> DEFINE a == Upstream(c)
               k == Position(c)
    <3>1. a = b /\ k = n /\ a \in Blocks
      BY <2>2, <1>4, StageNames
    <3>2. DoneSentTo(a, k)'
      BY <3>1, <1>2, <1>3, <1>6 DEF DoneSentTo
    <3>3. ~DoneSentTo(a, k)
      BY <3>1, <1>1, <1>3 DEF DoneSentTo
    <3> QED
      BY <3>2, <3>3
  <2>3. ASSUME NEW c \in StageBlocks
        PROVE  sysq'[c] + (IF finished[c] THEN 1 ELSE 0) =
                   IF DoneSentTo(Upstream(c), Position(c))' THEN 1 ELSE 0
    <3>1. sysq[c] + (IF finished[c] THEN 1 ELSE 0) =
              IF DoneSentTo(Upstream(c), Position(c)) THEN 1 ELSE 0
      BY <1>1 DEF DoneFollowsData
    <3>2. CASE c = to
      <4>1. sysq[c] + (IF finished[c] THEN 1 ELSE 0) = 0 /\ sysq'[c] = sysq[c] + 1 /\ sysq[c] \in Nat
        BY <3>1, <3>2, <2>2, <1>5, <1>6
      <4> HIDE DEF to
      <4>2. sysq'[c] + (IF finished[c] THEN 1 ELSE 0) = 1
        BY <4>1
      <4> QED
        BY <4>2, <3>2, <2>2
    <3>3. CASE c # to
      <4>1. sysq'[c] = sysq[c]
        BY <3>3, <1>6, PipelineFacts
      <4>2. DoneSentTo(Upstream(c), Position(c))' <=> DoneSentTo(Upstream(c), Position(c))
        BY <3>3, <2>1
      <4> QED
        BY <3>1, <4>1, <4>2
    <3> QED
      BY <3>2, <3>3
  <2>4. sysq'[Src] + (IF finished[Src] THEN 1 ELSE 0) = 1
    <3>1. Src # to
      BY <1>4, PipelineFacts
    <3> QED
      BY <3>1, <1>1, <1>6, PipelineFacts DEF DoneFollowsData
  <2> QED
    BY <1>1, <1>2, <2>3, <2>4 DEF DoneFollowsData
<1>12. DrainedWhenFinished'
  BY <1>1, <1>2, <1>6, PipelineFacts DEF DrainedWhenFinished
<1> QED
  BY <1>7, <1>8, <1>9, <1>10, <1>11, <1>12 DEF Inv

\* The invariant survives every step of a block's thread.
LEMMA StepThread == ASSUME Inv, NEW b \in Blocks, Thread(b) PROVE Inv'
  BY StepTakeMessage, StepHandleMsg, StepInDrained, StepHandleDone, StepSystemDrained,
     StepCheckFinished, StepWake, StepNotifySubscriber DEF Thread

-----------------------------------------------------------------------------
(* The steps of main *)

\* The invariant survives main's post of a message.
LEMMA StepPostMessage == ASSUME Inv, PostMessage PROVE Inv'
<1>1. /\ TypeOK /\ Controlled /\ EdgesConserveMessages /\ Counted /\ DoneFollowsData
      /\ phase = "post" /\ burst < BurstSize
      /\ burst' = burst + 1 /\ posted' = posted + 1
      /\ inq' = [inq EXCEPT ![Src] = Append(@, posted + 1)]
      /\ UNCHANGED <<phase, rep, order, pc, sysq, finished, cur, served, handled>>
  BY DEF Inv, PostMessage
<1>2. /\ inq[Src] \in Seq(Nat) /\ posted \in Nat /\ handled[Src] \in Nat /\ burst \in Nat
      /\ handled[Src] + Len(inq[Src]) = posted /\ Len(inq[Src]) \in Nat
      /\ \A k \in 1..Len(inq[Src]) : inq[Src][k] = handled[Src] + k
  BY <1>1, PipelineFacts, LenProperties DEF TypeOK, EdgesConserveMessages
<1>3. /\ inq'[Src] = Append(inq[Src], posted + 1) /\ \A a \in Blocks \ {Src} : inq'[a] = inq[a]
  BY <1>1, PipelineFacts DEF TypeOK
<1>4. /\ inq'[Src] \in Seq(Nat) /\ Len(inq'[Src]) = Len(inq[Src]) + 1
      /\ \A k \in 1..Len(inq'[Src]) : inq'[Src][k] = handled[Src] + k
  <2> DEFINE q == inq[Src]
             n == handled[Src]
             m == posted + 1
  <2>1. m \in Nat /\ m = n + Len(q) + 1 /\ q \in Seq(Nat) /\ n \in Nat
        /\ \A k \in 1..Len(q) : q[k] = n + k
    BY <1>2
  <2>2. inq'[Src] = Append(q, m)
    BY <1>3
  <2> HIDE DEF q, n, m
  <2>3. /\ Append(q, m) \in Seq(Nat) /\ Len(Append(q, m)) = Len(q) + 1
        /\ \A k \in 1..Len(Append(q, m)) : Append(q, m)[k] = n + k
    BY <2>1, QueueAppend
  <2> QED
    BY <2>2, <2>3 DEF q, n
<1>5. TypeOK'
  BY <1>1, <1>2, <1>3, <1>4, PipelineFacts DEF TypeOK
<1>6. Controlled'
  <2>1. rep * BurstSize \in Nat
    BY <1>1, Constants DEF TypeOK
  <2> QED
    BY <1>1, <1>2, <2>1 DEF Controlled
<1>7. EdgesConserveMessages'
  <2>1. \A c \in StageBlocks : /\ inq'[c] = inq[c]
                               /\ PublishedTo(Upstream(c), Position(c))' = PublishedTo(Upstream(c), Position(c))
    BY <1>1, <1>3, PipelineFacts DEF PublishedTo
  <2>2. handled'[Src] + Len(inq'[Src]) = posted'
    <3>1. handled'[Src] = handled[Src] /\ posted' = posted + 1
      BY <1>1
    <3> QED
      BY <3>1, <1>2, <1>4
  <2>3. ASSUME NEW c \in Pipeline PROVE \A k \in 1..Len(inq'[c]) : inq'[c][k] = handled'[c] + k
    <3>1. CASE c = Src
      BY <3>1, <1>1, <1>4
    <3>2. CASE c # Src
      BY <3>2, <1>1, <1>3, PipelineFacts DEF EdgesConserveMessages
    <3> QED
      BY <3>1, <3>2
  <2> QED
    BY <1>1, <2>1, <2>2, <2>3 DEF EdgesConserveMessages
<1>8. Counted'
  <2> SUFFICES ASSUME NEW c \in Pipeline
               PROVE  cur[c] = handled[c] /\ handled[c] + Len(inq'[c]) <= posted + 1
    BY <1>1 DEF Counted
  <2>1. cur[c] = handled[c] /\ handled[c] + Len(inq[c]) <= posted
    BY <1>1 DEF Counted
  <2>2. handled[c] \in Nat /\ Len(inq[c]) \in Nat
    BY <1>1, PipelineFacts, LenProperties DEF TypeOK
  <2>3. CASE c = Src
    BY <2>1, <2>2, <2>3, <1>2, <1>4
  <2>4. CASE c # Src
    BY <2>1, <2>2, <2>4, <1>2, <1>3, PipelineFacts
  <2> QED
    BY <2>3, <2>4
<1>9. DoneFollowsData'
  BY <1>1 DEF DoneFollowsData
<1>10. DrainedWhenFinished'
  BY <1>1 DEF DrainedWhenFinished
<1> QED
  BY <1>5, <1>6, <1>7, <1>8, <1>9, <1>10 DEF Inv

\* The invariant survives main's post of 'done' and the start of run().
LEMMA StepPostDoneAndRun == ASSUME Inv, PostDoneAndRun PROVE Inv'
<1>1. /\ TypeOK /\ Controlled /\ EdgesConserveMessages /\ Counted /\ DoneFollowsData
      /\ phase = "post" /\ burst = BurstSize /\ phase' = "run"
      /\ sysq' = [sysq EXCEPT ![Src] = @ + 1]
      /\ pc' = [b \in Blocks |-> order]
      /\ finished' = [b \in Blocks |-> FALSE]
      /\ UNCHANGED <<rep, burst, posted, order, inq, cur, served, handled>>
  BY DEF Inv, PostDoneAndRun
<1>2. /\ order \in PCs /\ order \notin {"pub", "notify", "stopped", "check"}
      /\ \A b \in Blocks : pc[b] = "stopped" /\ pc'[b] = order /\ finished'[b] = FALSE
      /\ sysq'[Src] = sysq[Src] + 1 /\ \A b \in Blocks \ {Src} : sysq'[b] = sysq[b]
  BY <1>1, PipelineFacts DEF TypeOK, Controlled, Queues, PCs
<1>3. TypeOK'
  BY <1>1, <1>2, PipelineFacts DEF TypeOK, Phases
<1>4. Controlled'
  BY <1>1, <1>2 DEF Controlled
<1>5. EdgesConserveMessages'
  <2>1. ASSUME NEW c \in StageBlocks
        PROVE  PublishedTo(Upstream(c), Position(c))' = PublishedTo(Upstream(c), Position(c))
    BY <1>1, <1>2, WiredUp, PipelineFacts DEF PublishedTo
  <2> QED
    BY <1>1, <2>1, EdgesKept
<1>6. Counted'
  BY <1>1 DEF Counted
<1>7. DoneFollowsData'
  <2>1. sysq[Src] = 0 /\ \A c \in StageBlocks : sysq[c] = 0
    BY <1>1, PipelineFacts DEF DoneFollowsData, TypeOK
  <2>2. \A c \in StageBlocks : ~DoneSentTo(Upstream(c), Position(c))'
    BY <1>2, WiredUp, PipelineFacts DEF DoneSentTo
  <2> QED
    BY <1>1, <1>2, <2>1, <2>2, PipelineFacts DEF DoneFollowsData
<1>8. DrainedWhenFinished'
  BY <1>1, <1>2, PipelineFacts DEF DrainedWhenFinished
<1> QED
  BY <1>3, <1>4, <1>5, <1>6, <1>7, <1>8 DEF Inv

\* The invariant survives the return of run() and the next repetition.
LEMMA StepRunReturns == ASSUME Inv, RunReturns PROVE Inv'
<1>1. /\ TypeOK /\ Controlled /\ EdgesConserveMessages /\ Counted /\ DoneFollowsData
      /\ phase = "run" /\ \A b \in Blocks : pc[b] = "stopped"
      /\ rep' = rep + 1 /\ burst' = 0 /\ phase' \in {"post", "exit"}
      /\ UNCHANGED <<posted, order, pc, inq, sysq, finished, cur, served, handled>>
  BY DEF Inv, RunReturns
<1>2. \A b \in Blocks : finished[b]
  BY <1>1 DEF Controlled
<1>3. TypeOK'
  BY <1>1 DEF TypeOK, Phases
<1>4. Controlled'
  <2>1. posted = (rep + 1) * BurstSize + 0
    BY <1>1, Constants DEF Controlled, TypeOK
  <2> QED
    BY <1>1, <2>1 DEF Controlled
<1>5. EdgesConserveMessages'
  BY <1>1 DEF EdgesConserveMessages, PublishedTo
<1>6. Counted'
  BY <1>1 DEF Counted
<1>7. DoneFollowsData'
  <2>1. ASSUME NEW c \in Pipeline PROVE sysq[c] = 0
    <3>1. sysq[c] \in Nat /\ finished[c]
      BY <1>1, <1>2, PipelineFacts DEF TypeOK
    <3>2. sysq[c] + 1 \in {0, 1}
      <4>1. CASE c = Src
        BY <4>1, <1>1, <3>1 DEF DoneFollowsData
      <4>2. CASE c \in StageBlocks
        BY <4>2, <1>1, <3>1 DEF DoneFollowsData
      <4> QED
        BY <4>1, <4>2 DEF Pipeline
    <3> QED
      BY <3>1, <3>2
  <2> QED
    BY <1>1, <2>1, PipelineFacts DEF DoneFollowsData
<1>8. DrainedWhenFinished'
  BY <1>1 DEF DrainedWhenFinished
<1> QED
  BY <1>3, <1>4, <1>5, <1>6, <1>7, <1>8 DEF Inv

\* The flowgraph starts in the invariant.
LEMMA InvInit == Init => Inv
<1> SUFFICES ASSUME Init PROVE Inv
  OBVIOUS
<1>1. /\ \A b \in Blocks : /\ pc[b] = "stopped" /\ inq[b] = <<>> /\ sysq[b] = 0 /\ finished[b] = FALSE
                            /\ cur[b] = 0 /\ served[b] = 0 /\ handled[b] = 0
      /\ rep = 0 /\ burst = 0 /\ posted = 0 /\ phase \in {"post", "exit"} /\ order \in Queues
  BY DEF Init
<1>2. TypeOK
  BY DEF Init, TypeOK, Phases, PCs
<1>3. Controlled
  BY <1>1, Constants DEF Controlled
<1>4. EdgesConserveMessages
  <2>1. \A c \in StageBlocks : PublishedTo(Upstream(c), Position(c)) = 0
    BY <1>1, WiredUp, PipelineFacts DEF PublishedTo
  <2> QED
    BY <1>1, <2>1, PipelineFacts DEF EdgesConserveMessages
<1>5. Counted
  BY <1>1, PipelineFacts DEF Counted
<1>6. DoneFollowsData
  BY <1>1, PipelineFacts DEF DoneFollowsData
<1>7. DrainedWhenFinished
  BY <1>1 DEF DrainedWhenFinished
<1> QED
  BY <1>2, <1>3, <1>4, <1>5, <1>6, <1>7 DEF Inv

\* Every step keeps the invariant.
LEMMA InvNext == Inv /\ [Next]_vars => Inv'
<1> SUFFICES ASSUME Inv, [Next]_vars PROVE Inv'
  OBVIOUS
<1>1. CASE Main
  BY <1>1, StepPostMessage, StepPostDoneAndRun, StepRunReturns DEF Main
<1>2. CASE \E b \in Blocks : Thread(b)
  BY <1>2, StepThread
<1>3. CASE Done \/ UNCHANGED vars
  <2>1. UNCHANGED vars
    BY <1>3 DEF Done
  <2> QED
    BY <2>1 DEF vars, Inv, TypeOK, Controlled, EdgesConserveMessages, PublishedTo, Counted,
               DoneFollowsData, DoneSentTo, DrainedWhenFinished
<1> QED
  BY <1>1, <1>2, <1>3 DEF Next

\* The inductive invariant holds in every behaviour.
LEMMA Invariance == Spec => []Inv
<1>1. Init => Inv
  BY InvInit
<1>2. Inv /\ [Next]_vars => Inv'
  BY InvNext
<1> QED
  BY <1>1, <1>2, PTL DEF Spec
-----------------------------------------------------------------------------
(* What piles up at the sink of a diamond *)

\* What the last blocks of the pipes have sent to the sink in this repetition: the pipes
\* whose "done" it is, and the messages, by pipe and number.
LastBlock(p) == Stage(p, LastStage)
DoneSenders == {p \in 1..Pipes : DoneSentTo(LastBlock(p), 1)}
Burst == (rep * BurstSize + 1)..(rep * BurstSize + BurstSize)
Arrived == {x \in (1..Pipes) \X Burst : x[2] <= PublishedTo(LastBlock(x[1]), 1)}

\* With "system" drained first, a repetition begins when all before it have been handled.
BurstsApart ==
    order = "system" =>
        \A c \in Pipeline :
            /\ handled[c] >= rep * BurstSize
            /\ phase # "run" => handled[c] = rep * BurstSize
            /\ pc[c] = "pub" => handled[c] > rep * BurstSize

\* Once the sink's thread has drained a queue in a repetition, that queue holds at most
\* what has been sent in this repetition.
SystemPassed == pc[Snk] \in {"check", "wait", "stopped"} \/ (order = "system" /\ pc[Snk] = "in")
InPassed == pc[Snk] \in {"check", "wait", "stopped"}

DonesBounded ==
    /\ phase # "run" => sysq[Snk] <= Pipes
    /\ phase = "run" /\ SystemPassed => sysq[Snk] <= Cardinality(DoneSenders)

MessagesBounded ==
    order = "system" =>
        /\ phase # "run" => Len(inq[Snk]) <= Pipes * BurstSize
        /\ phase = "run" /\ InPassed => Len(inq[Snk]) <= Cardinality(Arrived)

BacklogInv == BurstsApart /\ (Config = "diamond" => DonesBounded /\ MessagesBounded)

\* There are no more of either than pipes, and messages of a burst in each.
LEMMA SentFacts ==
    ASSUME Inv
    PROVE  /\ IsFiniteSet(DoneSenders) /\ Cardinality(DoneSenders) \in Nat
           /\ Cardinality(DoneSenders) <= Pipes
           /\ IsFiniteSet(Arrived) /\ Cardinality(Arrived) \in Nat
           /\ Cardinality(Arrived) <= Pipes * BurstSize
<1>1. Pipes \in Nat /\ BurstSize \in Nat /\ rep \in Nat /\ rep * BurstSize \in Nat
  <2>1. Pipes \in Nat /\ BurstSize \in Nat /\ rep \in Nat
    BY Constants DEF Inv, TypeOK
  <2> QED
    BY <2>1
<1>2. IsFiniteSet(1..Pipes) /\ Cardinality(1..Pipes) = Pipes
  BY <1>1, FS_Interval
<1>3. IsFiniteSet(Burst) /\ Cardinality(Burst) = BurstSize
  <2> DEFINE n == rep * BurstSize
  <2> HIDE DEF n
  <2>1. \A k \in Nat : IsFiniteSet((k + 1)..(k + BurstSize))
           /\ Cardinality((k + 1)..(k + BurstSize)) = BurstSize
    BY <1>1, FS_Interval
  <2>2. n \in Nat /\ Burst = (n + 1)..(n + BurstSize)
    BY <1>1 DEF Burst, n
  <2> QED
    BY <2>1, <2>2
<1>4. IsFiniteSet((1..Pipes) \X Burst) /\ Cardinality((1..Pipes) \X Burst) = Pipes * BurstSize
  BY <1>2, <1>3, FS_Product
<1>5. DoneSenders \in SUBSET (1..Pipes) /\ Arrived \in SUBSET ((1..Pipes) \X Burst)
  BY DEF DoneSenders, Arrived
<1>6. /\ IsFiniteSet(DoneSenders) /\ Cardinality(DoneSenders) \in Nat
      /\ Cardinality(DoneSenders) <= Pipes
  <2>1. IsFiniteSet(DoneSenders) /\ Cardinality(DoneSenders) <= Cardinality(1..Pipes)
    BY <1>2, <1>5, FS_Subset
  <2> QED
    BY <1>2, <2>1, FS_CardinalityType
<1> DEFINE most == Pipes * BurstSize
<1> HIDE DEF most
<1>7. /\ IsFiniteSet(Arrived) /\ Cardinality(Arrived) \in Nat
      /\ Cardinality(Arrived) <= most
  BY <1>4, <1>5, FS_Subset, FS_CardinalityType DEF most
<1> QED
  BY <1>6, <1>7 DEF most

\* The last block of a pipe has the sink of a diamond for its only subscriber.
LEMMA LastBlocks ==
    ASSUME Config = "diamond", NEW p \in 1..Pipes
    PROVE  /\ LastBlock(p) \in StageBlocks /\ LastBlock(p) \in Pipeline /\ LastBlock(p) \in Blocks
           /\ LastBlock(p) # Snk /\ Subscribers(LastBlock(p)) = <<Snk>>
           /\ \A q \in 1..Pipes : LastBlock(q) = LastBlock(p) => q = p
<1>1. p \in Int /\ LastStage \in 1..LastStage /\ LastStage \in Int /\ \A q \in 1..Pipes : q \in Int
  BY Constants
<1>2. LastBlock(p) \in StageBlocks
  BY <1>1 DEF StageBlocks, LastBlock
<1>3. LastBlock(p)[3] = LastStage
  BY <1>1, Names DEF LastBlock
<1> QED
  BY <1>1, <1>2, <1>3, StageSubscribers, StageNames, PipelineFacts, Names DEF LastBlock

\* No other block sends to the sink.
LEMMA SendersToSink ==
    ASSUME Config = "diamond", NEW b \in Blocks, NEW k \in 1..Len(Subscribers(b)),
           Subscribers(b)[k] = Snk
    PROVE  \E p \in 1..Pipes : b = LastBlock(p)
<1>1. CASE b = Src
  <2>1. k \in 1..Pipes /\ Subscribers(b)[k] = Stage(k, 1)
    BY <1>1, SrcSubscribers
  <2>2. Stage(k, 1) # Snk
    BY <2>1, Names
  <2> QED
    BY <2>1, <2>2
<1>2. CASE b \in StageBlocks
  <2>1. b = Stage(b[2], b[3]) /\ b[2] \in 1..Pipes /\ b[3] \in 1..LastStage
    BY <1>2, StageNames
  <2>2. CASE b[3] < LastStage
    <3>1. Subscribers(b) = <<Stage(b[2], b[3] + 1)>>
      BY <1>2, <2>2, StageSubscribers
    <3>2. k = 1 /\ Subscribers(b)[k] = Stage(b[2], b[3] + 1)
      BY <3>1
    <3> QED
      BY <2>1, <3>2, Names, Constants
  <2>3. CASE b[3] = LastStage
    BY <2>1, <2>3 DEF LastBlock
  <2> QED
    BY <2>1, <2>2, <2>3, Constants
<1>3. CASE b = Snk
  BY <1>3, SnkSubscribers
<1> QED
  BY <1>1, <1>2, <1>3 DEF Blocks, Pipeline

\* The bursts stay apart.
LEMMA BurstsStep == ASSUME Inv, BurstsApart, [Next]_vars PROVE BurstsApart'
<1> SUFFICES ASSUME order' = "system", NEW c \in Pipeline
             PROVE  /\ handled'[c] >= rep' * BurstSize
                    /\ phase' # "run" => handled'[c] = rep' * BurstSize
                    /\ pc'[c] = "pub" => handled'[c] > rep' * BurstSize
  BY DEF BurstsApart
<1> DEFINE n == rep * BurstSize
<1>1. /\ TypeOK /\ order \in Queues /\ c \in Blocks /\ handled \in [Blocks -> Nat] /\ pc \in [Blocks -> PCs]
      /\ BurstSize \in Nat /\ rep \in Nat /\ n \in Nat
  <2>1. TypeOK /\ BurstSize \in Nat /\ rep \in Nat
    BY Constants DEF Inv, TypeOK
  <2> QED
    BY <2>1, PipelineFacts DEF TypeOK
<1>2. order' = order /\ order = "system"
  BY DEF Next, Main, PostMessage, PostDoneAndRun, RunReturns, Thread, TakeMessage, handle_msg,
         InDrained, HandleDone, SystemDrained, CheckFinished, Wake, NotifySubscriber, Done, vars
<1>3. handled[c] >= n /\ (phase # "run" => handled[c] = n) /\ (pc[c] = "pub" => handled[c] > n)
  BY <1>2 DEF BurstsApart
<1> HIDE DEF n
<1>4. ASSUME NEW b \in Blocks, Thread(b)
      PROVE  /\ rep' = rep /\ phase' = phase /\ phase = "run"
             /\ handled'[c] = handled[c] \/ handled'[c] = handled[c] + 1
             /\ pc'[c] = "pub" => pc[c] = "pub" \/ handled'[c] = handled[c] + 1
  <2>1. rep' = rep /\ phase' = phase
    BY <1>4 DEF Thread, TakeMessage, handle_msg, InDrained, HandleDone, SystemDrained,
                CheckFinished, Wake, NotifySubscriber, mainVars
  <2>2. phase = "run"
    BY <1>4, Running DEF Thread, TakeMessage, handle_msg, InDrained, HandleDone, SystemDrained,
                         CheckFinished, Wake, NotifySubscriber
  <2>3. CASE TakeMessage(b)
    BY <1>1, <2>1, <2>2, <2>3 DEF TakeMessage
  <2>4. CASE ~TakeMessage(b)
    <3>1. handled' = handled
      BY <1>4, <2>4 DEF Thread, handle_msg, InDrained, HandleDone, SystemDrained,
                        CheckFinished, Wake, NotifySubscriber
    <3>2. pc'[b] # "pub" \/ pc[b] = "pub"
      BY <1>1, <1>4, <2>4, AfterFacts DEF Thread, handle_msg, InDrained, HandleDone, SystemDrained,
                        CheckFinished, Wake, NotifySubscriber
    <3>3. c # b => pc'[c] = pc[c]
      BY <1>1, <1>4, <2>4 DEF Thread, handle_msg, InDrained, HandleDone, SystemDrained,
                        CheckFinished, Wake, NotifySubscriber
    <3> QED
      BY <2>1, <2>2, <3>1, <3>2, <3>3
  <2> QED
    BY <2>3, <2>4
<1>5. CASE \E b \in Blocks : Thread(b)
  <2>1. /\ rep' = rep /\ phase' = phase /\ phase = "run"
        /\ handled'[c] = handled[c] \/ handled'[c] = handled[c] + 1
        /\ pc'[c] = "pub" => pc[c] = "pub" \/ handled'[c] = handled[c] + 1
    BY <1>4, <1>5
  <2>2. handled[c] \in Nat /\ rep' * BurstSize = n
    BY <1>1, <2>1 DEF n
  <2> QED
    BY <1>1, <1>3, <2>1, <2>2
<1>6. CASE PostMessage
  BY <1>3, <1>6 DEF PostMessage, n
<1>7. CASE PostDoneAndRun
  <2>1. pc'[c] = order /\ phase = "post" /\ rep' = rep /\ handled' = handled
    BY <1>1, <1>7 DEF PostDoneAndRun
  <2>2. handled[c] = n /\ handled[c] >= n
    BY <1>3, <2>1
  <2> QED
    BY <1>2, <1>7, <2>1, <2>2 DEF PostDoneAndRun, n
<1>8. CASE RunReturns
  <2>1. phase = "run" /\ pc[c] = "stopped" /\ rep' = rep + 1 /\ UNCHANGED <<handled, pc>>
    BY <1>1, <1>8 DEF RunReturns
  <2>2. finished[c] /\ posted = n + BurstSize
    BY <1>1, <2>1 DEF Inv, Controlled, n
  <2>3. handled[c] = posted
    BY <1>2, <2>1, <2>2 DEF Inv, DrainedWhenFinished
  <2>4. rep' * BurstSize = n + BurstSize
    BY <1>1, <2>1 DEF n
  <2> QED
    BY <1>1, <2>1, <2>2, <2>3, <2>4
<1>9. CASE Done \/ UNCHANGED vars
  BY <1>3, <1>9 DEF Done, vars, n
<1> QED
  BY <1>5, <1>6, <1>7, <1>8, <1>9 DEF Next, Main

\* A set that gains an element, and loses none, is larger.
LEMMA Larger ==
    ASSUME NEW S, NEW T, IsFiniteSet(T), S \subseteq T
    PROVE  /\ Cardinality(S) <= Cardinality(T)
           /\ S # T => Cardinality(S) + 1 <= Cardinality(T)
<1>1. IsFiniteSet(S) /\ Cardinality(S) <= Cardinality(T)
  BY FS_Subset
<1>2. Cardinality(S) \in Nat /\ Cardinality(T) \in Nat
  <2>1. Cardinality(S) \in Nat
    BY <1>1, FS_CardinalityType
  <2>2. Cardinality(T) \in Nat
    BY FS_CardinalityType
  <2> QED
    BY <2>1, <2>2
<1>3. S # T => Cardinality(S) # Cardinality(T)
  BY FS_Subset
<1> QED
  BY <1>1, <1>2, <1>3

\* In a run, what a step does to the sink's queues is covered by what was sent in that run.
LEMMA BacklogStep ==
    ASSUME Inv, Inv', Config = "diamond", DonesBounded, MessagesBounded,
           phase = "run", UNCHANGED <<phase, rep, order>>,
           DoneSenders \subseteq DoneSenders', Arrived \subseteq Arrived',
           SystemPassed' /\ ~SystemPassed => sysq'[Snk] = 0,
           order = "system" /\ InPassed' /\ ~InPassed => inq'[Snk] = <<>>,
           \/ sysq'[Snk] <= sysq[Snk]
           \/ sysq'[Snk] = sysq[Snk] + 1 /\ DoneSenders # DoneSenders',
           order = "system" => \/ Len(inq'[Snk]) <= Len(inq[Snk])
                               \/ Len(inq'[Snk]) = Len(inq[Snk]) + 1 /\ Arrived # Arrived'
    PROVE  DonesBounded' /\ MessagesBounded'
<1> DEFINE D == DoneSenders
           A == Arrived
<1>1. IsFiniteSet(DoneSenders') /\ IsFiniteSet(Arrived')
  <2>1. DoneSenders' \subseteq 1..Pipes /\ Arrived' \subseteq (1..Pipes) \X Burst
    BY DEF DoneSenders, Arrived, Burst
  <2>2. IsFiniteSet(1..Pipes) /\ IsFiniteSet(Burst)
    <3> DEFINE n == rep * BurstSize
    <3>1. Pipes \in Int /\ BurstSize \in Int /\ rep \in Int /\ n \in Int
      <4>1. Pipes \in Int /\ BurstSize \in Int /\ rep \in Int
        BY Constants DEF Inv, TypeOK
      <4> QED
        BY <4>1
    <3> HIDE DEF n
    <3>2. n + 1 \in Int /\ n + BurstSize \in Int /\ Burst = (n + 1)..(n + BurstSize)
      BY <3>1 DEF Burst, n
    <3> QED
      BY <3>1, <3>2, FS_Interval
  <2>3. IsFiniteSet((1..Pipes) \X Burst)
    BY <2>2, FS_Product
  <2> QED
    BY <2>1, <2>2, <2>3, FS_Subset
<1>2. /\ Cardinality(DoneSenders) \in Nat /\ Cardinality(DoneSenders') \in Nat
      /\ Cardinality(Arrived) \in Nat /\ Cardinality(Arrived') \in Nat
  <2>1. Cardinality(DoneSenders) \in Nat /\ Cardinality(Arrived) \in Nat
    BY SentFacts
  <2> QED
    BY <1>1, <2>1, FS_CardinalityType
<1>3. /\ Cardinality(DoneSenders) <= Cardinality(DoneSenders')
      /\ DoneSenders # DoneSenders' => Cardinality(DoneSenders) + 1 <= Cardinality(DoneSenders')
  BY <1>1, Larger
<1>4. /\ Cardinality(Arrived) <= Cardinality(Arrived')
      /\ Arrived # Arrived' => Cardinality(Arrived) + 1 <= Cardinality(Arrived')
  BY <1>1, Larger
<1>5. /\ sysq[Snk] \in Nat /\ sysq'[Snk] \in Nat
      /\ Len(inq[Snk]) \in Nat /\ Len(inq'[Snk]) \in Nat
      /\ inq'[Snk] = <<>> => Len(inq'[Snk]) = 0
  <2>1. Snk \in Blocks
    BY DEF Blocks
  <2> QED
    BY <2>1, LenProperties DEF Inv, TypeOK
<1>6. DonesBounded'
  <2> SUFFICES ASSUME SystemPassed' PROVE sysq'[Snk] <= Cardinality(DoneSenders')
    BY DEF DonesBounded
  <2>1. CASE SystemPassed
    <3>1. sysq[Snk] <= Cardinality(DoneSenders)
      BY <2>1 DEF DonesBounded
    <3> QED
      BY <1>2, <1>3, <1>5, <3>1
  <2>2. CASE ~SystemPassed
    BY <1>2, <2>2
  <2> QED
    BY <2>1, <2>2
<1>7. MessagesBounded'
  <2> SUFFICES ASSUME order = "system", InPassed' PROVE Len(inq'[Snk]) <= Cardinality(Arrived')
    BY DEF MessagesBounded
  <2>1. CASE InPassed
    <3>1. Len(inq[Snk]) <= Cardinality(Arrived)
      BY <2>1 DEF MessagesBounded
    <3> QED
      BY <1>2, <1>4, <1>5, <3>1
  <2>2. CASE ~InPassed
    BY <1>2, <1>5, <2>2
  <2> QED
    BY <2>1, <2>2
<1> QED
  BY <1>6, <1>7

\* A block at the end of a pipe has one subscriber, so it is never part of the way through.
LEMMA LastServed ==
    ASSUME Inv, Config = "diamond", NEW p \in 1..Pipes
    PROVE  served[LastBlock(p)] = 0
<1>1. LastBlock(p) \in Blocks /\ Len(Subscribers(LastBlock(p))) = 1
  BY LastBlocks
<1>2. served[LastBlock(p)] \in Nat
  BY <1>1 DEF Inv, TypeOK
<1>3. IF pc[LastBlock(p)] \in {"pub", "notify"} THEN served[LastBlock(p)] < Len(Subscribers(LastBlock(p)))
                                           ELSE served[LastBlock(p)] = 0
  BY <1>1 DEF Inv, Controlled
<1> HIDE DEF LastBlock
<1> QED
  BY <1>1, <1>2, <1>3

\* What the ends of the pipes have sent in a run only grows.
LEMMA SentGrows ==
    ASSUME Inv, Inv', Config = "diamond", NEW b \in Blocks, Thread(b)
    PROVE  /\ rep' = rep /\ phase' = phase /\ order' = order /\ phase = "run" /\ posted' = posted
           /\ DoneSenders \subseteq DoneSenders'
           /\ Arrived \subseteq Arrived'
<1>1. rep' = rep /\ phase' = phase /\ order' = order /\ posted' = posted
  BY DEF Thread, TakeMessage, handle_msg, InDrained, HandleDone, SystemDrained,
         CheckFinished, Wake, NotifySubscriber, mainVars
<1>2. phase = "run" /\ pc[b] # "stopped"
  BY Running DEF Thread, TakeMessage, handle_msg, InDrained, HandleDone, SystemDrained,
                 CheckFinished, Wake, NotifySubscriber
<1>3. TypeOK /\ Controlled
  BY DEF Inv
<1>4. \A c \in Blocks \ {b} : /\ pc'[c] = pc[c] /\ finished'[c] = finished[c]
                              /\ served'[c] = served[c] /\ handled'[c] = handled[c]
  BY <1>3 DEF TypeOK, Thread, TakeMessage, handle_msg, InDrained, HandleDone, SystemDrained,
              CheckFinished, Wake, NotifySubscriber
<1>5. ASSUME NEW p \in 1..Pipes
      PROVE  /\ DoneSentTo(LastBlock(p), 1) => DoneSentTo(LastBlock(p), 1)'
             /\ PublishedTo(LastBlock(p), 1) <= PublishedTo(LastBlock(p), 1)'
             /\ PublishedTo(LastBlock(p), 1) \in Int /\ PublishedTo(LastBlock(p), 1)' \in Int
  <2> DEFINE c == LastBlock(p)
  <2>1. /\ c \in Blocks /\ served[c] = 0 /\ handled[c] \in Nat /\ handled'[c] \in Nat
        /\ Len(Subscribers(c)) = 1 /\ Subscribers(c) # <<>> /\ pc[c] \in PCs
    <3>1. c \in Blocks /\ Subscribers(c) = <<Snk>> /\ served[c] = 0
      BY LastBlocks, LastServed
    <3>2. handled[c] \in Nat /\ handled'[c] \in Nat /\ pc[c] \in PCs
      BY <3>1 DEF Inv, TypeOK
    <3> QED
      BY <3>1, <3>2
  <2>2. served'[c] = 0
    <3>1. served'[c] \in Nat
      BY <2>1 DEF Inv, TypeOK
    <3>2. IF pc'[c] \in {"pub", "notify"} THEN served'[c] < Len(Subscribers(c)) ELSE served'[c] = 0
      BY <2>1 DEF Inv, Controlled
    <3> QED
      BY <2>1, <3>1, <3>2
  <2> HIDE DEF c
  <2>3. /\ PublishedTo(c, 1) = IF pc[c] = "pub" THEN handled[c] - 1 ELSE handled[c]
        /\ PublishedTo(c, 1)' = IF pc'[c] = "pub" THEN handled'[c] - 1 ELSE handled'[c]
    BY <2>1, <2>2 DEF PublishedTo
  <2>4. CASE c = b
    <3>1. ~DoneSentTo(c, 1)
      BY <1>2, <2>1, <2>4 DEF DoneSentTo
    <3>2. CASE TakeMessage(b)
      <4>1. pc[c] = "in" /\ pc'[c] = "pub" /\ handled'[c] = handled[c] + 1
        BY <1>3, <2>1, <2>4, <3>2 DEF TypeOK, TakeMessage
      <4> QED
        BY <2>1, <2>3, <3>1, <4>1 DEF c
    <3>3. CASE ~TakeMessage(b)
      <4>1. handled'[c] = handled[c]
        BY <3>3 DEF Thread, handle_msg, InDrained, HandleDone, SystemDrained,
                    CheckFinished, Wake, NotifySubscriber
      <4>2. pc'[c] = "pub" => pc[c] = "pub"
        BY <1>3, <2>1, <2>4, <3>3, AfterFacts DEF TypeOK, Queues, Thread, handle_msg, InDrained,
           HandleDone, SystemDrained, CheckFinished, Wake, NotifySubscriber
      <4> QED
        BY <2>1, <2>3, <3>1, <4>1, <4>2 DEF c
    <3> QED
      BY <3>2, <3>3
  <2>5. CASE c # b
    <3>1. pc'[c] = pc[c] /\ finished'[c] = finished[c] /\ served'[c] = served[c] /\ handled'[c] = handled[c]
      BY <1>4, <2>1, <2>5
    <3>2. PublishedTo(c, 1)' = PublishedTo(c, 1) /\ (DoneSentTo(c, 1)' <=> DoneSentTo(c, 1))
      BY <3>1 DEF PublishedTo, DoneSentTo
    <3>3. PublishedTo(c, 1) \in Int
      BY <2>1, <2>3
    <3> QED
      BY <3>2, <3>3 DEF c
  <2> QED
    BY <2>4, <2>5
<1>6. DoneSenders \subseteq DoneSenders'
  BY <1>5 DEF DoneSenders
<1>7. Arrived \subseteq Arrived'
  <2> SUFFICES ASSUME NEW x \in Arrived PROVE x \in Arrived'
    OBVIOUS
  <2>1. x \in (1..Pipes) \X Burst /\ x[2] <= PublishedTo(LastBlock(x[1]), 1) /\ x[1] \in 1..Pipes
    BY DEF Arrived
  <2>2. x[2] \in Int /\ Burst' = Burst
    BY <1>1, <2>1 DEF Burst
  <2>3. x[2] <= PublishedTo(LastBlock(x[1]), 1)'
    BY <1>5, <2>1, <2>2
  <2> QED
    BY <2>1, <2>2, <2>3 DEF Arrived
<1> QED
  BY <1>1, <1>2, <1>6, <1>7

\* What a step of another block does to the sink's queues: what it puts there it has sent.
LEMMA SentToSink ==
    ASSUME Inv, Inv', BurstsApart, Config = "diamond", NEW b \in Blocks, b # Snk, Thread(b)
    PROVE  /\ pc'[Snk] = pc[Snk]
           /\ \/ sysq'[Snk] = sysq[Snk]
              \/ sysq'[Snk] = sysq[Snk] + 1 /\ DoneSenders # DoneSenders'
           /\ order = "system" => \/ inq'[Snk] = inq[Snk]
                                  \/ Len(inq'[Snk]) = Len(inq[Snk]) + 1 /\ Arrived # Arrived'
<1>1. /\ TypeOK /\ Snk \in Blocks /\ pc[Snk] \in PCs /\ sysq[Snk] \in Nat /\ inq[Snk] \in Seq(Nat)
      /\ handled[b] \in Nat /\ cur[b] \in Nat
  BY DEF Inv, TypeOK, Blocks
<1>2. pc'[Snk] = pc[Snk]
  BY <1>1 DEF TypeOK, Thread, TakeMessage, handle_msg, InDrained, HandleDone, SystemDrained,
              CheckFinished, Wake, NotifySubscriber
<1>3. phase = "run" /\ rep' = rep /\ order' = order
  BY SentGrows
<1> DEFINE k == served[b] + 1
           to == Subscribers(b)[served[b] + 1]
<1>4. ASSUME pc[b] \in {"pub", "notify"}
      PROVE  /\ k \in 1..Len(Subscribers(b)) /\ to \in Blocks
             /\ to = Snk => \E p \in 1..Pipes : b = LastBlock(p)
  <2>1. served[b] \in Nat /\ served[b] < Len(Subscribers(b)) /\ Len(Subscribers(b)) \in Nat
    BY <1>4, SubscriberCount DEF Inv, TypeOK, Controlled
  <2>2. k \in 1..Len(Subscribers(b))
    BY <2>1
  <2> HIDE DEF k
  <2>3. Subscribers(b)[k] \in Blocks
    BY <2>2, WiredDown
  <2>4. Subscribers(b)[k] = Snk => \E p \in 1..Pipes : b = LastBlock(p)
    BY <2>2, SendersToSink
  <2> QED
    BY <2>2, <2>3, <2>4 DEF k
<1>5. CASE NotifySubscriber(b)
  <2>1. pc[b] = "notify" /\ sysq' = [sysq EXCEPT ![to] = @ + 1] /\ inq' = inq
    BY <1>5 DEF NotifySubscriber
  <2>2. CASE to = Snk
    <3>1. PICK p \in 1..Pipes : b = LastBlock(p)
      BY <1>4, <2>1, <2>2
    <3>2. Len(Subscribers(b)) = 1 /\ served[b] = 0
      BY <3>1, LastBlocks, LastServed
    <3>3. pc'[b] = "stopped" /\ finished'[b]
      <4>1. pc'[b] = "stopped" /\ finished' = finished
        BY <1>1, <1>5, <3>2 DEF NotifySubscriber, TypeOK
      <4> QED
        BY <1>3, <2>1, <4>1 DEF Inv, Controlled
    <3>4. ~DoneSentTo(b, 1) /\ DoneSentTo(b, 1)'
      BY <2>1, <3>2, <3>3 DEF DoneSentTo
    <3>5. p \notin DoneSenders /\ p \in DoneSenders'
      BY <3>1, <3>4 DEF DoneSenders
    <3>6. sysq'[Snk] = sysq[Snk] + 1
      BY <1>1, <2>1, <2>2 DEF TypeOK
    <3> QED
      BY <1>2, <2>1, <3>5, <3>6
  <2>3. CASE to # Snk
    <3>1. sysq'[Snk] = sysq[Snk]
      BY <1>1, <2>1, <2>3 DEF TypeOK
    <3> QED
      BY <1>2, <2>1, <3>1
  <2> QED
    BY <2>2, <2>3
<1>6. CASE handle_msg(b)
  <2>1. pc[b] = "pub" /\ inq' = [inq EXCEPT ![to] = Append(@, cur[b])] /\ sysq' = sysq /\ handled' = handled
    BY <1>6 DEF handle_msg
  <2>2. CASE to = Snk
    <3>1. PICK p \in 1..Pipes : b = LastBlock(p)
      BY <1>4, <2>1, <2>2
    <3>2. Len(Subscribers(b)) = 1 /\ served[b] = 0 /\ b \in Pipeline
      BY <3>1, LastBlocks, LastServed
    <3>3. pc'[b] = "in"
      BY <1>1, <1>6, <3>2 DEF handle_msg, TypeOK
    <3>4. PublishedTo(b, 1) = handled[b] - 1 /\ PublishedTo(b, 1)' = handled[b]
      BY <2>1, <3>2, <3>3 DEF PublishedTo
    <3>5. ASSUME order = "system" PROVE Arrived # Arrived'
      <4> DEFINE n == rep * BurstSize
      <4>1. n \in Nat /\ BurstSize \in Nat
        <5>1. rep \in Nat /\ BurstSize \in Nat
          BY <1>1, Constants DEF TypeOK
        <5> QED
          BY <5>1
      <4>2. handled[b] > n
        BY <2>1, <3>2, <3>5 DEF BurstsApart
      <4>3. handled[b] <= n + BurstSize
        <5>1. posted = n + BurstSize
          BY <1>3 DEF Inv, Controlled
        <5>2. handled[b] + Len(inq[b]) <= posted /\ inq[b] \in Seq(Nat)
          BY <1>1, <3>2 DEF Inv, Counted, TypeOK
        <5>3. Len(inq[b]) \in Nat
          BY <5>2
        <5> QED
          BY <1>1, <4>1, <5>1, <5>2, <5>3
      <4>4. Burst = (n + 1)..(n + BurstSize) /\ Burst' = Burst
        BY <1>3 DEF Burst
      <4> HIDE DEF n
      <4>5. handled[b] \in Burst
        BY <1>1, <4>1, <4>2, <4>3, <4>4
      <4>6. <<p, handled[b]>> \in (1..Pipes) \X Burst
        BY <4>5
      <4>7. <<p, handled[b]>> \notin Arrived
        BY <1>1, <3>1, <3>4 DEF Arrived
      <4>8. <<p, handled[b]>> \in Arrived'
        BY <1>1, <3>1, <3>4, <4>4, <4>6 DEF Arrived
      <4> QED
        BY <4>7, <4>8
    <3>6. Len(inq'[Snk]) = Len(inq[Snk]) + 1
      <4>1. inq'[Snk] = Append(inq[Snk], cur[b])
        BY <1>1, <2>1, <2>2 DEF TypeOK
      <4> QED
        BY <1>1, <4>1, AppendProperties
    <3> QED
      BY <1>2, <2>1, <3>5, <3>6
  <2>3. CASE to # Snk
    <3>1. inq'[Snk] = inq[Snk]
      BY <1>1, <2>1, <2>3 DEF TypeOK
    <3> QED
      BY <1>2, <2>1, <3>1
  <2> QED
    BY <2>2, <2>3
<1>7. CASE TakeMessage(b) \/ InDrained(b) \/ HandleDone(b) \/ SystemDrained(b) \/ CheckFinished(b) \/ Wake(b)
  BY <1>1, <1>2, <1>7 DEF TypeOK, TakeMessage, InDrained, HandleDone, SystemDrained, CheckFinished, Wake
<1> QED
  BY <1>5, <1>6, <1>7 DEF Thread

\* The sink's own steps take from its queues, and end a pass over one when it is empty.
LEMMA SinkTakes ==
    ASSUME Inv, Config = "diamond", Thread(Snk)
    PROVE  /\ sysq'[Snk] <= sysq[Snk]
           /\ Len(inq'[Snk]) <= Len(inq[Snk])
           /\ SystemPassed' /\ ~SystemPassed => sysq'[Snk] = 0
           /\ order = "system" /\ InPassed' /\ ~InPassed => inq'[Snk] = <<>>
<1>1. /\ TypeOK /\ order \in Queues /\ Snk \in Blocks /\ pc[Snk] \in PCs /\ sysq[Snk] \in Nat
      /\ inq[Snk] \in Seq(Nat) /\ Len(inq[Snk]) \in Nat
  BY LenProperties DEF Inv, TypeOK, Blocks
<1>2. order' = order
  BY DEF Thread, TakeMessage, handle_msg, InDrained, HandleDone, SystemDrained,
         CheckFinished, Wake, NotifySubscriber
<1>3. Subscribers(Snk) = <<>> /\ pc[Snk] \notin {"pub", "notify"}
  <2>1. Subscribers(Snk) = <<>> /\ Len(Subscribers(Snk)) = 0 /\ served[Snk] \in Nat
    BY <1>1, SnkSubscribers DEF TypeOK
  <2> QED
    BY <1>1, <2>1 DEF Inv, Controlled
<1>4. CASE TakeMessage(Snk)
  <2>1. pc[Snk] = "in" /\ pc'[Snk] = "in" /\ sysq' = sysq /\ inq[Snk] # <<>> /\ inq'[Snk] = Tail(inq[Snk])
    BY <1>1, <1>3, <1>4 DEF TakeMessage, TypeOK
  <2>2. Len(inq'[Snk]) = Len(inq[Snk]) - 1
    BY <1>1, <2>1, HeadTailProperties
  <2> QED
    BY <1>1, <1>2, <2>1, <2>2 DEF SystemPassed, InPassed
<1>5. CASE InDrained(Snk)
  BY <1>1, <1>2, <1>5, AfterFacts DEF InDrained, TypeOK, SystemPassed, InPassed, Queues
<1>6. CASE HandleDone(Snk)
  <2>1. sysq'[Snk] = sysq[Snk] - 1 /\ pc' = pc /\ inq' = inq
    BY <1>1, <1>6 DEF HandleDone, TypeOK
  <2> QED
    BY <1>1, <1>2, <2>1 DEF SystemPassed, InPassed
<1>7. CASE SystemDrained(Snk)
  BY <1>1, <1>2, <1>7, AfterFacts DEF SystemDrained, TypeOK, SystemPassed, InPassed, Queues
<1>8. CASE CheckFinished(Snk) \/ Wake(Snk)
  BY <1>1, <1>2, <1>8 DEF CheckFinished, Wake, TypeOK, SystemPassed, InPassed, Queues
<1>9. CASE handle_msg(Snk) \/ NotifySubscriber(Snk)
  BY <1>3, <1>9 DEF handle_msg, NotifySubscriber
<1> QED
  BY <1>4, <1>5, <1>6, <1>7, <1>8, <1>9 DEF Thread

\* The bounds on the sink's queues survive every step of a thread.
LEMMA BacklogThread ==
    ASSUME Inv, Inv', BurstsApart, Config = "diamond", DonesBounded, MessagesBounded,
           NEW b \in Blocks, Thread(b)
    PROVE  DonesBounded' /\ MessagesBounded'
<1>1. /\ phase = "run" /\ UNCHANGED <<phase, rep, order>>
      /\ DoneSenders \subseteq DoneSenders' /\ Arrived \subseteq Arrived'
  BY SentGrows
<1>2. CASE b = Snk
  <2>1. Thread(Snk)
    BY <1>2
  <2> QED
    BY <1>1, <2>1, SinkTakes, BacklogStep
<1>3. CASE b # Snk
  <2>1. /\ pc'[Snk] = pc[Snk]
        /\ \/ sysq'[Snk] = sysq[Snk]
           \/ sysq'[Snk] = sysq[Snk] + 1 /\ DoneSenders # DoneSenders'
        /\ order = "system" => \/ inq'[Snk] = inq[Snk]
                               \/ Len(inq'[Snk]) = Len(inq[Snk]) + 1 /\ Arrived # Arrived'
    BY <1>3, SentToSink
  <2>2. (SystemPassed' <=> SystemPassed) /\ (InPassed' <=> InPassed)
    BY <1>1, <2>1 DEF SystemPassed, InPassed
  <2>3. sysq[Snk] \in Nat /\ Len(inq[Snk]) \in Nat
    BY LenProperties DEF Inv, TypeOK, Blocks
  <2>4. /\ \/ sysq'[Snk] <= sysq[Snk]
           \/ sysq'[Snk] = sysq[Snk] + 1 /\ DoneSenders # DoneSenders'
        /\ order = "system" => \/ Len(inq'[Snk]) <= Len(inq[Snk])
                               \/ Len(inq'[Snk]) = Len(inq[Snk]) + 1 /\ Arrived # Arrived'
    BY <2>1, <2>3
  <2> QED
    BY <1>1, <2>2, <2>4, BacklogStep
<1> QED
  BY <1>2, <1>3

\* And every step of main: when run() returns, all that is left was sent in that run.
LEMMA BacklogMain ==
    ASSUME Inv, Config = "diamond", DonesBounded, MessagesBounded, Main
    PROVE  DonesBounded' /\ MessagesBounded'
<1>1. TypeOK /\ Snk \in Blocks /\ Src # Snk /\ order \in Queues
  BY Names DEF Inv, TypeOK, Blocks
<1>2. CASE PostMessage
  <2>1. /\ phase' = phase /\ phase = "post" /\ order' = order
        /\ sysq' = sysq /\ inq'[Snk] = inq[Snk]
    BY <1>1, <1>2 DEF PostMessage, TypeOK
  <2> QED
    BY <2>1 DEF DonesBounded, MessagesBounded
<1>3. CASE PostDoneAndRun
  <2>1. phase' = "run" /\ order' = order /\ pc'[Snk] = order
    BY <1>1, <1>3 DEF PostDoneAndRun
  <2>2. ~SystemPassed' /\ ~InPassed'
    BY <1>1, <2>1 DEF SystemPassed, InPassed, Queues
  <2> QED
    BY <2>1, <2>2 DEF DonesBounded, MessagesBounded
<1>4. CASE RunReturns
  <2>1. /\ phase = "run" /\ pc[Snk] = "stopped" /\ phase' # "run"
        /\ sysq' = sysq /\ inq' = inq /\ order' = order
    BY <1>1, <1>4 DEF RunReturns
  <2>2. sysq[Snk] <= Cardinality(DoneSenders)
    BY <2>1 DEF DonesBounded, SystemPassed
  <2>3. order = "system" => Len(inq[Snk]) <= Cardinality(Arrived)
    BY <2>1 DEF MessagesBounded, InPassed
  <2>4. /\ sysq[Snk] \in Nat /\ Len(inq[Snk]) \in Nat /\ Pipes \in Nat /\ BurstSize \in Nat
        /\ Cardinality(DoneSenders) \in Nat /\ Cardinality(Arrived) \in Nat
        /\ Cardinality(DoneSenders) <= Pipes /\ Cardinality(Arrived) <= Pipes * BurstSize
    BY <1>1, Constants, SentFacts, LenProperties DEF TypeOK
  <2> DEFINE most == Pipes * BurstSize
  <2>5. most \in Nat
    BY <2>4
  <2>6. Cardinality(Arrived) <= most
    BY <2>4
  <2> HIDE DEF most
  <2>7. sysq[Snk] <= Pipes /\ (order = "system" => Len(inq[Snk]) <= most)
    BY <2>2, <2>3, <2>4, <2>5, <2>6
  <2> QED
    BY <2>1, <2>7 DEF DonesBounded, MessagesBounded, most
<1> QED
  BY <1>2, <1>3, <1>4 DEF Main

\* The bounds hold at the start and survive every step.
LEMMA BacklogInductive ==
    /\ Init => BacklogInv
    /\ Inv /\ Inv' /\ BacklogInv /\ [Next]_vars => BacklogInv'
<1>1. ASSUME Init PROVE BacklogInv
  <2>1. \A b \in Blocks : handled[b] = 0 /\ pc[b] = "stopped" /\ sysq[b] = 0 /\ inq[b] = <<>>
    BY <1>1 DEF Init
  <2>2. rep = 0 /\ phase # "run"
    BY <1>1 DEF Init
  <2>3. Pipes \in Nat /\ BurstSize \in Nat /\ 0 * BurstSize = 0
    BY Constants
  <2>4. BurstsApart
    BY <2>1, <2>2, <2>3, PipelineFacts DEF BurstsApart
  <2>5. ASSUME Config = "diamond" PROVE DonesBounded /\ MessagesBounded
    <3>1. sysq[Snk] = 0 /\ Len(inq[Snk]) = 0
      BY <2>1, <2>5 DEF Blocks
    <3>2. Pipes * BurstSize \in Nat
      BY <2>3
    <3> DEFINE most == Pipes * BurstSize
    <3> HIDE DEF most
    <3>3. most \in Nat
      BY <3>2 DEF most
    <3>4. 0 <= Pipes /\ 0 <= most
      BY <2>3, <3>3
    <3> QED
      BY <2>2, <3>1, <3>4 DEF DonesBounded, MessagesBounded, most
  <2> QED
    BY <2>4, <2>5 DEF BacklogInv
<1>2. ASSUME Inv, Inv', BacklogInv, [Next]_vars PROVE BacklogInv'
  <2>1. BurstsApart'
    BY <1>2, BurstsStep DEF BacklogInv
  <2>2. ASSUME Config = "diamond" PROVE DonesBounded' /\ MessagesBounded'
    <3>1. BurstsApart /\ DonesBounded /\ MessagesBounded
      BY <1>2, <2>2 DEF BacklogInv
    <3>2. CASE Main
      BY <1>2, <2>2, <3>1, <3>2, BacklogMain
    <3>3. CASE \E b \in Blocks : Thread(b)
      BY <1>2, <2>2, <3>1, <3>3, BacklogThread
    <3>4. CASE Done \/ UNCHANGED vars
      <4>1. UNCHANGED vars
        BY <3>4 DEF Done
      <4> QED
        BY <3>1, <4>1 DEF vars, DonesBounded, MessagesBounded, SystemPassed, InPassed,
               DoneSenders, Arrived, Burst, DoneSentTo, PublishedTo
    <3> QED
      BY <1>2, <3>2, <3>3, <3>4 DEF Next
  <2> QED
    BY <2>1, <2>2 DEF BacklogInv
<1> QED
  BY <1>1, <1>2
-----------------------------------------------------------------------------
(* What follows from it *)

\* The types, for every graph, burst and number of repetitions.
THEOREM TypeCorrect == Spec => []TypeOK
<1>1. Inv => TypeOK
  BY DEF Inv
<1> QED
  BY <1>1, Invariance, PTL

\* No block of a pipe loses, repeats or reorders a message, across all repetitions.
THEOREM Conservation == Spec => []EdgesConserveMessages
<1>1. Inv => EdgesConserveMessages
  BY DEF Inv
<1> QED
  BY <1>1, Invariance, PTL

\* In each repetition every block of a pipe gets exactly one "done", behind all the data.
THEOREM DoneBehindData == Spec => []DoneFollowsData
<1>1. Inv => DoneFollowsData
  BY DEF Inv
<1> QED
  BY <1>1, Invariance, PTL

\* If "system" is drained first, no block of a pipe ends with messages in its queue.
THEOREM NoMessageStranded == Spec => []NothingStranded
<1>1. Inv => NothingStranded
  BY PipelineFacts DEF Inv, Controlled, DrainedWhenFinished, NothingStranded
<1> QED
  BY <1>1, Invariance, PTL

\* And then each repetition measures its own burst in every block of every pipe.
THEOREM RepetitionExact == Spec => RepetitionMeasuresItsBurst
<1>1. Inv /\ [Next]_vars =>
        [rep' # rep /\ order = "system" => \A c \in Pipeline : handled[c] = rep' * BurstSize]_vars
  <2> SUFFICES ASSUME Inv, Next, rep' # rep, order = "system", NEW c \in Pipeline
               PROVE  handled[c] = rep' * BurstSize
    OBVIOUS
  <2>1. RunReturns
    BY DEF Next, Main, PostMessage, PostDoneAndRun, Thread, TakeMessage, handle_msg, InDrained,
           HandleDone, SystemDrained, CheckFinished, Wake, NotifySubscriber, Done, mainVars, vars
  <2>2. /\ phase = "run" /\ pc[c] = "stopped" /\ finished[c] /\ rep' = rep + 1
        /\ burst = BurstSize /\ posted = rep * BurstSize + burst
    BY <2>1, PipelineFacts DEF RunReturns, Inv, Controlled
  <2>3. handled[c] = posted
    BY <2>2 DEF Inv, DrainedWhenFinished
  <2>4. rep * BurstSize + BurstSize = (rep + 1) * BurstSize
    BY Constants DEF Inv, TypeOK
  <2> QED
    BY <2>2, <2>3, <2>4
<1> QED
  BY <1>1, Invariance, PTL DEF Spec, RepetitionMeasuresItsBurst

\* Between two runs the sink of a diamond keeps no more "done"s than there are pipes, nor,
\* with "system" drained first, more messages than one repetition sends.
THEOREM SinkBacklog == Spec => []SinkBacklogBounded
<1>1. BacklogInv => SinkBacklogBounded
  BY DEF BacklogInv, DonesBounded, MessagesBounded, SinkBacklogBounded
<1>2. (Init => BacklogInv) /\ (Inv /\ Inv' /\ BacklogInv /\ [Next]_vars => BacklogInv')
  BY BacklogInductive
<1> QED
  BY <1>1, <1>2, Invariance, PTL DEF Spec

\* The graph of threads and queues implements in-order, exactly-once delivery at the end
\* of every pipe.
THEOREM ImplementsDelivery == Spec => DeliverySpec
<1> DEFINE end(p) == Stage(p, LastStage)
<1>0. \A p \in 1..Pipes : end(p) \in StageBlocks /\ end(p) \in Pipeline /\ end(p) \in Blocks
  BY Constants, PipelineFacts DEF StageBlocks
<1>1. Init => Delivery!Init
  BY <1>0 DEF Init, Delivery!Init
<1>2. Inv /\ [Next]_vars => [Delivery!Next]_(Delivery!vars)
  <2> SUFFICES ASSUME Inv, [Next]_vars PROVE [Delivery!Next]_(Delivery!vars)
    OBVIOUS
  <2>1. CASE PostMessage
    BY <2>1 DEF PostMessage, Delivery!Next, Delivery!Post
  <2>2. ASSUME UNCHANGED <<posted, cur>> PROVE [Delivery!Next]_(Delivery!vars)
    BY <2>2 DEF Delivery!vars
  <2>3. CASE PostDoneAndRun \/ RunReturns \/ Done \/ UNCHANGED vars
    BY <2>2, <2>3 DEF PostDoneAndRun, RunReturns, Done, vars
  <2>4. ASSUME NEW b \in Blocks, Thread(b) PROVE [Delivery!Next]_(Delivery!vars)
    <3>1. CASE TakeMessage(b)
      <4>1. /\ inq[b] # <<>> /\ posted' = posted /\ cur' = [cur EXCEPT ![b] = Head(inq[b])]
            /\ cur \in [Blocks -> Nat] /\ inq[b] \in Seq(Nat) /\ handled[b] \in Nat /\ posted \in Nat
        BY <3>1 DEF TakeMessage, mainVars, Inv, TypeOK
      <4>2. CASE \E p \in 1..Pipes : b = end(p)
        <5>1. PICK p \in 1..Pipes : b = end(p)
          BY <4>2
        <5>2. b \in Pipeline
          BY <1>0, <5>1
        <5>3. /\ \A k \in 1..Len(inq[b]) : inq[b][k] = handled[b] + k
              /\ cur[b] = handled[b] /\ handled[b] + Len(inq[b]) <= posted
          BY <5>2 DEF Inv, EdgesConserveMessages, Counted
        <5>4. Head(inq[b]) = cur[b] + 1 /\ cur[b] < posted
          <6>1. Head(inq[b]) = handled[b] + 1 /\ Len(inq[b]) \in Nat /\ Len(inq[b]) > 0
            BY <4>1, <5>3, QueueTail
          <6> QED
            BY <4>1, <5>3, <6>1
        <5>5. \A q \in 1..Pipes : q # p => end(q) # b
          BY <5>1, Names, Constants
        <5>6. [q \in 1..Pipes |-> cur'[end(q)]] =
                [[q \in 1..Pipes |-> cur[end(q)]] EXCEPT ![p] = @ + 1]
          <6>1. cur'[b] = cur[b] + 1
            BY <4>1, <5>4
          <6>2. \A q \in 1..Pipes : q # p => cur'[end(q)] = cur[end(q)]
            BY <1>0, <4>1, <5>5
          <6> QED
            BY <5>1, <6>1, <6>2
        <5>7. [q \in 1..Pipes |-> cur[end(q)]][p] < posted
          BY <5>1, <5>4
        <5>8. Delivery!Deliver(p)
          BY <4>1, <5>6, <5>7 DEF Delivery!Deliver
        <5> QED
          BY <5>8 DEF Delivery!Next
      <4>3. CASE ~\E p \in 1..Pipes : b = end(p)
        <5>1. \A p \in 1..Pipes : cur'[end(p)] = cur[end(p)]
          BY <1>0, <4>1, <4>3
        <5>2. [p \in 1..Pipes |-> cur'[end(p)]] = [p \in 1..Pipes |-> cur[end(p)]]
          BY <5>1
        <5> QED
          BY <4>1, <5>2 DEF Delivery!vars
      <4> QED
        BY <4>2, <4>3
    <3>2. CASE \/ handle_msg(b) \/ InDrained(b) \/ HandleDone(b) \/ SystemDrained(b)
               \/ CheckFinished(b) \/ Wake(b) \/ NotifySubscriber(b)
      BY <2>2, <3>2 DEF handle_msg, InDrained, HandleDone, SystemDrained, CheckFinished, Wake,
                        NotifySubscriber, mainVars
    <3> QED
      BY <2>4, <3>1, <3>2 DEF Thread
  <2> QED
    BY <2>1, <2>3, <2>4 DEF Next, Main
<1> QED
  BY <1>1, <1>2, Invariance, PTL DEF Spec, DeliverySpec, Delivery!Spec
-----------------------------------------------------------------------------
(* No run gets stuck *)

\* The guards of the actions of Thread(b) and of Main.
CanMove(b) ==
    \/ pc[b] \in {"in", "system", "check", "pub", "notify"}
    \/ pc[b] = "wait" /\ (inq[b] # <<>> \/ sysq[b] > 0)
MainCanMove ==
    \/ phase = "post" /\ burst <= BurstSize
    \/ phase = "run" /\ \A b \in Blocks : pc[b] = "stopped"

\* Until main is through, it or some thread can go on.
NeverStuck == phase = "exit" \/ MainCanMove \/ \E b \in Blocks : CanMove(b)

\* No thread goes to sleep over a "done", and the sink of a diamond has heard of the end of
\* the first pipe that has ended in this run.
ToldInv ==
    /\ phase = "post" => burst <= BurstSize
    /\ \A b \in Blocks : pc[b] = "wait" => ~finished[b]
    /\ Config = "diamond" /\ phase = "run" =>
           \A p \in 1..Pipes : pc[LastBlock(p)] = "stopped" => sysq[Snk] > 0 \/ finished[Snk]

LEMMA ToldStep == ASSUME Inv, ToldInv, [Next]_vars PROVE ToldInv'
<1>1. BurstSize \in Nat /\ burst \in Nat
  BY Constants DEF Inv, TypeOK
<1>2. CASE PostMessage
  <2>1. burst' = burst + 1 /\ burst < BurstSize /\ phase' = phase /\ phase = "post"
    BY <1>2 DEF PostMessage
  <2>2. UNCHANGED <<pc, finished>>
    BY <1>2 DEF PostMessage
  <2> QED
    BY <1>1, <2>1, <2>2 DEF ToldInv
<1>3. CASE PostDoneAndRun
  <2>1. phase' = "run" /\ pc' = [b \in Blocks |-> order] /\ order \in {"in", "system"}
    BY <1>3 DEF PostDoneAndRun, Inv, TypeOK, Queues
  <2>2. \A p \in 1..Pipes : Config = "diamond" => LastBlock(p) \in Blocks
    BY LastBlocks
  <2> QED
    BY <2>1, <2>2 DEF ToldInv
<1>4. CASE RunReturns
  <2>1. /\ phase' \in {"post", "exit"} /\ burst' = 0 /\ UNCHANGED <<pc, finished>>
    BY <1>4 DEF RunReturns
  <2> QED
    BY <1>1, <2>1 DEF ToldInv
<1>5. ASSUME NEW b \in Blocks, Thread(b) PROVE ToldInv'
  <2>1. /\ UNCHANGED <<phase, burst>> /\ pc[b] # "stopped" /\ sysq \in [Blocks -> Nat]
        /\ \A a \in Blocks \ {b} : pc'[a] = pc[a] /\ finished'[a] = finished[a]
    BY <1>5 DEF Thread, TakeMessage, handle_msg, InDrained, HandleDone, SystemDrained,
        CheckFinished, Wake, NotifySubscriber, mainVars, Inv, TypeOK
  <2>2. pc'[b] = "wait" => ~finished'[b]
    <3>1. pc[b] # "wait" /\ pc'[b] = "wait" => CheckFinished(b)
      BY <1>5, AfterFacts DEF Thread, TakeMessage, handle_msg, InDrained, HandleDone, SystemDrained,
        CheckFinished, Wake, NotifySubscriber, Inv, TypeOK
    <3>2. pc[b] = "wait" => Wake(b)
      BY <1>5 DEF Thread, TakeMessage, handle_msg, InDrained, HandleDone, SystemDrained,
        CheckFinished, Wake, NotifySubscriber
    <3>3. Wake(b) => pc'[b] # "wait"
      BY DEF Wake, Inv, TypeOK, Queues
    <3>4. CheckFinished(b) /\ pc'[b] = "wait" => ~finished'[b]
      BY DEF CheckFinished, Inv, TypeOK
    <3> QED
      BY <3>1, <3>2, <3>3, <3>4
  <2>3. ASSUME Config = "diamond", phase = "run", NEW p \in 1..Pipes, pc'[LastBlock(p)] = "stopped"
        PROVE  sysq'[Snk] > 0 \/ finished'[Snk]
    <3>1. Snk \in Blocks /\ LastBlock(p) \in Blocks /\ LastBlock(p) # Snk
      BY <2>3, LastBlocks DEF Blocks
    <3>2. CASE sysq[Snk] > 0 \/ finished[Snk]
      <4>1. CASE HandleDone(b) /\ b = Snk
        BY <4>1, <3>1 DEF HandleDone, Inv, TypeOK
      <4>2. CASE ~(HandleDone(b) /\ b = Snk)
        <5>1. sysq'[Snk] >= sysq[Snk] /\ (finished[Snk] => finished'[Snk])
          <6>1. CASE HandleDone(b)
            BY <4>2, <6>1, <3>1, <2>1 DEF HandleDone, Inv, TypeOK
          <6>2. CASE NotifySubscriber(b)
            <7>1. PICK c : sysq' = [sysq EXCEPT ![c] = @ + 1] /\ finished' = finished
              BY <6>2 DEF NotifySubscriber
            <7> QED
              BY <2>1, <3>1, <7>1
          <6>3. CASE UNCHANGED <<sysq, finished>>
            BY <6>3, <3>1, <2>1
          <6> QED
            BY <6>1, <6>2, <6>3, <1>5 DEF Thread, TakeMessage, handle_msg, InDrained,
               SystemDrained, CheckFinished, Wake
        <5> QED
          <6>1. sysq[Snk] \in Nat /\ sysq'[Snk] \in Nat
            BY <1>5, <2>1, <3>1, StepThread DEF Inv, TypeOK
          <6> QED
            BY <3>2, <5>1, <6>1
      <4> QED
        BY <4>1, <4>2
    <3>3. CASE pc[LastBlock(p)] = "stopped"
      BY <2>3, <3>2, <3>3 DEF ToldInv
    <3>4. CASE pc[LastBlock(p)] # "stopped"
      <4>1. b = LastBlock(p)
        BY <2>1, <2>3, <3>1, <3>4
      <4>2. Subscribers(b) = <<Snk>> /\ Subscribers(b) # <<>> /\ Len(Subscribers(b)) = 1
        <5>1. Subscribers(b) = <<Snk>>
          BY <2>3, <4>1, LastBlocks
        <5> QED
          BY <5>1
      <4>3. NotifySubscriber(b)
        BY <1>5, <2>3, <4>1, <4>2, <3>1, <3>4, AfterFacts DEF Thread, TakeMessage, handle_msg, InDrained,
           HandleDone, SystemDrained, CheckFinished, Wake, Inv, TypeOK, Queues
      <4>4. served[b] = 0
        <5>1. /\ served[b] \in Nat /\ pc[b] = "notify"
              /\ pc[b] \in {"pub", "notify"} => served[b] < Len(Subscribers(b))
          BY <4>3 DEF Inv, Controlled, NotifySubscriber, TypeOK
        <5> QED
          BY <4>2, <5>1
      <4>5. sysq' = [sysq EXCEPT ![Snk] = @ + 1]
        <5>1. Subscribers(b)[served[b] + 1] = Snk
          BY <4>2, <4>4
        <5> QED
          BY <4>3, <5>1 DEF NotifySubscriber
      <4> QED
        BY <2>1, <3>1, <4>5
    <3> QED
      BY <3>3, <3>4
  <2> QED
    BY <2>1, <2>2, <2>3 DEF ToldInv
<1>6. CASE UNCHANGED vars
  <2>1. UNCHANGED <<phase, burst, pc, finished, sysq>>
    BY <1>6 DEF vars
  <2> QED
    BY <2>1 DEF ToldInv
<1> QED
  BY <1>2, <1>3, <1>4, <1>5, <1>6 DEF Next, Main, Done

\* A set of numbers has a least one.
LEMMA Least ==
    ASSUME NEW S, S \subseteq Nat, S # {}
    PROVE  \E m \in S : \A n \in S : m <= n
<1> DEFINE less == OpToRel(<, Nat)
<1>1. IsWellFoundedOn(less, Nat)
  BY NatLessThanWellFounded
<1>2. \A m, n \in Nat : m < n => <<m, n>> \in less
  BY Zenon DEF OpToRel
<1> HIDE DEF less
<1>3. PICK m \in S : \A n \in S : ~(<<n, m>> \in less)
  BY <1>1, WFMin
<1>4. \A n \in S : ~(n < m)
  BY <1>2, <1>3, Zenon
<1> QED
  BY <1>4

\* A thread of a pipe sleeps only while the thread that feeds it is not through: so if all
\* sleep, none has ended, not even the source, which has its "done" from main.
LEMMA PipelineMoves ==
    ASSUME Inv, ToldInv, phase = "run", \A b \in Blocks : ~CanMove(b)
    PROVE  \A b \in Pipeline : pc[b] = "stopped"
<1>1. \A b \in Pipeline : /\ pc[b] \in {"wait", "stopped"}
                          /\ pc[b] = "wait" => sysq[b] = 0 /\ ~finished[b]
                          /\ pc[b] = "stopped" => finished[b]
  <2> SUFFICES ASSUME NEW b \in Pipeline
               PROVE  /\ pc[b] \in {"wait", "stopped"}
                      /\ pc[b] = "wait" => sysq[b] = 0 /\ ~finished[b]
                      /\ pc[b] = "stopped" => finished[b]
    OBVIOUS
  <2>1. b \in Blocks /\ pc[b] \in PCs /\ sysq[b] \in Nat /\ ~CanMove(b)
    BY PipelineFacts DEF Inv, TypeOK
  <2>2. pc[b] \in {"wait", "stopped"}
    BY <2>1 DEF CanMove, PCs
  <2>3. pc[b] = "wait" => sysq[b] = 0
    BY <2>1 DEF CanMove
  <2> QED
    BY <2>1, <2>2, <2>3 DEF ToldInv, Inv, Controlled
<1>2. pc[Src] = "stopped"
  <2>1. sysq[Src] + (IF finished[Src] THEN 1 ELSE 0) = 1
    BY DEF Inv, DoneFollowsData
  <2> QED
    BY <1>1, <2>1, PipelineFacts
<1>3. ASSUME NEW c \in StageBlocks, pc[c] # "stopped"
      PROVE  pc[Upstream(c)] = "wait"
  <2>1. c \in Pipeline /\ Upstream(c) \in Pipeline
    BY WiredUp, PipelineFacts
  <2>2. sysq[c] = 0 /\ ~finished[c]
    BY <1>1, <1>3, <2>1
  <2>3. ~DoneSentTo(Upstream(c), Position(c))
    BY <2>2 DEF Inv, DoneFollowsData
  <2> QED
    BY <1>1, <2>1, <2>3 DEF DoneSentTo
<1>4. ASSUME NEW p \in 1..Pipes
      PROVE  \A s \in 1..LastStage : pc[Stage(p, s)] = "stopped"
  <2> DEFINE S == {s \in 1..LastStage : pc[Stage(p, s)] # "stopped"}
  <2> SUFFICES ASSUME S # {} PROVE FALSE
    OBVIOUS
  <2>1. LastStage \in Nat /\ S \subseteq Nat /\ p \in Int
    BY Constants
  <2>2. PICK s \in S : \A t \in S : s <= t
    BY <2>1, Least
  <2>3. s \in 1..LastStage /\ s \in Int /\ Stage(p, s) \in StageBlocks
    BY <2>1, <2>2 DEF StageBlocks
  <2>4. pc[Upstream(Stage(p, s))] = "wait"
    BY <1>3, <2>2, <2>3
  <2>5. CASE s = 1
    BY <1>2, <2>1, <2>4, <2>5, Names DEF Upstream
  <2>6. CASE s # 1
    <3>1. Upstream(Stage(p, s)) = Stage(p, s - 1)
      BY <2>1, <2>3, <2>6, Names DEF Upstream
    <3>2. s - 1 \in 1..LastStage /\ s - 1 \in Nat /\ ~(s <= s - 1)
      BY <2>1, <2>3, <2>6
    <3> QED
      BY <2>2, <2>4, <3>1, <3>2
  <2> QED
    BY <2>5, <2>6
<1> QED
  BY <1>2, <1>4 DEF Pipeline, StageBlocks

\* Then the sink of a diamond has been told, and cannot sleep either.
LEMMA SomeoneMoves ==
    ASSUME Inv, ToldInv
    PROVE  NeverStuck
<1> SUFFICES ASSUME phase = "run", \A b \in Blocks : ~CanMove(b)
             PROVE  \A b \in Blocks : pc[b] = "stopped"
  BY DEF NeverStuck, MainCanMove, ToldInv, Inv, TypeOK, Phases
<1>1. \A b \in Pipeline : pc[b] = "stopped"
  BY PipelineMoves
<1>2. ASSUME Config = "diamond" PROVE pc[Snk] = "stopped"
  <2>1. 1 \in 1..Pipes
    BY Constants
  <2>2. pc[LastBlock(1)] = "stopped" /\ Snk \in Blocks
    BY <1>1, <1>2, <2>1, LastBlocks DEF Blocks
  <2>3. sysq[Snk] > 0 \/ finished[Snk]
    BY <1>2, <2>1, <2>2 DEF ToldInv
  <2>4. pc[Snk] # "wait"
    BY <2>2, <2>3 DEF ToldInv, CanMove
  <2> QED
    BY <2>2, <2>4 DEF CanMove, Inv, TypeOK, PCs
<1> QED
  BY <1>1, <1>2 DEF Blocks

\* Whatever the order of the queues and however the threads interleave, until main has
\* completed its repetitions it or some thread can go on: no "done" is missed by a thread
\* that goes to sleep and none that a block waits for is never sent, although a sink may
\* end a run early and find the "done"s of the other pipes in the next one.
THEOREM RunsNeverStuck == Spec => []NeverStuck
<1>1. Init => ToldInv
  <2> SUFFICES ASSUME Init PROVE ToldInv
    OBVIOUS
  <2>1. burst = 0 /\ BurstSize \in Nat /\ phase \in {"exit", "post"}
    BY Constants DEF Init
  <2>2. \A b \in Blocks : pc[b] = "stopped"
    BY DEF Init
  <2> QED
    BY <2>1, <2>2 DEF ToldInv
<1> QED
  BY <1>1, ToldStep, SomeoneMoves, Invariance, PTL DEF Spec
-----------------------------------------------------------------------------
(* What the sink of a diamond gets *)

\* The messages of all repetitions that the pipes have sent to the sink, by pipe and number.
Sent == {x \in (1..Pipes) \X (1..posted) : x[2] <= PublishedTo(LastBlock(x[1]), 1)}

\* The sink has taken or still holds as many messages as that: none is lost or repeated
\* where the pipes come together, and what a run leaves behind is still there in the next.
SinkConserves == Config = "diamond" => handled[Snk] + Len(inq[Snk]) = Cardinality(Sent)

\* A block publishes what it has taken.
Taking == \A b \in Blocks : pc[b] = "pub" => handled[b] > 0

\* A finite number of messages.
LEMMA SentFinite ==
    ASSUME Inv
    PROVE  /\ IsFiniteSet(Sent) /\ Cardinality(Sent) \in Nat
           /\ Cardinality(Sent) <= Pipes * posted
<1>1. Pipes \in Nat /\ posted \in Nat
  BY Constants DEF Inv, TypeOK
<1>2. /\ IsFiniteSet(1..Pipes) /\ Cardinality(1..Pipes) = Pipes
      /\ IsFiniteSet(1..posted) /\ Cardinality(1..posted) = posted
  BY <1>1, FS_Interval
<1>3. /\ IsFiniteSet((1..Pipes) \X (1..posted))
      /\ Cardinality((1..Pipes) \X (1..posted)) = Pipes * posted
  <2>1. /\ IsFiniteSet((1..Pipes) \X (1..posted))
        /\ Cardinality((1..Pipes) \X (1..posted)) = Cardinality(1..Pipes) * Cardinality(1..posted)
    BY <1>2, FS_Product, Zenon
  <2> QED
    BY <1>2, <2>1, Zenon
<1>4. Sent \subseteq (1..Pipes) \X (1..posted)
  BY DEF Sent
<1>5. IsFiniteSet(Sent) /\ Cardinality(Sent) <= Cardinality((1..Pipes) \X (1..posted))
  BY <1>3, <1>4, FS_Subset
<1> QED
  BY <1>3, <1>5, FS_CardinalityType

\* A pipe has published one message more to the sink when its last block is done with it.
LEMMA PublishedMoves ==
    ASSUME Inv, Inv', Config = "diamond", NEW b \in Blocks, Thread(b), NEW p \in 1..Pipes
    PROVE  /\ PublishedTo(LastBlock(p), 1) \in Int
           /\ PublishedTo(LastBlock(p), 1)' =
                  PublishedTo(LastBlock(p), 1)
                      + (IF b = LastBlock(p) /\ pc[b] = "pub" THEN 1 ELSE 0)
<1> DEFINE c == LastBlock(p)
<1>1. TypeOK /\ Controlled
  BY DEF Inv
<1>2. /\ c \in Blocks /\ served[c] = 0 /\ handled[c] \in Nat /\ handled'[c] \in Nat
      /\ Len(Subscribers(c)) = 1 /\ Subscribers(c) # <<>> /\ pc[c] \in PCs
  <2>1. c \in Blocks /\ Subscribers(c) = <<Snk>> /\ served[c] = 0
    BY LastBlocks, LastServed
  <2>2. handled[c] \in Nat /\ handled'[c] \in Nat /\ pc[c] \in PCs
    BY <2>1 DEF Inv, TypeOK
  <2> QED
    BY <2>1, <2>2
<1>3. served'[c] = 0
  <2>1. served'[c] \in Nat
    BY <1>2 DEF Inv, TypeOK
  <2>2. IF pc'[c] \in {"pub", "notify"} THEN served'[c] < Len(Subscribers(c)) ELSE served'[c] = 0
    BY <1>2 DEF Inv, Controlled
  <2> QED
    BY <1>2, <2>1, <2>2
<1> HIDE DEF c
<1>4. /\ PublishedTo(c, 1) = IF pc[c] = "pub" THEN handled[c] - 1 ELSE handled[c]
      /\ PublishedTo(c, 1)' = IF pc'[c] = "pub" THEN handled'[c] - 1 ELSE handled'[c]
  BY <1>2, <1>3 DEF PublishedTo
<1>5. CASE c # b
  <2>1. pc'[c] = pc[c] /\ handled'[c] = handled[c]
    BY <1>1, <1>2, <1>5 DEF TypeOK, Thread, TakeMessage, handle_msg, InDrained, HandleDone,
       SystemDrained, CheckFinished, Wake, NotifySubscriber
  <2> QED
    BY <1>2, <1>4, <1>5, <2>1 DEF c
<1>6. CASE c = b
  <2>1. CASE TakeMessage(b)
    <3>1. pc[c] = "in" /\ pc'[c] = "pub" /\ handled'[c] = handled[c] + 1
      BY <1>1, <1>2, <1>6, <2>1 DEF TypeOK, TakeMessage
    <3> QED
      BY <1>2, <1>4, <1>6, <3>1 DEF c
  <2>2. CASE handle_msg(b)
    <3>1. pc[c] = "pub" /\ handled' = handled /\ pc'[c] = "in"
      BY <1>1, <1>2, <1>6, <2>2 DEF TypeOK, handle_msg
    <3> QED
      BY <1>2, <1>4, <1>6, <3>1 DEF c
  <2>3. CASE ~TakeMessage(b) /\ ~handle_msg(b)
    <3>1. handled' = handled /\ pc[c] # "pub" /\ pc'[c] # "pub"
      BY <1>1, <1>2, <1>6, <2>3, AfterFacts DEF TypeOK, Queues, Thread, InDrained,
         HandleDone, SystemDrained, CheckFinished, Wake, NotifySubscriber
    <3> QED
      BY <1>2, <1>4, <1>6, <3>1 DEF c
  <2> QED
    BY <2>1, <2>2, <2>3
<1> QED
  BY <1>5, <1>6

\* The messages sent are those of before, and one more if a last block has just sent it.
LEMMA SentMoves ==
    ASSUME Inv, Inv', Taking, Config = "diamond", NEW b \in Blocks, Thread(b)
    PROVE  IF \E p \in 1..Pipes : b = LastBlock(p) /\ pc[b] = "pub"
           THEN \E x : x \notin Sent /\ Sent' = Sent \cup {x}
           ELSE Sent' = Sent
<1>1. posted' = posted /\ posted \in Nat
  <2>1. posted' = posted
    BY SentGrows
  <2> QED
    BY <2>1 DEF Inv, TypeOK
<1>2. ASSUME NEW q \in 1..Pipes
      PROVE  /\ PublishedTo(LastBlock(q), 1) \in Int
             /\ PublishedTo(LastBlock(q), 1)' =
                  PublishedTo(LastBlock(q), 1)
                      + (IF b = LastBlock(q) /\ pc[b] = "pub" THEN 1 ELSE 0)
  BY PublishedMoves
<1>3. CASE \E p \in 1..Pipes : b = LastBlock(p) /\ pc[b] = "pub"
  <2>1. PICK p \in 1..Pipes : b = LastBlock(p) /\ pc[b] = "pub"
    BY <1>3
  <2> DEFINE x == <<p, handled[b]>>
  <2>2. handled[b] \in 1..posted
    <3>1. b \in Pipeline
      BY <2>1, LastBlocks
    <3>2. /\ handled[b] \in Nat /\ inq[b] \in Seq(Nat) /\ handled[b] > 0
          /\ handled[b] + Len(inq[b]) <= posted
      BY <2>1, <3>1 DEF Inv, TypeOK, Counted, Taking
    <3>3. Len(inq[b]) \in Nat
      BY <3>2
    <3> QED
      BY <1>1, <3>2, <3>3
  <2>3. PublishedTo(b, 1) = handled[b] - 1 /\ PublishedTo(b, 1)' = handled[b]
    <3>1. served[b] = 0
      BY <2>1, LastServed
    <3>2. PublishedTo(b, 1) = handled[b] - 1
      BY <2>1, <3>1 DEF PublishedTo
    <3> QED
      BY <1>2, <2>1, <2>2, <3>2
  <2>4. \A q \in 1..Pipes : q # p => PublishedTo(LastBlock(q), 1)' = PublishedTo(LastBlock(q), 1)
    <3>1. \A q \in 1..Pipes : q # p => LastBlock(q) # b
      BY <2>1, LastBlocks
    <3> QED
      BY <1>2, <3>1
  <2>5. x \in (1..Pipes) \X (1..posted) /\ x \notin Sent
    BY <2>1, <2>2, <2>3 DEF Sent
  <2>6. ASSUME NEW y \in (1..Pipes) \X (1..posted) PROVE y \in Sent' <=> y \in Sent \/ y = x
    <3>1. y[1] \in 1..Pipes /\ y[2] \in 1..posted /\ y = <<y[1], y[2]>>
      BY <2>6
    <3>2. /\ y \in Sent <=> y[2] <= PublishedTo(LastBlock(y[1]), 1)
          /\ y \in Sent' <=> y[2] <= PublishedTo(LastBlock(y[1]), 1)'
      BY <1>1, <2>6 DEF Sent
    <3>3. CASE y[1] = p
      <4>1. y \in Sent <=> y[2] <= handled[b] - 1
        BY <2>1, <2>3, <3>2, <3>3
      <4>2. y \in Sent' <=> y[2] <= handled[b]
        BY <2>1, <2>3, <3>2, <3>3
      <4>3. y = x <=> y[2] = handled[b]
        BY <3>1, <3>3
      <4> QED
        BY <2>2, <3>1, <4>1, <4>2, <4>3
    <3>4. CASE y[1] # p
      BY <2>4, <3>1, <3>2, <3>4
    <3> QED
      BY <3>3, <3>4
  <2>7. Sent \subseteq (1..Pipes) \X (1..posted) /\ Sent' \subseteq (1..Pipes) \X (1..posted)
    BY <1>1 DEF Sent
  <2> HIDE DEF x
  <2>8. Sent' = Sent \cup {x}
    BY <2>5, <2>6, <2>7
  <2> QED
    BY <1>3, <2>5, <2>8
<1>4. CASE ~ \E p \in 1..Pipes : b = LastBlock(p) /\ pc[b] = "pub"
  <2>1. \A q \in 1..Pipes : PublishedTo(LastBlock(q), 1)' = PublishedTo(LastBlock(q), 1)
    BY <1>2, <1>4
  <2>2. ASSUME NEW y \in (1..Pipes) \X (1..posted)
        PROVE y[2] <= PublishedTo(LastBlock(y[1]), 1)' <=> y[2] <= PublishedTo(LastBlock(y[1]), 1)
    BY <2>1
  <2>3. Sent' = Sent
    BY <1>1, <2>2 DEF Sent
  <2> QED
    BY <1>4, <2>3
<1> QED
  BY <1>3, <1>4

\* The sink's queue and its count move with the messages sent.
LEMMA SinkThread ==
    ASSUME Inv, Inv', Taking, SinkConserves, Config = "diamond", NEW b \in Blocks, Thread(b)
    PROVE  SinkConserves'
<1>1. /\ TypeOK /\ Snk \in Blocks /\ handled[Snk] \in Nat /\ inq[Snk] \in Seq(Nat) /\ Len(inq[Snk]) \in Nat
  BY LenProperties DEF Inv, TypeOK, Blocks
<1>2. IsFiniteSet(Sent) /\ Cardinality(Sent) \in Nat /\ handled[Snk] + Len(inq[Snk]) = Cardinality(Sent)
  BY SentFinite DEF SinkConserves
<1>3. CASE b = Snk
  <2>1. \A p \in 1..Pipes : LastBlock(p) # Snk
    BY LastBlocks
  <2>2. Sent' = Sent
    BY <1>3, <2>1, SentMoves
  <2>3. Subscribers(Snk) = <<>> /\ pc[Snk] \notin {"pub", "notify"}
    <3>1. Subscribers(Snk) = <<>> /\ Len(Subscribers(Snk)) = 0 /\ served[Snk] \in Nat
      BY <1>1, SnkSubscribers DEF TypeOK
    <3> QED
      BY <1>1, <3>1 DEF Inv, Controlled
  <2>4. CASE TakeMessage(Snk)
    <3>1. inq[Snk] # <<>> /\ inq'[Snk] = Tail(inq[Snk]) /\ handled'[Snk] = handled[Snk] + 1
      BY <1>1, <2>4 DEF TakeMessage, TypeOK
    <3>2. Len(inq'[Snk]) = Len(inq[Snk]) - 1
      BY <1>1, <3>1, HeadTailProperties
    <3> QED
      BY <1>1, <1>2, <2>2, <3>1, <3>2 DEF SinkConserves
  <2>5. CASE ~TakeMessage(Snk)
    <3>1. inq' = inq /\ handled' = handled
      BY <1>3, <2>3, <2>5 DEF Thread, handle_msg, InDrained, HandleDone, SystemDrained, CheckFinished,
                              Wake, NotifySubscriber
    <3> QED
      BY <1>2, <2>2, <3>1 DEF SinkConserves
  <2> QED
    BY <2>4, <2>5
<1>4. CASE b # Snk
  <2>1. handled'[Snk] = handled[Snk]
    BY <1>1, <1>4 DEF TypeOK, Thread, TakeMessage, handle_msg, InDrained, HandleDone, SystemDrained,
                      CheckFinished, Wake, NotifySubscriber
  <2>2. CASE \E p \in 1..Pipes : b = LastBlock(p) /\ pc[b] = "pub"
    <3>1. PICK p \in 1..Pipes : b = LastBlock(p) /\ pc[b] = "pub"
      BY <2>2
    <3>2. PICK x : x \notin Sent /\ Sent' = Sent \cup {x}
      BY <2>2, SentMoves
    <3>3. Cardinality(Sent') = Cardinality(Sent) + 1
      BY <1>2, <3>2, FS_AddElement
    <3>4. Subscribers(b) = <<Snk>> /\ served[b] = 0
      BY <3>1, LastBlocks, LastServed
    <3>5. handle_msg(b)
      BY <3>1 DEF Thread, TakeMessage, InDrained, HandleDone, SystemDrained, CheckFinished,
                  Wake, NotifySubscriber
    <3>6. inq'[Snk] = Append(inq[Snk], cur[b]) /\ cur[b] \in Nat
      BY <1>1, <3>4, <3>5 DEF handle_msg, TypeOK
    <3>7. Len(inq'[Snk]) = Len(inq[Snk]) + 1
      BY <1>1, <3>6, AppendProperties
    <3> QED
      BY <1>1, <1>2, <2>1, <3>3, <3>7 DEF SinkConserves
  <2>3. CASE ~ \E p \in 1..Pipes : b = LastBlock(p) /\ pc[b] = "pub"
    <3>1. Sent' = Sent
      BY <2>3, SentMoves
    <3>2. inq'[Snk] = inq[Snk]
      <4>1. CASE handle_msg(b)
        <5> DEFINE k == served[b] + 1
        <5>1. pc[b] = "pub" /\ inq' = [inq EXCEPT ![Subscribers(b)[k]] = Append(@, cur[b])]
          BY <4>1 DEF handle_msg
        <5>2. k \in 1..Len(Subscribers(b))
          <6>1. served[b] \in Nat /\ served[b] < Len(Subscribers(b)) /\ Len(Subscribers(b)) \in Nat
            BY <5>1, SubscriberCount DEF Inv, TypeOK, Controlled
          <6> QED
            BY <6>1
        <5> HIDE DEF k
        <5>3. Subscribers(b)[k] # Snk
          BY <2>3, <5>1, <5>2, SendersToSink
        <5> QED
          BY <1>1, <5>1, <5>3 DEF TypeOK
      <4>2. CASE TakeMessage(b)
        BY <1>1, <1>4, <4>2 DEF TakeMessage, TypeOK
      <4>3. CASE ~handle_msg(b) /\ ~TakeMessage(b)
        BY <4>3 DEF Thread, InDrained, HandleDone, SystemDrained, CheckFinished, Wake, NotifySubscriber
      <4> QED
        BY <4>1, <4>2, <4>3
    <3> QED
      BY <1>2, <2>1, <3>1, <3>2 DEF SinkConserves
  <2> QED
    BY <2>2, <2>3
<1> QED
  BY <1>3, <1>4

\* main posts to the source only, and no message is on its way to the sink between runs.
LEMMA SinkMain ==
    ASSUME Inv, SinkConserves, Config = "diamond", Main
    PROVE  SinkConserves'
<1>1. /\ TypeOK /\ Snk \in Blocks /\ posted \in Nat /\ Src # Snk
  BY Names DEF Inv, TypeOK, Blocks
<1>2. ASSUME NEW p \in 1..Pipes
      PROVE  /\ LastBlock(p) \in Blocks /\ handled[LastBlock(p)] \in Nat
             /\ handled[LastBlock(p)] <= posted
  <2>1. LastBlock(p) \in Blocks /\ LastBlock(p) \in Pipeline
    BY LastBlocks
  <2>2. /\ handled[LastBlock(p)] \in Nat /\ inq[LastBlock(p)] \in Seq(Nat)
        /\ handled[LastBlock(p)] + Len(inq[LastBlock(p)]) <= posted
    BY <2>1 DEF Inv, TypeOK, Counted
  <2>3. Len(inq[LastBlock(p)]) \in Nat
    BY <2>2
  <2> QED
    BY <1>1, <2>1, <2>2, <2>3
<1>3. handled' = handled /\ inq'[Snk] = inq[Snk]
  BY <1>1 DEF Main, PostMessage, PostDoneAndRun, RunReturns, TypeOK
<1>4. ASSUME NEW p \in 1..Pipes
      PROVE  /\ PublishedTo(LastBlock(p), 1) = handled[LastBlock(p)]
             /\ PublishedTo(LastBlock(p), 1)' = handled[LastBlock(p)]
  <2>1. pc[LastBlock(p)] = "stopped"
    BY <1>2 DEF Main, PostMessage, PostDoneAndRun, RunReturns, Inv, Controlled
  <2>2. pc'[LastBlock(p)] # "pub"
    BY <1>1, <1>2, <2>1 DEF Main, PostMessage, PostDoneAndRun, RunReturns, TypeOK, Queues
  <2> QED
    BY <1>3, <2>1, <2>2 DEF PublishedTo
<1>5. Sent' = Sent
  <2>1. posted' = posted \/ posted' = posted + 1
    BY DEF Main, PostMessage, PostDoneAndRun, RunReturns
  <2>2. /\ Sent = {x \in (1..Pipes) \X (1..posted) : x[2] <= handled[LastBlock(x[1])]}
        /\ Sent' = {x \in (1..Pipes) \X (1..posted') : x[2] <= handled[LastBlock(x[1])]}
    BY <1>4 DEF Sent
  <2>3. ASSUME NEW x \in Sent PROVE x \in Sent'
    <3>1. x[1] \in 1..Pipes /\ x[2] \in 1..posted /\ x = <<x[1], x[2]>> /\ x[2] <= handled[LastBlock(x[1])]
      BY <2>2
    <3>2. x[2] \in 1..posted'
      BY <1>1, <2>1, <3>1
    <3> QED
      BY <2>2, <3>1, <3>2
  <2>4. ASSUME NEW x \in Sent' PROVE x \in Sent
    <3>1. x[1] \in 1..Pipes /\ x[2] \in 1..posted' /\ x = <<x[1], x[2]>> /\ x[2] <= handled[LastBlock(x[1])]
      BY <2>2
    <3>2. x[2] \in 1..posted
      BY <1>1, <1>2, <2>1, <3>1
    <3> QED
      BY <2>2, <3>1, <3>2
  <2> QED
    BY <2>3, <2>4
<1> QED
  BY <1>3, <1>5 DEF SinkConserves

\* A block that publishes has taken a message.
LEMMA TakingStep == ASSUME Inv, Taking, [Next]_vars PROVE Taking'
<1>1. TypeOK
  BY DEF Inv
<1>2. ASSUME NEW b \in Blocks, Thread(b) PROVE Taking'
  <2> SUFFICES ASSUME NEW a \in Blocks, pc'[a] = "pub" PROVE handled'[a] > 0
    BY DEF Taking
  <2>1. handled[a] \in Nat
    BY <1>1 DEF TypeOK
  <2>2. CASE TakeMessage(b)
    <3>1. IF a = b THEN handled'[a] = handled[a] + 1 ELSE handled'[a] = handled[a] /\ pc'[a] = pc[a]
      BY <1>1, <2>2 DEF TakeMessage, TypeOK
    <3> QED
      BY <2>1, <3>1 DEF Taking
  <2>3. CASE ~TakeMessage(b)
    <3>1. handled' = handled /\ pc[a] = "pub"
      BY <1>1, <1>2, <2>3, AfterFacts DEF TypeOK, Queues, Thread, handle_msg, InDrained, HandleDone,
         SystemDrained, CheckFinished, Wake, NotifySubscriber
    <3> QED
      BY <3>1 DEF Taking
  <2> QED
    BY <2>2, <2>3
<1>3. CASE Main
  <2>1. handled' = handled /\ \A a \in Blocks : pc'[a] # "pub" \/ pc'[a] = pc[a]
    BY <1>1, <1>3 DEF Main, PostMessage, PostDoneAndRun, RunReturns, TypeOK, Queues
  <2> QED
    BY <2>1 DEF Taking
<1>4. CASE UNCHANGED vars
  BY <1>4 DEF Taking, vars
<1> QED
  BY <1>2, <1>3, <1>4 DEF Next, Done

\* The sink keeps its account.
LEMMA SinkInductive ==
    /\ Init => Taking /\ SinkConserves
    /\ Inv /\ Inv' /\ Taking /\ SinkConserves /\ [Next]_vars => Taking' /\ SinkConserves'
<1>1. ASSUME Init PROVE Taking /\ SinkConserves
  <2>1. \A b \in Blocks : handled[b] = 0 /\ pc[b] = "stopped" /\ inq[b] = <<>>
    BY <1>1 DEF Init
  <2>2. posted = 0
    BY <1>1 DEF Init
  <2>3. Sent = {}
    BY <2>2 DEF Sent
  <2>4. Cardinality(Sent) = 0
    BY <2>3, FS_EmptySet
  <2> QED
    BY <2>1, <2>4 DEF Taking, SinkConserves, Blocks
<1>2. ASSUME Inv, Inv', Taking, SinkConserves, [Next]_vars PROVE Taking' /\ SinkConserves'
  <2>1. Taking'
    BY <1>2, TakingStep
  <2>2. ASSUME Config = "diamond" PROVE SinkConserves'
    <3>1. CASE UNCHANGED vars
      BY <1>2, <3>1 DEF vars, SinkConserves, Sent, PublishedTo
    <3> QED
      BY <1>2, <2>2, <3>1, SinkThread, SinkMain DEF Next, Done
  <2> QED
    BY <2>1, <2>2 DEF SinkConserves
<1> QED
  BY <1>1, <1>2

\* No message to the sink of a diamond is lost or repeated, in any run or between two.
THEOREM SinkConservation == Spec => []SinkConserves
<1> QED
  BY SinkInductive, Invariance, PTL DEF Spec
-----------------------------------------------------------------------------
(* Every run is finite *)

\* How far block b has come: what it has taken from its queues and passed on, where the
\* sink's "done"s that have not arrived yet count as not taken, and where its thread is
\* in a pass.  A thread that sleeps, or has yet to drain a queue, is set back by nothing.
Taken(b) ==
    handled[b] + (IF b = Snk THEN Cardinality(DoneSenders) - sysq[Snk]
                  ELSE IF finished[b] THEN 1 ELSE 0)
PassedOn(b) == Taken(b) - (IF pc[b] = "pub" THEN 1 ELSE 0)
Drained(b) ==
    IF pc[b] = order THEN inq[b] = <<>> /\ sysq[b] = 0
    ELSE IF pc[b] = "in" THEN inq[b] = <<>> ELSE sysq[b] = 0
Place(b) ==
    IF pc[b] \in Queues THEN (IF pc[b] = order THEN 0 ELSE 1) + (IF Drained(b) THEN 0 ELSE 4)
    ELSE IF pc[b] = "check" THEN 2
    ELSE IF pc[b] = "wait" THEN 3
    ELSE IF pc[b] = "stopped" THEN 6 + Pipes
    ELSE 6 + served[b]
Width == Pipes + 8
Progress(b) == Width * PassedOn(b) + Place(b)

\* In a run a block's progress has an upper bound.
ProgressBounded ==
    phase = "run" => \A b \in Blocks : Progress(b) <= Width * (Pipes * posted + Pipes + 1)

\* A step of a run sets no block back and brings one forward.
ProgressMade ==
    [][phase = "run" /\ phase' = "run" =>
          /\ \A b \in Blocks : Progress(b)' >= Progress(b)
          /\ \E b \in Blocks : Progress(b)' > Progress(b)]_vars

\* A whole turn outweighs a pass, so progress is ordered by turns first.
LEMMA Ahead ==
    ASSUME NEW t \in Int, NEW u \in Int, NEW p \in 0..(Width - 1), NEW q \in 0..(Width - 1)
    PROVE  /\ Width * t + p \in Int
           /\ t < u => Width * t + p < Width * u + q
           /\ t <= u /\ p <= q => Width * t + p <= Width * u + q
           /\ t = u /\ p < q => Width * t + p < Width * u + q
<1>1. Width \in Nat /\ Width > 0
  BY Constants DEF Width
<1> HIDE DEF Width
<1> DEFINE at == Width * t
           au == Width * u
<1>2. at \in Int /\ au \in Int
  BY <1>1
<1>3. t < u => at + Width <= au
  <2>1. Width * (t + 1) = at + Width
    BY <1>1
  <2>2. \A i, j \in Int : i <= j => Width * i <= Width * j
    BY <1>1
  <2>3. t < u => t + 1 <= u
    OBVIOUS
  <2> QED
    BY <2>1, <2>2, <2>3
<1>4. t = u => at = au
  OBVIOUS
<1> HIDE DEF at, au
<1>5. /\ t < u => at + p < au + q
      /\ t = u /\ p < q => at + p < au + q
      /\ t <= u /\ p <= q => at + p <= au + q
  BY <1>1, <1>2, <1>3, <1>4
<1> QED
  BY <1>2, <1>5 DEF at, au

\* No block has more subscribers than there are pipes.
LEMMA FewSubscribers == ASSUME NEW b \in Blocks PROVE Len(Subscribers(b)) <= Pipes
<1>1. CASE b = Src
  BY <1>1, SrcSubscribers, Constants
<1>2. CASE b \in StageBlocks
  <2>1. Len(Subscribers(b)) = 0 \/ Len(Subscribers(b)) = 1
    BY <1>2, StageSubscribers
  <2>2. 0 <= Pipes /\ 1 <= Pipes
    BY Constants
  <2> QED
    BY <2>1, <2>2
<1>3. CASE b = Snk /\ Config = "diamond"
  BY <1>3, SnkSubscribers, Constants
<1> QED
  BY <1>1, <1>2, <1>3 DEF Blocks, Pipeline

\* A thread's place is one of those a turn has room for.
LEMMA PlaceRange ==
    ASSUME Inv, NEW b \in Blocks
    PROVE  Place(b) \in 0..(Width - 1) /\ Taken(b) \in Int /\ PassedOn(b) \in Int
<1>1. /\ pc[b] \in PCs /\ served[b] \in Nat /\ handled[b] \in Nat /\ sysq \in [Blocks -> Nat]
      /\ Pipes \in Nat /\ Pipes > 0 /\ Cardinality(DoneSenders) \in Nat
  BY Constants, SentFacts DEF Inv, TypeOK
<1>2. pc[b] \in {"pub", "notify"} => served[b] < Pipes
  <2>1. Len(Subscribers(b)) \in Nat /\ Len(Subscribers(b)) <= Pipes
    BY SubscriberCount, FewSubscribers
  <2>2. pc[b] \in {"pub", "notify"} => served[b] < Len(Subscribers(b))
    BY DEF Inv, Controlled
  <2> QED
    BY <1>1, <2>1, <2>2
<1>3. Place(b) \in 0..(Width - 1)
  <2>1. CASE pc[b] \in Queues
    BY <1>1, <2>1 DEF Place, Width
  <2>2. CASE pc[b] \notin Queues
    BY <1>1, <1>2, <2>2 DEF Place, Width, PCs, Queues
  <2> QED
    BY <2>1, <2>2
<1>4. Taken(b) \in Int
  <2>1. CASE b = Snk
    BY <1>1, <2>1 DEF Taken
  <2>2. CASE b # Snk
    BY <1>1, <2>2 DEF Taken
  <2> QED
    BY <2>1, <2>2
<1> QED
  BY <1>3, <1>4 DEF PassedOn

\* What a thread's own step does to its queues, its counters and its place.
LEMMA OwnStep ==
    ASSUME Inv, Inv', NEW b \in Blocks, Thread(b),
           \* the sink sends nothing, so that what it is sent does not change
           b = Snk => Cardinality(DoneSenders)' = Cardinality(DoneSenders)
    PROVE  \/ PassedOn(b)' > PassedOn(b)
           \/ PassedOn(b)' = PassedOn(b) /\ Place(b)' > Place(b)
<1> DEFINE d == Cardinality(DoneSenders)
<1> HIDE DEF d
<1>1. /\ TypeOK /\ order \in Queues /\ order' = order /\ d \in Nat /\ Pipes \in Nat
      /\ handled[b] \in Nat /\ sysq[b] \in Nat /\ served[b] \in Nat /\ inq[b] \in Seq(Nat)
      /\ finished[b] \in BOOLEAN /\ pc[b] \in PCs
  <2>1. TypeOK /\ d \in Nat /\ Pipes \in Nat
    BY Constants, SentFacts DEF Inv, d
  <2>2. order' = order
    BY DEF Thread, TakeMessage, handle_msg, InDrained, HandleDone, SystemDrained,
           CheckFinished, Wake, NotifySubscriber
  <2> QED
    BY <2>1, <2>2 DEF TypeOK
<1>2. /\ Taken(b) = handled[b] + (IF b = Snk THEN d - sysq[b] ELSE IF finished[b] THEN 1 ELSE 0)
      /\ Taken(b)' = handled'[b] + (IF b = Snk THEN d - sysq'[b] ELSE IF finished'[b] THEN 1 ELSE 0)
      /\ Taken(b) \in Int
  BY PlaceRange DEF Taken, d
<1>3. /\ PassedOn(b) = Taken(b) - (IF pc[b] = "pub" THEN 1 ELSE 0)
      /\ PassedOn(b)' = Taken(b)' - (IF pc'[b] = "pub" THEN 1 ELSE 0)
  BY DEF PassedOn
<1>4. \A k \in 1..Len(Subscribers(b)) : Subscribers(b)[k] # b
  BY WiredDown
<1>5. pc[b] \in {"pub", "notify"} => served[b] + 1 \in 1..Len(Subscribers(b))
  <2>1. Len(Subscribers(b)) \in Nat
    BY SubscriberCount
  <2> QED
    BY <1>1, <2>1 DEF Inv, Controlled
<1>6. CASE TakeMessage(b)
  <2>1. /\ pc[b] = "in" /\ inq[b] # <<>> /\ handled'[b] = handled[b] + 1
        /\ sysq' = sysq /\ finished' = finished /\ pc'[b] \in {"in", "pub"}
        /\ served' = served
    BY <1>1, <1>6 DEF TakeMessage, TypeOK
  <2>2. Taken(b)' = Taken(b) + 1
    <3> DEFINE rest == IF b = Snk THEN d - sysq[b] ELSE IF finished[b] THEN 1 ELSE 0
    <3>1. rest \in Int
      BY <1>1
    <3> HIDE DEF rest
    <3>2. Taken(b) = handled[b] + rest /\ Taken(b)' = (handled[b] + 1) + rest
      BY <1>2, <2>1 DEF rest
    <3> QED
      BY <1>1, <3>1, <3>2
  <2>3. CASE pc'[b] = "in"
    BY <1>2, <1>3, <2>1, <2>2, <2>3
  <2>4. CASE pc'[b] = "pub"
    <3>1. ~Drained(b)
      BY <2>1 DEF Drained
    <3>2. Place(b) <= 5 /\ Place(b)' = 6 + served[b]
      BY <1>1, <2>1, <2>4, <3>1 DEF Place, Queues
    <3>3. Place(b) \in Int
      BY PlaceRange DEF Width
    <3> QED
      BY <1>1, <1>2, <1>3, <2>1, <2>2, <2>4, <3>2, <3>3
  <2> QED
    BY <2>1, <2>3, <2>4
<1>7. CASE handle_msg(b)
  <2> DEFINE last == served[b] + 1 = Len(Subscribers(b))
  <2>1. /\ pc[b] = "pub" /\ handled' = handled /\ sysq' = sysq /\ finished' = finished
        /\ served'[b] = IF last THEN 0 ELSE served[b] + 1
        /\ pc'[b] = IF last THEN "in" ELSE "pub"
    BY <1>1, <1>7 DEF handle_msg, TypeOK
  <2>2. Taken(b)' = Taken(b)
    BY <1>2, <2>1
  <2> HIDE DEF last
  <2>3. CASE last
    BY <1>2, <1>3, <2>1, <2>2, <2>3
  <2>4. CASE ~last
    <3>1. Place(b) = 6 + served[b] /\ Place(b)' = 6 + served[b] + 1
      BY <1>1, <2>1, <2>4 DEF Place, Queues
    <3> QED
      BY <1>1, <1>2, <1>3, <2>1, <2>2, <2>4, <3>1
  <2> QED
    BY <2>3, <2>4
<1>8. CASE HandleDone(b)
  <2>1. /\ pc[b] = "system" /\ pc' = pc /\ sysq[b] > 0 /\ handled' = handled
        /\ sysq'[b] = sysq[b] - 1 /\ finished'[b] = TRUE
    BY <1>1, <1>8 DEF HandleDone, TypeOK
  <2>2. b # Snk => ~finished[b]
    <3>1. SUFFICES ASSUME b # Snk, finished[b] PROVE FALSE
      OBVIOUS
    <3>2. phase = "run" /\ b \in Pipeline
      BY <2>1, <3>1, Running DEF Blocks
    <3>3. sysq[b] + 1 = 0 \/ sysq[b] + 1 = 1
      BY <3>1, <3>2 DEF Inv, DoneFollowsData, Pipeline
    <3> QED
      BY <1>1, <2>1, <3>3
  <2>3. Taken(b)' = Taken(b) + 1
    BY <1>1, <1>2, <2>1, <2>2
  <2> QED
    BY <1>2, <1>3, <2>1, <2>3
<1>9. CASE NotifySubscriber(b)
  <2> DEFINE last == served[b] + 1 = Len(Subscribers(b))
  <2>1. /\ pc[b] = "notify" /\ handled' = handled /\ finished' = finished
        /\ served'[b] = IF last THEN 0 ELSE served[b] + 1
        /\ pc'[b] = IF last THEN "stopped" ELSE "notify"
        /\ served[b] + 1 \in 1..Len(Subscribers(b))
        /\ sysq' = [sysq EXCEPT ![Subscribers(b)[served[b] + 1]] = @ + 1]
    BY <1>1, <1>5, <1>9 DEF NotifySubscriber, TypeOK
  <2>2. sysq'[b] = sysq[b]
    BY <1>1, <1>4, <2>1 DEF TypeOK
  <2>3. PassedOn(b)' = PassedOn(b)
    BY <1>2, <1>3, <2>1, <2>2
  <2>4. Len(Subscribers(b)) <= Pipes /\ Len(Subscribers(b)) \in Nat
    BY FewSubscribers, SubscriberCount
  <2>5. Place(b) = 6 + served[b] /\ served[b] < Pipes
    BY <1>1, <2>1, <2>4 DEF Place, Queues
  <2>6. Place(b)' = IF last THEN 6 + Pipes ELSE 6 + served[b] + 1
    BY <1>1, <2>1 DEF Place, Queues
  <2> QED
    BY <1>1, <2>3, <2>5, <2>6
<1>10. CASE InDrained(b) \/ SystemDrained(b) \/ CheckFinished(b) \/ Wake(b)
  <2>1. UNCHANGED <<inq, sysq, finished, served, handled>>
    BY <1>10 DEF InDrained, SystemDrained, CheckFinished, Wake
  <2>2. Taken(b)' = Taken(b)
    BY <1>2, <2>1
  <2>3. pc[b] # "pub" /\ pc'[b] # "pub"
    BY <1>1, <1>10, AfterFacts DEF InDrained, SystemDrained, CheckFinished, Wake, TypeOK, Queues
  <2>4. PassedOn(b)' = PassedOn(b)
    BY <1>2, <1>3, <2>2, <2>3
  <2>5. Place(b)' > Place(b)
    <3>1. CASE InDrained(b)
      <4>1. /\ pc[b] = "in" /\ inq[b] = <<>> /\ inq'[b] = <<>>
            /\ pc'[b] = IF order = "in" THEN "system" ELSE "check"
        BY <1>1, <3>1, AfterFacts DEF InDrained, TypeOK
      <4>2. CASE order = "in"
        BY <1>1, <2>1, <4>1, <4>2 DEF Place, Drained, Queues
      <4>3. CASE order = "system"
        BY <1>1, <4>1, <4>3 DEF Place, Drained, Queues
      <4> QED
        BY <1>1, <4>2, <4>3 DEF Queues
    <3>2. CASE SystemDrained(b)
      <4>1. /\ pc[b] = "system" /\ sysq[b] = 0
            /\ pc'[b] = IF order = "system" THEN "in" ELSE "check"
        BY <1>1, <3>2, AfterFacts DEF SystemDrained, TypeOK
      <4>2. CASE order = "system"
        BY <1>1, <2>1, <4>1, <4>2 DEF Place, Drained, Queues
      <4>3. CASE order = "in"
        BY <1>1, <4>1, <4>3 DEF Place, Drained, Queues
      <4> QED
        BY <1>1, <4>2, <4>3 DEF Queues
    <3>3. CASE CheckFinished(b)
      <4>1. pc[b] = "check" /\ pc'[b] \in {"wait", "stopped", "notify"}
        BY <1>1, <3>3 DEF CheckFinished, TypeOK
      <4> QED
        BY <1>1, <2>1, <4>1 DEF Place, Queues
    <3>4. CASE Wake(b)
      <4>1. pc[b] = "wait" /\ pc'[b] = order /\ (inq[b] # <<>> \/ sysq[b] > 0)
        BY <1>1, <3>4 DEF Wake, TypeOK
      <4>2. ~Drained(b)'
        BY <1>1, <2>1, <4>1 DEF Drained
      <4> QED
        BY <1>1, <4>1, <4>2 DEF Place, Queues
    <3> QED
      BY <1>10, <3>1, <3>2, <3>3, <3>4
  <2> QED
    BY <2>4, <2>5
<1> QED
  BY <1>6, <1>7, <1>8, <1>9, <1>10 DEF Thread

\* A step of another thread can only wake a block up or give it more to drain.
LEMMA OthersStep ==
    ASSUME Inv, Inv', BurstsApart, NEW b \in Blocks, Thread(b), NEW a \in Blocks, a # b
    PROVE  PassedOn(a)' >= PassedOn(a) /\ Place(a)' >= Place(a)
<1>1. /\ TypeOK /\ order \in Queues /\ order' = order /\ Pipes \in Nat
      /\ handled[a] \in Nat /\ sysq[a] \in Nat /\ sysq'[a] \in Nat /\ served[a] \in Nat
      /\ inq[a] \in Seq(Nat)
  <2>1. TypeOK /\ Pipes \in Nat
    BY Constants DEF Inv
  <2>2. order' = order
    BY DEF Thread, TakeMessage, handle_msg, InDrained, HandleDone, SystemDrained,
           CheckFinished, Wake, NotifySubscriber
  <2>3. sysq' \in [Blocks -> Nat]
    BY DEF Inv, TypeOK
  <2> QED
    BY <2>1, <2>2, <2>3 DEF TypeOK
<1>2. /\ pc'[a] = pc[a] /\ finished'[a] = finished[a]
      /\ served'[a] = served[a] /\ handled'[a] = handled[a]
  BY <1>1 DEF TypeOK, Thread, TakeMessage, handle_msg, InDrained, HandleDone, SystemDrained,
              CheckFinished, Wake, NotifySubscriber
<1>3. inq'[a] = <<>> => inq[a] = <<>>
  <2>1. CASE handle_msg(b)
    <3>1. PICK c : inq' = [inq EXCEPT ![c] = Append(@, cur[b])]
      BY <2>1 DEF handle_msg
    <3>2. cur[b] \in Nat
      BY <1>1 DEF TypeOK
    <3>3. Append(inq[a], cur[b]) # <<>>
      BY <1>1, <3>2, AppendProperties
    <3> QED
      BY <1>1, <3>1, <3>3 DEF TypeOK
  <2>2. CASE ~handle_msg(b)
    BY <1>1, <2>2 DEF TypeOK, Thread, TakeMessage, InDrained, HandleDone, SystemDrained,
                      CheckFinished, Wake, NotifySubscriber
  <2> QED
    BY <2>1, <2>2
<1>4. sysq'[a] >= sysq[a]
  <2>1. CASE NotifySubscriber(b)
    <3>1. PICK c : sysq' = [sysq EXCEPT ![c] = @ + 1]
      BY <2>1 DEF NotifySubscriber
    <3> QED
      BY <1>1, <3>1 DEF TypeOK
  <2>2. CASE ~NotifySubscriber(b)
    <3>1. sysq'[a] = sysq[a]
      BY <1>1, <2>2 DEF TypeOK, Thread, TakeMessage, handle_msg, InDrained, HandleDone, SystemDrained,
                        CheckFinished, Wake
    <3> QED
      BY <1>1, <3>1
  <2> QED
    BY <2>1, <2>2
<1>5. Place(a)' >= Place(a)
  <2>1. Drained(a)' => Drained(a)
    BY <1>1, <1>2, <1>3, <1>4 DEF Drained
  <2> QED
    BY <1>1, <1>2, <2>1 DEF Place, Queues
<1>6. Taken(a)' >= Taken(a) /\ Taken(a) \in Int /\ Taken(a)' \in Int
  <2>1. CASE a = Snk
    <3>1. Config = "diamond"
      BY <2>1, PipelineFacts DEF Blocks
    <3>2. \/ sysq'[Snk] = sysq[Snk]
          \/ sysq'[Snk] = sysq[Snk] + 1 /\ DoneSenders # DoneSenders'
      BY <2>1, <3>1, SentToSink
    <3>3. DoneSenders \subseteq DoneSenders'
      BY <3>1, SentGrows
    <3> DEFINE D == DoneSenders
               E == DoneSenders'
    <3>4. IsFiniteSet(E) /\ Cardinality(D) \in Nat /\ Cardinality(E) \in Nat
      <4>1. E \subseteq 1..Pipes
        BY DEF DoneSenders
      <4>2. IsFiniteSet(1..Pipes)
        BY <1>1, FS_Interval
      <4>3. IsFiniteSet(E)
        BY <4>1, <4>2, FS_Subset
      <4> QED
        BY <4>3, SentFacts, FS_CardinalityType
    <3>5. Cardinality(D) <= Cardinality(E) /\ (D # E => Cardinality(D) + 1 <= Cardinality(E))
      BY <3>3, <3>4, Larger
    <3>6. Taken(a) = handled[a] + (Cardinality(D) - sysq[a])
      BY <2>1 DEF Taken
    <3>7. Taken(a)' = handled[a] + (Cardinality(E) - sysq'[a])
      BY <1>2, <2>1 DEF Taken
    <3> HIDE DEF D, E
    <3>8. \/ sysq'[a] = sysq[a]
          \/ sysq'[a] = sysq[a] + 1 /\ D # E
      BY <2>1, <3>2 DEF D, E
    <3>9. Cardinality(D) - sysq[a] <= Cardinality(E) - sysq'[a]
      BY <1>1, <3>4, <3>5, <3>8
    <3>10. Cardinality(D) - sysq[a] \in Int /\ Cardinality(E) - sysq'[a] \in Int
      BY <1>1, <3>4
    <3> QED
      BY <1>1, <3>6, <3>7, <3>9, <3>10
  <2>2. CASE a # Snk
    <3>1. Taken(a)' = Taken(a)
      BY <1>2, <2>2 DEF Taken
    <3> QED
      BY <3>1, PlaceRange
  <2> QED
    BY <2>1, <2>2
<1>7. PassedOn(a)' >= PassedOn(a)
  BY <1>2, <1>6 DEF PassedOn
<1> QED
  BY <1>5, <1>7

\* The sink's thread sends nothing.
LEMMA SinkSilent ==
    ASSUME Inv, Thread(Snk), Snk \in Blocks
    PROVE  DoneSenders' = DoneSenders
<1>1. Config = "diamond" /\ TypeOK
  BY PipelineFacts DEF Blocks, Inv
<1>2. ASSUME NEW p \in 1..Pipes PROVE DoneSentTo(LastBlock(p), 1)' <=> DoneSentTo(LastBlock(p), 1)
  <2>1. LastBlock(p) \in Blocks /\ LastBlock(p) # Snk
    BY <1>1, LastBlocks
  <2> DEFINE c == LastBlock(p)
  <2>2. pc'[c] = pc[c] /\ finished'[c] = finished[c] /\ served'[c] = served[c]
    <3> HIDE DEF LastBlock
    <3> QED
      BY <1>1, <2>1 DEF TypeOK, Thread, TakeMessage, handle_msg, InDrained, HandleDone, SystemDrained,
                CheckFinished, Wake, NotifySubscriber
  <2> HIDE DEF c
  <2> QED
    BY <2>2 DEF DoneSentTo, c
<1> QED
  BY <1>2 DEF DoneSenders

\* A run does not go on for ever: each step of a thread brings its block forward and sets no
\* other back, whoever posts to whom meanwhile and whatever the sink still had in its queues.
THEOREM EveryStepCounts == Spec => ProgressMade
<1>a. Inv => \A a \in Blocks : Place(a) \in 0..(Width - 1) /\ PassedOn(a) \in Int
  BY PlaceRange
<1>b. Inv' => (\A a \in Blocks : Place(a) \in 0..(Width - 1) /\ PassedOn(a) \in Int)'
  BY <1>a, PTL
<1>1. ASSUME Inv, Inv', BurstsApart, Next, phase = "run", phase' = "run"
      PROVE  /\ \A a \in Blocks : Progress(a)' >= Progress(a)
             /\ \/ \E b \in Blocks : Progress(b)' > Progress(b)
                \/ UNCHANGED vars
  <2>1. ASSUME Main PROVE FALSE
    BY <1>1, <2>1 DEF Main, PostMessage, PostDoneAndRun, RunReturns
  <2>2. ~Done
    BY <1>1 DEF Done
  <2>3. PICK b \in Blocks : Thread(b)
    BY <1>1, <2>1, <2>2 DEF Next
  <2>4. b = Snk => Cardinality(DoneSenders)' = Cardinality(DoneSenders)
    BY <1>1, <2>3, SinkSilent
  <2>5. \/ PassedOn(b)' > PassedOn(b)
        \/ PassedOn(b)' = PassedOn(b) /\ Place(b)' > Place(b)
    BY <1>1, <2>3, <2>4, OwnStep
  <2>6. Width' = Width
    BY DEF Width
  <2>7. \A a \in Blocks : /\ Place(a) \in 0..(Width - 1) /\ PassedOn(a) \in Int
                          /\ Place(a)' \in 0..(Width - 1) /\ PassedOn(a)' \in Int
    BY <1>1, <1>a, <1>b, <2>6
  <2>8. Progress(b)' > Progress(b)
    <3> DEFINE t == PassedOn(b)
               u == PassedOn(b)'
               p == Place(b)
               q == Place(b)'
    <3>1. t \in Int /\ u \in Int /\ p \in 0..(Width - 1) /\ q \in 0..(Width - 1)
          /\ (t < u \/ (t = u /\ p < q))
      BY <2>5, <2>7
    <3>2. Progress(b) = Width * t + p /\ Progress(b)' = Width * u + q
      BY <2>6 DEF Progress
    <3> HIDE DEF t, u, p, q
    <3>3. Width * t + p < Width * u + q
      BY <3>1, Ahead
    <3> QED
      BY <3>2, <3>3, <3>1, Ahead
  <2>9. ASSUME NEW a \in Blocks PROVE Progress(a)' >= Progress(a)
    <3> DEFINE t == PassedOn(a)
               u == PassedOn(a)'
               p == Place(a)
               q == Place(a)'
    <3>1. CASE a = b
      <4>1. t \in Int /\ u \in Int /\ p \in 0..(Width - 1) /\ q \in 0..(Width - 1)
        BY <2>7
      <4>2. Progress(a) = Width * t + p /\ Progress(a)' = Width * u + q
        BY <2>6 DEF Progress
      <4> HIDE DEF t, u, p, q
      <4>3. Progress(a) \in Int /\ Progress(a)' \in Int
        BY <4>1, <4>2, Ahead
      <4> QED
        BY <2>8, <3>1, <4>3
    <3>2. CASE a # b
      <4>1. /\ t \in Int /\ u \in Int /\ p \in 0..(Width - 1) /\ q \in 0..(Width - 1)
            /\ t <= u /\ p <= q
        <5>1. PassedOn(a)' >= PassedOn(a) /\ Place(a)' >= Place(a)
          BY <1>1, <2>3, <3>2, OthersStep
        <5> QED
          BY <2>7, <5>1
      <4>2. Progress(a) = Width * t + p /\ Progress(a)' = Width * u + q
        BY <2>6 DEF Progress
      <4> HIDE DEF t, u, p, q
      <4>3. Width * t + p <= Width * u + q /\ Width * t + p \in Int /\ Width * u + q \in Int
        BY <4>1, Ahead
      <4> QED
        BY <4>2, <4>3
    <3> QED
      BY <3>1, <3>2
  <2> QED
    BY <2>8, <2>9
<1>2. Inv /\ Inv' /\ BacklogInv /\ [Next]_vars =>
         [phase = "run" /\ phase' = "run" =>
             /\ \A b \in Blocks : Progress(b)' >= Progress(b)
             /\ \E b \in Blocks : Progress(b)' > Progress(b)]_vars
  BY <1>1 DEF BacklogInv
<1> QED
  BY <1>2, BacklogInductive, Invariance, PTL DEF Spec, ProgressMade

\* And a block can only come so far in a run: what it can take and pass on is what was
\* posted (for the sink, what was posted once per pipe) and one "done" of each pipe.
THEOREM ProgressEnds == Spec => []ProgressBounded
<1>1. ASSUME Inv, SinkConserves, NEW b \in Blocks
      PROVE  Progress(b) <= Width * (Pipes * posted + Pipes + 1)
  <2> DEFINE most == Pipes * posted
  <2>1. Pipes \in Nat /\ Pipes > 0 /\ posted \in Nat /\ most \in Nat /\ posted <= most
    <3>1. Pipes \in Nat /\ Pipes > 0 /\ posted \in Nat
      BY <1>1, Constants DEF Inv, TypeOK
    <3>2. \A m, n \in Nat : m > 0 => n <= m * n /\ m * n \in Nat
      OBVIOUS
    <3> QED
      BY <3>1, <3>2
  <2>2. /\ handled[b] \in Nat /\ sysq[b] \in Nat /\ Len(inq[b]) \in Nat
        /\ Cardinality(DoneSenders) \in Nat /\ Cardinality(DoneSenders) <= Pipes
    BY <1>1, SentFacts, LenProperties DEF Inv, TypeOK
  <2> HIDE DEF most
  <2>3. Taken(b) <= most + Pipes
    <3>1. CASE b = Snk
      <4>1. Config = "diamond"
        BY <3>1, PipelineFacts DEF Blocks
      <4>2. handled[b] + Len(inq[b]) = Cardinality(Sent)
        BY <1>1, <3>1, <4>1 DEF SinkConserves
      <4>3. Cardinality(Sent) \in Nat /\ Cardinality(Sent) <= most
        BY <1>1, SentFinite DEF most
      <4>4. Taken(b) = handled[b] + (Cardinality(DoneSenders) - sysq[b])
        BY <3>1 DEF Taken
      <4> QED
        BY <2>1, <2>2, <4>2, <4>3, <4>4
    <3>2. CASE b # Snk
      <4>1. b \in Pipeline
        BY <3>2 DEF Blocks
      <4>2. handled[b] + Len(inq[b]) <= posted
        BY <1>1, <4>1 DEF Inv, Counted
      <4>3. Taken(b) = handled[b] + (IF finished[b] THEN 1 ELSE 0)
        BY <3>2 DEF Taken
      <4> QED
        BY <2>1, <2>2, <4>2, <4>3
    <3> QED
      BY <3>1, <3>2
  <2>4. Place(b) \in 0..(Width - 1) /\ Taken(b) \in Int /\ PassedOn(b) \in Int
    BY <1>1, PlaceRange
  <2>5. PassedOn(b) < most + Pipes + 1
    BY <2>1, <2>3, <2>4 DEF PassedOn
  <2>6. Width \in Nat /\ Width > 0
    BY <2>1 DEF Width
  <2>7. Width * PassedOn(b) + Place(b) < Width * (most + Pipes + 1) + 0
    <3> DEFINE u == most + Pipes + 1
    <3>1. u \in Int /\ 0 \in 0..(Width - 1) /\ PassedOn(b) < u
      BY <2>1, <2>5, <2>6
    <3> HIDE DEF u
    <3>2. Width * PassedOn(b) + Place(b) < Width * u + 0
      BY <2>4, <3>1, Ahead
    <3> QED
      BY <3>2 DEF u
  <2>8. Width * (most + Pipes + 1) \in Int /\ Width * PassedOn(b) + Place(b) \in Int
    BY <2>1, <2>4, <2>6
  <2> QED
    BY <2>7, <2>8 DEF Progress, most
<1>2. Inv /\ SinkConserves => ProgressBounded
  BY <1>1 DEF ProgressBounded
<1> QED
  BY <1>2, SinkInductive, Invariance, PTL DEF Spec
==============================================================================
