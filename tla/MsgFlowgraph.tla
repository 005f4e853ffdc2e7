---------------------------- MODULE MsgFlowgraph ----------------------------
(***************************************************************************)
(* The message-passing benchmark: utils/run_msg_flowgraph.cpp builds a     *)
(* graph of msg_forward blocks (lib/msg_forward_impl.cc), queues a burst   *)
(* of messages and a "done" on the source, and measures the time tb->run() *)
(* takes, once per repetition.                                             *)
(*                                                                         *)
(* GNU Radio's thread-per-block scheduler is not part of the repository;   *)
(* it is modelled from the way the program uses it.  Every block has a     *)
(* thread and two message queues, "in" and "system".  A thread drains the  *)
(* queues in one fixed order, which follows the addresses of the interned  *)
(* port names and so differs from one start of the program to another.  A  *)
(* "done" on "system" makes the block finished; a thread that finds its    *)
(* block finished after a pass over the queues posts "done" to every       *)
(* subscriber and ends.  run() returns when all threads have ended; what   *)
(* is left in the queues stays there for the next run().                   *)
(***************************************************************************)
EXTENDS Integers, Sequences

CONSTANTS
    Pipes,        \* --pipes
    Stages,       \* --stages
    Config,       \* --config
    BurstSize,    \* --burst_size
    Repetitions   \* --repetitions

ASSUME PipesAssumption == Pipes \in Nat \ {0}
ASSUME StagesAssumption == Stages \in Int
ASSUME ConfigAssumption == Config \in {"fork", "diamond"}
ASSUME BurstAssumption == BurstSize \in Nat /\ Repetitions \in Nat
-----------------------------------------------------------------------------
(* The graph. *)

\* The first block of a pipe is made before the loop over the stages.
LastStage == IF Stages < 1 THEN 1 ELSE Stages

Src == <<"src", 0, 0>>
Snk == <<"snk", 0, 0>>
Stage(p, s) == <<"stage", p, s>>

StageBlocks == {Stage(p, s) : p \in 1..Pipes, s \in 1..LastStage}
Pipeline == {Src} \cup StageBlocks   \* every block but the sink of a diamond
Blocks == Pipeline \cup (IF Config = "diamond" THEN {Snk} ELSE {})

\* Mutant: the stages of one pipe are connected to those of every pipe.
create_fork_Crossed(b) ==
    IF b = Src THEN [p \in 1..Pipes |-> Stage(p, 1)]
    ELSE IF b[3] < LastStage THEN [p \in 1..Pipes |-> Stage(p, b[3] + 1)] ELSE <<>>

\* The subscribers of b's "out" port, in the order of the msg_connect calls.
create_fork(b) ==
    IF b = Src THEN [p \in 1..Pipes |-> Stage(p, 1)]
    ELSE IF b[3] < LastStage THEN <<Stage(b[2], b[3] + 1)>> ELSE <<>>

\* Mutant: the last stages are connected to the sink twice.
create_diamond_Twice(b) ==
    IF b \in {Stage(p, LastStage) : p \in 1..Pipes} THEN <<Snk, Snk>>
    ELSE IF b = Snk THEN <<>> ELSE create_fork(b)

create_diamond(b) ==
    IF b \in {Stage(p, LastStage) : p \in 1..Pipes} THEN <<Snk>>
    ELSE IF b = Snk THEN <<>> ELSE create_fork(b)

Subscribers(b) == IF Config = "fork" THEN create_fork(b) ELSE create_diamond(b)
-----------------------------------------------------------------------------
VARIABLES
    phase,     \* where main is in its loop over the repetitions
    rep,       \* repetitions completed
    burst,     \* messages of the current burst posted so far
    posted,    \* messages posted so far in all repetitions: the number of the last one
    order,     \* the queue every thread drains first
    pc,        \* pc[b]: what the thread of block b does next
    inq,       \* inq[b]: the messages in b's "in" queue
    sysq,      \* sysq[b]: the number of "done" messages in b's "system" queue
    finished,  \* finished[b]: b has handled a "done"
    cur,       \* cur[b]: the message b is handling or has handled last
    served,    \* served[b]: subscribers that already have the message or "done" b is sending
    handled    \* handled[b]: number of messages b has taken from "in" (history variable)

mainVars == <<phase, rep, burst, posted>>
vars == <<phase, rep, burst, posted, order, pc, inq, sysq, finished, cur, served, handled>>

Queues == {"in", "system"}
Phases == {"post", "run", "exit"}
PCs == {"stopped", "in", "system", "check", "wait", "pub", "notify"}

\* What follows queue q in a pass over the queues.
After(q) == IF q = order THEN CHOOSE r \in Queues : r # q ELSE "check"

Init ==
    /\ phase = IF Repetitions = 0 THEN "exit" ELSE "post"
    /\ rep = 0 /\ burst = 0 /\ posted = 0
    /\ order \in Queues
    /\ pc = [b \in Blocks |-> "stopped"]
    /\ inq = [b \in Blocks |-> <<>>]
    /\ sysq = [b \in Blocks |-> 0]
    /\ finished = [b \in Blocks |-> FALSE]
    /\ cur = [b \in Blocks |-> 0]
    /\ served = [b \in Blocks |-> 0]
    /\ handled = [b \in Blocks |-> 0]
-----------------------------------------------------------------------------
(* main *)

\* runner->src->post("in", msg)
PostMessage ==
    /\ phase = "post" /\ burst < BurstSize
    /\ burst' = burst + 1 /\ posted' = posted + 1
    /\ inq' = [inq EXCEPT ![Src] = Append(@, posted + 1)]
    /\ UNCHANGED <<phase, rep, order, pc, sysq, finished, cur, served, handled>>

\* Mutant: the flag of the previous run is not cleared.
PostDoneAndRun_KeepsFinished ==
    /\ phase = "post" /\ burst = BurstSize
    /\ phase' = "run"
    /\ sysq' = [sysq EXCEPT ![Src] = @ + 1]
    /\ pc' = [b \in Blocks |-> order]
    /\ UNCHANGED <<rep, burst, posted, order, inq, finished, cur, served, handled>>

\* Mutant: main does not post the "done".
PostDoneAndRun_NoDone ==
    /\ phase = "post" /\ burst = BurstSize
    /\ phase' = "run"
    /\ pc' = [b \in Blocks |-> order]
    /\ finished' = [b \in Blocks |-> FALSE]
    /\ UNCHANGED <<rep, burst, posted, order, inq, sysq, cur, served, handled>>

\* runner->src->post("system", done), then the call of tb->run(), which starts
\* one thread per block and forgets that the blocks were finished before.
PostDoneAndRun ==
    /\ phase = "post" /\ burst = BurstSize
    /\ phase' = "run"
    /\ sysq' = [sysq EXCEPT ![Src] = @ + 1]
    /\ pc' = [b \in Blocks |-> order]
    /\ finished' = [b \in Blocks |-> FALSE]
    /\ UNCHANGED <<rep, burst, posted, order, inq, cur, served, handled>>

\* Mutant: the counter of the burst is not reset between two repetitions.
RunReturns_KeepsBurst ==
    /\ phase = "run" /\ \A b \in Blocks : pc[b] = "stopped"
    /\ rep' = rep + 1
    /\ phase' = IF rep + 1 < Repetitions THEN "post" ELSE "exit"
    /\ UNCHANGED <<burst, posted, order, pc, inq, sysq, finished, cur, served, handled>>

\* tb->run() returns when every thread has ended.
RunReturns ==
    /\ phase = "run" /\ \A b \in Blocks : pc[b] = "stopped"
    /\ rep' = rep + 1
    /\ burst' = 0
    /\ phase' = IF rep + 1 < Repetitions THEN "post" ELSE "exit"
    /\ UNCHANGED <<posted, order, pc, inq, sysq, finished, cur, served, handled>>

Main == PostMessage \/ PostDoneAndRun \/ RunReturns
-----------------------------------------------------------------------------
(* The thread of block b *)

\* The head of "in" goes to handle_msg.
TakeMessage(b) ==
    /\ pc[b] = "in" /\ inq[b] # <<>>
    /\ cur' = [cur EXCEPT ![b] = Head(inq[b])]
    /\ inq' = [inq EXCEPT ![b] = Tail(@)]
    /\ handled' = [handled EXCEPT ![b] = @ + 1]
    /\ pc' = [pc EXCEPT ![b] = IF Subscribers(b) = <<>> THEN "in" ELSE "pub"]
    /\ UNCHANGED <<mainVars, order, sysq, finished, served>>

\* Mutant: only the first subscriber gets the message.
handle_msg_FirstOnly(b) ==
    /\ pc[b] = "pub"
    /\ inq' = [inq EXCEPT ![Subscribers(b)[1]] = Append(@, cur[b])]
    /\ pc' = [pc EXCEPT ![b] = "in"]
    /\ UNCHANGED <<mainVars, order, sysq, finished, cur, served, handled>>

\* Mutant: the message overtakes those already queued.
handle_msg_Overtakes(b) ==
    LET to == Subscribers(b)[served[b] + 1]
        last == served[b] + 1 = Len(Subscribers(b))
    IN  /\ pc[b] = "pub"
        /\ inq' = [inq EXCEPT ![to] = <<cur[b]>> \o @]
        /\ served' = [served EXCEPT ![b] = IF last THEN 0 ELSE @ + 1]
        /\ pc' = [pc EXCEPT ![b] = IF last THEN "in" ELSE "pub"]
        /\ UNCHANGED <<mainVars, order, sysq, finished, cur, handled>>

\* handle_msg: message_port_pub("out", pdu) posts to one subscriber after the other.
handle_msg(b) ==
    LET to == Subscribers(b)[served[b] + 1]
        last == served[b] + 1 = Len(Subscribers(b))
    IN  /\ pc[b] = "pub"
        /\ inq' = [inq EXCEPT ![to] = Append(@, cur[b])]
        /\ served' = [served EXCEPT ![b] = IF last THEN 0 ELSE @ + 1]
        /\ pc' = [pc EXCEPT ![b] = IF last THEN "in" ELSE "pub"]
        /\ UNCHANGED <<mainVars, order, sysq, finished, cur, handled>>

InDrained(b) ==
    /\ pc[b] = "in" /\ inq[b] = <<>>
    /\ pc' = [pc EXCEPT ![b] = After("in")]
    /\ UNCHANGED <<mainVars, order, inq, sysq, finished, cur, served, handled>>

\* Mutant: a "done" is handled whether there is one or not.
HandleDone_Unguarded(b) ==
    /\ pc[b] = "system"
    /\ sysq' = [sysq EXCEPT ![b] = @ - 1]
    /\ finished' = [finished EXCEPT ![b] = TRUE]
    /\ UNCHANGED <<mainVars, order, pc, inq, cur, served, handled>>

\* The handler of the "system" port.
HandleDone(b) ==
    /\ pc[b] = "system" /\ sysq[b] > 0
    /\ sysq' = [sysq EXCEPT ![b] = @ - 1]
    /\ finished' = [finished EXCEPT ![b] = TRUE]
    /\ UNCHANGED <<mainVars, order, pc, inq, cur, served, handled>>

SystemDrained(b) ==
    /\ pc[b] = "system" /\ sysq[b] = 0
    /\ pc' = [pc EXCEPT ![b] = After("system")]
    /\ UNCHANGED <<mainVars, order, inq, sysq, finished, cur, served, handled>>

CheckFinished(b) ==
    /\ pc[b] = "check"
    /\ pc' = [pc EXCEPT ![b] = IF ~finished[b] THEN "wait"
                               ELSE IF Subscribers(b) = <<>> THEN "stopped" ELSE "notify"]
    /\ UNCHANGED <<mainVars, order, inq, sysq, finished, cur, served, handled>>

\* A post to either queue wakes the thread.
Wake(b) ==
    /\ pc[b] = "wait" /\ (inq[b] # <<>> \/ sysq[b] > 0)
    /\ pc' = [pc EXCEPT ![b] = order]
    /\ UNCHANGED <<mainVars, order, inq, sysq, finished, cur, served, handled>>

\* The ending thread posts "done" to one subscriber after the other.
NotifySubscriber(b) ==
    LET to == Subscribers(b)[served[b] + 1]
        last == served[b] + 1 = Len(Subscribers(b))
    IN  /\ pc[b] = "notify"
        /\ sysq' = [sysq EXCEPT ![to] = @ + 1]
        /\ served' = [served EXCEPT ![b] = IF last THEN 0 ELSE @ + 1]
        /\ pc' = [pc EXCEPT ![b] = IF last THEN "stopped" ELSE "notify"]
        /\ UNCHANGED <<mainVars, order, inq, finished, cur, handled>>

Thread(b) ==
    \/ TakeMessage(b) \/ handle_msg(b) \/ InDrained(b)
    \/ HandleDone(b) \/ SystemDrained(b)
    \/ CheckFinished(b) \/ Wake(b) \/ NotifySubscriber(b)

Done == phase = "exit" /\ UNCHANGED vars

Next == Main \/ (\E b \in Blocks : Thread(b)) \/ Done

Spec == Init /\ [][Next]_vars
FairSpec == Spec /\ WF_vars(Main) /\ \A b \in Blocks : WF_vars(Thread(b))
-----------------------------------------------------------------------------
(* Properties *)

\* Every variable has its type; a "done" is only taken from a queue that has one.
TypeOK ==
    /\ phase \in Phases /\ order \in Queues
    /\ rep \in Nat /\ burst \in Nat /\ posted \in Nat
    /\ pc \in [Blocks -> PCs]
    /\ inq \in [Blocks -> Seq(Nat)]
    /\ sysq \in [Blocks -> Nat]
    /\ finished \in [Blocks -> BOOLEAN]
    /\ cur \in [Blocks -> Nat]
    /\ served \in [Blocks -> Nat]
    /\ handled \in [Blocks -> Nat]

\* The one block that feeds c, and c's place among that block's subscribers.
Upstream(c) == IF c[3] = 1 THEN Src ELSE Stage(c[2], c[3] - 1)
Position(c) == IF c[3] = 1 THEN c[2] ELSE 1

\* The number of messages block a has published to its k-th subscriber.
PublishedTo(a, k) == IF pc[a] = "pub" /\ served[a] < k THEN handled[a] - 1 ELSE handled[a]

\* Block a has posted its "done" to its k-th subscriber in this run.
DoneSentTo(a, k) ==
    \/ pc[a] = "stopped" /\ finished[a]
    \/ pc[a] = "notify" /\ k <= served[a]

\* Whatever the threads' interleaving, the queue between two blocks of a pipe holds
\* exactly the messages the first has published and the second has not taken, in
\* the order of posting: message_port_pub neither loses, repeats nor reorders, and
\* the queues survive the end of a run (handle_msg, create_fork, create_diamond).
EdgesConserveMessages ==
    /\ handled[Src] + Len(inq[Src]) = posted
    /\ \A c \in StageBlocks :
          handled[c] + Len(inq[c]) = PublishedTo(Upstream(c), Position(c))
    /\ \A c \in Pipeline : \A k \in 1..Len(inq[c]) : inq[c][k] = handled[c] + k

\* In a run a block of a pipe hears of "done" only after the block that feeds it has
\* published its last message, and hears of it once: no "done" of one repetition is
\* left for the next (main posts one "done" per repetition, lines 143-144).
DoneFollowsData ==
    /\ sysq[Src] + (IF phase = "run" /\ finished[Src] THEN 1 ELSE 0) = IF phase = "run" THEN 1 ELSE 0
    /\ \A c \in StageBlocks :
        sysq[c] + (IF phase = "run" /\ finished[c] THEN 1 ELSE 0) =
            IF phase = "run" /\ DoneSentTo(Upstream(c), Position(c)) THEN 1 ELSE 0

\* If the threads look at "system" before "in", a block of a pipe never ends with
\* messages left in its queue: the "done" that ends it is behind all the data.
NothingStranded ==
    order = "system" =>
        \A c \in Pipeline :
            (phase = "run" /\ pc[c] = "stopped") => inq[c] = <<>>

\* With that order a repetition of the benchmark measures its own burst: when run()
\* returns, every block of every pipe has handled exactly the messages posted so far.
RepetitionMeasuresItsBurst ==
    [][rep' # rep /\ order = "system" =>
          \A c \in Pipeline : handled[c] = rep' * BurstSize]_vars

\* What README.md says of the run time, "the run time that is required to process a
\* given workload (PMT messages or samples)": when run() returns the workload is done.  With
\* "system" drained first a fork keeps it (NothingStranded); what is left is left at the sink of
\* a diamond.
WorkloadProcessed ==
    order = "system" /\ phase = "run" /\ (\A b \in Blocks : pc[b] = "stopped") =>
        \A b \in Blocks : inq[b] = <<>>

\* The sink of a diamond ends at the first "done" of Pipes, so it may leave messages
\* and "done"s behind for the next repetition; the "done"s never pile up beyond those of
\* one repetition, nor do the messages if no block of a pipe strands any of its own.
SinkBacklogBounded ==
    (Config = "diamond" /\ phase # "run") =>
        /\ sysq[Snk] <= Pipes
        /\ order = "system" => Len(inq[Snk]) <= Pipes * BurstSize

\* main gets through all its repetitions: every run() returns.
MainTerminates == <>(phase = "exit" /\ rep = Repetitions)

\* The end of every pipe delivers the posted messages in order, exactly once.
Delivery == INSTANCE MsgDelivery WITH
    delivered <- [p \in 1..Pipes |-> cur[Stage(p, LastStage)]]
DeliverySpec == Delivery!Spec
=============================================================================
