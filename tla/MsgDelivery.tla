----------------------------- MODULE MsgDelivery -----------------------------
(***************************************************************************)
(* What the message flow graph of utils/run_msg_flowgraph.cpp promises the *)
(* benchmark that drives it: messages are numbered in the order in which   *)
(* main posts them to the source, and the last block of every pipe handles *)
(* exactly the messages 1, 2, 3, ... in this order, none twice, none       *)
(* skipped, and none before it was posted.                                 *)
(***************************************************************************)
EXTENDS Naturals

CONSTANT Pipes

VARIABLES posted,    \* number of the last message main has posted
          delivered  \* delivered[p]: number of the last message that reached the end of pipe p

vars == <<posted, delivered>>

Init == /\ posted = 0
        /\ delivered = [p \in 1..Pipes |-> 0]

Post == /\ posted' = posted + 1
        /\ UNCHANGED delivered

Deliver(p) == /\ delivered[p] < posted
              /\ delivered' = [delivered EXCEPT ![p] = @ + 1]
              /\ UNCHANGED posted

Next == Post \/ \E p \in 1..Pipes : Deliver(p)

Spec == Init /\ [][Next]_vars
=============================================================================
