---------------------------- MODULE StreamWorkload ----------------------------
(***************************************************************************)
(* What one run of the stream benchmarks (run_buf_flowgraph.cpp and .py,   *)
(* run_opti_flowgraph.cpp) promises the time that is measured around       *)
(* tb->run(): every sink takes in its whole workload, no more and no less, *)
(* before run() returns, and nothing is processed after it.                *)
(***************************************************************************)
EXTENDS Naturals

VARIABLES
    load,      \* load[k]: the items sink k has to take in, given by the command line
    consumed,  \* consumed[k]: items sink k has taken in
    returned   \* run() has returned

vars == <<load, consumed, returned>>

Sinks == DOMAIN load

Init == /\ load \in [Sinks -> Nat]
        /\ consumed = [k \in Sinks |-> 0]
        /\ returned = FALSE

Consume(k) == /\ ~returned
              /\ \E n \in 1..(load[k] - consumed[k]) :
                    consumed' = [consumed EXCEPT ![k] = @ + n]
              /\ UNCHANGED <<load, returned>>

Return == /\ ~returned
          /\ \A k \in Sinks : consumed[k] = load[k]
          /\ returned' = TRUE
          /\ UNCHANGED <<load, consumed>>

Next == Return \/ \E k \in Sinks : Consume(k)

Spec == Init /\ [][Next]_vars
=============================================================================
