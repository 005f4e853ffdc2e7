-------------------------------- MODULE Ncopy --------------------------------
(***************************************************************************)
(* The ncopy block (lib/ncopy_impl.cc), which stands in for a chain of     *)
(* d_n copy blocks in the "perf" configuration of run_opti_flowgraph: a    *)
(* work call copies its items through d_n - 1 buffers of the block, which  *)
(* keep what earlier, longer calls have left in them.                      *)
(***************************************************************************)
EXTENDS Integers, Sequences

CONSTANTS
    Values,       \* the items of the stream
    Undef,        \* what a buffer holds before it is written
    Ntimes,       \* arguments of ncopy::make
    Buffers,      \* rows of ncopy_impl::buffers
    BufferItems,  \* items in a row
    MaxTimes      \* the largest argument the constructor accepts

ASSUME ValuesAssumption == Undef \notin Values
ASSUME NtimesAssumption == Ntimes \subseteq Int
ASSUME BuffersAssumption == MaxTimes \in Nat /\ Buffers \in Nat /\ MaxTimes < Buffers
ASSUME BufferItemsAssumption == BufferItems \in Nat \ {0}

VARIABLES
    d_n,      \* the block's number of copies
    pc,       \* where the block's thread is
    in,       \* the items offered to the current call
    buffers,  \* buffers[r][k], both counted from 0 as in the code
    i,        \* the loop variable of work
    out,      \* the items written by the current call
    copies    \* calls of memcpy in this work call (history variable)

vars == <<d_n, pc, in, buffers, i, out, copies>>

Rows == 0..(Buffers - 1)

\* The items a call may be offered: no more than a row holds (set_max_noutput_items).
Offers == UNION {[1..n -> Values] : n \in 1..BufferItems}

\* memcpy of a call's items into the front of a row.
Front(row, items) == [k \in 1..BufferItems |-> IF k \in DOMAIN items THEN items[k] ELSE row[k]]

\* The constructor throws if ntimes is too large, and leaves the buffers as they are.
Init ==
    /\ d_n \in Ntimes
    /\ pc = IF d_n > MaxTimes THEN "thrown" ELSE "idle"
    /\ in = <<>> /\ out = <<>>
    /\ buffers = [r \in Rows |-> [k \in 1..BufferItems |-> Undef]]
    /\ i = 0 /\ copies = 0

\* work: fewer than two copies need no buffer, otherwise the first row takes the items.
Work ==
    /\ pc = "idle"
    /\ \E items \in Offers :
          /\ in' = items
          /\ IF d_n < 2
             THEN out' = items /\ pc' = "return" /\ UNCHANGED buffers
             ELSE /\ buffers' = [buffers EXCEPT ![0] = Front(@, items)]
                  /\ pc' = "loop" /\ UNCHANGED out
    /\ i' = 0 /\ copies' = 1
    /\ UNCHANGED d_n

\* Mutant: the loop copies one row more.
CopyRow_OneMore ==
    /\ pc = "loop" /\ i < d_n - 1
    /\ buffers' = [buffers EXCEPT ![i + 1] =
                      Front(@, [k \in DOMAIN in |-> buffers[i][k]])]
    /\ i' = i + 1 /\ copies' = copies + 1
    /\ UNCHANGED <<d_n, pc, in, out>>

\* The loop copies each row to the next one.
CopyRow ==
    /\ pc = "loop" /\ i < d_n - 2
    /\ buffers' = [buffers EXCEPT ![i + 1] =
                      Front(@, [k \in DOMAIN in |-> buffers[i][k]])]
    /\ i' = i + 1 /\ copies' = copies + 1
    /\ UNCHANGED <<d_n, pc, in, out>>

\* Mutant: the loop is left before its last round.
CopyOut_Early ==
    /\ pc = "loop" /\ i >= d_n - 3
    /\ out' = [k \in DOMAIN in |-> buffers[i][k]]
    /\ pc' = "return" /\ copies' = copies + 1
    /\ UNCHANGED <<d_n, in, buffers, i>>

\* The last row written goes to the output.
CopyOut ==
    /\ pc = "loop" /\ i >= d_n - 2
    /\ out' = [k \in DOMAIN in |-> buffers[d_n - 2][k]]
    /\ pc' = "return" /\ copies' = copies + 1
    /\ UNCHANGED <<d_n, in, buffers, i>>

Return ==
    /\ pc = "return"
    /\ pc' = "idle"
    /\ UNCHANGED <<d_n, in, buffers, i, out, copies>>

Thrown == pc = "thrown" /\ UNCHANGED vars

Next == Work \/ CopyRow \/ CopyOut \/ Return \/ Thrown

Spec == Init /\ [][Next]_vars
-----------------------------------------------------------------------------
(* Properties *)

\* Every variable has its type: what is written to the output is never undefined, and no
\* row outside the array is touched, for every ntimes the constructor accepts (the check
\* against 99 and the bound d_n - 2 of the loop).
TypeOK ==
    /\ d_n \in Int
    /\ pc \in {"idle", "loop", "return", "thrown"}
    /\ in \in Offers \cup {<<>>}
    /\ buffers \in [Rows -> [1..BufferItems -> Values \cup {Undef}]]
    /\ i \in Nat
    /\ out \in Offers \cup {<<>>}
    /\ copies \in Nat
    /\ pc = "loop" => {i, d_n - 2} \subseteq Rows /\ i <= d_n - 2

\* A call does what the chain of d_n copy blocks does that it emulates: it writes the items
\* it was offered, whatever longer calls have left in the rows, after as many copies, or
\* after one copy if there is no chain.
CallIsChain ==
    pc = "return" => out = in /\ copies = IF d_n < 2 THEN 1 ELSE d_n
=============================================================================
