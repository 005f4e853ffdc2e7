----------------------------- MODULE Ncopy_proofs -----------------------------
(***************************************************************************)
(* Proofs about Ncopy, for every ntimes, every number and length of rows,  *)
(* and every sequence of work calls.                                       *)
(***************************************************************************)
EXTENDS Ncopy, TLAPS

Row == [1..BufferItems -> Values \cup {Undef}]

\* In the loop, i rows behind the first have been written, after one copy each, and row i
\* holds the offered items in front of what it held before: this is what makes the last
\* row the one the output has to be taken from.
LoopInv ==
    pc = "loop" =>
        /\ d_n >= 2 /\ d_n <= MaxTimes
        /\ in \in Offers
        /\ i \in 0..(d_n - 2) /\ copies = i + 1
        /\ \A k \in DOMAIN in : buffers[i][k] = in[k]

\* A block that exists has been accepted by the constructor.
Settled == pc # "thrown" => d_n <= MaxTimes

IInv == TypeOK /\ LoopInv /\ CallIsChain /\ Settled

\* memcpy puts the items at the front of a row and makes it a row again.
LEMMA FrontOfRow ==
    ASSUME NEW row \in Row, NEW items \in Offers
    PROVE  /\ Front(row, items) \in Row
           /\ \A k \in DOMAIN items : Front(row, items)[k] = items[k]
<1>1. PICK n \in 1..BufferItems : items \in [1..n -> Values]
  BY DEF Offers
<1>2. DOMAIN items \subseteq 1..BufferItems
  BY <1>1, BufferItemsAssumption
<1> QED
  BY <1>1, <1>2 DEF Front, Row

LEMMA Initially == Init => IInv
<1> SUFFICES ASSUME Init PROVE IInv
  OBVIOUS
<1> USE NtimesAssumption, BuffersAssumption, BufferItemsAssumption
<1>1. d_n \in Int
  BY DEF Init
<1>2. TypeOK
  BY <1>1 DEF Init, TypeOK
<1> QED
  BY <1>1, <1>2 DEF Init, IInv, LoopInv, CallIsChain, Settled

LEMMA Step == IInv /\ [Next]_vars => IInv'
<1> SUFFICES ASSUME IInv, [Next]_vars PROVE IInv'
  OBVIOUS
<1> USE NtimesAssumption, BuffersAssumption, BufferItemsAssumption
<1>0. Rows = 0..(Buffers - 1) /\ buffers \in [Rows -> Row]
  BY DEF Rows, IInv, TypeOK, Row
<1>1. CASE Work
  <2>1. PICK items \in Offers :
           /\ in' = items
           /\ IF d_n < 2
              THEN out' = items /\ pc' = "return" /\ UNCHANGED buffers
              ELSE /\ buffers' = [buffers EXCEPT ![0] = Front(@, items)]
                   /\ pc' = "loop" /\ UNCHANGED out
    BY <1>1 DEF Work
  <2>2. /\ pc = "idle" /\ d_n \in Int /\ d_n <= MaxTimes
        /\ i' = 0 /\ copies' = 1 /\ d_n' = d_n
    BY <1>1 DEF Work, IInv, TypeOK, Settled
  <2>3. CASE d_n < 2
    BY <2>1, <2>2, <2>3 DEF IInv, TypeOK, LoopInv, CallIsChain, Settled
  <2>4. CASE ~(d_n < 2)
    <3>1. 0 \in Rows /\ buffers[0] \in Row
      BY <1>0
    <3>2. /\ buffers' = [buffers EXCEPT ![0] = Front(buffers[0], items)]
          /\ pc' = "loop" /\ out' = out
      BY <2>1, <2>4
    <3>3. buffers' \in [Rows -> Row] /\ buffers'[0] = Front(buffers[0], items)
      BY <1>0, <3>1, <3>2, FrontOfRow
    <3>4. TypeOK'
      BY <1>0, <2>1, <2>2, <2>4, <3>2, <3>3 DEF IInv, TypeOK, Row
    <3>5. LoopInv'
      BY <2>1, <2>2, <2>4, <3>1, <3>3, FrontOfRow DEF LoopInv
    <3> QED
      BY <2>2, <3>2, <3>4, <3>5 DEF IInv, CallIsChain, Settled
  <2> QED
    BY <2>3, <2>4
<1>2. CASE CopyRow
  <2> DEFINE items == [k \in DOMAIN in |-> buffers[i][k]]
  <2>1. /\ pc = "loop" /\ pc' = "loop" /\ i < d_n - 2 /\ i' = i + 1 /\ copies' = copies + 1
        /\ d_n' = d_n /\ in' = in /\ out' = out
        /\ buffers' = [buffers EXCEPT ![i + 1] = Front(@, items)]
    BY <1>2 DEF CopyRow
  <2>2. /\ d_n \in Int /\ d_n >= 2 /\ d_n <= MaxTimes /\ in \in Offers
        /\ i \in Int /\ i >= 0 /\ copies = i + 1
        /\ \A k \in DOMAIN in : buffers[i][k] = in[k]
    BY <2>1 DEF IInv, LoopInv, TypeOK
  <2>3. items = in
    BY <2>2 DEF Offers
  <2>4. i + 1 \in Rows /\ buffers[i + 1] \in Row
    BY <1>0, <2>1, <2>2
  <2>5. buffers' = [buffers EXCEPT ![i + 1] = Front(buffers[i + 1], in)]
    BY <2>1, <2>3
  <2>6. buffers' \in [Rows -> Row] /\ buffers'[i + 1] = Front(buffers[i + 1], in)
    BY <1>0, <2>2, <2>4, <2>5, FrontOfRow
  <2>7. TypeOK'
    BY <1>0, <2>1, <2>2, <2>6 DEF IInv, TypeOK, Row
  <2>8. LoopInv'
    BY <2>1, <2>2, <2>4, <2>6, FrontOfRow DEF LoopInv
  <2> QED
    BY <2>1, <2>2, <2>7, <2>8 DEF IInv, CallIsChain, Settled
<1>3. CASE CopyOut
  <2>1. /\ pc = "loop" /\ pc' = "return" /\ i >= d_n - 2 /\ copies' = copies + 1
        /\ UNCHANGED <<d_n, in, buffers, i>>
        /\ out' = [k \in DOMAIN in |-> buffers[d_n - 2][k]]
    BY <1>3 DEF CopyOut
  <2>2. /\ d_n \in Int /\ d_n >= 2 /\ in \in Offers /\ i = d_n - 2 /\ copies = i + 1
        /\ \A k \in DOMAIN in : buffers[i][k] = in[k]
    BY <2>1 DEF IInv, LoopInv, TypeOK
  <2>3. out' = in
    BY <2>1, <2>2 DEF Offers
  <2> QED
    BY <2>1, <2>2, <2>3 DEF IInv, TypeOK, LoopInv, CallIsChain, Settled
<1>4. CASE Return
  BY <1>4 DEF Return, IInv, TypeOK, LoopInv, CallIsChain, Settled
<1>5. CASE Thrown
  BY <1>5 DEF Thrown, vars, IInv, TypeOK, LoopInv, CallIsChain, Settled
<1>6. CASE UNCHANGED vars
  BY <1>6 DEF vars, IInv, TypeOK, LoopInv, CallIsChain, Settled
<1> QED
  BY <1>1, <1>2, <1>3, <1>4, <1>5, <1>6 DEF Next

\* The state keeps its types and no row outside the array is touched, whatever number of
\* copies the constructor has accepted.
THEOREM TypeCorrect == Spec => []TypeOK
<1>1. IInv => TypeOK
  BY DEF IInv
<1> QED
  BY Initially, Step, <1>1, PTL DEF Spec

\* Every work call outputs its input after as many copies as the chain it emulates makes.
THEOREM EmulatesChain == Spec => []CallIsChain
<1>1. IInv => CallIsChain
  BY DEF IInv
<1> QED
  BY Initially, Step, <1>1, PTL DEF Spec
===============================================================================
