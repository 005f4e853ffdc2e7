---------------------------- MODULE LatencyProbe ----------------------------
(***************************************************************************)
(* What the latency measurement promises the scripts that pair its tx and  *)
(* rx tracepoints by their number: mark k is traced at the sink only after *)
(* it was traced at the source, both sides trace 1, 2, 3, ... in order,    *)
(* and at most Window marks are under way at any time.                     *)
(***************************************************************************)
EXTENDS Naturals

CONSTANT Window

VARIABLES tx, rx   \* the number of the last mark traced at the source and at the sink

vars == <<tx, rx>>

Init == tx = 0 /\ rx = 0

Tx == /\ tx < rx + Window
      /\ tx' = tx + 1
      /\ UNCHANGED rx

Rx == /\ rx < tx
      /\ rx' = rx + 1
      /\ UNCHANGED tx

Next == Tx \/ Rx

Spec == Init /\ [][Next]_vars
=============================================================================
