--------------------------- MODULE MCCounterMonitor ---------------------------
(* CounterMonitor with two keys that either of two processors may count for. *)
EXTENDS CounterMonitor

CONSTANTS k1, k2, h1, h2

MCAnyKey == [h \in {h1, h2} |-> {k1, k2}]
=============================================================================
