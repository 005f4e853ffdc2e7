-------------------------- MODULE MCStreamFlowgraph --------------------------
(***************************************************************************)
(* Command lines for StreamFlowgraph: every program and topology with two  *)
(* pipes, small enough to look at together.                                *)
(***************************************************************************)
EXTENDS StreamFlowgraph

Options(program, config, stages, samples) ==
    [program |-> program, config |-> config, pipes |-> 2, stages |-> stages,
     samples |-> samples, max_noutput |-> 1]

MCCommandLines ==
    {Options("cpp", "fork", 2, 3), Options("cpp", "diamond", 2, 3),
     Options("python", "fork", 1, 2), Options("python", "diamond", 1, 3),
     Options("opti", "default", 1, 2), Options("opti", "opti", 1, 2), Options("opti", "perf", 2, 2)}
=============================================================================
