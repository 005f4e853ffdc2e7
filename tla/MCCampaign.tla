------------------------------ MODULE MCCampaign ------------------------------
(* Campaign for two files of the message benchmark with two repetitions, one of *)
(* them with -t, and one file of the stream benchmark: the goal "all".          *)
EXTENDS Campaign

MCResults == <<"msg_0_1", "msg_0_2", "buf_0_1">>
MCListed == <<"buf_0_1", "msg_0_2", "msg_0_1">>
MCKind == [f \in ToSet(MCResults) |-> IF f = "buf_0_1" THEN "buf" ELSE "msg"]
MCRows == [f \in ToSet(MCResults) |-> IF f = "buf_0_1" THEN 1 ELSE 2]
MCRtPrio == {"msg_0_1"}
===============================================================================
