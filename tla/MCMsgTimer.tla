------------------------------ MODULE MCMsgTimer -----------------------------
(* A timer and a delayed work with a shorter interval.                       *)
EXTENDS MsgTimer

MCInterval == [id \in Ids |-> IF id \in Timers THEN 2 ELSE 1]
=============================================================================
