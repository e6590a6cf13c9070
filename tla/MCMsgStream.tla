---------------------------- MODULE MCMsgStream ----------------------------
(* Frames with a payload of one cell alternate with frames that have none. *)
EXTENDS MsgStream, TLC

MCSize == 1 :> 1 @@ 3 :> 0 @@ 4 :> 1 @@ 6 :> 0
=============================================================================
