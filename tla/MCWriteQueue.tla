---------------------------- MODULE MCWriteQueue ----------------------------
(* WriteQueue with two interfaces, HmIP with double the pace of BidCos as  *)
(* writePaceFor() gives it, and enough writes for a queue behind a write   *)
(* that waits for its pace.                                                *)
EXTENDS WriteQueue, TLC

CONSTANTS hmip, bidcos

MCPace == (hmip :> 2) @@ (bidcos :> 1)
=============================================================================
