---------------------------- MODULE MCDemoExecution ----------------------------
(* The executor on small instances.                                           *)
EXTENDS DemoExecution, TLC

MCOrder == Trade \X (0..MaxExits)
MCFillId == MCOrder \X (1..MaxQty)
MCDay1 == {1}
MCDay2 == {1, 2}
MCPnl == {-1, 0}
MCSymmetry == Permutations(Trade)
MCHoldReason == {"position mismatch", "attempts exhausted", "flat mismatch"}

=============================================================================
