-------------------------------- MODULE MCAm --------------------------------
(* A boot thread and two kernel threads on stacks of a few words: room for   *)
(* a trap, and for a word of its own in the stack of t1.                     *)
EXTENDS AmContext, TLC

CONSTANTS t1, t2

MCGprs == <<"a0", "t0">>
MCCallerSaved == {"a0", "t0"}
MCValues == {0, 1}
MCSizes == (Boot :> 9) @@ (t1 :> 11) @@ (t2 :> 10)
MCStacks == (Boot :> 0) @@ (t1 :> 9) @@ (t2 :> 20)
=============================================================================
