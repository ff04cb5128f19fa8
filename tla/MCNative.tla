------------------------------ MODULE MCNative ------------------------------
(***************************************************************************)
(* Programs of the host: the parts of the native abstract machine, and the *)
(* driver of the SD card.  They share no state, and a behaviour is one of  *)
(* contexts, of devices, or of requests to the card.                       *)
(***************************************************************************)
EXTENDS NativeContexts, NativeIo, SdHost

MCBuffers == {<<1>>, <<2, 3>>, <<4, 5, 6>>}

MCWords == {0, 1, 2}
MCExtCsd == <<2, 0>>
Req(op, sector, blocks, sbc, stop, sg, buf) ==
  [op |-> op, sector |-> sector, blocks |-> blocks, sbc |-> sbc, stop |-> stop,
   sg |-> sg, buf |-> buf, oddsize |-> FALSE, error |-> FALSE]
MCRequests ==
  { Req("read", s, 2, b, t, n, <<>>) : s \in {0, 1}, b \in BOOLEAN, t \in BOOLEAN, n \in {2, 3, 4} }
  \cup { Req("write", s, 2, b, TRUE, n, w) : s \in {0, 1}, b \in BOOLEAN, n \in {3, 4},
         w \in {<<1, 0, 1, 1>>, <<0, 1, 1, 0>>} }
  \cup { Req("ext_csd", 0, 1, FALSE, FALSE, n, <<>>) : n \in {1, 2} }
  \cup { Req("read_one", 0, 1, FALSE, FALSE, 2, <<>>), Req("status", 0, 0, FALSE, FALSE, 0, <<>>),
         [Req("read", 0, 2, TRUE, TRUE, 4, <<>>) EXCEPT !.oddsize = TRUE] }

SdIdle == SdInit /\ \A w \in Image : file[w] = 0

Init == \/ NativeInit /\ part = "none" /\ IoState /\ SdIdle
        \/ IoInit /\ mode = "none" /\ NativeState /\ SdIdle
        \/ part = "card" /\ IoState /\ mode = "none" /\ NativeState /\ SdInit
Next == \/ part = "none" /\ NativeNext /\ UNCHANGED <<ioVars, sdVars>>
        \/ mode = "none" /\ part # "card" /\ IoNext /\ UNCHANGED <<nativeVars, sdVars>>
        \/ part = "card" /\ SdNext /\ UNCHANGED <<nativeVars, ioVars>>
Spec == Init /\ [][Next]_<<nativeVars, ioVars, sdVars>>
=============================================================================
