---------------------------- MODULE BoundedFifo ----------------------------
(***************************************************************************)
(* What a bounded queue promises: elements come out in the order in which  *)
(* they went in, none is lost, and one element too many stops the machine  *)
(* instead of replacing another.                                           *)
(***************************************************************************)
EXTENDS Naturals, Sequences

CONSTANTS Elements, Capacity
VARIABLES queue, open

FifoInit == queue = <<>> /\ open = TRUE

Put(x) ==
  /\ open /\ Len(queue) < Capacity
  /\ queue' = Append(queue, x)
  /\ UNCHANGED open

Take ==
  /\ queue # <<>>
  /\ queue' = Tail(queue)
  /\ UNCHANGED open

Overflow ==
  /\ open /\ Len(queue) = Capacity
  /\ queue' = <<>> /\ open' = FALSE

FifoNext == (\E x \in Elements : Put(x)) \/ Take \/ Overflow
FifoSpec == FifoInit /\ [][FifoNext]_<<queue, open>>
=============================================================================
