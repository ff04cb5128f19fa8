-------------------------------- MODULE Loops --------------------------------
EXTENDS Integers

\* The state in which a loop ends that starts in the state `from`: an iteration
\* takes a state s to step[s], which is s when the loop has ended, and there are
\* at most `most` iterations.
Loop(step, from, most) ==
  LET after[k \in 0 .. most] == IF k = 0 THEN from ELSE step[after[k - 1]]
  IN  after[most]

\* 2 to the power of k.
Pow2[k \in Nat] == IF k = 0 THEN 1 ELSE 2 * Pow2[k - 1]
=============================================================================
