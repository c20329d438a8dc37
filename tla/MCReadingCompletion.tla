-------------------------- MODULE MCReadingCompletion --------------------------
(* TLC instance of ReadingCompletion: a three-step ladder and a shield       *)
(* interval short enough for a few requests to climb and to earn a shield.   *)
EXTENDS ReadingCompletion, TLC

MCLadder == <<[books |-> 0, seconds |-> 0],
              [books |-> 1, seconds |-> 2],
              [books |-> 2, seconds |-> 4]>>

Symmetry == Permutations(Requests) \cup Permutations(Sessions)
================================================================================
