---------------------------- MODULE MCStreakLedger ----------------------------
(* TLC instance of StreakLedger: a ladder of three rows that needs both      *)
(* books and time at the top, and an award every second day.                 *)
EXTENDS StreakLedger, TLC

MCLadder == <<[books |-> 0, seconds |-> 0],
              [books |-> 1, seconds |-> 2],
              [books |-> 2, seconds |-> 4]>>

Symmetry == Permutations(Slots)
================================================================================
