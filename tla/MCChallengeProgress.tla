-------------------------- MODULE MCChallengeProgress --------------------------
(* TLC instance of ChallengeProgress: two challenges that the same events    *)
(* advance, a third one that does not share events with them but gives the   *)
(* same badge as one of them.                                                *)
EXTENDS ChallengeProgress, TLC

CONSTANTS time1, time2, streak1, gold, rare

MCChallenges == {time1, time2, streak1}
MCBadges == {gold, rare}
MCKind == time1 :> "reading_time" @@ time2 :> "reading_time" @@ streak1 :> "streak"
MCTarget == time1 :> 2 @@ time2 :> 3 @@ streak1 :> 2
MCOpens == time1 :> 1 @@ time2 :> 1 @@ streak1 :> 2
MCEnds == time1 :> 2 @@ time2 :> 1 @@ streak1 :> 2
MCBadgeOf == time1 :> gold @@ time2 :> NoBadge @@ streak1 :> gold
MCExclusiveOf == time1 :> rare @@ time2 :> gold @@ streak1 :> NoBadge
MCDeadline == time1 :> 1 @@ time2 :> 1 @@ streak1 :> 0

Symmetry == Permutations(Handlers)
================================================================================
