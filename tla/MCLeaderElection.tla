-------------------------- MODULE MCLeaderElection --------------------------
(* Two instances whose clocks and configurations differ as far as the       *)
(* assumptions of LeaderElection allow.                                     *)
EXTENDS LeaderElection, TLC

CONSTANTS i1, i2

MCInstances == {i1, i2}
MCDuration == i1 :> 3 @@ i2 :> 2
MCDeadline == i1 :> 1 @@ i2 :> 1
MCOffset == i1 :> 0 @@ i2 :> 1

=============================================================================
