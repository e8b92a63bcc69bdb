----------------------- MODULE MC_AnimationController -----------------------
(* Scripts of none, one and two events. *)
EXTENDS AnimationController

CONSTANTS s1, s2, c1

ScriptLength == [s \in Scripts |-> IF s = s1 THEN 2 ELSE 1]
WithEmpty == [s \in Scripts |-> IF s = s1 THEN 2 ELSE 0]
=============================================================================
