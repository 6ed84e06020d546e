---------------------------- MODULE MCDelegation ----------------------------
(* An instance of Delegation for TLC.                                      *)
EXTENDS Delegation, TLC

CONSTANTS a1, a2, upgrade, snapshot, i1, i2

AgentSet == {a1, a2}
OneAgent == {a1}
SkillSet == {upgrade, snapshot}
GatedSet == {upgrade}
InputSet == {i1, i2}
Symmetry == Permutations(InputSet)
TierSet == {"OBSERVE_ONLY", "USERSPACE_EXECUTE"}

=============================================================================
