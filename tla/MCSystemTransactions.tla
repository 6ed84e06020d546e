------------------------ MODULE MCSystemTransactions ------------------------
(* Instances of SystemTransactions for TLC.                                *)
EXTENDS SystemTransactions, TLC

CONSTANTS p1, p2

OneProc == {p1}
TwoProcs == {p1, p2}
NoProcs == {}
OneServer == {p2}
Symmetry == Permutations({p1, p2})

ProfileOnly == {"system_update", "system_stage", "rollback"}
FaultOps == {"system_update", "rollback", "storage_diet", "gc", "skill_upgrade", "recover"}
CrashOps == {"system_update", "rollback", "recover"}
UpdateOnly == {"system_update"}

=============================================================================
