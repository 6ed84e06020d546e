---- MODULE MCContainers ----
(* Constants of the TLC runs of Containers. *)
EXTENDS Containers, TLC
CONSTANTS c1, c2, p1, p2, web
AllCallers == {c1, c2}
OneCaller == {c1}
PidSet == {p1, p2}
NameSet == {web}
FullEnv == {"systemd", "timeout", "interrupt", "reuse"}
SystemdEnv == {"systemd"}
Symmetry == Permutations({p1, p2}) \cup Permutations({c1, c2})
(* What a caller remembers of a call that has ended is never read again. *)
View == <<pc, [c \in Callers |-> IF pc[c] = "idle" THEN <<>> ELSE loc[c]], disk, unit, proc,
          spaces, image, home, lost, strays, calls, reboots>>
====
