---- MODULE MCExecutionFabric ----
(* Constants of the TLC run of ExecutionFabric. *)
EXTENDS ExecutionFabric

CONSTANTS c1, c2

CallerSet == {c1, c2}

Envelope(category, principal, format, isolation, entry) ==
    [direct |-> FALSE, category |-> category, principal |-> principal, tier |-> "FULL_OPERATOR",
     token |-> TRUE, inv |-> "none", leak |-> FALSE, format |-> format, isolation |-> isolation,
     entry |-> entry, rootfs |-> FALSE, bundle |-> "none", pinned |-> FALSE,
     planned |-> FALSE, observed |-> FALSE]

Read == Envelope("READ", "AI_AGENT", "elf-binary", "TIER_1_SANDBOX", "name")

AgentMutation ==
    [Envelope("MUTATE", "AI_AGENT", "posix-script", "TIER_0_HOST", "path")
       EXCEPT !.planned = TRUE, !.observed = TRUE]

HumanMutation == Envelope("MUTATE", "HUMAN", "elf-binary", "TIER_3_FORMAL", "skill")

Direct == [Read EXCEPT !.direct = TRUE]

SubmissionsOf ==
    [c \in CallerSet |->
        IF c = c2 THEN {AgentMutation}
        ELSE {Read, AgentMutation, HumanMutation,
              [AgentMutation EXCEPT !.observed = FALSE, !.entry = "name"],
              [HumanMutation EXCEPT !.inv = "INV-SEC-002"],
              [Envelope("PROPOSE", "AI_AGENT", "oci-image", "TIER_2_MICROVM", "name")
                 EXCEPT !.pinned = TRUE],
              Envelope("READ", "HUMAN", "nix-closure", "TIER_2_MICROVM", "path"),
              [Direct EXCEPT !.format = "rootfs-dir", !.rootfs = TRUE],
              [Direct EXCEPT !.format = "oci-bundle", !.bundle = "good"]}]

MovableSet == {"bwrap", "entry"}
====
