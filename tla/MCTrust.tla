---- MODULE MCTrust ----
(***************************************************************************)
(* The TLC run of Attestation, SecretFabric and StorageFirewall.  The      *)
(* three share no variable, so a behaviour of all is one of each, and it   *)
(* is enough to let one of them run while the others rest.  In Attestation *)
(* documents, proofs and boots meet through the host alone, so a behaviour *)
(* makes calls of one kind, and of the host only those fields change that  *)
(* the judgement of these calls depends on.                                *)
(***************************************************************************)
EXTENDS Attestation, SecretFabric, StorageFirewall, TLC

CONSTANTS l1, l2

VARIABLE part

LayoutSet == {l1, l2}
Symmetry == Permutations(LayoutSet)

Request(requested, intent, offline, memory, receipt, exit) ==
    [requested |-> requested, intent |-> intent, offline |-> offline, memory |-> memory,
     receipt |-> receipt, exit |-> exit]

(* Tier 9 is no tier: it is not asked for, or the intent names none.       *)
RequestSet ==
    {Request(3, 9, FALSE, 2048, "good", 0), Request(9, 9, TRUE, 64, "other", 0),
     Request(9, 9, FALSE, 128, "none", 0), Request(9, 2, FALSE, 128, "good", 1),
     Request(9, 1, FALSE, 63, "good", 0)}

BuildSet == {[actor |-> "root", event |-> "SYSTEM_INSPECTION", parent |-> "none"],
             [actor |-> "user", event |-> "DAEMON_INSPECTION", parent |-> "none"]}

SignerSet == {[clearance |-> "STORAGE_ADMIN", trusted |-> TRUE],
              [clearance |-> "USER", trusted |-> FALSE]}

Calls == [documents |-> {"build", "verify"}, proofs |-> {"prove", "check"}, boots |-> {"boot"}]

ArgumentSet == {{"keys"}, {"generation"}, {"mounts", "devices", "keys"}, {"nonces", "time", "empty"}}

JudgedBy == [documents |-> DOMAIN host \ {"up"}, proofs |-> {"policy", "failed", "stamp"},
             boots |-> {"policy", "failed", "stamp", "up"}]

Init ==
    /\ part \in DOMAIN Calls \cup {"secrets", "storage"}
    /\ AttestInit /\ SecretInit /\ FirewallInit
    /\ part # "secrets" => defaultKey /\ storage.keys /\ storage.root /\ storage.enforce
    /\ part # "storage" => mounts = {} /\ root = Mapper

Attest ==
    /\ part \in DOMAIN Calls
    /\ AttestNext
    /\ job' # NoJob => job'.kind \in Calls[part]
    /\ \/ \A field \in DOMAIN host \ JudgedBy[part] : host'[field] = host[field]
       \/ PowerCycle
    /\ UNCHANGED <<part, secretVars, firewallVars>>
Secrets == part = "secrets" /\ SecretNext /\ UNCHANGED <<part, attestVars, firewallVars>>
Storage == part = "storage" /\ FirewallNext /\ UNCHANGED <<part, attestVars, secretVars>>

Next == Attest \/ Secrets \/ Storage

Spec == Init /\ [][Next]_<<part, attestVars, secretVars, firewallVars>>
====
