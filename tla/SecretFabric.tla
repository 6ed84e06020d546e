---------------------------- MODULE SecretFabric ----------------------------
(***************************************************************************)
(* The secret fabric (secrets.py): processes, each with a registry of its  *)
(* own, materialise and shred one secret name in one directory.            *)
(*                                                                         *)
(* An action is one access to the file system.  A ciphertext is named by   *)
(* its version; the encryption of age is perfect.  The file of the name is *)
(* absent, zeroed by a shred, partly written or whole.                     *)
(***************************************************************************)
EXTENDS Naturals, FiniteSets

CONSTANTS Procs, Versions, MaxFaults, MaxSteps

VARIABLES registry,    \* per process: its entry for the name, or NoEntry
          at,          \* per process: its step and locals
          target,      \* the file of the name
          strewn,      \* key and temporary files, with the process that made them
          storage,     \* what is tmpfs, and whether engines insist on it
          defaultKey,  \* /etc/neuronix/keys/age.key exists
          writer,      \* history: the process that last changed the file
          history,     \* history: files put in place, how many of them before a
                       \* shred that said it was done; whose last shred said it failed
          faults, steps

secretVars == <<registry, at, target, strewn, storage, defaultKey, writer, history, faults, steps>>
place == <<storage, defaultKey>>
past == <<writer, history>>

(* An identity: the key it holds, and the recipient its text is labelled   *)
(* with, which derive_public_key_from_identity believes.                   *)
Keys == {"none", "right", "wrong", "mislabelled"}
NoEntry == [version |-> 0, materialized |-> FALSE]
Resting == [step |-> "idle", version |-> 0, key |-> "none", cap |-> 0, token |-> 0]
Absent == [state |-> "absent"]
Whole(version, entitled, put) ==
    [state |-> "whole", version |-> version, entitled |-> entitled, put |-> put]

(* Every version is registered with a capability of its own.               *)
Capability(version) == version

Go(p, step) == at' = [at EXCEPT ![p].step = step]
Rest(p) == at' = [at EXCEPT ![p] = Resting]

(* A file that nobody will remove any more is lost.                        *)
File(p, kind) == [by |-> p, kind |-> kind, lost |-> FALSE]
Lost(p, kind) == [by |-> p, kind |-> kind, lost |-> TRUE]

Fault == faults < MaxFaults /\ faults' = faults + 1

Call(p) == at[p].step = "idle" /\ steps < MaxSteps /\ steps' = steps + 1

-----------------------------------------------------------------------------

(* register_secret: a new entry, whatever is in the file.                  *)
Register(p, version) ==
    /\ Call(p)
    /\ registry' = [registry EXCEPT ![p] = [version |-> version, materialized |-> FALSE]]
    /\ UNCHANGED <<at, target, strewn, place, past, faults>>

(* The key given, or the one of the machine.                               *)
EffectiveKey(key) == IF key = "none" /\ defaultKey THEN "right" ELSE key

(* materialize_secret and decrypt_secret_envelope up to the key file: the  *)
(* entry, the capability, a key, its recipient, a tmpfs for the key.       *)
MayDecrypt(p, token, key) ==
    /\ registry[p] # NoEntry
    /\ token = Capability(registry[p].version)
    /\ key \in {"right", "mislabelled"}
    /\ storage.keys

Materialize(p, token, key) ==
    /\ Call(p)
    /\ at' = IF MayDecrypt(p, token, EffectiveKey(key))
             THEN [at EXCEPT ![p] = [step |-> "key", version |-> registry[p].version,
                                     key |-> EffectiveKey(key), token |-> token,
                                     cap |-> Capability(registry[p].version)]]
             ELSE at
    /\ UNCHANGED <<registry, target, strewn, place, past, faults>>

(* The identity is written to a file that is not deleted by itself; a      *)
(* write that fails raises before the try that would remove it.            *)
WriteKey(p) ==
    /\ at[p].step = "key"
    /\ \/ strewn' = strewn \cup {File(p, "key")} /\ Go(p, "age") /\ UNCHANGED faults
       \/ strewn' = strewn \cup {Lost(p, "key")} /\ Rest(p) /\ Fault
    /\ UNCHANGED <<registry, target, place, past, steps>>

(* age -d: without the key of a recipient it fails.                        *)
RunAge(p) ==
    /\ at[p].step = "age"
    /\ Go(p, IF at[p].key = "right" THEN "drop" ELSE "dropFailed")
    /\ UNCHANGED <<registry, target, strewn, place, past, faults, steps>>

AfterKey(p) ==
    IF at[p].step = "drop" /\ (storage.root \/ ~ storage.enforce) THEN Go(p, "write") ELSE Rest(p)

(* Mutation: the key file is removed when age succeeds.                    *)
DropKeyOnSuccess(p) ==
    /\ at[p].step \in {"drop", "dropFailed"}
    /\ strewn' = IF at[p].step = "drop" THEN strewn \ {File(p, "key")} ELSE strewn
    /\ AfterKey(p)
    /\ UNCHANGED <<registry, target, place, past, faults, steps>>

(* The finally clause zeroes and removes the key, and is silent when it    *)
(* cannot; only then is the target directory looked at.                    *)
DropKey(p) ==
    /\ at[p].step \in {"drop", "dropFailed"}
    /\ \/ strewn' = strewn \ {File(p, "key")} /\ UNCHANGED faults
       \/ strewn' = (strewn \ {File(p, "key")}) \cup {Lost(p, "key")} /\ Fault
    /\ AfterKey(p)
    /\ UNCHANGED <<registry, target, place, past, steps>>

(* Mutation: the plaintext is written to its place.                        *)
WriteTmpInPlace(p) ==
    /\ at[p].step = "write"
    /\ target' = [state |-> "partial"]
    /\ Go(p, "replace")
    /\ UNCHANGED <<registry, strewn, place, past, faults, steps>>

(* The plaintext goes to a temporary file; one whose write fails is zeroed *)
(* and removed, if the disk lets it.                                       *)
WriteTmp(p) ==
    /\ at[p].step = "write"
    /\ \/ Go(p, "replace") /\ strewn' = strewn \cup {File(p, "tmp")} /\ UNCHANGED faults
       \/ Rest(p) /\ Fault /\ strewn' \in {strewn, strewn \cup {Lost(p, "tmp")}}
    /\ UNCHANGED <<registry, target, place, past, steps>>

(* os.replace, and the entry's flag.                                       *)
Replace(p) ==
    /\ at[p].step = "replace"
    /\ target' = Whole(at[p].version, at[p].key = "right" /\ at[p].token = at[p].cap,
                       history.puts + 1)
    /\ writer' = p
    /\ history' = [history EXCEPT !.puts = @ + 1, !.failed = @ \ {p}]
    /\ strewn' = strewn \ {File(p, "tmp")}
    /\ registry' = [registry EXCEPT ![p].materialized = TRUE]
    /\ Rest(p)
    /\ UNCHANGED <<place, faults, steps>>

(* What shred_secret returns.                                              *)
Done(p) ==
    /\ registry' = [registry EXCEPT ![p].materialized = FALSE]
    /\ history' = [history EXCEPT !.shredded = history.puts, !.failed = @ \ {p}]

Failed(p) ==
    /\ history' = [history EXCEPT !.failed = @ \cup {p}]
    /\ Rest(p)
    /\ UNCHANGED registry

(* Mutation: the flag of the process's own entry is believed.              *)
ShredBelieving(p) ==
    /\ registry[p] # NoEntry
    /\ Call(p)
    /\ IF target = Absent \/ ~ registry[p].materialized
       THEN Done(p) /\ UNCHANGED at
       ELSE Go(p, "zero") /\ UNCHANGED <<registry, history>>
    /\ UNCHANGED <<target, strewn, place, writer, faults>>

(* shred_secret: is there a file, whoever put it there?                    *)
Shred(p) ==
    /\ registry[p] # NoEntry
    /\ Call(p)
    /\ IF target = Absent
       THEN Done(p) /\ UNCHANGED at
       ELSE Go(p, "zero") /\ UNCHANGED <<registry, history>>
    /\ UNCHANGED <<target, strewn, place, writer, faults>>

(* Zeroes; a file that has gone meanwhile has no size, or is made again by *)
(* the open.  Whatever fails is answered with False, and the flag stays:   *)
(* the file may have been truncated by then.                               *)
ShredZero(p) ==
    /\ at[p].step = "zero"
    /\ \/ /\ target' = [state |-> "zero"]
          /\ writer' = p
          /\ Go(p, "unlink")
          /\ UNCHANGED <<registry, history, faults>>
       \/ target = Absent /\ Failed(p) /\ UNCHANGED <<target, writer, faults>>
       \/ Fault /\ Failed(p) /\ UNCHANGED <<target, writer>>
       \/ Fault /\ Failed(p) /\ target' = [state |-> "zero"] /\ writer' = p
    /\ UNCHANGED <<strewn, place, steps>>

(* The unlink takes whatever is there by now; it raises when another       *)
(* process was faster, or when it is refused.                              *)
ShredUnlink(p) ==
    /\ at[p].step = "unlink"
    /\ \/ /\ target # Absent /\ target' = Absent
          /\ writer' = p
          /\ Done(p) /\ Rest(p)
          /\ UNCHANGED faults
       \/ target = Absent /\ Failed(p) /\ UNCHANGED <<target, writer, faults>>
       \/ Fault /\ Failed(p) /\ UNCHANGED <<target, writer>>
    /\ UNCHANGED <<strewn, place, steps>>

(* A process dies: its registry with it, its files stay.                   *)
KillProcess(p) ==
    /\ Fault
    /\ registry' = [registry EXCEPT ![p] = NoEntry]
    /\ strewn' = {IF f.by = p THEN [f EXCEPT !.lost = TRUE] ELSE f : f \in strewn}
    /\ history' = [history EXCEPT !.failed = @ \ {p}]
    /\ Rest(p)
    /\ UNCHANGED <<target, place, writer, steps>>

SecretInit ==
    /\ registry = [p \in Procs |-> NoEntry]
    /\ at = [p \in Procs |-> Resting]
    /\ target = Absent /\ strewn = {}
    /\ storage \in [keys : BOOLEAN, root : BOOLEAN, enforce : BOOLEAN]
    /\ defaultKey \in BOOLEAN
    /\ writer = CHOOSE p \in Procs : TRUE
    /\ history = [puts |-> 0, shredded |-> 0, failed |-> {}]
    /\ faults = 0 /\ steps = 0

SecretNext ==
    \E p \in Procs :
        \/ \E v \in Versions : Register(p, v)
        \/ \E token \in Versions, key \in Keys : Materialize(p, token, key)
        \/ WriteKey(p) \/ RunAge(p) \/ DropKey(p) \/ WriteTmp(p) \/ Replace(p)
        \/ Shred(p) \/ ShredZero(p) \/ ShredUnlink(p)
        \/ KillProcess(p)

SecretSpec == SecretInit /\ [][SecretNext]_secretVars

-----------------------------------------------------------------------------
(* Properties.                                                             *)

(* materialize_secret: the file is absent, zeroed or whole, never partly   *)
(* written, whoever dies; what it holds was put there by a caller with the *)
(* entry's capability and a recipient's key; and unless the engine was     *)
(* told not to insist it is in memory.                                     *)
SecretsStayGated ==
    /\ target.state \in {"absent", "zero", "whole"}
    /\ target.state = "whole" => target.entitled /\ (storage.enforce => storage.root)

(* decrypt_secret_envelope and materialize_secret: a key or temporary      *)
(* plaintext outlives the step that needs it, on every path, only when its *)
(* process was killed, the write of the key failed or its own removal did; *)
(* and there is none without a tmpfs for it.                               *)
NothingStrewn ==
    /\ \A f \in strewn :
          \/ f.kind = "key" /\ at[f.by].step \in {"age", "drop", "dropFailed"}
          \/ f.kind = "tmp" /\ at[f.by].step = "replace"
          \/ f.lost
    /\ ~ storage.keys => strewn = {}

(* shred_secret and the flags: after a shred that said it was done, by any *)
(* process, nothing is in the file that was put there before it, though    *)
(* the file may be another process's, be replaced between the zeroes and   *)
(* the unlink, or be made again by a second shred.  And an entry that says *)
(* materialized is right about the file and its version until another      *)
(* process writes or shreds it, or its own shred says that it failed.      *)
FlagsTellTruth ==
    /\ target.state = "whole" => target.put > history.shredded
    /\ \A p \in Procs :
          registry[p].materialized /\ at[p].step = "idle" /\ writer = p =>
              \/ p \in history.failed
              \/ target.state = "whole" /\ target.version = registry[p].version

=============================================================================
