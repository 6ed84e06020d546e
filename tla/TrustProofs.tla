---------------------------- MODULE TrustProofs ----------------------------
(***************************************************************************)
(* Theorems about SecretFabric and StorageFirewall, for any number of      *)
(* processes, versions, disks, layouts and operators, however many calls,  *)
(* faults, remounts and restarts there are.                                *)
(***************************************************************************)
EXTENDS SecretFabric, StorageFirewall, TLAPS, FiniteSetTheorems

-----------------------------------------------------------------------------
(* The secret fabric.                                                      *)

MaterializeSteps == {"key", "age", "drop", "dropFailed", "write", "replace"}
SecretSteps == {"idle", "zero", "unlink"} \cup MaterializeSteps
AnyVersion == Versions \cup {0}

Entries == [version : AnyVersion, materialized : BOOLEAN]
Locals == [step : SecretSteps, version : AnyVersion, key : Keys,
           cap : AnyVersion, token : AnyVersion]

Files == [by : Procs, kind : {"key", "tmp"}, lost : BOOLEAN]
Histories == [puts : Nat, shredded : Nat, failed : SUBSET Procs]

SecretTypeOK ==
    /\ registry \in [Procs -> Entries]
    /\ at \in [Procs -> Locals]
    /\ target \in [state : {"absent", "zero"}]
                  \cup [state : {"whole"}, version : AnyVersion, entitled : BOOLEAN,
                        put : Nat]
    /\ strewn \in SUBSET Files
    /\ storage \in [keys : BOOLEAN, root : BOOLEAN, enforce : BOOLEAN]
    /\ defaultKey \in BOOLEAN
    /\ history \in Histories
    /\ faults \in Nat /\ steps \in Nat

(* What a process that materialises has been let through with so far.      *)
Entitled(p) ==
    /\ at[p].step \in MaterializeSteps =>
          /\ at[p].token = at[p].cap
          /\ at[p].version = registry[p].version
          /\ storage.keys
    /\ at[p].step \in {"drop", "write", "replace"} => at[p].key = "right"
    /\ at[p].step \in {"write", "replace"} => (storage.enforce => storage.root)

(* A process that has zeroed the file, and nobody has written since.       *)
OwnFile(p) ==
    writer = p =>
        /\ at[p].step = "unlink" => target.state = "zero"
        /\ registry[p].materialized /\ at[p].step # "unlink" =>
              \/ p \in history.failed
              \/ target.state = "whole" /\ target.version = registry[p].version

(* Files are numbered as they are put in place, and a shred that is done   *)
(* leaves none of those there were.                                        *)
Numbered ==
    /\ history.shredded <= history.puts
    /\ target.state = "whole" => target.put <= history.puts /\ target.put > history.shredded

SecretInv ==
    /\ SecretTypeOK
    /\ \A p \in Procs : Entitled(p)
    /\ \A p \in Procs : OwnFile(p)
    /\ Numbered
    /\ SecretsStayGated
    /\ NothingStrewn


LEMMA RestingType == Resting \in Locals /\ NoEntry \in Entries
  BY DEF Resting, Locals, NoEntry, Entries, SecretSteps, Keys, AnyVersion

LEMMA MarkType ==
    ASSUME registry \in [Procs -> Entries], NEW p \in Procs, NEW b \in BOOLEAN
    PROVE  [registry EXCEPT ![p].materialized = b] \in [Procs -> Entries]
  <1>1. [registry[p] EXCEPT !.materialized = b] \in Entries
    BY DEF Entries
  <1> QED
    BY <1>1

LEMMA SecretInitInv == SecretInit => SecretInv
  <1> SUFFICES ASSUME SecretInit PROVE SecretInv
    OBVIOUS
  <1>1. SecretTypeOK
    BY RestingType DEF SecretInit, SecretTypeOK, Absent, Histories
  <1>2. ASSUME NEW p \in Procs PROVE Entitled(p) /\ OwnFile(p)
    BY DEF SecretInit, Entitled, OwnFile, Resting, NoEntry, MaterializeSteps
  <1>3. Numbered /\ SecretsStayGated /\ NothingStrewn
    BY DEF SecretInit, Numbered, SecretsStayGated, NothingStrewn, Absent
  <1> QED
    BY <1>1, <1>2, <1>3 DEF SecretInv

(* One process moves: the types.                                           *)
LEMMA SecretTypeStep ==
    ASSUME SecretInv, SecretNext PROVE SecretTypeOK'
  <1> USE RestingType
  <1>0. SecretTypeOK
    BY DEF SecretInv
  <1> SUFFICES ASSUME NEW p \in Procs,
                      \/ \E v \in Versions : Register(p, v)
                      \/ \E token \in Versions, key \in Keys : Materialize(p, token, key)
                      \/ WriteKey(p) \/ RunAge(p) \/ DropKey(p) \/ WriteTmp(p) \/ Replace(p)
                      \/ Shred(p) \/ ShredZero(p) \/ ShredUnlink(p)
                      \/ KillProcess(p)
               PROVE  SecretTypeOK'
    BY DEF SecretNext
  <1>a. ASSUME NEW step \in SecretSteps, Go(p, step) PROVE at' \in [Procs -> Locals]
    BY <1>0, <1>a DEF Go, SecretTypeOK, Locals
  <1>b. ASSUME Rest(p) PROVE at' \in [Procs -> Locals]
    BY <1>0, <1>b DEF Rest, SecretTypeOK
  <1>c. {"key", "age", "drop", "dropFailed", "write", "replace", "zero", "unlink"}
          \subseteq SecretSteps
    BY DEF SecretSteps, MaterializeSteps
  <1>d. ASSUME NEW kind \in {"key", "tmp"}
        PROVE  {File(p, kind), Lost(p, kind)} \in SUBSET Files
    BY DEF File, Lost, Files
  <1>e. ASSUME Fault \/ UNCHANGED faults PROVE faults' \in Nat
    BY <1>0, <1>e DEF Fault, SecretTypeOK
  <1>f. ASSUME Done(p) PROVE registry' \in [Procs -> Entries] /\ history' \in Histories
    BY <1>0, <1>f, MarkType DEF Done, SecretTypeOK, Histories
  <1>g. ASSUME Failed(p)
        PROVE  at' \in [Procs -> Locals] /\ registry' = registry /\ history' \in Histories
    BY <1>0, <1>g, <1>b DEF Failed, SecretTypeOK, Histories
  <1>1. ASSUME NEW v \in Versions, Register(p, v) PROVE SecretTypeOK'
    BY <1>0, <1>1 DEF Register, Call, place, past, SecretTypeOK, Entries, AnyVersion
  <1>2. ASSUME NEW token \in Versions, NEW key \in Keys, Materialize(p, token, key)
        PROVE  SecretTypeOK'
    <2>1. EffectiveKey(key) \in Keys
      BY DEF EffectiveKey, Keys
    <2>2. at' \in [Procs -> Locals]
      BY <1>0, <1>2, <1>c, <2>1
         DEF Materialize, SecretTypeOK, Locals, AnyVersion, Entries, Capability
    <2> QED
      BY <1>0, <1>2, <2>2 DEF Materialize, Call, place, past, SecretTypeOK
  <1>3. ASSUME WriteKey(p) PROVE SecretTypeOK'
    <2>1. at' \in [Procs -> Locals] /\ faults' \in Nat
      BY <1>3, <1>a, <1>b, <1>c, <1>e DEF WriteKey
    <2>2. strewn' \in SUBSET Files
      BY <1>0, <1>3, <1>d DEF WriteKey, SecretTypeOK
    <2> QED
      BY <1>0, <1>3, <2>1, <2>2 DEF WriteKey, place, past, SecretTypeOK
  <1>4. ASSUME RunAge(p) PROVE SecretTypeOK'
    BY <1>0, <1>4, <1>a, <1>c DEF RunAge, place, past, SecretTypeOK
  <1>5. ASSUME DropKey(p) PROVE SecretTypeOK'
    <2>1. at' \in [Procs -> Locals]
      BY <1>5, <1>a, <1>b, <1>c DEF DropKey, AfterKey
    <2>2. faults' \in Nat
      BY <1>5, <1>e DEF DropKey
    <2>3. strewn' \in SUBSET Files
      BY <1>0, <1>5, <1>d DEF DropKey, SecretTypeOK
    <2> QED
      BY <1>0, <1>5, <2>1, <2>2, <2>3 DEF DropKey, place, past, SecretTypeOK
  <1>6. ASSUME WriteTmp(p) PROVE SecretTypeOK'
    <2>1. at' \in [Procs -> Locals] /\ faults' \in Nat
      BY <1>6, <1>a, <1>b, <1>c, <1>e DEF WriteTmp
    <2>2. strewn' \in SUBSET Files
      BY <1>0, <1>6, <1>d DEF WriteTmp, SecretTypeOK
    <2> QED
      BY <1>0, <1>6, <2>1, <2>2 DEF WriteTmp, place, past, SecretTypeOK
  <1>7. ASSUME Replace(p) PROVE SecretTypeOK'
    <2>1. at[p].version \in AnyVersion
      BY <1>0 DEF SecretTypeOK, Locals
    <2>2. registry' \in [Procs -> Entries]
      BY <1>0, <1>7, MarkType DEF Replace, SecretTypeOK
    <2>3. history' \in Histories /\ history.puts + 1 \in Nat
      <3>1. history \in Histories /\ history.puts + 1 \in Nat
        BY <1>0 DEF SecretTypeOK, Histories
      <3>2. history' = [history EXCEPT !.puts = @ + 1, !.failed = @ \ {p}]
        BY <1>7 DEF Replace
      <3> QED
        BY <3>1, <3>2 DEF Histories
    <2>4. target' \in [state : {"whole"}, version : AnyVersion, entitled : BOOLEAN, put : Nat]
      BY <1>7, <2>1, <2>3 DEF Replace, Whole
    <2>5. at' \in [Procs -> Locals] /\ strewn' \in SUBSET Files
      BY <1>0, <1>7, <1>b DEF Replace, SecretTypeOK
    <2> QED
      BY <1>0, <1>7, <2>2, <2>3, <2>4, <2>5 DEF Replace, place, SecretTypeOK
  <1>8. ASSUME Shred(p) PROVE SecretTypeOK'
    <2>1. /\ registry' \in [Procs -> Entries] /\ history' \in Histories
          /\ at' \in [Procs -> Locals]
      BY <1>0, <1>8, <1>a, <1>c, <1>f DEF Shred, SecretTypeOK
    <2> QED
      BY <1>0, <1>8, <2>1 DEF Shred, Call, place, SecretTypeOK
  <1>9. ASSUME ShredZero(p) PROVE SecretTypeOK'
    <2>1. /\ registry' = registry /\ history' \in Histories
          /\ at' \in [Procs -> Locals] /\ faults' \in Nat
      BY <1>0, <1>9, <1>a, <1>c, <1>e, <1>g DEF ShredZero, SecretTypeOK
    <2>2. target' = target \/ target' = [state |-> "zero"]
      BY <1>9 DEF ShredZero
    <2> QED
      BY <1>0, <1>9, <2>1, <2>2 DEF ShredZero, place, SecretTypeOK
  <1>10. ASSUME ShredUnlink(p) PROVE SecretTypeOK'
    <2>1. /\ registry' \in [Procs -> Entries] /\ history' \in Histories
          /\ at' \in [Procs -> Locals] /\ faults' \in Nat
      BY <1>0, <1>10, <1>b, <1>e, <1>f, <1>g DEF ShredUnlink, SecretTypeOK
    <2>2. target' = target \/ target' = [state |-> "absent"]
      BY <1>10 DEF ShredUnlink, Absent
    <2> QED
      BY <1>0, <1>10, <2>1, <2>2 DEF ShredUnlink, place, SecretTypeOK
  <1>11. ASSUME KillProcess(p) PROVE SecretTypeOK'
    <2>1. registry' \in [Procs -> Entries]
      BY <1>0, <1>11 DEF KillProcess, SecretTypeOK
    <2>2. history' \in Histories /\ faults' \in Nat
      BY <1>0, <1>11, <1>e DEF KillProcess, SecretTypeOK, Histories
    <2>3. ASSUME NEW f \in strewn
          PROVE  (IF f.by = p THEN [f EXCEPT !.lost = TRUE] ELSE f) \in Files
      BY <1>0 DEF SecretTypeOK, Files
    <2>4. strewn' \in SUBSET Files
      BY <1>11, <2>3 DEF KillProcess
    <2> QED
      BY <1>0, <1>11, <1>b, <2>1, <2>2, <2>4 DEF KillProcess, place, SecretTypeOK
  <1> QED
    BY <1>1, <1>2, <1>3, <1>4, <1>5, <1>6, <1>7, <1>8, <1>9, <1>10, <1>11

(* Nobody gets past a gate he was not let through.                        *)
LEMMA EntitledStep ==
    ASSUME SecretInv, SecretNext PROVE (\A q \in Procs : Entitled(q))'
  <1>0. /\ SecretTypeOK /\ (\A q \in Procs : Entitled(q) /\ OwnFile(q))
        /\ SecretsStayGated /\ NothingStrewn
    BY DEF SecretInv
  <1>1. ASSUME NEW p \in Procs, NEW v \in Versions, Register(p, v)
        PROVE  (\A q \in Procs : Entitled(q))'
    BY <1>0, <1>1 DEF Register, Call, place, past, SecretTypeOK, Locals, Entries, Entitled,
       MaterializeSteps
  <1>2. ASSUME NEW p \in Procs, NEW token \in Versions, NEW key \in Keys, Materialize(p, token, key)
        PROVE  (\A q \in Procs : Entitled(q))'
    BY <1>0, <1>2
       DEF Materialize, Call, place, past, MayDecrypt, Capability, SecretTypeOK, Locals,
           Entries, Entitled, MaterializeSteps
  <1>3. ASSUME NEW p \in Procs, WriteKey(p) PROVE (\A q \in Procs : Entitled(q))'
    <2>1. CASE Go(p, "age")
      BY <1>0, <1>3, <2>1
         DEF WriteKey, Fault, File, Lost, place, past, Go, SecretTypeOK, Locals, Entitled,
             MaterializeSteps
    <2>2. CASE Rest(p)
      BY <1>0, <1>3, <2>2
         DEF WriteKey, Fault, File, Lost, place, past, Rest, Resting, SecretTypeOK,
             Entitled, MaterializeSteps
    <2> QED
      BY <1>3, <2>1, <2>2 DEF WriteKey
  <1>4. ASSUME NEW p \in Procs, RunAge(p) PROVE (\A q \in Procs : Entitled(q))'
    BY <1>0, <1>4 DEF RunAge, place, past, Go, SecretTypeOK, Locals, Entries, Entitled,
       MaterializeSteps
  <1>5. ASSUME NEW p \in Procs, DropKey(p) PROVE (\A q \in Procs : Entitled(q))'
    <2>0. UNCHANGED <<registry, storage>> /\ AfterKey(p)
      BY <1>5 DEF DropKey, place
    <2>1. CASE Rest(p)
      BY <1>0, <2>0, <2>1 DEF Rest, Resting, SecretTypeOK, Entitled, MaterializeSteps
    <2>2. CASE at[p].step = "drop" /\ (storage.root \/ ~ storage.enforce) /\ Go(p, "write")
      BY <1>0, <2>0, <2>2 DEF Go, SecretTypeOK, Locals, Entitled, MaterializeSteps
    <2> QED
      BY <2>0, <2>1, <2>2 DEF AfterKey
  <1>6. ASSUME NEW p \in Procs, WriteTmp(p) PROVE (\A q \in Procs : Entitled(q))'
    <2>1. CASE Go(p, "replace")
      BY <1>0, <1>6, <2>1
         DEF WriteTmp, Fault, File, Lost, place, past, Go, SecretTypeOK, Locals, Entitled,
             MaterializeSteps
    <2>2. CASE Rest(p)
      BY <1>0, <1>6, <2>2
         DEF WriteTmp, Fault, File, Lost, place, past, Rest, Resting, SecretTypeOK,
             Entitled, MaterializeSteps
    <2> QED
      BY <1>6, <2>1, <2>2 DEF WriteTmp
  <1>7. ASSUME NEW p \in Procs, Replace(p) PROVE (\A q \in Procs : Entitled(q))'
    BY <1>0, <1>7
       DEF Replace, File, place, past, Rest, Resting, Whole, SecretTypeOK, Locals, Entries,
           Entitled, MaterializeSteps
  <1>8. ASSUME NEW p \in Procs, Shred(p) PROVE (\A q \in Procs : Entitled(q))'
    BY <1>0, <1>8
       DEF Shred, Done, Call, place, past, Go, SecretTypeOK, Locals, Entries, Entitled,
           MaterializeSteps
  <1>9. ASSUME NEW p \in Procs, ShredZero(p) PROVE (\A q \in Procs : Entitled(q))'
    <2>1. CASE Rest(p) /\ UNCHANGED <<registry, storage>>
      BY <1>0, <2>1 DEF Rest, Resting, SecretTypeOK, Entitled, MaterializeSteps
    <2>2. CASE Go(p, "unlink") /\ UNCHANGED <<registry, storage>>
      BY <1>0, <2>2 DEF Go, SecretTypeOK, Locals, Entitled, MaterializeSteps
    <2> QED
      BY <1>9, <2>1, <2>2 DEF ShredZero, Failed, place
  <1>10. ASSUME NEW p \in Procs, ShredUnlink(p) PROVE (\A q \in Procs : Entitled(q))'
    <2>1. CASE Rest(p) /\ UNCHANGED storage /\ Done(p)
      BY <1>0, <2>1
         DEF Done, Rest, Resting, SecretTypeOK, Entries, Entitled, MaterializeSteps
    <2>2. CASE Rest(p) /\ UNCHANGED <<registry, storage>>
      BY <1>0, <2>2 DEF Rest, Resting, SecretTypeOK, Entitled, MaterializeSteps
    <2> QED
      BY <1>10, <2>1, <2>2 DEF ShredUnlink, Failed, place
  <1>11. ASSUME NEW p \in Procs, KillProcess(p) PROVE (\A q \in Procs : Entitled(q))'
    BY <1>0, <1>11
       DEF KillProcess, Fault, place, past, Rest, Resting, NoEntry, SecretTypeOK, Locals,
           Entries, Entitled, MaterializeSteps
  <1> QED
    BY <1>1, <1>2, <1>3, <1>4, <1>5, <1>6, <1>7, <1>8, <1>9, <1>10, <1>11 DEF SecretNext

(* An entry's flag and the file.                                           *)
LEMMA OwnFileStep ==
    ASSUME SecretInv, SecretNext PROVE (\A q \in Procs : OwnFile(q))'
  <1>0. /\ SecretTypeOK /\ (\A q \in Procs : Entitled(q) /\ OwnFile(q))
        /\ SecretsStayGated /\ NothingStrewn
    BY DEF SecretInv
  <1>1. ASSUME NEW p \in Procs, NEW v \in Versions, Register(p, v)
        PROVE  (\A q \in Procs : OwnFile(q))'
    BY <1>0, <1>1
       DEF Register, Call, place, past, SecretTypeOK, Locals, Entries, Entitled, OwnFile,
           MaterializeSteps
  <1>2. ASSUME NEW p \in Procs, NEW token \in Versions, NEW key \in Keys, Materialize(p, token, key)
        PROVE  (\A q \in Procs : OwnFile(q))'
    BY <1>0, <1>2
       DEF Materialize, Call, place, past, MayDecrypt, Capability, SecretTypeOK, Locals,
           Entries, Entitled, OwnFile, MaterializeSteps
  <1>3. ASSUME NEW p \in Procs, WriteKey(p) PROVE (\A q \in Procs : OwnFile(q))'
    BY <1>0, <1>3
       DEF WriteKey, Fault, File, Lost, place, past, Go, Rest, Resting, SecretTypeOK,
           Locals, Entries, Entitled, OwnFile, MaterializeSteps
  <1>4. ASSUME NEW p \in Procs, RunAge(p) PROVE (\A q \in Procs : OwnFile(q))'
    BY <1>0, <1>4
       DEF RunAge, place, past, Go, SecretTypeOK, Locals, Entries, Entitled, OwnFile,
           MaterializeSteps
  <1>5. ASSUME NEW p \in Procs, DropKey(p) PROVE (\A q \in Procs : OwnFile(q))'
    BY <1>0, <1>5
       DEF DropKey, AfterKey, Fault, File, Lost, place, past, Go, Rest, Resting,
           SecretTypeOK, Locals, Entries, Entitled, OwnFile, MaterializeSteps
  <1>6. ASSUME NEW p \in Procs, WriteTmp(p) PROVE (\A q \in Procs : OwnFile(q))'
    <2>1. CASE Go(p, "replace")
      BY <1>0, <1>6, <2>1
         DEF WriteTmp, Fault, File, Lost, place, past, Go, SecretTypeOK, Locals, OwnFile
    <2>2. CASE Rest(p)
      BY <1>0, <1>6, <2>2
         DEF WriteTmp, Fault, File, Lost, place, past, Rest, Resting, SecretTypeOK, OwnFile
    <2> QED
      BY <1>6, <2>1, <2>2 DEF WriteTmp
  <1>7. ASSUME NEW p \in Procs, Replace(p) PROVE (\A q \in Procs : OwnFile(q))'
    BY <1>0, <1>7
       DEF Replace, File, place, past, Rest, Resting, Whole, SecretTypeOK, Locals, Entries,
           Entitled, OwnFile, MaterializeSteps
  <1>8. ASSUME NEW p \in Procs, Shred(p) PROVE (\A q \in Procs : OwnFile(q))'
    <2>0. UNCHANGED <<target, writer>> /\ at[p].step = "idle"
      BY <1>8 DEF Shred, Call
    <2>1. CASE Done(p) /\ at' = at
      BY <1>0, <2>0, <2>1 DEF Done, SecretTypeOK, Entries, Histories, OwnFile
    <2>2. CASE Go(p, "zero") /\ UNCHANGED <<registry, history>>
      BY <1>0, <2>0, <2>2 DEF Go, SecretTypeOK, Locals, OwnFile
    <2> QED
      BY <1>8, <2>1, <2>2 DEF Shred
  <1>9. ASSUME NEW p \in Procs, ShredZero(p) PROVE (\A q \in Procs : OwnFile(q))'
    <2>1. CASE Failed(p)
      <3>1. (target' = target /\ writer' = writer) \/ writer' = p
        BY <1>9 DEF ShredZero
      <3> QED
        BY <1>0, <2>1, <3>1 DEF Failed, Rest, Resting, SecretTypeOK, Histories, OwnFile
    <2>2. CASE /\ Go(p, "unlink") /\ UNCHANGED <<registry, history>>
               /\ writer' = p /\ target' = [state |-> "zero"]
      BY <1>0, <2>2 DEF Go, SecretTypeOK, Locals, OwnFile
    <2> QED
      BY <1>9, <2>1, <2>2 DEF ShredZero
  <1>10. ASSUME NEW p \in Procs, ShredUnlink(p) PROVE (\A q \in Procs : OwnFile(q))'
    <2>1. CASE Failed(p) /\ UNCHANGED <<target, writer>>
      BY <1>0, <2>1 DEF Failed, Rest, Resting, SecretTypeOK, Histories, OwnFile
    <2>2. CASE Done(p) /\ Rest(p) /\ writer' = p
      BY <1>0, <2>2 DEF Done, Rest, Resting, SecretTypeOK, Entries, Histories, OwnFile
    <2> QED
      BY <1>10, <2>1, <2>2 DEF ShredUnlink
  <1>11. ASSUME NEW p \in Procs, KillProcess(p) PROVE (\A q \in Procs : OwnFile(q))'
    BY <1>0, <1>11
       DEF KillProcess, Fault, place, past, Rest, Resting, NoEntry, SecretTypeOK, Locals,
           Entries, Entitled, OwnFile, MaterializeSteps
  <1> QED
    BY <1>1, <1>2, <1>3, <1>4, <1>5, <1>6, <1>7, <1>8, <1>9, <1>10, <1>11 DEF SecretNext

(* The file changes only by a replace, a zeroing or an unlink.             *)
LEMMA GatedStep ==
    ASSUME SecretInv, SecretNext PROVE SecretsStayGated'
  <1>0. /\ SecretTypeOK /\ (\A q \in Procs : Entitled(q) /\ OwnFile(q))
        /\ SecretsStayGated /\ NothingStrewn
    BY DEF SecretInv
  <1>1. ASSUME NEW p \in Procs, NEW v \in Versions, Register(p, v) PROVE SecretsStayGated'
    BY <1>0, <1>1 DEF Register, Call, place, past, SecretTypeOK, Entitled, SecretsStayGated,
       MaterializeSteps
  <1>2. ASSUME NEW p \in Procs, NEW token \in Versions, NEW key \in Keys, Materialize(p, token, key)
        PROVE  SecretsStayGated'
    BY <1>0, <1>2 DEF Materialize, Call, place, past, MayDecrypt, Capability, SecretTypeOK,
       Entitled, SecretsStayGated, MaterializeSteps
  <1>3. ASSUME NEW p \in Procs, WriteKey(p) PROVE SecretsStayGated'
    BY <1>0, <1>3
       DEF WriteKey, Fault, File, Lost, place, past, Go, Rest, Resting, SecretTypeOK,
           Entitled, SecretsStayGated, MaterializeSteps
  <1>4. ASSUME NEW p \in Procs, RunAge(p) PROVE SecretsStayGated'
    BY <1>0, <1>4 DEF RunAge, place, past, Go, SecretTypeOK, Entitled, SecretsStayGated,
       MaterializeSteps
  <1>5. ASSUME NEW p \in Procs, DropKey(p) PROVE SecretsStayGated'
    BY <1>0, <1>5
       DEF DropKey, AfterKey, Fault, File, Lost, place, past, Go, Rest, Resting,
           SecretTypeOK, Entitled, SecretsStayGated, MaterializeSteps
  <1>6. ASSUME NEW p \in Procs, WriteTmp(p) PROVE SecretsStayGated'
    BY <1>0, <1>6
       DEF WriteTmp, Fault, File, Lost, place, past, Go, Rest, Resting, SecretTypeOK,
           Entitled, SecretsStayGated, MaterializeSteps
  <1>7. ASSUME NEW p \in Procs, Replace(p) PROVE SecretsStayGated'
    BY <1>0, <1>7
       DEF Replace, File, place, past, Rest, Resting, Whole, SecretTypeOK, Entitled,
           SecretsStayGated, MaterializeSteps
  <1>8. ASSUME NEW p \in Procs, Shred(p) PROVE SecretsStayGated'
    BY <1>0, <1>8
       DEF Shred, Done, Call, place, past, Go, SecretTypeOK, Entitled, SecretsStayGated,
           MaterializeSteps
  <1>9. ASSUME NEW p \in Procs, ShredZero(p) PROVE SecretsStayGated'
    BY <1>0, <1>9
       DEF ShredZero, Failed, Fault, place, past, Go, SecretTypeOK, Entitled,
           SecretsStayGated, MaterializeSteps
  <1>10. ASSUME NEW p \in Procs, ShredUnlink(p) PROVE SecretsStayGated'
    BY <1>0, <1>10
       DEF ShredUnlink, Done, Failed, Fault, place, past, Rest, Resting, Absent,
           SecretTypeOK, Entitled, SecretsStayGated, MaterializeSteps
  <1>11. ASSUME NEW p \in Procs, KillProcess(p) PROVE SecretsStayGated'
    BY <1>0, <1>11
       DEF KillProcess, Fault, place, past, Rest, Resting, NoEntry, SecretTypeOK, Entitled,
           SecretsStayGated, MaterializeSteps
  <1> QED
    BY <1>1, <1>2, <1>3, <1>4, <1>5, <1>6, <1>7, <1>8, <1>9, <1>10, <1>11 DEF SecretNext

(* Every key and temporary file has a process that will remove it.         *)
LEMMA StrewnStep ==
    ASSUME SecretInv, SecretNext PROVE NothingStrewn'
  <1>0. SecretTypeOK /\ (\A q \in Procs : Entitled(q)) /\ NothingStrewn
    BY DEF SecretInv
  <1> DEFINE Keeps(step, f) == \/ f.lost
                               \/ f.kind = "key" /\ step \in {"age", "drop", "dropFailed"}
                               \/ f.kind = "tmp" /\ step = "replace"
  <1>1. ASSUME NEW p \in Procs, storage' = storage, storage.keys \/ (strewn = {} => strewn' = {}),
               \A q \in Procs \ {p} : at'[q].step = at[q].step,
               \A f \in strewn' : \/ f.by \in Procs \ {p} /\ f \in strewn
                                  \/ f.by = p /\ Keeps(at'[p].step, f)
        PROVE  NothingStrewn'
    BY <1>0, <1>1 DEF NothingStrewn
  <1>2. ASSUME NEW f \in strewn
        PROVE  f \in Files /\ f.by \in Procs /\ Keeps(at[f.by].step, f)
    BY <1>0 DEF NothingStrewn, SecretTypeOK, Files
  <1>3. ASSUME NEW p \in Procs, at[p].step \in MaterializeSteps PROVE storage.keys
    BY <1>0, <1>3 DEF Entitled
  <1>4. ASSUME NEW p \in Procs, NEW step, Go(p, step)
        PROVE  at'[p].step = step /\ \A q \in Procs \ {p} : at'[q].step = at[q].step
    BY <1>0, <1>4 DEF Go, SecretTypeOK, Locals
  <1>5. ASSUME NEW p \in Procs, Rest(p)
        PROVE  at'[p].step = "idle" /\ \A q \in Procs \ {p} : at'[q].step = at[q].step
    BY <1>0, <1>5 DEF Rest, Resting, SecretTypeOK
  <1>6. ASSUME NEW p \in Procs, NEW kind \in {"key", "tmp"}
        PROVE  /\ File(p, kind).by = p /\ File(p, kind).kind = kind
               /\ Lost(p, kind).by = p /\ Lost(p, kind).lost
               /\ \A f \in Files : f.by = p /\ f.kind = kind /\ ~ f.lost => f = File(p, kind)
    BY DEF File, Lost, Files
  <1>7. ASSUME NEW p \in Procs, UNCHANGED <<strewn, storage>>,
               \A q \in Procs \ {p} : at'[q].step = at[q].step,
               at[p].step \notin {"age", "drop", "dropFailed", "replace"}
        PROVE  NothingStrewn'
    BY <1>1, <1>2, <1>7
  <1>8. ASSUME NEW p \in Procs, WriteKey(p) PROVE NothingStrewn'
    <2>1. storage' = storage /\ storage.keys /\ at[p].step = "key"
      BY <1>3, <1>8 DEF WriteKey, place, MaterializeSteps
    <2>2. CASE strewn' = strewn \cup {File(p, "key")} /\ Go(p, "age")
      BY <1>1, <1>2, <1>4, <1>6, <2>1, <2>2
    <2>3. CASE strewn' = strewn \cup {Lost(p, "key")} /\ Rest(p)
      BY <1>1, <1>2, <1>5, <1>6, <2>1, <2>3
    <2> QED
      BY <1>8, <2>2, <2>3 DEF WriteKey
  <1>9. ASSUME NEW p \in Procs, RunAge(p) PROVE NothingStrewn'
    <2>1. /\ UNCHANGED <<strewn, storage>> /\ at[p].step = "age"
          /\ Go(p, "drop") \/ Go(p, "dropFailed")
      BY <1>9 DEF RunAge, place
    <2>2. /\ at'[p].step \in {"drop", "dropFailed"}
          /\ \A q \in Procs \ {p} : at'[q].step = at[q].step
      BY <1>4, <2>1
    <2> QED
      BY <1>1, <1>2, <2>1, <2>2
  <1>10. ASSUME NEW p \in Procs, DropKey(p) PROVE NothingStrewn'
    <2>1. storage' = storage /\ storage.keys /\ at[p].step \in {"drop", "dropFailed"}
      BY <1>3, <1>10 DEF DropKey, place, MaterializeSteps
    <2>2. \A q \in Procs \ {p} : at'[q].step = at[q].step
      BY <1>4, <1>5, <1>10 DEF DropKey, AfterKey
    <2>3. strewn' \subseteq (strewn \ {File(p, "key")}) \cup {Lost(p, "key")}
      BY <1>10 DEF DropKey
    <2>4. File(p, "key") \notin strewn'
      BY <1>10 DEF DropKey, File, Lost
    <2>5. ASSUME NEW f \in strewn'
          PROVE  \/ f.by \in Procs \ {p} /\ f \in strewn
                 \/ f.by = p /\ f.lost
      <3>1. CASE f \in strewn /\ f.by = p
        <4>1. Keeps(at[p].step, f) /\ f \in Files
          BY <1>2, <3>1
        <4>2. f # File(p, "key")
          BY <2>4, <1>6
        <4>3. f.lost \/ f.kind = "key"
          BY <2>1, <4>1
        <4> QED
          BY <1>6, <3>1, <4>1, <4>2, <4>3
      <3>2. CASE f \in strewn /\ f.by # p
        BY <1>2, <3>2
      <3>3. CASE f = Lost(p, "key")
        BY <1>6, <3>3
      <3> QED
        BY <2>3, <3>1, <3>2, <3>3
    <2> QED
      BY <1>1, <2>1, <2>2, <2>5
  <1>11. ASSUME NEW p \in Procs, WriteTmp(p) PROVE NothingStrewn'
    <2>1. storage' = storage /\ storage.keys /\ at[p].step = "write"
      BY <1>3, <1>11 DEF WriteTmp, place, MaterializeSteps
    <2>2. CASE strewn' = strewn \cup {File(p, "tmp")} /\ Go(p, "replace")
      BY <1>1, <1>2, <1>4, <1>6, <2>1, <2>2
    <2>3. CASE strewn' \subseteq strewn \cup {Lost(p, "tmp")} /\ Rest(p)
      BY <1>1, <1>2, <1>5, <1>6, <2>1, <2>3
    <2> QED
      BY <1>11, <2>2, <2>3 DEF WriteTmp
  <1>12. ASSUME NEW p \in Procs, Replace(p) PROVE NothingStrewn'
    <2>1. storage' = storage /\ storage.keys /\ at[p].step = "replace"
      BY <1>3, <1>12 DEF Replace, place, MaterializeSteps
    <2>2. strewn' = strewn \ {File(p, "tmp")} /\ Rest(p)
      BY <1>12 DEF Replace
    <2>3. ASSUME NEW f \in strewn'
          PROVE  \/ f.by \in Procs \ {p} /\ f \in strewn
                 \/ f.by = p /\ f.lost
      <3>1. CASE f \in strewn /\ f.by = p
        <4>1. Keeps(at[p].step, f) /\ f \in Files
          BY <1>2, <3>1
        <4>2. f # File(p, "tmp")
          BY <2>2, <1>6
        <4>3. f.lost \/ f.kind = "tmp"
          BY <2>1, <4>1
        <4> QED
          BY <1>6, <3>1, <4>1, <4>2, <4>3
      <3>2. CASE f \in strewn /\ f.by # p
        BY <1>2, <3>2
      <3> QED
        BY <2>2, <3>1, <3>2
    <2> QED
      BY <1>1, <1>5, <2>1, <2>2, <2>3
  <1>13. ASSUME NEW p \in Procs, Shred(p) PROVE NothingStrewn'
    BY <1>4, <1>7, <1>13 DEF Shred, Call, place
  <1>14. ASSUME NEW p \in Procs, ShredZero(p) \/ ShredUnlink(p) PROVE NothingStrewn'
    <2>1. UNCHANGED <<strewn, storage>> /\ at[p].step \in {"zero", "unlink"}
      BY <1>14 DEF ShredZero, ShredUnlink, place
    <2>2. Rest(p) \/ Go(p, "unlink")
      BY <1>14 DEF ShredZero, ShredUnlink, Failed
    <2> QED
      BY <1>4, <1>5, <1>7, <2>1, <2>2
  <1>15. ASSUME NEW p \in Procs, KillProcess(p) PROVE NothingStrewn'
    <2>1. storage' = storage /\ Rest(p)
      BY <1>15 DEF KillProcess, place
    <2>2. strewn' = {IF f.by = p THEN [f EXCEPT !.lost = TRUE] ELSE f : f \in strewn}
      BY <1>15 DEF KillProcess
    <2>3. ASSUME NEW f \in strewn'
          PROVE  \/ f.by \in Procs \ {p} /\ f \in strewn
                 \/ f.by = p /\ f.lost
      <3>1. PICK e \in strewn : f = IF e.by = p THEN [e EXCEPT !.lost = TRUE] ELSE e
        BY <2>2
      <3>2. e \in Files /\ e.by \in Procs
        BY <1>2
      <3>3. CASE e.by = p
        <4>1. f = [e EXCEPT !.lost = TRUE]
          BY <3>1, <3>3
        <4> QED
          BY <3>2, <3>3, <4>1 DEF Files
      <3>4. CASE e.by # p
        BY <3>1, <3>2, <3>4
      <3> QED
        BY <3>3, <3>4
    <2>4. strewn = {} => strewn' = {}
      BY <2>2
    <2>5. storage.keys \/ strewn = {}
      BY <1>0 DEF NothingStrewn
    <2> QED
      BY <1>1, <1>5, <2>1, <2>3, <2>4, <2>5
  <1>16. ASSUME NEW p \in Procs, NEW v \in Versions, Register(p, v) PROVE NothingStrewn'
    BY <1>0, <1>16 DEF Register, place, NothingStrewn
  <1>17. ASSUME NEW p \in Procs, NEW token \in Versions, NEW key \in Keys,
                Materialize(p, token, key)
         PROVE  NothingStrewn'
    <2>1. /\ UNCHANGED <<strewn, storage>> /\ at[p].step = "idle"
          /\ \A q \in Procs \ {p} : at'[q] = at[q]
      BY <1>0, <1>17 DEF Materialize, Call, place, SecretTypeOK
    <2> QED
      BY <1>7, <2>1
  <1> QED
    BY <1>8, <1>9, <1>10, <1>11, <1>12, <1>13, <1>14, <1>15, <1>16, <1>17 DEF SecretNext

(* Files are put in place one after the other.                             *)
LEMMA NumberedStep ==
    ASSUME SecretInv, SecretNext PROVE Numbered'
  <1>0. SecretTypeOK /\ Numbered
    BY DEF SecretInv
  <1>1. PICK p \in Procs :
           \/ UNCHANGED <<target, history>>
           \/ Replace(p) \/ Shred(p) \/ ShredZero(p) \/ ShredUnlink(p) \/ KillProcess(p)
    BY DEF SecretNext, Register, Materialize, WriteKey, RunAge, DropKey, WriteTmp, past
  <1>2. history.puts \in Nat /\ history.shredded \in Nat /\ history \in Histories
    BY <1>0 DEF SecretTypeOK, Histories
  <1>3. ASSUME history'.puts = history.puts, history'.shredded = history.shredded,
               target' = target \/ target'.state # "whole"
        PROVE  Numbered'
    BY <1>0, <1>3 DEF Numbered
  <1>4. ASSUME history'.puts = history.puts, history'.shredded = history.puts,
               target'.state # "whole"
        PROVE  Numbered'
    BY <1>2, <1>4 DEF Numbered
  <1>5. CASE Replace(p)
    <2>1. /\ history'.puts = history.puts + 1 /\ history'.shredded = history.shredded
          /\ target'.put = history.puts + 1
      BY <1>2, <1>5 DEF Replace, Whole, Histories
    <2> QED
      BY <1>0, <1>2, <2>1 DEF Numbered
  <1>6. CASE Shred(p)
    <2>1. CASE UNCHANGED <<target, history>>
      BY <1>3, <2>1
    <2>2. CASE target = Absent /\ target' = target /\ Done(p)
      BY <1>2, <1>4, <2>2 DEF Done, Absent, Histories
    <2> QED
      BY <1>6, <2>1, <2>2 DEF Shred
  <1>7. CASE ShredZero(p)
    <2>1. target' = target \/ target' = [state |-> "zero"]
      BY <1>7 DEF ShredZero
    <2>2. history'.puts = history.puts /\ history'.shredded = history.shredded
      BY <1>2, <1>7 DEF ShredZero, Failed, Histories
    <2> QED
      BY <1>3, <2>1, <2>2
  <1>8. CASE ShredUnlink(p)
    <2>1. CASE target' = Absent /\ Done(p)
      BY <1>2, <1>4, <2>1 DEF Done, Absent, Histories
    <2>2. CASE target' = target /\ Failed(p)
      BY <1>2, <1>3, <2>2 DEF Failed, Histories
    <2> QED
      BY <1>8, <2>1, <2>2 DEF ShredUnlink
  <1>9. CASE KillProcess(p)
    BY <1>2, <1>3, <1>9 DEF KillProcess, Histories
  <1> QED
    BY <1>1, <1>3, <1>5, <1>6, <1>7, <1>8, <1>9

LEMMA SecretStep == SecretInv /\ [SecretNext]_secretVars => SecretInv'
  <1>1. CASE UNCHANGED secretVars
    BY <1>1 DEF secretVars, SecretInv, SecretTypeOK, Entitled, OwnFile, Numbered,
       SecretsStayGated, NothingStrewn
  <1>2. ASSUME SecretInv, SecretNext PROVE SecretInv'
    BY <1>2, SecretTypeStep, EntitledStep, OwnFileStep, NumberedStep, GatedStep, StrewnStep
       DEF SecretInv
  <1> QED
    BY <1>1, <1>2

LEMMA SecretInvHolds == SecretSpec => []SecretInv
  BY SecretInitInv, SecretStep, PTL DEF SecretSpec

(* secrets.py keeps its types: in particular the file of a secret is only  *)
(* ever absent, zeroed or whole.                                           *)
THEOREM SecretTypeCorrect == SecretSpec => []SecretTypeOK
  <1>1. SecretInv => SecretTypeOK
    BY DEF SecretInv
  <1> QED
    BY <1>1, SecretInvHolds, PTL

(* materialize_secret: whoever dies between any two accesses to the file   *)
(* system, the file is never partly written, and what it holds was let     *)
(* through by the entry's capability, a recipient's key and the tmpfs rule *)
(* of the engine.                                                          *)
THEOREM SecretsAreGated == SecretSpec => []SecretsStayGated
  <1>1. SecretInv => SecretsStayGated
    BY DEF SecretInv
  <1> QED
    BY <1>1, SecretInvHolds, PTL

(* decrypt_secret_envelope and materialize_secret: every key and every     *)
(* plaintext file there is belongs to a process that is at the step which  *)
(* needs it and will remove it, on every path, or is one of those nobody   *)
(* will: its process was killed, the key's write failed, or its removal.   *)
THEOREM NoFileIsStrewn == SecretSpec => []NothingStrewn
  <1>1. SecretInv => NothingStrewn
    BY DEF SecretInv
  <1> QED
    BY <1>1, SecretInvHolds, PTL

(* shred_secret, whoever calls it and wherever it or another process       *)
(* fails: what it answers True to leaves nothing of what was in the file   *)
(* before; and an entry that says materialized is right about the file and *)
(* its version until another process writes or shreds the same name, or    *)
(* its own shred answers False.                                            *)
THEOREM FlagsAreTrue == SecretSpec => []FlagsTellTruth
  <1>1. SecretInv => FlagsTellTruth
    BY DEF SecretInv, OwnFile, Numbered, FlagsTellTruth
  <1> QED
    BY <1>1, SecretInvHolds, PTL

-----------------------------------------------------------------------------
(* The storage firewall.                                                   *)

Plans == {Plan(layout) : layout \in Layouts}
Authorizations == [nonce : Nat, device : Devices, plan : Plans,
                   clearance : {s.clearance : s \in Signers}, trusted : {s.trusted : s \in Signers},
                   expiry : Nat]
Asks == [step : {"generation", "authorize"}, device : Devices, plan : Plans, expected : Plans,
         token : Devices \X Plans, auth : Authorizations, given : SUBSET Given,
         quiet : BOOLEAN, read : SUBSET {"mounts", "root"}]

FirewallTypeOK ==
    /\ mounts \in SUBSET (Devices \cup {Mapper}) /\ root \in Devices \cup {Mapper}
    /\ now \in Nat /\ life \in Nat /\ asked \in Nat /\ moves \in Nat
    /\ signed \in SUBSET Authorizations /\ IsFiniteSet(signed)
    /\ consumed \in SUBSET Nat
    /\ ask \in Asks \cup {NoAsk}
    /\ granted \in SUBSET [ask : Asks, life : Nat, time : Nat, number : Nat]

(* What factor 3 has made sure of, as far as it was left to it.            *)
Spared(a) ==
    a.given \cap {"generation", "devices"} = {} =>
        /\ "mounts" \in a.read => a.quiet
        /\ "root" \in a.read => root.disk # a.device.disk

(* The evaluation under way: its authorization was signed, a disk that was *)
(* not yet seen quiet carries a mount now, and behind factor 3 the disk    *)
(* has been spared.                                                        *)
AskInv ==
    ask # NoAsk =>
        /\ ask.auth \in signed
        /\ ~ ask.quiet => \E m \in mounts : m.disk = ask.device.disk
        /\ ask.step = "authorize" => Spared(ask)

(* Every nonce this process has granted is in CONSUMED_NONCES, but for     *)
(* those a caller kept himself.                                            *)
NoncesKept ==
    \A g \in granted :
        /\ g.life <= life
        /\ g.life = life /\ "nonces" \notin g.ask.given => g.ask.auth.nonce \in consumed

FirewallInv == FirewallTypeOK /\ AskInv /\ NoncesKept /\ DestructionIsAuthorized

LEMMA DeviceFields ==
    ASSUME NEW m \in Devices \cup {Mapper}
    PROVE  m = [disk |-> m.disk, part |-> m.part] /\ Base(m) = [disk |-> m.disk, part |-> 0]
  BY DEF Devices, Mapper, Base

LEMMA FirewallInitInv == FirewallInit => FirewallInv
  <1> SUFFICES ASSUME FirewallInit PROVE FirewallInv
    OBVIOUS
  <1>1. mounts \in SUBSET (Devices \cup {Mapper}) /\ root \in Devices \cup {Mapper}
    BY DEF FirewallInit, Devices
  <1>2. IsFiniteSet({})
    BY FS_EmptySet
  <1>3. FirewallTypeOK
    BY <1>1, <1>2 DEF FirewallInit, FirewallTypeOK
  <1>4. AskInv /\ NoncesKept /\ DestructionIsAuthorized
    BY DEF FirewallInit, AskInv, NoncesKept, DestructionIsAuthorized
  <1> QED
    BY <1>3, <1>4 DEF FirewallInv

LEMMA AskIsOne ==
    ASSUME FirewallTypeOK, ask # NoAsk PROVE ask \in Asks
  BY DEF FirewallTypeOK

(* sign_storage_authorization.                                             *)
LEMMA SignStep ==
    ASSUME FirewallInv, NEW dev \in Devices, NEW layout \in Layouts, NEW signer \in Signers,
           Sign(dev, layout, signer)
    PROVE  FirewallInv'
  <1>0. FirewallTypeOK /\ AskInv /\ NoncesKept /\ DestructionIsAuthorized
    BY DEF FirewallInv
  <1> DEFINE auth == [nonce |-> Cardinality(signed) + 1, device |-> dev,
                      plan |-> Plan(layout), clearance |-> signer.clearance,
                      trusted |-> signer.trusted, expiry |-> now + 1]
  <1>1. signed' = signed \cup {auth}
    BY DEF Sign
  <1>2. Cardinality(signed) \in Nat
    BY <1>0, FS_CardinalityType DEF FirewallTypeOK
  <1>3. auth \in Authorizations
    BY <1>0, <1>2 DEF Authorizations, Plans, FirewallTypeOK
  <1> HIDE DEF auth
  <1>4. IsFiniteSet(signed')
    BY <1>0, <1>1, FS_AddElement DEF FirewallTypeOK
  <1>5. FirewallTypeOK'
    BY <1>0, <1>1, <1>3, <1>4 DEF Sign, FirewallTypeOK
  <1>6. AskInv' /\ NoncesKept' /\ DestructionIsAuthorized'
    BY <1>0, <1>1 DEF Sign, AskInv, Spared, NoncesKept, DestructionIsAuthorized
  <1> QED
    BY <1>5, <1>6 DEF FirewallInv

(* Factor 3 with the mount table read: a disk that hosts no generation     *)
(* carries no critical mount; with the command line, it is not root's.     *)
LEMMA NoGeneration ==
    ASSUME FirewallTypeOK, NEW dev \in Devices, NEW read \in SUBSET {"mounts", "root"},
           ~ HostsGeneration(dev, read)
    PROVE  /\ "mounts" \in read => ~ \E m \in mounts : m.disk = dev.disk
           /\ "root" \in read => root.disk # dev.disk
  <1>1. ASSUME NEW m \in Devices \cup {Mapper}, m.disk = dev.disk PROVE Base(m) = Base(dev)
    BY <1>1, DeviceFields
  <1>2. ASSUME "mounts" \in read, NEW m \in mounts, m.disk = dev.disk PROVE FALSE
    <2>1. Base(m) = Base(dev)
      BY <1>1, <1>2 DEF FirewallTypeOK
    <2>2. Base(m) \in ActiveDevices(read)
      BY <1>2 DEF ActiveDevices
    <2> QED
      BY <2>1, <2>2 DEF HostsGeneration
  <1>3. ASSUME "root" \in read, root.disk = dev.disk PROVE FALSE
    <2>1. Base(root) = Base(dev)
      BY <1>1, <1>3 DEF FirewallTypeOK
    <2>2. Base(root) \in ActiveDevices(read)
      BY <1>3 DEF ActiveDevices
    <2> QED
      BY <2>1, <2>2 DEF HostsGeneration
  <1> QED
    BY <1>2, <1>3

LEMMA AskStep ==
    ASSUME FirewallInv, NEW dev \in Devices, NEW layout \in Layouts, NEW simulated \in Layouts,
           NEW auth \in signed, NEW given \in Arguments,
           NEW token \in {Token(dev, Plan(layout)), Token(auth.device, Plan(simulated))},
           Ask(dev, Plan(layout), Plan(simulated), token, auth, given)
    PROVE  FirewallInv'
  <1>0. FirewallTypeOK /\ AskInv /\ NoncesKept /\ DestructionIsAuthorized
    BY DEF FirewallInv
  <1> DEFINE new == [step |-> "generation", device |-> dev, plan |-> Plan(layout),
                     expected |-> Plan(simulated), token |-> token, auth |-> auth,
                     given |-> given, quiet |-> Quiet(dev), read |-> {}]
  <1>1. auth \in Authorizations /\ auth.device \in Devices
    BY <1>0 DEF FirewallTypeOK, Authorizations
  <1>2. /\ Plan(layout) \in Plans /\ Plan(simulated) \in Plans
        /\ token \in Devices \X Plans
    BY <1>1 DEF Plans, Token
  <1>3. Quiet(dev) \in BOOLEAN /\ given \in SUBSET Given
    BY FirewallAssumption DEF Quiet
  <1>4. new \in Asks
    BY <1>1, <1>2, <1>3 DEF Asks
  <1>5. ask' = NoAsk \/ ask' = new
    BY DEF Ask
  <1>6. /\ new.auth = auth /\ new.quiet = Quiet(dev) /\ new.device = dev
        /\ new.step = "generation"
    OBVIOUS
  <1> HIDE DEF new
  <1>7. moves' \in Nat /\ asked' \in Nat
    BY <1>0 DEF Ask, Unreadable, FirewallTypeOK
  <1>8. FirewallTypeOK'
    BY <1>0, <1>4, <1>5, <1>7 DEF Ask, FirewallTypeOK
  <1>9. AskInv'
    <2>1. CASE ask' = NoAsk
      BY <2>1 DEF AskInv
    <2>2. CASE ask' = new
      <3>1. mounts' = mounts /\ signed' = signed
        BY DEF Ask
      <3>2. ~ Quiet(dev) => \E m \in mounts : m.disk = dev.disk
        BY DEF Quiet
      <3> QED
        BY <1>6, <2>2, <3>1, <3>2 DEF AskInv
    <2> QED
      BY <1>5, <2>1, <2>2
  <1>10. NoncesKept' /\ DestructionIsAuthorized'
    BY <1>0 DEF Ask, NoncesKept, DestructionIsAuthorized
  <1> QED
    BY <1>8, <1>9, <1>10 DEF FirewallInv

LEMMA GenerationStep ==
    ASSUME FirewallInv, Generation PROVE FirewallInv'
  <1>0. FirewallTypeOK /\ AskInv /\ NoncesKept /\ DestructionIsAuthorized
    BY DEF FirewallInv
  <1>1. ask \in Asks /\ ask # NoAsk
    BY <1>0, AskIsOne DEF Generation
  <1>2. UNCHANGED <<mounts, root, now, signed, consumed, granted, life, asked>>
    BY DEF Generation
  <1>3. moves' \in Nat
    <2>1. moves' = moves \/ moves' = moves + 1
      BY DEF Generation, Unreadable
    <2> QED
      BY <1>0, <2>1 DEF FirewallTypeOK
  <1>4. NoncesKept' /\ DestructionIsAuthorized'
    BY <1>0, <1>2 DEF NoncesKept, DestructionIsAuthorized
  <1>5. ASSUME ask' = NoAsk PROVE FirewallInv'
    BY <1>0, <1>2, <1>3, <1>4, <1>5 DEF FirewallInv, FirewallTypeOK, AskInv
  <1>6. ASSUME NEW read \in SUBSET {"mounts", "root"},
               ask' = [ask EXCEPT !.step = "authorize", !.read = read],
               Spared([ask EXCEPT !.step = "authorize", !.read = read])
        PROVE  FirewallInv'
    <2> DEFINE next == [ask EXCEPT !.step = "authorize", !.read = read]
    <2>1. next \in Asks
      BY <1>1 DEF Asks
    <2>2. next.auth = ask.auth /\ next.quiet = ask.quiet /\ next.device = ask.device
      BY <1>1 DEF Asks
    <2> HIDE DEF next
    <2>3. ask' = next /\ Spared(next)
      BY <1>6 DEF next
    <2>4. FirewallTypeOK'
      BY <1>0, <1>2, <1>3, <2>1, <2>3 DEF FirewallTypeOK
    <2>5. AskInv'
      BY <1>0, <1>1, <1>2, <2>2, <2>3 DEF AskInv, Spared
    <2> QED
      BY <1>4, <2>4, <2>5 DEF FirewallInv
  <1>7. CASE ask.given \cap {"generation", "devices"} # {}
    <2>1. ask' = [ask EXCEPT !.step = "authorize"]
      BY <1>7 DEF Generation
    <2>2. [ask EXCEPT !.step = "authorize"] = [ask EXCEPT !.step = "authorize", !.read = ask.read]
      BY <1>1 DEF Asks
    <2>3. Spared([ask EXCEPT !.step = "authorize", !.read = ask.read])
      BY <1>1, <1>7 DEF Spared, Asks
    <2>4. ask.read \in SUBSET {"mounts", "root"}
      BY <1>1 DEF Asks
    <2> QED
      BY <1>6, <2>1, <2>2, <2>3, <2>4
  <1>8. CASE ask.given \cap {"generation", "devices"} = {}
    <2>1. PICK read \in SUBSET {"mounts", "root"} :
             ask' = IF HostsGeneration(ask.device, read) THEN NoAsk
                    ELSE [ask EXCEPT !.step = "authorize", !.read = read]
      BY <1>8 DEF Generation
    <2>2. CASE HostsGeneration(ask.device, read)
      BY <1>5, <2>1, <2>2
    <2>3. CASE ~ HostsGeneration(ask.device, read)
      <3>1. ask.device \in Devices /\ ask.quiet \in BOOLEAN
        BY <1>1 DEF Asks
      <3>2. /\ "mounts" \in read => ask.quiet
            /\ "root" \in read => root.disk # ask.device.disk
        BY <1>0, <1>1, <2>3, <3>1, NoGeneration DEF AskInv
      <3>3. Spared([ask EXCEPT !.step = "authorize", !.read = read])
        BY <1>1, <3>2 DEF Spared, Asks
      <3> QED
        BY <1>6, <2>1, <2>3, <3>3
    <2> QED
      BY <2>2, <2>3
  <1> QED
    BY <1>7, <1>8

(* Factors 4 to 7: the nonce of what is granted was in no earlier grant of *)
(* this process.                                                           *)
LEMMA AuthorizeStep ==
    ASSUME FirewallInv, Authorize PROVE FirewallInv'
  <1>0. FirewallTypeOK /\ AskInv /\ NoncesKept /\ DestructionIsAuthorized
    BY DEF FirewallInv
  <1>1. ask \in Asks
    BY <1>0, AskIsOne DEF Authorize
  <1>2. ask' = NoAsk /\ UNCHANGED <<mounts, root, now, signed, life, asked, moves>>
    BY DEF Authorize
  <1>3. AskInv'
    BY <1>2 DEF AskInv
  <1>4. CASE ~ (Confirmed(ask) /\ AuthorizationValid(ask))
    <2>1. UNCHANGED <<consumed, granted>>
      BY <1>4 DEF Authorize
    <2> QED
      BY <1>0, <1>2, <1>3, <2>1
         DEF FirewallInv, FirewallTypeOK, NoncesKept, DestructionIsAuthorized
  <1>5. CASE Confirmed(ask) /\ AuthorizationValid(ask)
    <2> DEFINE g == [ask |-> ask, life |-> life, time |-> now, number |-> asked]
    <2>1. /\ granted' = granted \cup {g}
          /\ consumed' = IF "nonces" \in ask.given THEN consumed
                         ELSE consumed \cup {ask.auth.nonce}
      BY <1>5 DEF Authorize
    <2>2. g.ask = ask /\ g.life = life /\ g.time = now
      OBVIOUS
    <2>3. g \in [ask : Asks, life : Nat, time : Nat, number : Nat]
      BY <1>0, <1>1 DEF FirewallTypeOK
    <2>4. ask.auth \in Authorizations /\ ask.auth.nonce \in Nat /\ ask.auth.expiry \in Nat
      BY <1>1 DEF Asks, Authorizations
    <2> HIDE DEF g
    <2>5. FirewallTypeOK'
      BY <1>0, <1>2, <2>1, <2>3, <2>4 DEF FirewallTypeOK
    <2>6. life \in Nat /\ now \in Nat
      BY <1>0 DEF FirewallTypeOK
    <2>7. NoncesKept'
      BY <1>0, <1>2, <2>1, <2>2, <2>6 DEF NoncesKept
    <2>8. ask.auth \in signed /\ Spared(ask)
      BY <1>0 DEF AskInv, Authorize
    <2>9. /\ ask.auth.clearance # "USER"
          /\ ask.auth.device = ask.device /\ ask.auth.plan = ask.plan
          /\ "empty" \notin ask.given => ask.token = Token(ask.device, ask.plan)
      BY <1>5 DEF Confirmed, AuthorizationValid
    <2>10. "time" \notin ask.given => now < ask.auth.expiry
      BY <1>5, <2>4, <2>6 DEF AuthorizationValid, Time
    <2>11. ASSUME NEW f \in granted, f.life = life, f.ask.auth.nonce = ask.auth.nonce,
                  "nonces" \notin f.ask.given \cup ask.given
           PROVE  FALSE
      BY <1>0, <1>5, <2>11 DEF NoncesKept, AuthorizationValid, Nonces
    <2>12. DestructionIsAuthorized'
      <3>1. ASSUME NEW h \in granted', NEW f \in granted',
                   f.life = h.life, f.ask.auth.nonce = h.ask.auth.nonce,
                   "nonces" \notin f.ask.given \cup h.ask.given
            PROVE  f = h
        BY <1>0, <2>1, <2>2, <2>11, <3>1 DEF DestructionIsAuthorized
      <3>2. ASSUME NEW h \in granted'
            PROVE  /\ h.ask.auth \in signed' /\ h.ask.auth.clearance # "USER"
                   /\ h.ask.auth.device = h.ask.device /\ h.ask.auth.plan = h.ask.plan
                   /\ "empty" \notin h.ask.given => h.ask.token = Token(h.ask.device, h.ask.plan)
                   /\ "time" \notin h.ask.given => h.time < h.ask.auth.expiry
                   /\ Spared(h.ask)'
        <4>1. CASE h \in granted
          BY <1>0, <1>2, <4>1 DEF DestructionIsAuthorized, Spared
        <4>2. CASE h = g
          BY <1>2, <2>2, <2>8, <2>9, <2>10, <4>2 DEF Spared
        <4> QED
          BY <2>1, <4>1, <4>2
      <3> QED
        BY <3>1, <3>2 DEF DestructionIsAuthorized, Spared
    <2> QED
      BY <1>3, <2>5, <2>7, <2>12 DEF FirewallInv
  <1> QED
    BY <1>4, <1>5

(* Mounts come and go: a disk without a mount has been seen quiet.         *)
LEMMA RemountStep ==
    ASSUME FirewallInv, Remount PROVE FirewallInv'
  <1>0. FirewallTypeOK /\ AskInv /\ NoncesKept /\ DestructionIsAuthorized
    BY DEF FirewallInv
  <1>1. mounts' \in SUBSET (Devices \cup {Mapper}) /\ moves' \in Nat
    BY <1>0 DEF Remount, FirewallTypeOK
  <1>2. UNCHANGED <<root, now, signed, consumed, granted, life, asked>>
    BY DEF Remount
  <1>3. NoncesKept' /\ DestructionIsAuthorized'
    BY <1>0, <1>2 DEF NoncesKept, DestructionIsAuthorized
  <1>4. CASE ask = NoAsk
    <2>1. ask' = NoAsk
      BY <1>4 DEF Remount
    <2> QED
      BY <1>0, <1>1, <1>2, <1>3, <2>1 DEF FirewallInv, FirewallTypeOK, AskInv
  <1>5. CASE ask # NoAsk
    <2> DEFINE clear == \A m \in mounts' : m.disk # ask.device.disk
               next == [ask EXCEPT !.quiet = @ \/ clear]
    <2>1. ask \in Asks
      BY <1>0, <1>5, AskIsOne
    <2>2. ask.quiet \in BOOLEAN /\ clear \in BOOLEAN
      BY <2>1 DEF Asks
    <2>3. ask' = next
      BY <1>5 DEF Remount
    <2> HIDE DEF clear
    <2>4. /\ next \in Asks
          /\ next.auth = ask.auth /\ next.step = ask.step /\ next.device = ask.device
          /\ next.given = ask.given /\ next.read = ask.read
          /\ next.quiet = (ask.quiet \/ clear)
      BY <2>1, <2>2 DEF Asks
    <2> HIDE DEF next
    <2>5. FirewallTypeOK'
      BY <1>0, <1>1, <1>2, <2>3, <2>4 DEF FirewallTypeOK
    <2>6. /\ next.auth \in signed'
          /\ next.step = "authorize" /\ next.given \cap {"generation", "devices"} = {} =>
                /\ "mounts" \in next.read => next.quiet
                /\ "root" \in next.read => root'.disk # next.device.disk
      BY <1>0, <1>2, <1>5, <2>2, <2>4 DEF AskInv, Spared
    <2>7. ~ next.quiet => \E m \in mounts' : m.disk = next.device.disk
      BY <2>4 DEF clear
    <2>8. AskInv'
      BY <2>3, <2>6, <2>7 DEF AskInv, Spared
    <2> QED
      BY <1>3, <2>5, <2>8 DEF FirewallInv
  <1> QED
    BY <1>4, <1>5

LEMMA FirewallStep == FirewallInv /\ [FirewallNext]_firewallVars => FirewallInv'
  <1> SUFFICES ASSUME FirewallInv, [FirewallNext]_firewallVars PROVE FirewallInv'
    OBVIOUS
  <1>0. FirewallTypeOK /\ AskInv /\ NoncesKept /\ DestructionIsAuthorized
    BY DEF FirewallInv
  <1>1. CASE \E dev \in Devices, layout \in Layouts, signer \in Signers : Sign(dev, layout, signer)
    BY <1>1, SignStep
  <1>2. CASE \E dev \in Devices, layout, simulated \in Layouts, auth \in signed,
                given \in Arguments :
                \E token \in {Token(dev, Plan(layout)), Token(auth.device, Plan(simulated))} :
                    Ask(dev, Plan(layout), Plan(simulated), token, auth, given)
    BY <1>2, AskStep
  <1>3. CASE Generation
    BY <1>3, GenerationStep
  <1>4. CASE Authorize
    BY <1>4, AuthorizeStep
  <1>5. CASE Remount
    BY <1>5, RemountStep
  <1>6. CASE ClockTicks
    BY <1>0, <1>6 DEF ClockTicks, FirewallInv, FirewallTypeOK, AskInv, Spared, NoncesKept,
                      DestructionIsAuthorized
  <1>7. CASE RestartProcess
    <2>1. FirewallTypeOK' /\ AskInv'
      BY <1>0, <1>7 DEF RestartProcess, FirewallTypeOK, AskInv
    <2>2. ASSUME NEW g \in granted PROVE g.life <= life' /\ g.life # life'
      <3>1. g.life \in Nat /\ life \in Nat
        BY <1>0 DEF FirewallTypeOK
      <3>2. g.life <= life /\ life' = life + 1
        BY <1>0, <1>7 DEF NoncesKept, RestartProcess
      <3> QED
        BY <3>1, <3>2
    <2>3. NoncesKept' /\ DestructionIsAuthorized'
      BY <1>0, <1>7, <2>2 DEF RestartProcess, NoncesKept, DestructionIsAuthorized
    <2> QED
      BY <2>1, <2>3 DEF FirewallInv
  <1>8. CASE UNCHANGED firewallVars
    BY <1>0, <1>8 DEF firewallVars, FirewallInv, FirewallTypeOK, AskInv, Spared, NoncesKept,
                      DestructionIsAuthorized
  <1> QED
    BY <1>1, <1>2, <1>3, <1>4, <1>5, <1>6, <1>7, <1>8 DEF FirewallNext

(* storage_planner.py: the evaluation, the authorizations and the grants   *)
(* keep their types.                                                       *)
THEOREM FirewallTypeCorrect == FirewallSpec => []FirewallTypeOK
  <1>1. FirewallInv => FirewallTypeOK
    BY DEF FirewallInv
  <1> QED
    BY <1>1, FirewallInitInv, FirewallStep, PTL DEF FirewallSpec

(* evaluate_7_factors: with any disks, layouts, operators, whatever        *)
(* callers hand in, and any number of mounts, unreadable files, restarts   *)
(* and ticks between its two looks at the mount table, what it authorizes  *)
(* was signed for this device and this plan's hash by an operator of       *)
(* clearance; what was left to the function itself it made sure of: that   *)
(* it had not expired, that its nonce is used once in the life of the      *)
(* process, and, from each file it could read, that the disk was free of   *)
(* critical mounts at one moment and is not the kernel's root.             *)
THEOREM DestructionNeedsAuthority == FirewallSpec => []DestructionIsAuthorized
  <1>1. FirewallInv => DestructionIsAuthorized
    BY DEF FirewallInv
  <1> QED
    BY <1>1, FirewallInitInv, FirewallStep, PTL DEF FirewallSpec

=============================================================================
