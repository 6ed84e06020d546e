------------------------- MODULE SystemTransactions -------------------------
(***************************************************************************)
(* The transactional core of neuronix_core: the operations that move the   *)
(* NixOS system profile (update.py, rollback.py, the diet and gc handlers  *)
(* of operations.py, the upgrade skill of skills.py), the exclusive        *)
(* operation lock that serialises them (lock.py), the journal they write   *)
(* (journal.py) and the recovery of interrupted transactions.              *)
(*                                                                         *)
(* Several operating-system processes run these operations at once.  Each  *)
(* process has two call frames: "op", the operation it was started for,    *)
(* and "rb", an execute_rollback called from inside that operation (the    *)
(* automatic rollback of an update, the physical rollback of a recovery).  *)
(* One action is one access to shared state: the profile link, the         *)
(* operation lock, the journal file or an external nix command.            *)
(***************************************************************************)
EXTENDS Naturals, Sequences, FiniteSets, FiniteSetsExt

CONSTANTS
    Procs,          \* operating-system processes
    Servers,        \* the ones that outlive an operation (conductor-runtime)
    Ops,            \* the operations the processes may be asked for
    NoLock,         \* a lock nobody holds
    MaxGen,         \* bound: the highest profile generation
    MaxOps,         \* bound: operations begun (recoveries are not counted)
    MaxKills,       \* bound: processes killed
    MaxReboots,     \* bound: power losses
    MaxFailures,    \* bound: the journal becomes unusable
    MaxRepairs,     \* bound: it becomes usable again by itself
    MaxQuarantines  \* bound: quarantine_and_reset calls

(***************************************************************************)
(* Generations are numbered from 1; 0 stands for Python's None (no profile *)
(* link, no explicit target) and for the previous_generation 0 that a      *)
(* staged update records when no generation is active.                     *)
(***************************************************************************)
Generation == 0 .. MaxGen

AllOps == {"system_update", "system_stage", "rollback", "storage_diet",
           "skill_upgrade", "gc", "recover"}

OpName == AllOps \cup {"none"}

(* The operations that take the operation lock.                            *)
LockedOps == {"system_update", "system_stage", "rollback", "storage_diet"}

(* The operations that move the profile link under the lock.               *)
ProfileOps == {"system_update", "system_stage", "rollback"}

Level == {"op", "rb"}
Frame == Procs \X Level

Label == {"idle", "simulate", "read", "lock", "start", "apply", "wait", "post",
          "call", "mark", "commit", "abort", "release", "rnext", "rmark"}

ASSUME ConstantsAssumption ==
    /\ Servers \subseteq Procs
    /\ Ops \subseteq AllOps
    /\ NoLock \notin Procs
    /\ NoLock \notin Frame
    /\ MaxGen \in Nat \ {0}
    /\ MaxOps \in Nat
    /\ MaxKills \in Nat
    /\ MaxReboots \in Nat
    /\ MaxFailures \in Nat
    /\ MaxRepairs \in Nat
    /\ MaxQuarantines \in Nat

VARIABLES
    active,     \* the generation the profile link points to, 0 if none
    gens,       \* the generations that have a link in the profile directory
    opLock,     \* the frame that holds the flock of OperationLock
    jlock,      \* the process that holds the journal's flock
    journal,    \* the transactions, in the order of their insertion
    unusable,   \* the journal cannot be read and written, see JournalFails
    pc,         \* the next step of each frame
    loc,        \* the local variables of each frame
    orphans,    \* nix commands that outlived the process that ran them
    begun,      \* operations begun so far
    faults      \* faults injected so far, by kind

vars == <<active, gens, opLock, jlock, journal, unusable, pc, loc, orphans,
          begun, faults>>

TxState == {"PENDING", "APPLYING", "COMMITTED", "ROLLED_BACK", "FAILED"}

(* A journal record; new is the generation the details name in the end:    *)
(* new_generation of an update, final_generation of a rollback,            *)
(* restored_generation of an automatic rollback.  A quarantined record is  *)
(* no longer in the journal file: it keeps its place here with the state   *)
(* "GONE" so that the ids the running operations hold stay unique, as the  *)
(* uuids of the code are.                                                  *)
Tx == [op : OpName, state : TxState \cup {"GONE"}, prev : Generation, new : Generation]

(* The locals of a frame: the operation, previous_generation, the          *)
(* target_generation argument, the validated target, the transaction id    *)
(* (0: none yet), the generation read after the switch, the success flag   *)
(* of the call, and the transactions a recovery has still to settle.       *)
Local == [op : OpName, prev : Generation, arg : Generation,
          target : Generation, tx : Nat, new : Generation, ok : BOOLEAN,
          todo : SUBSET Nat]

Blank == [op |-> "none", prev |-> 0, arg |-> 0, target |-> 0, tx |-> 0,
          new |-> 0, ok |-> FALSE, todo |-> {}]

Command == [op : OpName, arg : Generation, target : Generation]

(* The type invariant: every variable has its type, and the transaction    *)
(* ids the frames hold were handed out by start_transaction.               *)
TypeOK ==
    /\ active \in Generation
    /\ gens \subseteq Generation
    /\ opLock \in Frame \cup {NoLock}
    /\ jlock \in Procs \cup {NoLock}
    /\ journal \in Seq(Tx)
    /\ unusable \in BOOLEAN
    /\ pc \in [Frame -> Label]
    /\ loc \in [Frame -> Local]
    /\ \A f \in Frame : /\ loc[f].todo \subseteq DOMAIN journal
                        /\ loc[f].tx \in {0} \cup DOMAIN journal
    /\ orphans \subseteq Command
    /\ begun \in Nat
    /\ faults \in [kill : Nat, reboot : Nat, fail : Nat, repair : Nat, quarantine : Nat]

-----------------------------------------------------------------------------
(* Frames.                                                                 *)

Outer(p) == <<p, "op">>
Inner(p) == <<p, "rb">>

Goto(f, l) == pc' = [pc EXCEPT ![f] = l]

(* The call returns; only the caller of a nested rollback looks at ok.     *)
Return(f, ok) ==
    /\ Goto(f, "idle")
    /\ loc' = [loc EXCEPT ![f] = [Blank EXCEPT !.ok = ok /\ f[2] = "rb"]]

Holds(p) == opLock \in {Outer(p), Inner(p)}

(* A process is free for an operation when it runs none.  A command-line   *)
(* process that leaked the lock does nothing more before it exits.         *)
Free(p, o) ==
    /\ o \in Ops
    /\ begun < MaxOps
    /\ pc[Outer(p)] = "idle"
    /\ p \in Servers \/ ~ Holds(p)

Begin(p, l, local) ==
    /\ pc' = [pc EXCEPT ![Outer(p)] = l]
    /\ loc' = [loc EXCEPT ![Outer(p)] = local]
    /\ begun' = begun + 1

(* The outer frame calls execute_rollback(target_generation = g).          *)
CallRollback(f, local, g) ==
    /\ pc' = [pc EXCEPT ![f] = "call", ![Inner(f[1])] = "simulate"]
    /\ loc' = [loc EXCEPT ![f] = local,
                          ![Inner(f[1])] = [Blank EXCEPT !.op = "rollback", !.arg = g]]

-----------------------------------------------------------------------------
(* The external nix commands: what they may leave in the profile directory *)
(* and whether their exit code is 0.                                       *)

Same == {[active |-> active, gens |-> gens, rc0 |-> b] : b \in BOOLEAN}

MoveTo(g) == {[active |-> g, gens |-> gens \cup {g}, rc0 |-> b] : b \in BOOLEAN}

(* nixos-rebuild switch and boot: an unchanged configuration or a failed   *)
(* build leaves the link alone; otherwise it moves to a fresh generation,  *)
(* and the activation that follows may still fail.                         *)
Rebuild ==
    LET next == Max(gens \cup {0}) + 1
    IN  Same \cup (IF next <= MaxGen THEN MoveTo(next) ELSE {})

(* nixos-rebuild switch --rollback follows the link's own predecessor; the *)
(* switch-to-configuration script of a generation may leave the link where *)
(* it is, and nix-env --switch-generation moves it if the target exists.   *)
SwitchBack(arg, target) ==
    LET older == {g \in gens : g < active}
        dest  == IF arg = 0 THEN (IF older = {} THEN {} ELSE {Max(older)})
                 ELSE gens \cap {target}
    IN  Same \cup UNION {MoveTo(g) : g \in dest}

(* nix-collect-garbage drops generations, never the active one.            *)
Collect == {[active |-> active, gens |-> G, rc0 |-> b] :
               G \in {H \in SUBSET gens : gens \cap {active} \subseteq H}, b \in BOOLEAN}

Outcomes(c) ==
    CASE c.op \in {"system_update", "system_stage", "skill_upgrade"} -> Rebuild
      [] c.op = "rollback" -> SwitchBack(c.arg, c.target)
      [] OTHER -> Collect

CommandOf(f) == [op |-> loc[f].op, arg |-> loc[f].arg, target |-> loc[f].target]

-----------------------------------------------------------------------------
(* The journal file.                                                       *)

(* Mutation: a journal lock that is not re-entrant.                        *)
JournalFreeNotReentrant(f) == jlock = NoLock /\ f \in Frame

(* The journal's flock is blocking and re-entrant in the holder's thread.  *)
JournalFree(f) == jlock \in {NoLock, f[1]}

(* update_transaction can read the file, finds the record and can write.   *)
Present(i) == ~ unusable /\ i \in DOMAIN journal /\ journal[i].state # "GONE"

(* Mutation: a transaction that crashed while PENDING is not dangling.     *)
DanglingApplyingOnly == {i \in DOMAIN journal : journal[i].state = "APPLYING"}

Dangling == {i \in DOMAIN journal : journal[i].state \in {"PENDING", "APPLYING"}}

(* update_transaction: any state is overwritten; a missing record or an    *)
(* unusable journal raises and leaves the file alone.                      *)
UpdateTransaction(i, s, new) ==
    journal' = IF Present(i)
               THEN [journal EXCEPT ![i].state = s, ![i].new = new]
               ELSE journal

-----------------------------------------------------------------------------
(* Entering an operation.                                                  *)

(* apply_system_update reads previous_generation before it takes the lock  *)
(* and gives up when there is none.                                        *)
UpdateBegin(p) ==
    /\ Free(p, "system_update")
    /\ active # 0
    /\ Begin(p, "lock", [Blank EXCEPT !.op = "system_update", !.prev = active])
    /\ UNCHANGED <<active, gens, opLock, jlock, journal, unusable, orphans, faults>>

(* stage_system_update records generation 0 when there is none.            *)
StageBegin(p) ==
    /\ Free(p, "system_stage")
    /\ Begin(p, "lock", [Blank EXCEPT !.op = "system_stage", !.prev = active])
    /\ UNCHANGED <<active, gens, opLock, jlock, journal, unusable, orphans, faults>>

RollbackBegin(p, g) ==
    /\ Free(p, "rollback")
    /\ Begin(p, "simulate", [Blank EXCEPT !.op = "rollback", !.arg = g])
    /\ UNCHANGED <<active, gens, opLock, jlock, journal, unusable, orphans, faults>>

DietBegin(p) ==
    /\ Free(p, "storage_diet")
    /\ Begin(p, "lock", [Blank EXCEPT !.op = "storage_diet"])
    /\ UNCHANGED <<active, gens, opLock, jlock, journal, unusable, orphans, faults>>

(* The gc handler and the upgrade skill run their command at once, with no *)
(* lock and no transaction.                                                *)
UnlockedBegin(p, o) ==
    /\ Free(p, o)
    /\ Begin(p, "wait", [Blank EXCEPT !.op = o])
    /\ UNCHANGED <<active, gens, opLock, jlock, journal, unusable, orphans, faults>>

-----------------------------------------------------------------------------
(* execute_rollback before its lock: simulate_rollback validates a target  *)
(* against the generations and the link it reads, then the link is read    *)
(* again for previous_generation.                                          *)

Simulate(f) ==
    LET older  == {g \in gens : g < active}
        arg    == loc[f].arg
        target == IF arg = 0 THEN Max(older) ELSE arg
        valid  == /\ gens # {} /\ active # 0
                  /\ IF arg = 0 THEN older # {} ELSE arg \in gens /\ arg # active
    IN  /\ pc[f] = "simulate"
        /\ IF valid
           THEN /\ Goto(f, "read")
                /\ loc' = [loc EXCEPT ![f].target = target]
           ELSE Return(f, FALSE)
        /\ UNCHANGED <<active, gens, opLock, jlock, journal, unusable, orphans, begun, faults>>

ReadActive(f) ==
    /\ pc[f] = "read"
    /\ IF active = 0
       THEN Return(f, FALSE)
       ELSE /\ Goto(f, "lock")
            /\ loc' = [loc EXCEPT ![f].prev = active]
    /\ UNCHANGED <<active, gens, opLock, jlock, journal, unusable, orphans, begun, faults>>

-----------------------------------------------------------------------------
(* The locked part, shared by update, stage, rollback and diet.            *)

(* Mutation: a busy lock does not stop the operation.                      *)
AcquireLockRegardless(f) ==
    /\ pc[f] = "lock"
    /\ opLock' = IF opLock = NoLock THEN f ELSE opLock
    /\ Goto(f, "start")
    /\ UNCHANGED <<active, gens, jlock, journal, unusable, loc, orphans, begun, faults>>

(* OperationLock.acquire: flock with LOCK_NB on a descriptor of its own,   *)
(* so a lock held by another frame of the same process is busy as well.    *)
AcquireLock(f) ==
    /\ pc[f] = "lock"
    /\ IF opLock = NoLock
       THEN /\ opLock' = f
            /\ Goto(f, "start")
            /\ UNCHANGED loc
       ELSE /\ Return(f, FALSE)
            /\ UNCHANGED opLock
    /\ UNCHANGED <<active, gens, jlock, journal, unusable, orphans, begun, faults>>

(* TransactionJournal and start_transaction.  Update, stage and rollback   *)
(* call them after acquire and before their try block: when one raises,    *)
(* the descriptor stays open and the lock stays held.  Diet holds the lock *)
(* in a with statement, and goes straight from PENDING to its commands.    *)
StartTransaction(f) ==
    /\ pc[f] = "start"
    /\ JournalFree(f)
    /\ IF ~ unusable
       THEN /\ journal' = Append(journal, [op |-> loc[f].op, state |-> "PENDING",
                                           prev |-> loc[f].prev, new |-> 0])
            /\ Goto(f, IF loc[f].op = "storage_diet" THEN "wait" ELSE "apply")
            /\ loc' = [loc EXCEPT ![f].tx = Len(journal) + 1]
       ELSE /\ UNCHANGED journal
            /\ IF loc[f].op = "storage_diet"
               THEN Goto(f, "release") /\ UNCHANGED loc
               ELSE Return(f, FALSE)
    /\ UNCHANGED <<active, gens, opLock, jlock, unusable, orphans, begun, faults>>

(* Mutation: the command starts before the journal says APPLYING.          *)
ApplySkipped(f) ==
    /\ pc[f] = "apply"
    /\ JournalFree(f)
    /\ Goto(f, IF Present(loc[f].tx) THEN "wait" ELSE "abort")
    /\ UNCHANGED <<active, gens, opLock, jlock, journal, unusable, loc, orphans, begun, faults>>

(* update_transaction(APPLYING); if it raises, the except clause aborts.   *)
Apply(f) ==
    /\ pc[f] = "apply"
    /\ JournalFree(f)
    /\ UpdateTransaction(loc[f].tx, "APPLYING", 0)
    /\ Goto(f, IF Present(loc[f].tx) THEN "wait" ELSE "abort")
    /\ UNCHANGED <<active, gens, opLock, jlock, unusable, loc, orphans, begun, faults>>

(* The command ends and the process looks at its exit code.                *)
AfterCommand(o, rc0) ==
    CASE ~ rc0 -> "abort"
      [] rc0 /\ o \in {"system_update", "rollback"} -> "post"
      [] OTHER -> "commit"

RunCommand(f) ==
    /\ pc[f] = "wait"
    /\ \E out \in Outcomes(CommandOf(f)) :
          /\ active' = out.active
          /\ gens' = out.gens
          /\ IF loc[f].op \in LockedOps
             THEN Goto(f, AfterCommand(loc[f].op, out.rc0)) /\ UNCHANGED loc
             ELSE Return(f, FALSE)
    /\ UNCHANGED <<opLock, jlock, journal, unusable, orphans, begun, faults>>

(* The postcondition of an update: the link advanced and systemd answers   *)
(* running or starting (probe).  auto is the auto_rollback argument.       *)
HealthCheck(f, probe, auto) ==
    LET seen == [loc[f] EXCEPT !.new = active]
    IN  /\ pc[f] = "post"
        /\ loc[f].op = "system_update"
        /\ IF active > loc[f].prev /\ probe
           THEN Goto(f, "commit") /\ loc' = [loc EXCEPT ![f] = seen]
           ELSE IF auto
           THEN CallRollback(f, seen, loc[f].prev)
           ELSE Goto(f, "abort") /\ loc' = [loc EXCEPT ![f] = seen]
        /\ UNCHANGED <<active, gens, opLock, jlock, journal, unusable, orphans, begun, faults>>

(* Mutation: the exit code alone decides, the link is not looked at.       *)
VerifyRollbackByExitCode(f) ==
    /\ pc[f] = "post"
    /\ loc[f].op = "rollback"
    /\ Goto(f, "commit")
    /\ loc' = [loc EXCEPT ![f].new = loc[f].target]
    /\ UNCHANGED <<active, gens, opLock, jlock, journal, unusable, orphans, begun, faults>>

(* The postcondition of a rollback: the link is at the validated target.   *)
VerifyRollback(f) ==
    /\ pc[f] = "post"
    /\ loc[f].op = "rollback"
    /\ Goto(f, IF active = loc[f].target THEN "commit" ELSE "abort")
    /\ loc' = [loc EXCEPT ![f].new = active]
    /\ UNCHANGED <<active, gens, opLock, jlock, journal, unusable, orphans, begun, faults>>

(* The nested rollback of an update returned: the link is read again for   *)
(* restored_generation, and the transaction is marked ROLLED_BACK whatever *)
(* the rollback answered.                                                  *)
AutoRollbackReturns(f) ==
    /\ pc[f] = "call"
    /\ loc[f].op = "system_update"
    /\ pc[Inner(f[1])] = "idle"
    /\ Goto(f, "mark")
    /\ loc' = [loc EXCEPT ![f].new = active, ![Inner(f[1])] = Blank]
    /\ UNCHANGED <<active, gens, opLock, jlock, journal, unusable, orphans, begun, faults>>

(* Mutation: a state that TransactionState does not have.                  *)
FinalAborted(l) == CASE l = "commit" -> "COMMITTED"
                     [] l = "abort"  -> "ABORTED"
                     [] l = "mark"   -> "ROLLED_BACK"

(* commit_transaction, abort_transaction and mark_rolled_back.             *)
Final(l) == CASE l = "commit" -> "COMMITTED"
              [] l = "abort"  -> "FAILED"
              [] l = "mark"   -> "ROLLED_BACK"

(* Mutation: the commit falls through into the abort of the handler.       *)
FinishTransactionTwice(f) ==
    /\ pc[f] \in {"commit", "abort", "mark"}
    /\ JournalFree(f)
    /\ UpdateTransaction(loc[f].tx, Final(pc[f]), loc[f].new)
    /\ Goto(f, IF pc[f] = "commit" THEN "abort" ELSE "release")
    /\ UNCHANGED <<active, gens, opLock, jlock, unusable, loc, orphans, begun, faults>>

(* The last write.  A commit or a mark that raises is followed by the      *)
(* abort of the except clause, and an abort that raises by nothing but the *)
(* finally clause: the abort of the body and that of the handler are taken *)
(* for one attempt.  Diet has no handler that aborts.                      *)
FinishTransaction(f) ==
    /\ pc[f] \in {"commit", "abort", "mark"}
    /\ JournalFree(f)
    /\ UpdateTransaction(loc[f].tx, Final(pc[f]),
                         IF pc[f] = "abort" THEN 0 ELSE loc[f].new)
    /\ loc' = [loc EXCEPT ![f].ok = pc[f] = "commit" /\ Present(loc[f].tx)]
    /\ Goto(f, IF Present(loc[f].tx) \/ pc[f] = "abort" \/ loc[f].op = "storage_diet"
               THEN "release" ELSE "abort")
    /\ UNCHANGED <<active, gens, opLock, jlock, unusable, orphans, begun, faults>>

(* Mutation: release on success only, no finally clause.                   *)
ReleaseLockOnSuccess(f) ==
    /\ pc[f] = "release"
    /\ opLock' = IF loc[f].ok THEN NoLock ELSE opLock
    /\ Return(f, loc[f].ok)
    /\ UNCHANGED <<active, gens, jlock, journal, unusable, orphans, begun, faults>>

(* OperationLock.release in the finally clause.                            *)
ReleaseLock(f) ==
    /\ pc[f] = "release"
    /\ opLock' = NoLock
    /\ Return(f, loc[f].ok)
    /\ UNCHANGED <<active, gens, jlock, journal, unusable, orphans, begun, faults>>

-----------------------------------------------------------------------------
(* recover_dangling_transactions: the journal lock is held from the read   *)
(* of the dangling list to the last update; the operation lock is taken    *)
(* only inside the nested execute_rollback.                                *)

(* A journal that can be read but not written is one that fails between    *)
(* this step and the next.                                                 *)
RecoverBegin(p) ==
    /\ "recover" \in Ops
    /\ pc[Outer(p)] = "idle"
    /\ p \in Servers \/ ~ Holds(p)
    /\ jlock = NoLock
    /\ ~ unusable
    /\ jlock' = p
    /\ Goto(Outer(p), "rnext")
    /\ loc' = [loc EXCEPT ![Outer(p)] = [Blank EXCEPT !.op = "recover", !.todo = Dangling]]
    /\ UNCHANGED <<active, gens, opLock, journal, unusable, orphans, begun, faults>>

(* The next dangling transaction: only an interrupted update or rollback   *)
(* that recorded a generation is undone, and only if the link is elsewhere.*)
RecoverNext(f) ==
    LET i    == Min(loc[f].todo)
        undo == journal[i].op \in {"system_update", "rollback"} /\ journal[i].prev # 0
        at   == undo /\ active = journal[i].prev
        next == [loc[f] EXCEPT !.tx = i, !.todo = @ \ {i}, !.ok = at]
    IN  /\ pc[f] = "rnext"
        /\ loc[f].todo # {}
        /\ IF undo /\ ~ at /\ active # 0
           THEN CallRollback(f, next, journal[i].prev)
           ELSE Goto(f, "rmark") /\ loc' = [loc EXCEPT ![f] = next]
        /\ UNCHANGED <<active, gens, opLock, jlock, journal, unusable, orphans, begun, faults>>

(* Mutation: the answer of the nested rollback is ignored.                 *)
RecoverRollbackTrusted(f) ==
    /\ pc[f] = "call"
    /\ loc[f].op = "recover"
    /\ pc[Inner(f[1])] = "idle"
    /\ Goto(f, "rmark")
    /\ loc' = [loc EXCEPT ![f].ok = TRUE, ![Inner(f[1])] = Blank]
    /\ UNCHANGED <<active, gens, opLock, jlock, journal, unusable, orphans, begun, faults>>

RecoverRollbackReturns(f) ==
    /\ pc[f] = "call"
    /\ loc[f].op = "recover"
    /\ pc[Inner(f[1])] = "idle"
    /\ Goto(f, "rmark")
    /\ loc' = [loc EXCEPT ![f].ok = loc[Inner(f[1])].ok, ![Inner(f[1])] = Blank]
    /\ UNCHANGED <<active, gens, opLock, jlock, journal, unusable, orphans, begun, faults>>

(* An unusable journal makes the update raise, which ends the recovery.    *)
RecoverMark(f) ==
    /\ pc[f] = "rmark"
    /\ UpdateTransaction(loc[f].tx, IF loc[f].ok THEN "ROLLED_BACK" ELSE "FAILED", 0)
    /\ IF Present(loc[f].tx)
       THEN Goto(f, "rnext") /\ UNCHANGED <<loc, jlock>>
       ELSE Return(f, FALSE) /\ jlock' = NoLock
    /\ UNCHANGED <<active, gens, opLock, unusable, orphans, begun, faults>>

RecoverEnd(f) ==
    /\ pc[f] = "rnext"
    /\ loc[f].todo = {}
    /\ jlock' = NoLock
    /\ Return(f, FALSE)
    /\ UNCHANGED <<active, gens, opLock, journal, unusable, orphans, begun, faults>>

-----------------------------------------------------------------------------
(* The end of a process, and faults.                                       *)

(* A command-line process that let an exception out exits: the kernel      *)
(* closes the descriptor it leaked.                                        *)
ExitProcess(p) ==
    /\ p \notin Servers
    /\ pc[Outer(p)] = "idle"
    /\ Holds(p)
    /\ opLock' = NoLock
    /\ UNCHANGED <<active, gens, jlock, journal, unusable, pc, loc, orphans, begun, faults>>

(* The process dies: both flocks are freed, the journal keeps what was     *)
(* written, and a nix command it was waiting for may run on without it     *)
(* (the descriptors are close-on-exec, so the child holds no lock).        *)
Kill(p) ==
    LET waiting == {f \in {Outer(p), Inner(p)} : pc[f] = "wait"}
    IN  /\ faults.kill < MaxKills
        /\ pc[Outer(p)] # "idle" \/ Holds(p)
        /\ pc' = [pc EXCEPT ![Outer(p)] = "idle", ![Inner(p)] = "idle"]
        /\ loc' = [loc EXCEPT ![Outer(p)] = Blank, ![Inner(p)] = Blank]
        /\ opLock' = IF Holds(p) THEN NoLock ELSE opLock
        /\ jlock' = IF jlock = p THEN NoLock ELSE jlock
        /\ \E S \in SUBSET waiting : orphans' = orphans \cup {CommandOf(f) : f \in S}
        /\ faults' = [faults EXCEPT !.kill = @ + 1]
        /\ UNCHANGED <<active, gens, journal, unusable, begun>>

OrphanEnds ==
    /\ \E c \in orphans : \E out \in Outcomes(c) :
          /\ active' = out.active
          /\ gens' = out.gens
          /\ orphans' = orphans \ {c}
    /\ UNCHANGED <<opLock, jlock, journal, unusable, pc, loc, begun, faults>>

(* Power loss: every process and every command dies at once.               *)
Reboot ==
    /\ faults.reboot < MaxReboots
    /\ pc' = [f \in Frame |-> "idle"]
    /\ loc' = [f \in Frame |-> Blank]
    /\ opLock' = NoLock
    /\ jlock' = NoLock
    /\ orphans' = {}
    /\ faults' = [faults EXCEPT !.reboot = @ + 1]
    /\ UNCHANGED <<active, gens, journal, unusable, begun>>

(* The journal becomes unusable: the file is damaged from outside (the     *)
(* code's own writes replace it atomically), or its directory cannot be    *)
(* made or written: a full disk, a read-only file system, an I/O error.    *)
JournalFails ==
    /\ faults.fail < MaxFailures
    /\ unusable' = TRUE
    /\ faults' = [faults EXCEPT !.fail = @ + 1]
    /\ UNCHANGED <<active, gens, opLock, jlock, journal, pc, loc, orphans, begun>>

(* Space is freed or the file restored, with the records it had.           *)
JournalReturns ==
    /\ unusable
    /\ faults.repair < MaxRepairs
    /\ unusable' = FALSE
    /\ faults' = [faults EXCEPT !.repair = @ + 1]
    /\ UNCHANGED <<active, gens, opLock, jlock, journal, pc, loc, orphans, begun>>

(* quarantine_and_reset: the file is moved away and an empty journal takes *)
(* its place, whatever transactions are in flight; when that one cannot be *)
(* written, no file is left and the journal stays unusable.                *)
QuarantineAndReset ==
    /\ faults.quarantine < MaxQuarantines
    /\ jlock = NoLock
    /\ journal' = [i \in DOMAIN journal |-> [journal[i] EXCEPT !.state = "GONE"]]
    /\ unusable' \in {FALSE, unusable}
    /\ faults' = [faults EXCEPT !.quarantine = @ + 1]
    /\ UNCHANGED <<active, gens, opLock, jlock, pc, loc, orphans, begun>>

-----------------------------------------------------------------------------
Init ==
    /\ \E g \in {0, 1} : active = g /\ gens = (IF g = 0 THEN {} ELSE {g})
    /\ opLock = NoLock
    /\ jlock = NoLock
    /\ journal = <<>>
    /\ unusable = FALSE
    /\ pc = [f \in Frame |-> "idle"]
    /\ loc = [f \in Frame |-> Blank]
    /\ orphans = {}
    /\ begun = 0
    /\ faults = [kill |-> 0, reboot |-> 0, fail |-> 0, repair |-> 0, quarantine |-> 0]

BeginOperation(p) ==
    \/ UpdateBegin(p)
    \/ StageBegin(p)
    \/ \E g \in Generation : RollbackBegin(p, g)
    \/ DietBegin(p)
    \/ \E o \in {"gc", "skill_upgrade"} : UnlockedBegin(p, o)
    \/ RecoverBegin(p)

Step(f) ==
    \/ Simulate(f)
    \/ ReadActive(f)
    \/ AcquireLock(f)
    \/ StartTransaction(f)
    \/ Apply(f)
    \/ RunCommand(f)
    \/ \E probe, auto \in BOOLEAN : HealthCheck(f, probe, auto)
    \/ VerifyRollback(f)
    \/ AutoRollbackReturns(f)
    \/ FinishTransaction(f)
    \/ ReleaseLock(f)
    \/ RecoverNext(f)
    \/ RecoverRollbackReturns(f)
    \/ RecoverMark(f)
    \/ RecoverEnd(f)

Next ==
    \/ \E p \in Procs : BeginOperation(p) \/ ExitProcess(p) \/ Kill(p)
    \/ \E f \in Frame : Step(f)
    \/ OrphanEnds
    \/ Reboot
    \/ JournalFails
    \/ JournalReturns
    \/ QuarantineAndReset

Spec == Init /\ [][Next]_vars

(* Fairness.  A live process keeps running; a nix command ends (the code   *)
(* waits for it without a timeout); a waiter on the journal's flock that   *)
(* finds it free again and again gets it (the kernel wakes every waiter on *)
(* unlock); a command-line process whose call raised exits.  Faults and    *)
(* requests are not fair.                                                  *)
ProcessStep(p) == Step(Outer(p)) \/ Step(Inner(p)) \/ ExitProcess(p)

FairSpec == Spec /\ \A p \in Procs : SF_vars(ProcessStep(p))

-----------------------------------------------------------------------------
(* Properties.                                                             *)

(* A frame between its acquire and its release.                            *)
Critical(f) ==
    /\ loc[f].op \in LockedOps
    /\ pc[f] \in {"start", "apply", "wait", "post", "call", "mark", "commit",
                  "abort", "release"}

(* A frame with a transaction of its own that it has not yet settled.      *)
InTransaction(f) == Critical(f) /\ pc[f] \notin {"start", "release"}

(* OperationLock: whatever interleaving, crash, nested rollback or leaked  *)
(* descriptor, an operation between acquire and release owns the lock.     *)
MutualExclusion == \A f \in Frame : Critical(f) => opLock = f

(* The link only moves while the frame whose command moves it holds the    *)
(* operation lock.                                                         *)
MovesUnderLock ==
    [][active' # active => \E f \in Frame : opLock = f /\ pc[f] = "wait"]_vars

(* Write-ahead: when the link moves, the journal on disk already holds an  *)
(* APPLYING transaction of a profile operation that accounts for it.       *)
MovesAreAnnounced ==
    [][active' # active => \E i \in DOMAIN journal :
          journal[i].op \in ProfileOps /\ journal[i].state = "APPLYING"]_vars

(* The journal explains the profile: when the youngest transaction of a    *)
(* profile operation is a COMMITTED update or rollback, the link is at the *)
(* generation its details name.  The generation is read and verified       *)
(* several steps before the record is written, so this rests on the lock.  *)
JournalExplainsProfile ==
    \A i \in DOMAIN journal :
        (/\ journal[i].op \in {"system_update", "rollback"}
         /\ journal[i].state = "COMMITTED"
         /\ \A j \in DOMAIN journal : j > i => journal[j].op \notin ProfileOps)
        => active = journal[i].new

(* Without a recovery or a quarantine, update_transaction never rewrites a *)
(* transaction that has reached a terminal state.                          *)
TerminalIsFinal ==
    [][\A i \in DOMAIN journal :
          journal[i].state \in {"COMMITTED", "ROLLED_BACK", "FAILED"}
          => journal'[i] = journal[i]]_vars

(* recover_dangling_transactions that runs to its end leaves no            *)
(* transaction PENDING or APPLYING, the ones its own nested rollbacks      *)
(* started included.  The one exception is such a rollback's own record,   *)
(* when the journal failed under the rollback and came back before the     *)
(* recovery wrote again: the recovery swallows the exception.              *)
RecoveryLeavesNothingDangling ==
    [][\A p \in Procs : RecoverEnd(Outer(p)) =>
          \A i \in DOMAIN journal :
             journal[i].state \in {"PENDING", "APPLYING"} =>
                faults.repair > 0 /\ journal[i].op = "rollback"]_vars

(* When a recovery records ROLLED_BACK and no other process is inside a    *)
(* transaction, the link is at the generation that transaction started     *)
(* from, although the nested rollback has freed the operation lock since.  *)
RecoveryRollbackIsReal ==
    [][\A p \in Procs :
          (/\ RecoverMark(Outer(p))
           /\ loc[Outer(p)].ok
           /\ Present(loc[Outer(p)].tx)
           /\ \A f \in Frame : f[1] # p => ~ InTransaction(f))
          => active = journal[loc[Outer(p)].tx].prev]_vars

(* The operation lock outlives its operation only after the journal could  *)
(* not be read or written: TransactionJournal or start_transaction raised  *)
(* between acquire and try, and nothing else in an operation leaks it.     *)
LeakNeedsFailure ==
    \A f \in Frame : opLock = f /\ ~ Critical(f) => faults.fail > 0

(* Every operation ends, although operations wait for the journal's lock   *)
(* while they hold the operation lock and a recovery asks for the          *)
(* operation lock while it holds the journal's.                            *)
OperationsEnd == \A p \in Procs : pc[Outer(p)] # "idle" ~> pc[Outer(p)] = "idle"

(* acquire and release: a process gives the operation lock back, whether   *)
(* its operation ends, is killed or loses its journal; a server may keep   *)
(* the descriptor that an unusable journal, raising, left open.            *)
LockComesBack ==
    \A p \in Procs : Holds(p) ~> (~ Holds(p) \/ (p \in Servers /\ faults.fail > 0))

(* A claim of the documentation that the code does not keep.               *)

(* A transaction the update marks ROLLED_BACK left the profile at the      *)
(* generation it started from.                                             *)
AutoRollbackRestores ==
    [][\A f \in Frame : pc[f] = "mark" /\ FinishTransaction(f) =>
          active = loc[f].prev]_vars

-----------------------------------------------------------------------------
(* The inductive strengthening of the invariants above.                    *)

(* The control points of an operation.                                     *)
LabelsOf(o) ==
    CASE o = "none" -> {"idle"}
      [] o = "system_update" -> {"lock", "start", "apply", "wait", "post", "call",
                                 "mark", "commit", "abort", "release"}
      [] o = "system_stage" -> {"lock", "start", "apply", "wait", "commit", "abort",
                                "release"}
      [] o = "rollback" -> {"simulate", "read", "lock", "start", "apply", "wait",
                            "post", "commit", "abort", "release"}
      [] o = "storage_diet" -> {"lock", "start", "wait", "commit", "abort", "release"}
      [] o = "recover" -> {"rnext", "call", "rmark"}
      [] OTHER -> {"wait"}

(* Frames are well formed: each is at a control point of its operation,    *)
(* and the inner frame runs a rollback only while the outer one waits.     *)
FramesOK ==
    \A f \in Frame :
        /\ pc[f] \in LabelsOf(loc[f].op)
        /\ (f[2] = "rb" /\ pc[f] # "idle")
           => loc[f].op = "rollback" /\ pc[Outer(f[1])] = "call"

(* The transaction of an operation under way is its own, not yet committed *)
(* and, for a profile operation, the youngest of its kind.                 *)
TransactionsOK ==
    \A f \in Frame : InTransaction(f) =>
        /\ loc[f].tx \in DOMAIN journal
        /\ journal[loc[f].tx].op = loc[f].op
        /\ journal[loc[f].tx].state # "COMMITTED"
        /\ loc[f].op \in ProfileOps =>
              \A j \in DOMAIN journal : j > loc[f].tx => journal[j].op \notin ProfileOps

(* What an update or a rollback is about to commit is where the link is.   *)
VerifiedIsActive ==
    \A f \in Frame :
        (pc[f] = "commit" /\ loc[f].op \in {"system_update", "rollback"})
        => loc[f].new = active

(* Nothing but a locked operation can move the link.                       *)
NoBypass == orphans = {} /\ \A f \in Frame : loc[f].op # "skill_upgrade"

LockInv == TypeOK /\ FramesOK /\ MutualExclusion

ExplainInv ==
    /\ LockInv
    /\ NoBypass
    /\ TransactionsOK
    /\ VerifiedIsActive
    /\ JournalExplainsProfile

(* Only a failure makes the journal unusable.                              *)
LeakInv ==
    /\ LockInv
    /\ unusable => faults.fail > 0
    /\ LeakNeedsFailure

(* Without recovery nobody but its owner writes a transaction: it is open  *)
(* until the owner settles it, and APPLYING while the command runs.        *)
OwnTransactionsOK ==
    \A f \in Frame : InTransaction(f) =>
        /\ loc[f].tx \in Dangling
        /\ journal[loc[f].tx].op = loc[f].op
        /\ (pc[f] = "wait" /\ loc[f].op \in ProfileOps)
           => journal[loc[f].tx].state = "APPLYING"

OwnInv ==
    /\ LockInv
    /\ \A f \in Frame : loc[f].op # "recover"
    /\ OwnTransactionsOK

(* What a recovery has still to account for: the transactions on its list, *)
(* the one it is settling, the one its nested rollback has open, and, when *)
(* the journal failed under it, what that rollback left behind.            *)
Accounted(p, i) ==
    \/ i \in loc[Outer(p)].todo
    \/ pc[Outer(p)] \in {"call", "rmark"} /\ i = loc[Outer(p)].tx
    \/ /\ journal[i].op = "rollback"
       /\ \/ InTransaction(Inner(p)) /\ i = loc[Inner(p)].tx
          \/ pc[Outer(p)] \in {"call", "rmark"} /\ unusable
          \/ faults.repair > 0

(* A frame's transaction is one of its own operation.                      *)
OpsRecorded ==
    \A f \in Frame : InTransaction(f) =>
        loc[f].tx \in DOMAIN journal /\ journal[loc[f].tx].op = loc[f].op

(* A recovery holds the journal's lock throughout, so that nobody else can *)
(* open or settle a transaction while it works on its list.                *)
RecoveryInv ==
    /\ LockInv
    /\ OpsRecorded
    /\ \A p \in Procs : loc[Outer(p)].op = "recover" =>
          /\ jlock = p
          /\ \A i \in Dangling : Accounted(p, i)

(* The link is at g, or an operation of another process is in the way.     *)
Restored(p, g) ==
    active = g \/ \E f \in Frame : f[1] # p /\ InTransaction(f)

(* The rollback a recovery calls aims at the generation the transaction    *)
(* started from, and a success it reports is still true when the recovery  *)
(* writes it down.                                                         *)
RollbackOK(p) ==
    LET outer == Outer(p)
        inner == Inner(p)
        goal  == journal[loc[outer].tx].prev
    IN  /\ pc[outer] \in {"call", "rmark"} => loc[outer].tx \in DOMAIN journal
        /\ (pc[outer] = "rmark" /\ loc[outer].ok) => Restored(p, goal)
        /\ pc[outer] = "call" =>
              /\ goal # 0
              /\ pc[inner] # "idle" => loc[inner].arg = goal
              /\ pc[inner] \notin {"idle", "simulate"} => loc[inner].target = goal
              /\ pc[inner] = "commit" => active = goal
              /\ loc[inner].ok => \/ pc[inner] = "release" /\ active = goal
                                  \/ pc[inner] = "idle" /\ Restored(p, goal)

RealInv ==
    /\ ExplainInv
    /\ RecoveryInv
    /\ \A p \in Procs : loc[Outer(p)].op = "recover" => RollbackOK(p)

=============================================================================
