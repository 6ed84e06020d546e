---------------------- MODULE SystemTransactionsProofs ----------------------
(***************************************************************************)
(* Theorems about SystemTransactions, for every set of processes, every    *)
(* set of operations and every bound.                                      *)
(***************************************************************************)
EXTENDS SystemTransactions, WellFoundedInduction, TLAPS

-----------------------------------------------------------------------------
(* A non-empty set of generations has a largest and a smallest element.    *)

LEMMA NatMin ==
    ASSUME NEW S, S \subseteq Nat, S # {}
    PROVE  \E x \in S : \A y \in S : x <= y
  <1>1. PICK x \in S : \A y \in S : ~ (<<y, x>> \in OpToRel(<, Nat))
    BY NatLessThanWellFounded, WFMin, Zenon
  <1>2. \A y \in S : ~ (y < x)
    BY <1>1, Zenon DEF OpToRel
  <1> QED BY <1>2

LEMMA NatMax ==
    ASSUME NEW n \in Nat, NEW S, S \subseteq 0 .. n, S # {}
    PROVE  /\ Max(S) \in S
           /\ \A y \in S : y <= Max(S)
  <1> DEFINE U == {m \in Nat : \A y \in S : y <= m}
  <1>1. n \in U
    OBVIOUS
  <1>2. PICK m \in U : \A k \in U : m <= k
    BY <1>1, NatMin
  <1>3. m \in S
    <2> SUFFICES ASSUME m \notin S PROVE FALSE
      OBVIOUS
    <2>1. PICK s \in S : TRUE
      OBVIOUS
    <2>2. m # 0
      BY <2>1
    <2>3. m - 1 \in Nat /\ \A y \in S : y <= m - 1
      BY <2>2
    <2> QED BY <2>3, <1>2
  <1>4. \E x \in S : \A y \in S : x >= y
    BY <1>2, <1>3
  <1>5. Max(S) \in S /\ \A y \in S : Max(S) >= y
    BY <1>4 DEF Max
  <1> QED BY <1>5

LEMMA MaxGeneration ==
    ASSUME NEW S, S \subseteq Generation, S # {}
    PROVE  Max(S) \in S /\ Max(S) \in Generation
  <1>1. MaxGen \in Nat /\ S \subseteq 0 .. MaxGen
    BY ConstantsAssumption DEF Generation
  <1>2. Max(S) \in S
    BY <1>1, NatMax
  <1> QED BY <1>2

LEMMA NatMinIn ==
    ASSUME NEW S, S \subseteq Nat, S # {}
    PROVE  Min(S) \in S
  <1>1. \E x \in S : \A y \in S : x <= y
    BY NatMin
  <1> QED BY <1>1 DEF Min

-----------------------------------------------------------------------------
(* Types.                                                                  *)

(* The frames of a process, and the process of a frame.                    *)
LEMMA FrameType ==
    /\ \A p \in Procs : Outer(p) \in Frame /\ Inner(p) \in Frame
    /\ \A f \in Frame : f[1] \in Procs /\ f[2] \in Level
    /\ \A p \in Procs : Outer(p)[1] = p /\ Inner(p)[1] = p /\ Outer(p) # Inner(p)
  BY DEF Frame, Outer, Inner, Level

LEMMA BlankType == Blank \in Local /\ Blank.todo = {} /\ Blank.tx = 0
  BY ConstantsAssumption DEF Blank, Local, Generation, OpName

(* What the nix commands leave behind are generations.                     *)
LEMMA OutcomesType ==
    ASSUME TypeOK, NEW c \in Command, NEW out \in Outcomes(c)
    PROVE  out.active \in Generation /\ out.gens \subseteq Generation
  <1> DEFINE Good(S) == \A o \in S : o.active \in Generation /\ o.gens \subseteq Generation
  <1>1. Good(Same)
    BY DEF Same, TypeOK
  <1>2. \A g \in Generation : Good(MoveTo(g))
    BY DEF MoveTo, TypeOK
  <1>3. Good(Rebuild)
    <2> DEFINE S == gens \cup {0}
    <2>1. S \subseteq Generation /\ S # {}
      BY ConstantsAssumption DEF TypeOK, Generation
    <2>2. Max(S) \in Generation
      <3> HIDE DEF S
      <3> QED BY <2>1, MaxGeneration
    <2>3. Max(S) + 1 <= MaxGen => Max(S) + 1 \in Generation
      BY <2>2, ConstantsAssumption DEF Generation
    <2> QED BY <1>1, <1>2, <2>3 DEF Rebuild
  <1>4. Good(SwitchBack(c.arg, c.target))
    <2> DEFINE older == {g \in gens : g < active}
    <2>1. older # {} => Max(older) \in Generation
      <3>1. older \subseteq Generation
        BY DEF TypeOK
      <3> HIDE DEF older
      <3> QED BY <3>1, MaxGeneration
    <2>2. gens \cap {c.target} \subseteq Generation
      BY DEF TypeOK
    <2> QED BY <1>1, <1>2, <2>1, <2>2 DEF SwitchBack
  <1>5. Good(Collect)
    BY DEF Collect, TypeOK
  <1> QED BY <1>1, <1>3, <1>4, <1>5 DEF Outcomes

LEMMA CommandOfType ==
    ASSUME TypeOK, NEW f \in Frame
    PROVE  CommandOf(f) \in Command
  BY DEF TypeOK, CommandOf, Command, Local

(* Returning, entering and calling keep the frames' types.                 *)
LEMMA ReturnType ==
    ASSUME TypeOK, NEW f \in Frame, NEW ok \in BOOLEAN, Return(f, ok)
    PROVE  /\ pc' \in [Frame -> Label] /\ loc' \in [Frame -> Local]
           /\ \A g \in Frame : /\ loc'[g].todo \subseteq loc[g].todo
                               /\ loc'[g].tx \in {0, loc[g].tx}
  <1> DEFINE b == [Blank EXCEPT !.ok = ok /\ f[2] = "rb"]
  <1>1. b \in Local /\ b.todo = {} /\ b.tx = 0
    BY BlankType DEF Blank, Local
  <1>2. loc' = [loc EXCEPT ![f] = b] /\ pc' = [pc EXCEPT ![f] = "idle"]
    BY DEF Return, Goto
  <1> HIDE DEF b
  <1> QED BY <1>1, <1>2 DEF TypeOK, Label

LEMMA CallType ==
    ASSUME TypeOK, NEW f \in Frame, NEW local \in Local, NEW g \in Generation,
           CallRollback(f, local, g),
           local.todo \subseteq DOMAIN journal,
           local.tx \in {0} \cup DOMAIN journal
    PROVE  /\ pc' \in [Frame -> Label] /\ loc' \in [Frame -> Local]
           /\ \A h \in Frame : /\ loc'[h].todo \subseteq DOMAIN journal
                               /\ loc'[h].tx \in {0} \cup DOMAIN journal
  <1> DEFINE b == [Blank EXCEPT !.op = "rollback", !.arg = g]
  <1>1. b \in Local /\ b.todo = {} /\ b.tx = 0
    BY BlankType DEF Blank, Local, OpName, AllOps
  <1>2. Inner(f[1]) \in Frame
    BY FrameType
  <1>3. loc' = [loc EXCEPT ![f] = local, ![Inner(f[1])] = b]
    BY DEF CallRollback
  <1>4. pc' = [pc EXCEPT ![f] = "call", ![Inner(f[1])] = "simulate"]
    BY DEF CallRollback
  <1>5. pc' \in [Frame -> Label]
    BY <1>2, <1>4 DEF TypeOK, Label
  <1> HIDE DEF b
  <1> QED BY <1>1, <1>2, <1>3, <1>5 DEF TypeOK

(* Every local record a frame stores has its type.                         *)
LEMMA UpdateTransactionType ==
    ASSUME TypeOK, NEW i, NEW s \in TxState, NEW n \in Generation,
           UpdateTransaction(i, s, n)
    PROVE  journal' \in Seq(Tx) /\ DOMAIN journal' = DOMAIN journal
  <1>1. CASE Present(i)
    <2>1. i \in 1 .. Len(journal) /\ journal[i] \in Tx
      BY <1>1 DEF Present, TypeOK
    <2> DEFINE r == [journal[i] EXCEPT !.state = s, !.new = n]
    <2>2. r \in Tx
      BY <2>1 DEF Tx
    <2>3. journal' = [journal EXCEPT ![i] = r]
      BY <1>1 DEF UpdateTransaction
    <2> HIDE DEF r
    <2> QED BY <2>1, <2>2, <2>3 DEF TypeOK
  <1>2. CASE ~ Present(i)
    BY <1>2 DEF UpdateTransaction, TypeOK
  <1> QED BY <1>1, <1>2

(* Entering an operation keeps the types.                                  *)
LEMMA BeginType ==
    ASSUME TypeOK, NEW p \in Procs, BeginOperation(p)
    PROVE  TypeOK'
  <1> USE FrameType
  <1>1. ASSUME NEW l \in Label, NEW local \in Local, local.todo = {}, local.tx = 0,
               Begin(p, l, local),
               UNCHANGED <<active, gens, opLock, jlock, journal, unusable, orphans, faults>>
        PROVE  TypeOK'
    BY <1>1 DEF TypeOK, Begin
  <1>2. CASE UpdateBegin(p)
    <2> DEFINE b == [Blank EXCEPT !.op = "system_update", !.prev = active]
    <2>1. b \in Local /\ b.todo = {} /\ b.tx = 0
      BY BlankType DEF Blank, Local, OpName, AllOps, TypeOK
    <2>2. Begin(p, "lock", b)
      BY <1>2 DEF UpdateBegin
    <2> HIDE DEF b
    <2> QED BY <1>1, <1>2, <2>1, <2>2 DEF UpdateBegin, Label
  <1>3. CASE StageBegin(p)
    <2> DEFINE b == [Blank EXCEPT !.op = "system_stage", !.prev = active]
    <2>1. b \in Local /\ b.todo = {} /\ b.tx = 0
      BY BlankType DEF Blank, Local, OpName, AllOps, TypeOK
    <2>2. Begin(p, "lock", b)
      BY <1>3 DEF StageBegin
    <2> HIDE DEF b
    <2> QED BY <1>1, <1>3, <2>1, <2>2 DEF StageBegin, Label
  <1>4. ASSUME NEW g \in Generation, RollbackBegin(p, g)
        PROVE  TypeOK'
    <2> DEFINE b == [Blank EXCEPT !.op = "rollback", !.arg = g]
    <2>1. b \in Local /\ b.todo = {} /\ b.tx = 0
      BY BlankType DEF Blank, Local, OpName, AllOps
    <2>2. Begin(p, "simulate", b)
      BY <1>4 DEF RollbackBegin
    <2> HIDE DEF b
    <2> QED BY <1>1, <1>4, <2>1, <2>2 DEF RollbackBegin, Label
  <1>5. CASE DietBegin(p)
    <2> DEFINE b == [Blank EXCEPT !.op = "storage_diet"]
    <2>1. b \in Local /\ b.todo = {} /\ b.tx = 0
      BY BlankType DEF Blank, Local, OpName, AllOps
    <2>2. Begin(p, "lock", b)
      BY <1>5 DEF DietBegin
    <2> HIDE DEF b
    <2> QED BY <1>1, <1>5, <2>1, <2>2 DEF DietBegin, Label
  <1>6. ASSUME NEW o \in {"gc", "skill_upgrade"}, UnlockedBegin(p, o)
        PROVE  TypeOK'
    <2> DEFINE b == [Blank EXCEPT !.op = o]
    <2>1. b \in Local /\ b.todo = {} /\ b.tx = 0
      BY BlankType DEF Blank, Local, OpName, AllOps
    <2>2. Begin(p, "wait", b)
      BY <1>6 DEF UnlockedBegin
    <2> HIDE DEF b
    <2> QED BY <1>1, <1>6, <2>1, <2>2 DEF UnlockedBegin, Label
  <1>7. CASE RecoverBegin(p)
    <2> DEFINE b == [Blank EXCEPT !.op = "recover", !.todo = Dangling]
    <2>1. Dangling \subseteq DOMAIN journal /\ DOMAIN journal \subseteq Nat
      BY DEF Dangling, TypeOK
    <2>2. b \in Local /\ b.todo \subseteq DOMAIN journal /\ b.tx = 0
      BY <2>1, BlankType DEF Blank, Local, OpName, AllOps
    <2>3. loc' = [loc EXCEPT ![Outer(p)] = b] /\ pc' = [pc EXCEPT ![Outer(p)] = "rnext"]
      BY <1>7 DEF RecoverBegin, Goto
    <2> HIDE DEF b
    <2>4. pc' \in [Frame -> Label] /\ loc' \in [Frame -> Local]
      BY <2>2, <2>3 DEF TypeOK, Label
    <2>5. \A g \in Frame : /\ loc'[g].todo \subseteq DOMAIN journal
                           /\ loc'[g].tx \in {0} \cup DOMAIN journal
      BY <2>2, <2>3 DEF TypeOK
    <2> QED BY <1>7, <2>4, <2>5 DEF RecoverBegin, TypeOK
  <1> QED BY <1>2, <1>3, <1>4, <1>5, <1>6, <1>7 DEF BeginOperation

(* So does each step of a frame.                                           *)
LEMMA StepType ==
    ASSUME TypeOK, NEW f \in Frame, Step(f)
    PROVE  TypeOK'
  <1> USE FrameType
  <1>0. /\ loc[f] \in Local /\ pc[f] \in Label
        /\ loc[f].todo \subseteq DOMAIN journal
        /\ loc[f].tx \in {0} \cup DOMAIN journal
    BY DEF TypeOK
  <1>1. CASE Simulate(f)
    <2> DEFINE older  == {g \in gens : g < active}
               target == IF loc[f].arg = 0 THEN Max(older) ELSE loc[f].arg
    <2>1. CASE Return(f, FALSE)
      BY <1>1, <2>1, ReturnType DEF Simulate, TypeOK
    <2>2. CASE /\ loc[f].arg = 0 => older # {}
               /\ Goto(f, "read") /\ loc' = [loc EXCEPT ![f].target = target]
      <3>1. older \subseteq Generation
        BY DEF TypeOK
      <3>2. target \in Generation
        <4> HIDE DEF older
        <4> QED BY <1>0, <2>2, <3>1, MaxGeneration DEF Local
      <3>3. [loc[f] EXCEPT !.target = target] \in Local
        BY <1>0, <3>2 DEF Local
      <3> HIDE DEF target
      <3> QED BY <1>0, <1>1, <2>2, <3>3 DEF Simulate, TypeOK, Goto, Label
    <2> QED BY <1>1, <2>1, <2>2 DEF Simulate
  <1>2. CASE ReadActive(f)
    <2>1. CASE Return(f, FALSE)
      BY <1>2, <2>1, ReturnType DEF ReadActive, TypeOK
    <2>2. CASE Goto(f, "lock") /\ loc' = [loc EXCEPT ![f].prev = active]
      <3>1. [loc[f] EXCEPT !.prev = active] \in Local
        BY <1>0 DEF Local, TypeOK
      <3> QED BY <1>0, <1>2, <2>2, <3>1 DEF ReadActive, TypeOK, Goto, Label
    <2> QED BY <1>2, <2>1, <2>2 DEF ReadActive
  <1>3. CASE AcquireLock(f)
    <2>1. CASE Return(f, FALSE) /\ UNCHANGED opLock
      BY <1>3, <2>1, ReturnType DEF AcquireLock, TypeOK
    <2>2. CASE opLock' = f /\ Goto(f, "start") /\ UNCHANGED loc
      BY <1>3, <2>2 DEF AcquireLock, TypeOK, Goto, Label
    <2> QED BY <1>3, <2>1, <2>2 DEF AcquireLock
  <1>4. CASE StartTransaction(f)
    <2>1. CASE ~ unusable
      <3> DEFINE r == [op |-> loc[f].op, state |-> "PENDING", prev |-> loc[f].prev, new |-> 0]
      <3>1. r \in Tx
        BY <1>0, ConstantsAssumption DEF Tx, TxState, Local, Generation
      <3>2. journal' = Append(journal, r) /\ loc' = [loc EXCEPT ![f].tx = Len(journal) + 1]
        BY <1>4, <2>1 DEF StartTransaction
      <3> HIDE DEF r
      <3>3. /\ journal' \in Seq(Tx)
            /\ DOMAIN journal \subseteq DOMAIN journal'
            /\ Len(journal) + 1 \in DOMAIN journal'
        BY <3>1, <3>2 DEF TypeOK
      <3>4. Len(journal) + 1 \in Nat
        BY DEF TypeOK
      <3>5. [loc[f] EXCEPT !.tx = Len(journal) + 1] \in Local
        BY <1>0, <3>4 DEF Local
      <3>6. loc' \in [Frame -> Local]
        BY <3>2, <3>5 DEF TypeOK
      <3>7. \A g \in Frame : /\ loc'[g].todo \subseteq DOMAIN journal'
                             /\ loc'[g].tx \in {0} \cup DOMAIN journal'
        BY <3>2, <3>3, <1>0 DEF TypeOK, Local
      <3>8. pc' \in [Frame -> Label]
        BY <1>4, <2>1 DEF StartTransaction, TypeOK, Goto, Label
      <3> QED BY <1>4, <3>3, <3>6, <3>7, <3>8 DEF StartTransaction, TypeOK
    <2>2. CASE unusable /\ loc[f].op = "storage_diet"
      BY <1>4, <2>2 DEF StartTransaction, TypeOK, Goto, Label
    <2>3. CASE unusable /\ loc[f].op # "storage_diet"
      <3>1. Return(f, FALSE)
        BY <1>4, <2>3 DEF StartTransaction
      <3> QED BY <1>4, <2>3, <3>1, ReturnType DEF StartTransaction, TypeOK
    <2> QED BY <2>1, <2>2, <2>3
  <1>5. CASE Apply(f)
    <2>1. journal' \in Seq(Tx) /\ DOMAIN journal' = DOMAIN journal
      <3>1. "APPLYING" \in TxState /\ 0 \in Generation
        BY ConstantsAssumption DEF TxState, Generation
      <3>2. UpdateTransaction(loc[f].tx, "APPLYING", 0)
        BY <1>5 DEF Apply
      <3> QED BY <3>1, <3>2, UpdateTransactionType
    <2>2. pc' \in [Frame -> Label]
      BY <1>5 DEF Apply, TypeOK, Goto, Label
    <2> QED BY <1>5, <2>1, <2>2 DEF Apply, TypeOK
  <1>6. CASE RunCommand(f)
    <2>1. PICK out \in Outcomes(CommandOf(f)) :
             /\ active' = out.active
             /\ gens' = out.gens
             /\ IF loc[f].op \in LockedOps
                THEN Goto(f, AfterCommand(loc[f].op, out.rc0)) /\ UNCHANGED loc
                ELSE Return(f, FALSE)
      BY <1>6 DEF RunCommand
    <2>2. active' \in Generation /\ gens' \subseteq Generation
      BY <2>1, OutcomesType, CommandOfType
    <2>3. AfterCommand(loc[f].op, out.rc0) \in Label
      BY DEF AfterCommand, Label
    <2>4. CASE loc[f].op \in LockedOps
      BY <1>6, <2>1, <2>2, <2>3, <2>4 DEF RunCommand, TypeOK, Goto
    <2>5. CASE loc[f].op \notin LockedOps
      <3>1. Return(f, FALSE)
        BY <2>1, <2>5
      <3> QED BY <1>6, <2>2, <3>1, ReturnType DEF RunCommand, TypeOK
    <2> QED BY <2>4, <2>5
  <1>7. ASSUME NEW probe \in BOOLEAN, NEW auto \in BOOLEAN, HealthCheck(f, probe, auto)
        PROVE  TypeOK'
    <2> DEFINE seen == [loc[f] EXCEPT !.new = active]
    <2>1. /\ seen \in Local /\ seen.todo \subseteq DOMAIN journal
          /\ seen.tx \in {0} \cup DOMAIN journal
      BY <1>0 DEF Local, TypeOK
    <2>2. \/ \E l \in {"commit", "abort"} : Goto(f, l) /\ loc' = [loc EXCEPT ![f] = seen]
          \/ CallRollback(f, seen, loc[f].prev)
      BY <1>7 DEF HealthCheck
    <2> HIDE DEF seen
    <2>3. CASE CallRollback(f, seen, loc[f].prev)
      <3>1. loc[f].prev \in Generation
        BY <1>0 DEF Local
      <3> QED BY <1>7, <2>1, <2>3, <3>1, CallType DEF HealthCheck, TypeOK
    <2>4. ASSUME NEW l \in {"commit", "abort"}, Goto(f, l), loc' = [loc EXCEPT ![f] = seen]
          PROVE  TypeOK'
      BY <1>7, <2>1, <2>4 DEF HealthCheck, TypeOK, Goto, Label
    <2> QED BY <2>2, <2>3, <2>4
  <1>8. CASE VerifyRollback(f)
    <2>1. [loc[f] EXCEPT !.new = active] \in Local
      BY <1>0 DEF Local, TypeOK
    <2> QED BY <1>0, <1>8, <2>1 DEF VerifyRollback, TypeOK, Goto, Label
  <1>9. CASE AutoRollbackReturns(f)
    <2> DEFINE b == [loc[f] EXCEPT !.new = active]
    <2>1. b \in Local /\ b.todo = loc[f].todo /\ b.tx = loc[f].tx
      BY <1>0 DEF Local, TypeOK
    <2>2. Inner(f[1]) \in Frame
      OBVIOUS
    <2>3. loc' = [loc EXCEPT ![f] = b, ![Inner(f[1])] = Blank]
      BY <1>9 DEF AutoRollbackReturns
    <2> HIDE DEF b
    <2>4. loc' \in [Frame -> Local]
      BY <2>1, <2>2, <2>3, BlankType DEF TypeOK
    <2>5. \A g \in Frame : /\ loc'[g].todo \subseteq DOMAIN journal
                           /\ loc'[g].tx \in {0} \cup DOMAIN journal
      BY <1>0, <2>1, <2>2, <2>3, BlankType DEF TypeOK
    <2> QED BY <1>9, <2>4, <2>5 DEF AutoRollbackReturns, TypeOK, Goto, Label
  <1>10. CASE FinishTransaction(f)
    <2>1. Final(pc[f]) \in TxState
      BY <1>10 DEF FinishTransaction, Final, TxState
    <2>2. (IF pc[f] = "abort" THEN 0 ELSE loc[f].new) \in Generation
      BY <1>0, ConstantsAssumption DEF Local, Generation
    <2>3. journal' \in Seq(Tx) /\ DOMAIN journal' = DOMAIN journal
      BY <1>10, <2>1, <2>2, UpdateTransactionType DEF FinishTransaction
    <2> DEFINE b == [loc[f] EXCEPT !.ok = pc[f] = "commit" /\ Present(loc[f].tx)]
    <2>4. b \in Local /\ b.todo = loc[f].todo /\ b.tx = loc[f].tx
      BY <1>0 DEF Local
    <2>5. /\ loc' = [loc EXCEPT ![f] = b]
          /\ \E l \in {"release", "abort"} : pc' = [pc EXCEPT ![f] = l]
      BY <1>10 DEF FinishTransaction, Goto
    <2>6. pc' \in [Frame -> Label]
      BY <1>0, <2>5 DEF TypeOK, Label
    <2> HIDE DEF b
    <2>7. /\ loc' \in [Frame -> Local]
          /\ \A g \in Frame : /\ loc'[g].todo \subseteq DOMAIN journal'
                             /\ loc'[g].tx \in {0} \cup DOMAIN journal'
      BY <1>0, <2>3, <2>4, <2>5 DEF TypeOK
    <2> QED BY <1>10, <2>3, <2>6, <2>7 DEF FinishTransaction, TypeOK
  <1>11. CASE ReleaseLock(f)
    <2>1. loc[f].ok \in BOOLEAN
      BY <1>0 DEF Local
    <2> QED BY <1>11, <2>1, ReturnType DEF ReleaseLock, TypeOK
  <1>12. CASE RecoverNext(f)
    <2> DEFINE i    == Min(loc[f].todo)
               undo == journal[i].op \in {"system_update", "rollback"} /\ journal[i].prev # 0
               at   == undo /\ active = journal[i].prev
               next == [loc[f] EXCEPT !.tx = i, !.todo = @ \ {i}, !.ok = at]
    <2>1. loc[f].todo \subseteq Nat /\ loc[f].todo # {}
      BY <1>0, <1>12 DEF Local, RecoverNext
    <2>2. i \in loc[f].todo
      BY <2>1, NatMinIn
    <2>3. journal[i] \in Tx /\ i \in DOMAIN journal /\ i \in Nat
      BY <1>0, <2>1, <2>2 DEF TypeOK
    <2> HIDE DEF i
    <2>4. /\ next \in Local /\ next.todo \subseteq DOMAIN journal
          /\ next.tx \in {0} \cup DOMAIN journal
      BY <1>0, <2>3 DEF Local
    <2>5. journal[i].prev \in Generation
      BY <2>3 DEF Tx
    <2>6. \/ CallRollback(f, next, journal[i].prev)
          \/ Goto(f, "rmark") /\ loc' = [loc EXCEPT ![f] = next]
      BY <1>12 DEF RecoverNext, i
    <2> HIDE DEF next
    <2>7. CASE CallRollback(f, next, journal[i].prev)
      BY <1>12, <2>4, <2>5, <2>7, CallType DEF RecoverNext, TypeOK
    <2>8. CASE Goto(f, "rmark") /\ loc' = [loc EXCEPT ![f] = next]
      BY <1>12, <2>4, <2>8 DEF RecoverNext, TypeOK, Goto, Label
    <2> QED BY <2>6, <2>7, <2>8
  <1>13. CASE RecoverRollbackReturns(f)
    <2> DEFINE b == [loc[f] EXCEPT !.ok = loc[Inner(f[1])].ok]
    <2>1. Inner(f[1]) \in Frame /\ loc[Inner(f[1])].ok \in BOOLEAN
      BY DEF TypeOK, Local
    <2>2. b \in Local /\ b.todo = loc[f].todo /\ b.tx = loc[f].tx
      BY <1>0, <2>1 DEF Local
    <2>3. loc' = [loc EXCEPT ![f] = b, ![Inner(f[1])] = Blank]
      BY <1>13 DEF RecoverRollbackReturns
    <2> HIDE DEF b
    <2>4. loc' \in [Frame -> Local]
      BY <2>1, <2>2, <2>3, BlankType DEF TypeOK
    <2>5. \A g \in Frame : /\ loc'[g].todo \subseteq DOMAIN journal
                           /\ loc'[g].tx \in {0} \cup DOMAIN journal
      BY <1>0, <2>1, <2>2, <2>3, BlankType DEF TypeOK
    <2> QED BY <1>13, <2>4, <2>5 DEF RecoverRollbackReturns, TypeOK, Goto, Label
  <1>14. CASE RecoverMark(f)
    <2>1. journal' \in Seq(Tx) /\ DOMAIN journal' = DOMAIN journal
      <3>1. \E st \in TxState, n \in Generation : UpdateTransaction(loc[f].tx, st, n)
        BY <1>14, ConstantsAssumption DEF RecoverMark, TxState, Generation
      <3> QED BY <3>1, UpdateTransactionType
    <2>2. CASE Goto(f, "rnext") /\ UNCHANGED <<loc, jlock>>
      BY <1>14, <2>1, <2>2 DEF RecoverMark, TypeOK, Goto, Label
    <2>3. CASE Return(f, FALSE) /\ jlock' = NoLock
      BY <1>14, <2>1, <2>3, ReturnType DEF RecoverMark, TypeOK
    <2> QED BY <1>14, <2>2, <2>3 DEF RecoverMark
  <1>15. CASE RecoverEnd(f)
    BY <1>15, ReturnType DEF RecoverEnd, TypeOK
  <1> QED BY <1>1, <1>2, <1>3, <1>4, <1>5, <1>6, <1>7, <1>8, <1>9, <1>10, <1>11,
             <1>12, <1>13, <1>14, <1>15 DEF Step

LEMMA KillType ==
    ASSUME TypeOK, NEW p \in Procs, Kill(p)
    PROVE  TypeOK'
  <1> USE FrameType
  <1>1. loc' = [loc EXCEPT ![Outer(p)] = Blank, ![Inner(p)] = Blank]
    BY DEF Kill
  <1>2. loc' \in [Frame -> Local]
    BY <1>1, BlankType DEF TypeOK
  <1>3. \A g \in Frame : /\ loc'[g].todo \subseteq DOMAIN journal
                         /\ loc'[g].tx \in {0} \cup DOMAIN journal
    BY <1>1, BlankType DEF TypeOK
  <1>4. pc' \in [Frame -> Label]
    BY DEF Kill, TypeOK, Label
  <1>5. orphans' \subseteq Command
    BY CommandOfType DEF Kill, TypeOK
  <1>6. faults' \in [kill : Nat, reboot : Nat, fail : Nat, repair : Nat, quarantine : Nat]
    <2>1. faults \in [kill : Nat, reboot : Nat, fail : Nat, repair : Nat, quarantine : Nat]
      BY DEF TypeOK
    <2>2. faults' = [faults EXCEPT !.kill = @ + 1]
      BY DEF Kill
    <2> QED BY <2>1, <2>2
  <1>7. opLock' \in Frame \cup {NoLock} /\ jlock' \in Procs \cup {NoLock}
    BY DEF Kill, TypeOK
  <1> QED BY <1>2, <1>3, <1>4, <1>5, <1>6, <1>7 DEF Kill, TypeOK

LEMMA TypeInit == Init => TypeOK
  <1> SUFFICES ASSUME Init PROVE TypeOK
    OBVIOUS
  <1>1. active \in Generation /\ gens \subseteq Generation
    BY ConstantsAssumption DEF Init, Generation
  <1>2. journal \in Seq(Tx) /\ pc \in [Frame -> Label]
    BY DEF Init, Label
  <1>3. loc \in [Frame -> Local] /\ \A f \in Frame : loc[f].todo = {} /\ loc[f].tx = 0
    BY BlankType DEF Init
  <1> QED BY <1>1, <1>2, <1>3 DEF Init, TypeOK

LEMMA TypeNext == TypeOK /\ [Next]_vars => TypeOK'
  <1> SUFFICES ASSUME TypeOK, [Next]_vars PROVE TypeOK'
    OBVIOUS
  <1>1. ASSUME NEW p \in Procs, ExitProcess(p) PROVE TypeOK'
    BY <1>1 DEF ExitProcess, TypeOK
  <1>2. CASE OrphanEnds
    <2>1. PICK c \in orphans : \E out \in Outcomes(c) :
             active' = out.active /\ gens' = out.gens /\ orphans' = orphans \ {c}
      BY <1>2 DEF OrphanEnds
    <2>2. c \in Command
      BY DEF TypeOK
    <2>3. active' \in Generation /\ gens' \subseteq Generation
      BY <2>1, <2>2, OutcomesType
    <2> QED BY <1>2, <2>1, <2>3 DEF OrphanEnds, TypeOK
  <1>3. CASE Reboot
    <2>1. /\ loc' \in [Frame -> Local] /\ pc' \in [Frame -> Label]
          /\ \A f \in Frame : loc'[f].todo = {} /\ loc'[f].tx = 0
      BY <1>3, BlankType DEF Reboot, Label
    <2> QED BY <1>3, <2>1 DEF Reboot, TypeOK
  <1>4. CASE JournalFails \/ JournalReturns
    <2>1. faults' \in [kill : Nat, reboot : Nat, fail : Nat, repair : Nat, quarantine : Nat]
      BY <1>4 DEF JournalFails, JournalReturns, TypeOK
    <2> QED BY <1>4, <2>1 DEF JournalFails, JournalReturns, TypeOK
  <1>5. CASE QuarantineAndReset
    <2>1. \A i \in DOMAIN journal : [journal[i] EXCEPT !.state = "GONE"] \in Tx
      <3>1. \A i \in DOMAIN journal : journal[i] \in Tx
        BY DEF TypeOK
      <3> QED BY <3>1 DEF Tx
    <2>2. DOMAIN journal = 1 .. Len(journal) /\ Len(journal) \in Nat
      BY DEF TypeOK
    <2>3. journal' \in Seq(Tx) /\ DOMAIN journal' = DOMAIN journal
      BY <1>5, <2>1, <2>2 DEF QuarantineAndReset
    <2>4. faults' \in [kill : Nat, reboot : Nat, fail : Nat, repair : Nat, quarantine : Nat]
      BY <1>5 DEF QuarantineAndReset, TypeOK
    <2> QED BY <1>5, <2>3, <2>4 DEF QuarantineAndReset, TypeOK
  <1>6. CASE UNCHANGED vars
    BY <1>6 DEF vars, TypeOK
  <1> QED BY <1>1, <1>2, <1>3, <1>4, <1>5, <1>6, BeginType, StepType, KillType DEF Next

(* Type correctness of the transactional core: every variable keeps its    *)
(* type and every transaction id a frame holds came from the journal, for  *)
(* all processes, operations, generations and faults.                      *)
THEOREM TypeCorrect == Spec => []TypeOK
  BY TypeInit, TypeNext, PTL DEF Spec

-----------------------------------------------------------------------------
(* Mutual exclusion.                                                       *)

(* Frame f goes to l and runs operation o; no other frame changes.         *)
Moves(f, l, o) ==
    /\ pc' = [pc EXCEPT ![f] = l]
    /\ \E r \in Local : r.op = o /\ loc' = [loc EXCEPT ![f] = r]

LEMMA FrameCases ==
    /\ \A f \in Frame : f = Outer(f[1]) \/ f = Inner(f[1])
    /\ \A f \in Frame : f[2] = "rb" <=> f = Inner(f[1])
    /\ \A f, g \in Frame : g[2] = "rb" /\ Outer(g[1]) = f => g = Inner(f[1])
  BY DEF Frame, Outer, Inner, Level

(* What the control point tells about the operation.                       *)
LEMMA LabelFacts ==
    ASSUME FramesOK, TypeOK, NEW f \in Frame
    PROVE  /\ pc[f] = "idle" <=> loc[f].op = "none"
           /\ pc[f] \in {"simulate", "read"} => loc[f].op = "rollback"
           /\ pc[f] \in {"lock", "start", "apply", "post", "mark", "commit", "abort",
                         "release"} => loc[f].op \in LockedOps
           /\ pc[f] = "apply" => loc[f].op \in ProfileOps
           /\ pc[f] = "wait" => loc[f].op \in LockedOps \cup {"gc", "skill_upgrade"}
           /\ pc[f] \in {"rnext", "rmark"} => loc[f].op = "recover"
           /\ pc[f] = "call" => loc[f].op \in {"system_update", "recover"}
           /\ pc[f] = "mark" => loc[f].op = "system_update"
  <1>1. pc[f] \in LabelsOf(loc[f].op) /\ loc[f].op \in OpName
    BY DEF FramesOK, TypeOK, Local
  <1> QED BY <1>1 DEF LabelsOf, LockedOps, ProfileOps, OpName, AllOps

LEMMA MovesFrames ==
    ASSUME LockInv, NEW f \in Frame, NEW l \in Label, NEW o \in OpName,
           Moves(f, l, o), l \in LabelsOf(o),
           pc[f] = "call" => pc[Inner(f[1])] = "idle",
           (f[2] = "rb" /\ l # "idle") => o = "rollback" /\ pc[Outer(f[1])] = "call"
    PROVE  FramesOK'
  <1> USE FrameType
  <1> SUFFICES ASSUME NEW g \in Frame
               PROVE  /\ pc'[g] \in LabelsOf(loc'[g].op)
                      /\ (g[2] = "rb" /\ pc'[g] # "idle")
                         => loc'[g].op = "rollback" /\ pc'[Outer(g[1])] = "call"
    BY DEF FramesOK
  <1>1. CASE g = f
    BY <1>1, FrameCases DEF Moves, LockInv, TypeOK
  <1>2. CASE g # f
    <2>1. pc'[g] = pc[g] /\ loc'[g] = loc[g]
      BY <1>2 DEF Moves, LockInv, TypeOK
    <2>2. CASE g[2] = "rb" /\ pc[g] # "idle"
      <3>1. loc[g].op = "rollback" /\ pc[Outer(g[1])] = "call"
        BY <2>2 DEF LockInv, FramesOK
      <3>2. Outer(g[1]) # f
        BY <2>2, <3>1, FrameCases
      <3> QED BY <2>1, <3>1, <3>2 DEF Moves, LockInv, TypeOK, FramesOK
    <2>3. CASE ~ (g[2] = "rb" /\ pc[g] # "idle")
      BY <2>1, <2>3 DEF LockInv, FramesOK
    <2> QED BY <2>2, <2>3
  <1> QED BY <1>1, <1>2

LEMMA MovesMutex ==
    ASSUME LockInv, NEW f \in Frame, NEW l \in Label, NEW o \in OpName,
           Moves(f, l, o), opLock' = opLock,
           /\ o \in LockedOps
           /\ l \in {"start", "apply", "wait", "post", "call", "mark", "commit", "abort",
                    "release"}
           => Critical(f)
    PROVE  MutualExclusion'
  <1> SUFFICES ASSUME NEW g \in Frame, Critical(g)' PROVE opLock' = g
    BY DEF MutualExclusion
  <1>1. CASE g = f
    BY <1>1 DEF Moves, Critical, LockInv, TypeOK, MutualExclusion
  <1>2. CASE g # f
    <2>1. pc'[g] = pc[g] /\ loc'[g] = loc[g]
      BY <1>2 DEF Moves, LockInv, TypeOK
    <2> QED BY <2>1 DEF Critical, LockInv, MutualExclusion
  <1> QED BY <1>1, <1>2

LEMMA ReturnMoves ==
    ASSUME TypeOK, NEW f \in Frame, NEW ok \in BOOLEAN, Return(f, ok)
    PROVE  Moves(f, "idle", "none")
  <1>1. [Blank EXCEPT !.ok = ok /\ f[2] = "rb"] \in Local
    BY BlankType DEF Blank, Local
  <1>2. [Blank EXCEPT !.ok = ok /\ f[2] = "rb"].op = "none"
    BY DEF Blank
  <1> QED BY <1>1, <1>2 DEF Moves, Return, Goto

LEMMA IdleLabels == "idle" \in Label /\ "none" \in OpName /\ "idle" \in LabelsOf("none")
                    /\ "none" \notin LockedOps
  BY DEF Label, OpName, LabelsOf, LockedOps

(* A call of execute_rollback: the outer frame waits, the inner begins.    *)
LEMMA CallLock ==
    ASSUME LockInv, NEW f \in Frame, NEW local \in Local, NEW g,
           CallRollback(f, local, g), local.op = loc[f].op,
           local.op \in {"system_update", "recover"},
           pc[f] \notin {"idle", "call"},
           opLock' = opLock, local.op = "system_update" => Critical(f)
    PROVE  FramesOK' /\ MutualExclusion'
  <1> USE FrameType
  <1> DEFINE b == [Blank EXCEPT !.op = "rollback", !.arg = g]
             inner == Inner(f[1])
  <1>1. f = Outer(f[1]) /\ f # inner /\ inner \in Frame
    BY FrameCases DEF LockInv, FramesOK
  <1>2. b.op = "rollback"
    BY DEF Blank
  <1>3. loc' = [loc EXCEPT ![f] = local, ![inner] = b]
    BY DEF CallRollback
  <1>4. pc' = [pc EXCEPT ![f] = "call", ![inner] = "simulate"]
    BY DEF CallRollback
  <1> HIDE DEF b
  <1>5. /\ pc'[f] = "call" /\ loc'[f] = local
        /\ pc'[inner] = "simulate" /\ loc'[inner] = b
        /\ \A h \in Frame : h # f /\ h # inner => pc'[h] = pc[h] /\ loc'[h] = loc[h]
    BY <1>1, <1>3, <1>4 DEF LockInv, TypeOK
  <1>6. FramesOK'
    <2> SUFFICES ASSUME NEW h \in Frame
                 PROVE  /\ pc'[h] \in LabelsOf(loc'[h].op)
                        /\ (h[2] = "rb" /\ pc'[h] # "idle")
                           => loc'[h].op = "rollback" /\ pc'[Outer(h[1])] = "call"
      BY DEF FramesOK
    <2>1. CASE h = f
      BY <1>1, <1>5, <2>1, FrameCases DEF LabelsOf
    <2>2. CASE h = inner
      BY <1>1, <1>2, <1>5, <2>2 DEF LabelsOf
    <2>3. CASE h # f /\ h # inner
      <3>1. h[2] = "rb" => Outer(h[1]) # f /\ Outer(h[1]) # inner /\ Outer(h[1]) \in Frame
        BY <1>1, <2>3, FrameCases DEF Outer, Inner
      <3> QED BY <1>5, <2>3, <3>1 DEF LockInv, FramesOK
    <2> QED BY <2>1, <2>2, <2>3
  <1>7. MutualExclusion'
    <2> SUFFICES ASSUME NEW h \in Frame, Critical(h)' PROVE opLock' = h
      BY DEF MutualExclusion
    <2>1. CASE h = f
      BY <1>5, <2>1 DEF Critical, LockedOps, LockInv, MutualExclusion
    <2>2. CASE h = inner
      BY <1>5, <2>2 DEF Critical
    <2>3. CASE h # f /\ h # inner
      BY <1>5, <2>3 DEF Critical, LockInv, MutualExclusion
    <2> QED BY <2>1, <2>2, <2>3
  <1> QED BY <1>6, <1>7

(* The outer frame resumes after a nested rollback.                        *)
LEMMA ResumeLock ==
    ASSUME LockInv, NEW f \in Frame, NEW local \in Local, NEW l,
           pc[f] = "call", pc[Inner(f[1])] = "idle",
           local.op = loc[f].op,
           l \in LabelsOf(local.op), local.op = "recover" \/ l = "mark",
           pc' = [pc EXCEPT ![f] = l],
           loc' = [loc EXCEPT ![f] = local, ![Inner(f[1])] = Blank],
           opLock' = opLock
    PROVE  FramesOK' /\ MutualExclusion'
  <1> USE FrameType
  <1> DEFINE inner == Inner(f[1])
  <1>1. f = Outer(f[1]) /\ f # inner /\ inner \in Frame
    BY FrameCases, LabelFacts DEF LockInv, FramesOK
  <1>2. loc[f].op \in {"system_update", "recover"}
    BY LabelFacts DEF LockInv
  <1>3. /\ pc'[f] = l /\ loc'[f] = local
        /\ pc'[inner] = "idle" /\ loc'[inner] = Blank
        /\ \A h \in Frame : h # f /\ h # inner => pc'[h] = pc[h] /\ loc'[h] = loc[h]
    BY <1>1 DEF LockInv, TypeOK
  <1>4. Blank.op = "none"
    BY DEF Blank
  <1>5. FramesOK'
    <2> SUFFICES ASSUME NEW h \in Frame
                 PROVE  /\ pc'[h] \in LabelsOf(loc'[h].op)
                        /\ (h[2] = "rb" /\ pc'[h] # "idle")
                           => loc'[h].op = "rollback" /\ pc'[Outer(h[1])] = "call"
      BY DEF FramesOK
    <2>1. CASE h = f
      BY <1>1, <1>3, <2>1, FrameCases
    <2>2. CASE h = inner
      BY <1>3, <1>4, <2>2, IdleLabels
    <2>3. CASE h # f /\ h # inner
      <3>1. h[2] = "rb" => Outer(h[1]) # f /\ Outer(h[1]) # inner /\ Outer(h[1]) \in Frame
        BY <1>1, <2>3, FrameCases DEF Outer, Inner
      <3> QED BY <1>3, <2>3, <3>1 DEF LockInv, FramesOK
    <2> QED BY <2>1, <2>2, <2>3
  <1>6. MutualExclusion'
    <2> SUFFICES ASSUME NEW h \in Frame, Critical(h)' PROVE opLock' = h
      BY DEF MutualExclusion
    <2>1. CASE h = f
      BY <1>2, <1>3, <2>1 DEF Critical, LockedOps, LockInv, MutualExclusion
    <2>2. CASE h = inner
      BY <1>3, <2>2 DEF Critical
    <2>3. CASE h # f /\ h # inner
      BY <1>3, <2>3 DEF Critical, LockInv, MutualExclusion
    <2> QED BY <2>1, <2>2, <2>3
  <1> QED BY <1>5, <1>6

LEMMA StepLock ==
    ASSUME LockInv, NEW f \in Frame, Step(f)
    PROVE  FramesOK' /\ MutualExclusion'
  <1> USE FrameType
  <1>0. /\ TypeOK /\ FramesOK /\ loc[f] \in Local /\ loc[f].op \in OpName
        /\ pc[f] # "idle" /\ f[2] = "rb" => loc[f].op = "rollback" /\ pc[Outer(f[1])] = "call"
        /\ TypeOK'
    BY StepType DEF LockInv, TypeOK, FramesOK, Local
  (* The frame returns and the lock stays where it is.                     *)
  <1>r. ASSUME NEW ok \in BOOLEAN, Return(f, ok), pc[f] # "call", opLock' = opLock
        PROVE  FramesOK' /\ MutualExclusion'
    BY <1>0, <1>r, ReturnMoves, IdleLabels, MovesFrames, MovesMutex
  (* The frame goes on inside the same operation.                          *)
  <1>m. ASSUME NEW l \in Label, Moves(f, l, loc[f].op), l \in LabelsOf(loc[f].op),
               pc[f] \notin {"idle", "call"}, opLock' = opLock,
               Critical(f) \/ l \in {"read", "lock", "rnext", "rmark"}
        PROVE  FramesOK' /\ MutualExclusion'
    BY <1>0, <1>m, MovesFrames, MovesMutex
  <1>1. CASE Simulate(f)
    <2>1. CASE Return(f, FALSE)
      BY <1>1, <1>r, <2>1 DEF Simulate
    <2>2. ASSUME NEW t, Goto(f, "read"), loc' = [loc EXCEPT ![f].target = t]
          PROVE  FramesOK' /\ MutualExclusion'
      <3>1. loc'[f] \in Local /\ loc'[f].op = loc[f].op /\ loc' = [loc EXCEPT ![f] = loc'[f]]
        BY <1>0, <2>2 DEF TypeOK
      <3>2. Moves(f, "read", loc[f].op)
        BY <2>2, <3>1 DEF Moves, Goto
      <3>3. loc[f].op = "rollback"
        BY <1>0, <1>1, LabelFacts DEF Simulate
      <3> QED BY <1>1, <1>m, <3>2, <3>3 DEF Simulate, Label, LabelsOf
    <2> QED BY <1>1, <2>1, <2>2 DEF Simulate
  <1>2. CASE ReadActive(f)
    <2>1. CASE Return(f, FALSE)
      BY <1>2, <1>r, <2>1 DEF ReadActive
    <2>2. CASE Goto(f, "lock") /\ loc' = [loc EXCEPT ![f].prev = active]
      <3>1. loc'[f] \in Local /\ loc'[f].op = loc[f].op /\ loc' = [loc EXCEPT ![f] = loc'[f]]
        BY <1>0, <2>2 DEF TypeOK
      <3>2. Moves(f, "lock", loc[f].op)
        BY <2>2, <3>1 DEF Moves, Goto
      <3>3. loc[f].op = "rollback"
        BY <1>0, <1>2, LabelFacts DEF ReadActive
      <3> QED BY <1>2, <1>m, <3>2, <3>3 DEF ReadActive, Label, LabelsOf
    <2> QED BY <1>2, <2>1, <2>2 DEF ReadActive
  <1>3. CASE AcquireLock(f)
    <2>1. CASE Return(f, FALSE) /\ UNCHANGED opLock
      BY <1>3, <1>r, <2>1 DEF AcquireLock
    <2>2. CASE opLock = NoLock /\ opLock' = f /\ Goto(f, "start") /\ UNCHANGED loc
      <3>1. Moves(f, "start", loc[f].op)
        BY <1>0, <2>2 DEF Moves, Goto, TypeOK
      <3>2. loc[f].op \in LockedOps
        BY <1>0, <1>3, LabelFacts DEF AcquireLock
      <3>3. FramesOK'
        BY <1>0, <1>3, <3>1, <3>2, MovesFrames DEF AcquireLock, Label, LabelsOf, LockedOps
      <3>4. \A g \in Frame : ~ Critical(g)
        BY <2>2, ConstantsAssumption DEF LockInv, MutualExclusion
      <3>5. \A g \in Frame : g # f => pc'[g] = pc[g] /\ loc'[g] = loc[g]
        BY <1>0, <2>2 DEF Goto, TypeOK
      <3>6. MutualExclusion'
        BY <2>2, <3>4, <3>5 DEF MutualExclusion, Critical
      <3> QED BY <3>3, <3>6
    <2> QED BY <1>3, <2>1, <2>2 DEF AcquireLock
  <1>4. CASE StartTransaction(f)
    <2>0. Critical(f) /\ loc[f].op \in LockedOps /\ pc[f] = "start"
      BY <1>0, <1>4, LabelFacts DEF StartTransaction, Critical
    <2>1. CASE ~ unusable
      <3> DEFINE l == IF loc[f].op = "storage_diet" THEN "wait" ELSE "apply"
      <3>1. loc'[f] \in Local /\ loc'[f].op = loc[f].op /\ loc' = [loc EXCEPT ![f] = loc'[f]]
        <4>1. loc' = [loc EXCEPT ![f].tx = Len(journal) + 1]
          BY <1>4, <2>1 DEF StartTransaction
        <4> QED BY <1>0, <4>1 DEF TypeOK
      <3>2. Moves(f, l, loc[f].op)
        BY <1>4, <2>1, <3>1 DEF Moves, Goto, StartTransaction
      <3>3. l \in Label /\ l \in LabelsOf(loc[f].op)
        BY <2>0 DEF LabelsOf, LockedOps, Label
      <3> QED BY <1>4, <1>m, <2>0, <3>2, <3>3 DEF StartTransaction
    <2>2. CASE unusable /\ loc[f].op = "storage_diet"
      <3>1. Moves(f, "release", loc[f].op)
        BY <1>0, <1>4, <2>2 DEF Moves, Goto, StartTransaction, TypeOK
      <3> QED BY <1>4, <1>m, <2>0, <2>2, <3>1 DEF StartTransaction, LabelsOf, Label
    <2>3. CASE unusable /\ loc[f].op # "storage_diet"
      BY <1>4, <1>r, <2>0, <2>3 DEF StartTransaction
    <2> QED BY <2>1, <2>2, <2>3
  <1>5. CASE Apply(f)
    <2>0. Critical(f) /\ loc[f].op \in ProfileOps /\ pc[f] = "apply"
      BY <1>0, <1>5, LabelFacts DEF Apply, Critical, ProfileOps, LockedOps
    <2>1. PICK l \in {"wait", "abort"} : Goto(f, l) /\ loc' = loc
      BY <1>5 DEF Apply
    <2>2. Moves(f, l, loc[f].op)
      BY <1>0, <2>1 DEF Moves, Goto, TypeOK
    <2>3. l \in LabelsOf(loc[f].op) /\ l \in Label
      BY <2>0 DEF LabelsOf, ProfileOps, Label
    <2> QED BY <1>5, <1>m, <2>0, <2>2, <2>3 DEF Apply
  <1>6. CASE RunCommand(f)
    <2>1. PICK out \in Outcomes(CommandOf(f)) :
             IF loc[f].op \in LockedOps
             THEN Goto(f, AfterCommand(loc[f].op, out.rc0)) /\ UNCHANGED loc
             ELSE Return(f, FALSE)
      BY <1>6 DEF RunCommand
    <2>2. CASE loc[f].op \in LockedOps
      <3> DEFINE l == AfterCommand(loc[f].op, out.rc0)
      <3>1. l \in LabelsOf(loc[f].op) /\ l \in Label
        BY <2>2 DEF AfterCommand, LabelsOf, LockedOps, Label
      <3> HIDE DEF l
      <3>2. Moves(f, l, loc[f].op)
        BY <1>0, <2>1, <2>2 DEF Moves, Goto, TypeOK, l
      <3>3. Critical(f)
        BY <1>6, <2>2 DEF Critical, RunCommand
      <3> QED BY <1>6, <1>m, <3>1, <3>2, <3>3 DEF RunCommand
    <2>3. CASE loc[f].op \notin LockedOps
      BY <1>6, <1>r, <2>1, <2>3 DEF RunCommand
    <2> QED BY <2>2, <2>3
  <1>7. ASSUME NEW probe \in BOOLEAN, NEW auto \in BOOLEAN, HealthCheck(f, probe, auto)
        PROVE  FramesOK' /\ MutualExclusion'
    <2> DEFINE seen == [loc[f] EXCEPT !.new = active]
    <2>1. seen \in Local /\ seen.op = loc[f].op
      BY <1>0 DEF Local, TypeOK
    <2>2. Critical(f) /\ loc[f].op = "system_update" /\ pc[f] = "post"
      BY <1>7 DEF HealthCheck, Critical, LockedOps
    <2>3. \/ \E l \in {"commit", "abort"} : Goto(f, l) /\ loc' = [loc EXCEPT ![f] = seen]
          \/ CallRollback(f, seen, loc[f].prev)
      BY <1>7 DEF HealthCheck
    <2> HIDE DEF seen
    <2>4. CASE CallRollback(f, seen, loc[f].prev)
      BY <1>7, <2>1, <2>2, <2>4, CallLock DEF HealthCheck
    <2>5. ASSUME NEW l \in {"commit", "abort"}, Goto(f, l), loc' = [loc EXCEPT ![f] = seen]
          PROVE  FramesOK' /\ MutualExclusion'
      <3>1. Moves(f, l, loc[f].op)
        BY <2>1, <2>5 DEF Moves, Goto
      <3> QED BY <1>7, <1>m, <2>2, <3>1 DEF HealthCheck, LabelsOf, Label
    <2> QED BY <2>3, <2>4, <2>5
  <1>8. CASE VerifyRollback(f)
    <2>1. Critical(f) /\ loc[f].op = "rollback" /\ pc[f] = "post"
      BY <1>8 DEF VerifyRollback, Critical, LockedOps
    <2>2. loc'[f] \in Local /\ loc'[f].op = loc[f].op /\ loc' = [loc EXCEPT ![f] = loc'[f]]
      BY <1>0, <1>8 DEF TypeOK, VerifyRollback
    <2>3. PICK l \in {"commit", "abort"} : Goto(f, l)
      BY <1>8 DEF VerifyRollback
    <2>4. Moves(f, l, loc[f].op)
      BY <2>2, <2>3 DEF Moves, Goto
    <2> QED BY <1>8, <1>m, <2>1, <2>4 DEF VerifyRollback, LabelsOf, Label
  <1>9. CASE AutoRollbackReturns(f)
    <2> DEFINE b == [loc[f] EXCEPT !.new = active]
    <2>1. b \in Local /\ b.op = loc[f].op /\ loc[f].op = "system_update"
      BY <1>0, <1>9 DEF Local, TypeOK, AutoRollbackReturns
    <2>2. loc' = [loc EXCEPT ![f] = b, ![Inner(f[1])] = Blank]
      BY <1>9 DEF AutoRollbackReturns
    <2> HIDE DEF b
    <2>3. "mark" \in LabelsOf(b.op)
      BY <2>1 DEF LabelsOf
    <2> QED BY <1>9, <2>1, <2>2, <2>3, ResumeLock DEF AutoRollbackReturns, Goto
  <1>10. CASE FinishTransaction(f)
    <2>1. Critical(f) /\ loc[f].op \in LockedOps /\ pc[f] \in {"commit", "abort", "mark"}
      BY <1>0, <1>10, LabelFacts DEF FinishTransaction, Critical
    <2>2. loc'[f] \in Local /\ loc'[f].op = loc[f].op /\ loc' = [loc EXCEPT ![f] = loc'[f]]
      BY <1>0, <1>10 DEF TypeOK, FinishTransaction
    <2>3. PICK l \in {"release", "abort"} : Moves(f, l, loc[f].op)
      BY <1>10, <2>2 DEF Moves, Goto, FinishTransaction
    <2>4. l \in LabelsOf(loc[f].op) /\ l \in Label
      BY <2>1 DEF LabelsOf, LockedOps, Label
    <2> QED BY <1>10, <1>m, <2>1, <2>3, <2>4 DEF FinishTransaction
  <1>11. CASE ReleaseLock(f)
    <2>1. Critical(f)
      BY <1>0, <1>11, LabelFacts DEF ReleaseLock, Critical
    <2>2. loc[f].ok \in BOOLEAN /\ Return(f, loc[f].ok) /\ pc[f] = "release"
      BY <1>0, <1>11 DEF Local, ReleaseLock
    <2>3. Moves(f, "idle", "none")
      BY <1>0, <2>2, ReturnMoves
    <2>4. FramesOK'
      BY <2>2, <2>3, IdleLabels, MovesFrames
    <2>5. \A g \in Frame : g # f => ~ Critical(g)
      BY <2>1 DEF LockInv, MutualExclusion
    <2>6. \A g \in Frame : /\ g # f => pc'[g] = pc[g] /\ loc'[g] = loc[g]
                           /\ g = f => pc'[g] = "idle"
      BY <1>0, <2>3 DEF Moves, TypeOK
    <2>7. ASSUME NEW g \in Frame PROVE ~ Critical(g)'
      <3>1. CASE g = f
        BY <2>6, <3>1 DEF Critical
      <3>2. CASE g # f
        <4>1. ~ Critical(g) /\ pc'[g] = pc[g] /\ loc'[g] = loc[g]
          BY <2>5, <2>6, <3>2
        <4> QED BY <4>1 DEF Critical
      <3> QED BY <3>1, <3>2
    <2> QED BY <2>4, <2>7 DEF MutualExclusion
  <1>12. CASE RecoverNext(f)
    <2>1. loc[f].op = "recover" /\ pc[f] = "rnext"
      BY <1>0, <1>12, LabelFacts DEF RecoverNext
    <2> DEFINE i    == Min(loc[f].todo)
               undo == journal[i].op \in {"system_update", "rollback"} /\ journal[i].prev # 0
               at   == undo /\ active = journal[i].prev
               next == [loc[f] EXCEPT !.tx = i, !.todo = @ \ {i}, !.ok = at]
    <2>2. loc[f].todo \subseteq Nat /\ loc[f].todo # {}
      BY <1>0, <1>12 DEF Local, RecoverNext
    <2>3. i \in Nat
      BY <2>2, NatMinIn
    <2>4. next \in Local /\ next.op = loc[f].op
      <3> HIDE DEF i
      <3> QED BY <1>0, <2>3 DEF Local
    <2>5. \/ CallRollback(f, next, journal[i].prev)
          \/ Goto(f, "rmark") /\ loc' = [loc EXCEPT ![f] = next]
      BY <1>12 DEF RecoverNext
    <2> HIDE DEF next
    <2>6. CASE CallRollback(f, next, journal[i].prev)
      BY <1>12, <2>1, <2>4, <2>6, CallLock DEF RecoverNext
    <2>7. CASE Goto(f, "rmark") /\ loc' = [loc EXCEPT ![f] = next]
      <3>1. Moves(f, "rmark", loc[f].op)
        BY <2>4, <2>7 DEF Moves, Goto
      <3> QED BY <1>12, <1>m, <2>1, <3>1 DEF RecoverNext, LabelsOf, Label
    <2> QED BY <2>5, <2>6, <2>7
  <1>13. CASE RecoverRollbackReturns(f)
    <2> DEFINE b == [loc[f] EXCEPT !.ok = loc[Inner(f[1])].ok]
    <2>1. Inner(f[1]) \in Frame /\ loc[Inner(f[1])].ok \in BOOLEAN
      BY <1>0 DEF TypeOK, Local
    <2>2. b \in Local /\ b.op = loc[f].op /\ loc[f].op = "recover"
      BY <1>0, <1>13, <2>1 DEF Local, RecoverRollbackReturns
    <2>3. loc' = [loc EXCEPT ![f] = b, ![Inner(f[1])] = Blank]
      BY <1>13 DEF RecoverRollbackReturns
    <2> HIDE DEF b
    <2>4. "rmark" \in LabelsOf(b.op)
      BY <2>2 DEF LabelsOf
    <2> QED BY <1>13, <2>2, <2>3, <2>4, ResumeLock DEF RecoverRollbackReturns, Goto
  <1>14. CASE RecoverMark(f)
    <2>1. loc[f].op = "recover" /\ pc[f] = "rmark"
      BY <1>0, <1>14, LabelFacts DEF RecoverMark
    <2>2. CASE Goto(f, "rnext") /\ UNCHANGED <<loc, jlock>>
      <3>1. Moves(f, "rnext", loc[f].op)
        BY <1>0, <2>2 DEF Moves, Goto, TypeOK
      <3> QED BY <1>14, <1>m, <2>1, <3>1 DEF RecoverMark, LabelsOf, Label
    <2>3. CASE Return(f, FALSE) /\ jlock' = NoLock
      BY <1>14, <1>r, <2>1, <2>3 DEF RecoverMark
    <2> QED BY <1>14, <2>2, <2>3 DEF RecoverMark
  <1>15. CASE RecoverEnd(f)
    BY <1>15, <1>r DEF RecoverEnd
  <1> QED BY <1>1, <1>2, <1>3, <1>4, <1>5, <1>6, <1>7, <1>8, <1>9, <1>10, <1>11,
             <1>12, <1>13, <1>14, <1>15 DEF Step

LEMMA BeginLock ==
    ASSUME LockInv, NEW p \in Procs, BeginOperation(p)
    PROVE  FramesOK' /\ MutualExclusion'
  <1> USE FrameType
  <1>0. pc[Outer(p)] = "idle" /\ TypeOK /\ TypeOK' /\ opLock' = opLock
        /\ Outer(p)[2] # "rb"
    BY BeginType DEF LockInv, BeginOperation, UpdateBegin, StageBegin, RollbackBegin,
                     DietBegin, UnlockedBegin, RecoverBegin, Free, Outer
  <1>1. ASSUME NEW l \in Label, NEW o \in OpName, NEW local,
               pc' = [pc EXCEPT ![Outer(p)] = l],
               loc' = [loc EXCEPT ![Outer(p)] = local],
               local.op = o, l \in LabelsOf(o), o \in LockedOps => l \in {"lock", "simulate"}
        PROVE  FramesOK' /\ MutualExclusion'
    <2>1. local \in Local
      BY <1>0, <1>1 DEF TypeOK
    <2>2. Moves(Outer(p), l, o)
      BY <1>1, <2>1 DEF Moves
    <2> QED BY <1>0, <1>1, <2>2, MovesFrames, MovesMutex
  <1>2. CASE UpdateBegin(p)
    <2> DEFINE b == [Blank EXCEPT !.op = "system_update", !.prev = active]
    <2>1. b.op = "system_update"
      BY DEF Blank
    <2>2. Begin(p, "lock", b)
      BY <1>2 DEF UpdateBegin
    <2>3. "system_update" \in OpName /\ "lock" \in LabelsOf("system_update") /\ "lock" \in Label
      BY DEF OpName, AllOps, LabelsOf, Label
    <2> HIDE DEF b
    <2> QED BY <1>1, <2>1, <2>2, <2>3 DEF Begin
  <1>3. CASE StageBegin(p)
    <2> DEFINE b == [Blank EXCEPT !.op = "system_stage", !.prev = active]
    <2>1. b.op = "system_stage"
      BY DEF Blank
    <2>2. Begin(p, "lock", b)
      BY <1>3 DEF StageBegin
    <2>3. "system_stage" \in OpName /\ "lock" \in LabelsOf("system_stage") /\ "lock" \in Label
      BY DEF OpName, AllOps, LabelsOf, Label
    <2> HIDE DEF b
    <2> QED BY <1>1, <2>1, <2>2, <2>3 DEF Begin
  <1>4. ASSUME NEW g \in Generation, RollbackBegin(p, g)
        PROVE  FramesOK' /\ MutualExclusion'
    <2> DEFINE b == [Blank EXCEPT !.op = "rollback", !.arg = g]
    <2>1. b.op = "rollback"
      BY DEF Blank
    <2>2. Begin(p, "simulate", b)
      BY <1>4 DEF RollbackBegin
    <2>3. "rollback" \in OpName /\ "simulate" \in LabelsOf("rollback") /\ "simulate" \in Label
      BY DEF OpName, AllOps, LabelsOf, Label
    <2> HIDE DEF b
    <2> QED BY <1>1, <2>1, <2>2, <2>3 DEF Begin
  <1>5. CASE DietBegin(p)
    <2> DEFINE b == [Blank EXCEPT !.op = "storage_diet"]
    <2>1. b.op = "storage_diet"
      BY DEF Blank
    <2>2. Begin(p, "lock", b)
      BY <1>5 DEF DietBegin
    <2>3. "storage_diet" \in OpName /\ "lock" \in LabelsOf("storage_diet") /\ "lock" \in Label
      BY DEF OpName, AllOps, LabelsOf, Label
    <2> HIDE DEF b
    <2> QED BY <1>1, <2>1, <2>2, <2>3 DEF Begin
  <1>6. ASSUME NEW o \in {"gc", "skill_upgrade"}, UnlockedBegin(p, o)
        PROVE  FramesOK' /\ MutualExclusion'
    <2> DEFINE b == [Blank EXCEPT !.op = o]
    <2>1. b.op = o
      BY DEF Blank
    <2>2. Begin(p, "wait", b)
      BY <1>6 DEF UnlockedBegin
    <2>3. o \in OpName /\ o \notin LockedOps /\ "wait" \in LabelsOf(o) /\ "wait" \in Label
      BY DEF OpName, AllOps, LabelsOf, LockedOps, Label
    <2> HIDE DEF b
    <2> QED BY <1>1, <2>1, <2>2, <2>3 DEF Begin
  <1>7. CASE RecoverBegin(p)
    <2> DEFINE b == [Blank EXCEPT !.op = "recover", !.todo = Dangling]
    <2>1. b.op = "recover"
      BY DEF Blank
    <2>2. pc' = [pc EXCEPT ![Outer(p)] = "rnext"] /\ loc' = [loc EXCEPT ![Outer(p)] = b]
      BY <1>7 DEF RecoverBegin, Goto
    <2>3. /\ "recover" \in OpName /\ "recover" \notin LockedOps
          /\ "rnext" \in LabelsOf("recover") /\ "rnext" \in Label
      BY DEF OpName, AllOps, LabelsOf, LockedOps, Label
    <2> HIDE DEF b
    <2> QED BY <1>1, <2>1, <2>2, <2>3
  <1> QED BY <1>2, <1>3, <1>4, <1>5, <1>6, <1>7 DEF BeginOperation

LEMMA KillLock ==
    ASSUME LockInv, NEW p \in Procs, Kill(p)
    PROVE  FramesOK' /\ MutualExclusion'
  <1> USE FrameType
  <1>1. \A g \in Frame :
           IF g[1] = p THEN pc'[g] = "idle" /\ loc'[g] = Blank
                       ELSE pc'[g] = pc[g] /\ loc'[g] = loc[g]
    <2>1. \A g \in Frame : g[1] = p <=> g \in {Outer(p), Inner(p)}
      BY FrameCases
    <2> QED BY <2>1 DEF Kill, LockInv, TypeOK
  <1>2. \A g \in Frame : Outer(g[1]) \in Frame /\ Outer(g[1])[1] = g[1]
    OBVIOUS
  <1>3. FramesOK'
    BY <1>1, <1>2, IdleLabels DEF FramesOK, LockInv, Blank
  <1>4. ASSUME NEW g \in Frame, Critical(g)' PROVE opLock' = g
    <2>1. g[1] # p /\ Critical(g)
      BY <1>1, <1>4 DEF Critical
    <2>2. opLock = g
      BY <2>1 DEF LockInv, MutualExclusion
    <2> QED BY <2>1, <2>2 DEF Kill, Holds
  <1> QED BY <1>3, <1>4 DEF MutualExclusion

LEMMA LockNext == LockInv /\ [Next]_vars => LockInv'
  <1> SUFFICES ASSUME LockInv, [Next]_vars PROVE FramesOK' /\ MutualExclusion'
    BY TypeNext DEF LockInv
  <1>1. ASSUME NEW p \in Procs, ExitProcess(p) PROVE FramesOK' /\ MutualExclusion'
    <2>1. FramesOK'
      BY <1>1 DEF ExitProcess, LockInv, FramesOK
    <2>2. pc[Outer(p)] = "idle" /\ pc[Inner(p)] = "idle"
      <3>1. Inner(p) \in Frame /\ Inner(p)[2] = "rb" /\ Outer(Inner(p)[1]) = Outer(p)
        BY FrameType DEF Inner
      <3>2. pc[Outer(p)] = "idle"
        BY <1>1 DEF ExitProcess
      <3> QED BY <3>1, <3>2 DEF LockInv, FramesOK
    <2>3. ASSUME NEW g \in Frame PROVE ~ Critical(g)'
      BY <1>1, <2>2 DEF ExitProcess, Holds, Critical, LockInv, MutualExclusion
    <2> QED BY <2>1, <2>3 DEF MutualExclusion
  <1>2. CASE OrphanEnds
    BY <1>2 DEF OrphanEnds, LockInv, FramesOK, MutualExclusion, Critical
  <1>3. CASE Reboot
    <2>1. \A g \in Frame : pc'[g] = "idle" /\ loc'[g] = Blank
      BY <1>3 DEF Reboot
    <2>2. FramesOK'
      BY <2>1, IdleLabels DEF FramesOK, Blank
    <2>3. MutualExclusion'
      BY <2>1 DEF MutualExclusion, Critical
    <2> QED BY <2>2, <2>3
  <1>4. CASE JournalFails \/ JournalReturns
    BY <1>4 DEF JournalFails, JournalReturns, LockInv, FramesOK, MutualExclusion, Critical
  <1>5. CASE QuarantineAndReset
    BY <1>5 DEF QuarantineAndReset, LockInv, FramesOK, MutualExclusion, Critical
  <1>6. CASE UNCHANGED vars
    BY <1>6 DEF vars, LockInv, FramesOK, MutualExclusion, Critical
  <1> QED BY <1>1, <1>2, <1>3, <1>4, <1>5, <1>6, BeginLock, StepLock, KillLock DEF Next

LEMMA LockInit == Init => LockInv
  <1> SUFFICES ASSUME Init PROVE FramesOK /\ MutualExclusion
    BY TypeInit DEF LockInv
  <1>1. \A g \in Frame : pc[g] = "idle" /\ loc[g] = Blank
    BY DEF Init
  <1> QED BY <1>1, IdleLabels DEF FramesOK, MutualExclusion, Critical, Blank

(* OperationLock gives mutual exclusion: an operation between acquire and  *)
(* release owns the lock, so no two of them overlap, whatever processes    *)
(* run, call rollbacks from inside, leak descriptors, die or reboot.       *)
THEOREM LockCorrect == Spec => []MutualExclusion
  <1>1. LockInv => MutualExclusion
    BY DEF LockInv
  <1> QED BY <1>1, LockInit, LockNext, PTL DEF Spec

-----------------------------------------------------------------------------
(* The journal explains the profile.                                       *)

(* update_transaction keeps the operations and every other record.         *)
LEMMA UpdateTransactionFacts ==
    ASSUME TypeOK, NEW i, NEW s, NEW n, UpdateTransaction(i, s, n)
    PROVE  /\ DOMAIN journal' = DOMAIN journal
           /\ \A j \in DOMAIN journal : journal'[j].op = journal[j].op
           /\ \A j \in DOMAIN journal : j # i => journal'[j] = journal[j]
           /\ Present(i) => /\ i \in DOMAIN journal
                            /\ journal'[i].state = s /\ journal'[i].new = n
           /\ ~ Present(i) => journal' = journal
  <1>1. DOMAIN journal = 1 .. Len(journal) /\ Len(journal) \in Nat
        /\ \A j \in DOMAIN journal : journal[j] \in Tx
    BY DEF TypeOK
  <1>2. CASE Present(i)
    <2>1. i \in DOMAIN journal
      BY <1>2 DEF Present
    <2> DEFINE r == [journal[i] EXCEPT !.state = s, !.new = n]
    <2>2. r.op = journal[i].op /\ r.state = s /\ r.new = n
      BY <1>1, <2>1 DEF Tx
    <2>3. journal' = [journal EXCEPT ![i] = r]
      BY <1>2 DEF UpdateTransaction
    <2> HIDE DEF r
    <2> QED BY <1>1, <1>2, <2>1, <2>2, <2>3
  <1>3. CASE ~ Present(i)
    BY <1>3 DEF UpdateTransaction
  <1> QED BY <1>2, <1>3

(* A step that leaves the link and the journal alone and opens no          *)
(* transaction keeps the three facts that relate them.                     *)
LEMMA QuietExplain ==
    ASSUME ExplainInv, active' = active, journal' = journal,
           \A g \in Frame : InTransaction(g)' =>
              InTransaction(g) /\ loc'[g].tx = loc[g].tx /\ loc'[g].op = loc[g].op,
           \A g \in Frame :
              (pc'[g] = "commit" /\ loc'[g].op \in {"system_update", "rollback"}) =>
              \/ pc[g] = "commit" /\ loc'[g].op = loc[g].op /\ loc'[g].new = loc[g].new
              \/ loc'[g].new = active
    PROVE  TransactionsOK' /\ VerifiedIsActive' /\ JournalExplainsProfile'
  <1>1. TransactionsOK'
    <2> SUFFICES ASSUME NEW g \in Frame, InTransaction(g)'
                 PROVE  /\ loc'[g].tx \in DOMAIN journal'
                        /\ journal'[loc'[g].tx].op = loc'[g].op
                        /\ journal'[loc'[g].tx].state # "COMMITTED"
                        /\ loc'[g].op \in ProfileOps =>
                              \A j \in DOMAIN journal' :
                                 j > loc'[g].tx => journal'[j].op \notin ProfileOps
      BY DEF TransactionsOK
    <2>1. InTransaction(g) /\ loc'[g].tx = loc[g].tx /\ loc'[g].op = loc[g].op
      OBVIOUS
    <2> QED BY <2>1 DEF ExplainInv, TransactionsOK
  <1>2. VerifiedIsActive'
    BY DEF ExplainInv, VerifiedIsActive
  <1>3. JournalExplainsProfile'
    BY DEF ExplainInv, JournalExplainsProfile
  <1> QED BY <1>1, <1>2, <1>3

(* While a frame is between acquire and release no other is.               *)
LEMMA Alone ==
    ASSUME LockInv, NEW f \in Frame, Critical(f), NEW g \in Frame, g # f
    PROVE  ~ Critical(g) /\ ~ InTransaction(g)
  BY DEF LockInv, MutualExclusion, InTransaction

(* What ExplainInv adds to LockInv.                                        *)
Explained == NoBypass /\ TransactionsOK /\ VerifiedIsActive /\ JournalExplainsProfile

(* A step of one frame: its new control point and its new locals.          *)
Effect(f, l, b) ==
    /\ pc' = [pc EXCEPT ![f] = l]
    /\ loc' = [loc EXCEPT ![f] = b]

LEMMA EffectFacts ==
    ASSUME TypeOK, NEW f \in Frame, NEW l, NEW b, Effect(f, l, b)
    PROVE  /\ pc'[f] = l /\ loc'[f] = b
           /\ \A g \in Frame : g # f => pc'[g] = pc[g] /\ loc'[g] = loc[g]
  BY DEF TypeOK, Effect

(* A step of a frame that leaves the link and the journal alone.           *)
LEMMA EffectExplain ==
    ASSUME ExplainInv, NEW f \in Frame, NEW l, NEW b, Effect(f, l, b),
           active' = active, journal' = journal, orphans' = orphans,
           b.op # "skill_upgrade",
           (b.op \in LockedOps
            /\ l \in {"apply", "wait", "post", "call", "mark", "commit", "abort"}) =>
              InTransaction(f) /\ b.tx = loc[f].tx /\ b.op = loc[f].op,
           (l = "commit" /\ b.op \in {"system_update", "rollback"}) => b.new = active
    PROVE  Explained'
  <1>1. /\ pc'[f] = l /\ loc'[f] = b
        /\ \A g \in Frame : g # f => pc'[g] = pc[g] /\ loc'[g] = loc[g]
    BY EffectFacts DEF ExplainInv, LockInv
  <1>2. ASSUME NEW g \in Frame, InTransaction(g)'
        PROVE  InTransaction(g) /\ loc'[g].tx = loc[g].tx /\ loc'[g].op = loc[g].op
    BY <1>1, <1>2 DEF InTransaction, Critical
  <1>3. ASSUME NEW g \in Frame,
               pc'[g] = "commit" /\ loc'[g].op \in {"system_update", "rollback"}
        PROVE  \/ pc[g] = "commit" /\ loc'[g].op = loc[g].op /\ loc'[g].new = loc[g].new
               \/ loc'[g].new = active
    BY <1>1, <1>3
  <1>4. NoBypass'
    BY <1>1 DEF ExplainInv, NoBypass
  <1> QED BY <1>2, <1>3, <1>4, QuietExplain DEF Explained

(* The call of a nested rollback and its return.                           *)
LEMMA NestedExplain ==
    ASSUME ExplainInv, NEW f \in Frame, NEW l, NEW m, NEW b, NEW c,
           f # Inner(f[1]),
           pc' = [pc EXCEPT ![f] = l, ![Inner(f[1])] = m],
           loc' = [loc EXCEPT ![f] = b, ![Inner(f[1])] = c],
           active' = active, journal' = journal, orphans' = orphans,
           l # "commit", m \in {"simulate", "idle"},
           b.op = loc[f].op, b.op # "skill_upgrade", c.op # "skill_upgrade",
           b.op \in LockedOps => InTransaction(f) /\ b.tx = loc[f].tx
    PROVE  Explained'
  <1>0. Inner(f[1]) \in Frame
    BY FrameType
  <1>1. /\ pc'[f] = l /\ loc'[f] = b
        /\ pc'[Inner(f[1])] = m /\ loc'[Inner(f[1])] = c
        /\ \A g \in Frame : g # f /\ g # Inner(f[1]) => pc'[g] = pc[g] /\ loc'[g] = loc[g]
    BY <1>0 DEF ExplainInv, LockInv, TypeOK
  <1>2. ASSUME NEW g \in Frame, InTransaction(g)'
        PROVE  InTransaction(g) /\ loc'[g].tx = loc[g].tx /\ loc'[g].op = loc[g].op
    BY <1>1, <1>2 DEF InTransaction, Critical
  <1>3. ASSUME NEW g \in Frame,
               pc'[g] = "commit" /\ loc'[g].op \in {"system_update", "rollback"}
        PROVE  \/ pc[g] = "commit" /\ loc'[g].op = loc[g].op /\ loc'[g].new = loc[g].new
               \/ loc'[g].new = active
    BY <1>1, <1>3
  <1>4. NoBypass'
    BY <1>1 DEF ExplainInv, NoBypass
  <1> QED BY <1>2, <1>3, <1>4, QuietExplain DEF Explained

(* A return leaves no transaction behind in its frame.                     *)
LEMMA ReturnExplain ==
    ASSUME ExplainInv, NEW f \in Frame, NEW ok, Return(f, ok),
           active' = active, journal' = journal, orphans' = orphans
    PROVE  Explained'
  <1> DEFINE b == [Blank EXCEPT !.ok = ok /\ f[2] = "rb"]
  <1>1. b.op = "none"
    BY DEF Blank
  <1>2. Effect(f, "idle", b)
    BY DEF Return, Goto, Effect
  <1> HIDE DEF b
  <1> QED BY <1>1, <1>2, EffectExplain

(* A step of a frame that writes one record of the journal.  Only the      *)
(* owner of the transaction under way may commit it, and what it commits   *)
(* is where the link is.                                                   *)
LEMMA WriteExplain ==
    ASSUME ExplainInv, NEW f \in Frame, NEW l, NEW b, Effect(f, l, b),
           NEW i, NEW s, NEW n, UpdateTransaction(i, s, n),
           active' = active, orphans' = orphans,
           b.op # "skill_upgrade", l # "commit",
           (b.op \in LockedOps
            /\ l \in {"apply", "wait", "post", "call", "mark", "abort"}) =>
              InTransaction(f) /\ b.tx = loc[f].tx /\ b.op = loc[f].op,
           s = "COMMITTED" =>
              /\ \A g \in Frame : g # f => ~ InTransaction(g)
              /\ l = "release"
              /\ journal[i].op \in {"system_update", "rollback"} => n = active
    PROVE  Explained'
  <1>1. /\ pc'[f] = l /\ loc'[f] = b
        /\ \A g \in Frame : g # f => pc'[g] = pc[g] /\ loc'[g] = loc[g]
    BY EffectFacts DEF ExplainInv, LockInv
  <1>2. /\ DOMAIN journal' = DOMAIN journal
        /\ \A j \in DOMAIN journal : journal'[j].op = journal[j].op
        /\ \A j \in DOMAIN journal : j # i => journal'[j] = journal[j]
        /\ Present(i) => /\ i \in DOMAIN journal
                         /\ journal'[i].state = s /\ journal'[i].new = n
        /\ ~ Present(i) => journal' = journal
    BY UpdateTransactionFacts DEF ExplainInv, LockInv
  <1>3. NoBypass'
    BY <1>1 DEF ExplainInv, NoBypass
  <1>4. VerifiedIsActive'
    BY <1>1 DEF ExplainInv, VerifiedIsActive
  <1>5. TransactionsOK'
    <2> SUFFICES ASSUME NEW g \in Frame, InTransaction(g)'
                 PROVE  /\ loc'[g].tx \in DOMAIN journal'
                        /\ journal'[loc'[g].tx].op = loc'[g].op
                        /\ journal'[loc'[g].tx].state # "COMMITTED"
                        /\ loc'[g].op \in ProfileOps =>
                              \A j \in DOMAIN journal' :
                                 j > loc'[g].tx => journal'[j].op \notin ProfileOps
      BY DEF TransactionsOK
    <2>1. InTransaction(g) /\ loc'[g].tx = loc[g].tx /\ loc'[g].op = loc[g].op
      BY <1>1 DEF InTransaction, Critical
    <2>2. s # "COMMITTED"
      BY <1>1, <2>1 DEF InTransaction
    <2>3. /\ loc[g].tx \in DOMAIN journal
          /\ journal[loc[g].tx].op = loc[g].op
          /\ journal[loc[g].tx].state # "COMMITTED"
          /\ loc[g].op \in ProfileOps =>
                \A j \in DOMAIN journal : j > loc[g].tx => journal[j].op \notin ProfileOps
      BY <2>1 DEF ExplainInv, TransactionsOK
    <2>4. journal'[loc[g].tx].state # "COMMITTED"
      BY <1>2, <2>2, <2>3
    <2> QED BY <1>2, <2>1, <2>3, <2>4
  <1>6. JournalExplainsProfile'
    <2> SUFFICES ASSUME NEW k \in DOMAIN journal',
                        journal'[k].op \in {"system_update", "rollback"},
                        journal'[k].state = "COMMITTED",
                        \A j \in DOMAIN journal' : j > k => journal'[j].op \notin ProfileOps
                 PROVE  active' = journal'[k].new
      BY DEF JournalExplainsProfile
    <2>1. /\ k \in DOMAIN journal
          /\ journal[k].op \in {"system_update", "rollback"}
          /\ \A j \in DOMAIN journal : j > k => journal[j].op \notin ProfileOps
      BY <1>2
    <2>2. CASE k = i /\ Present(i)
      BY <1>2, <2>1, <2>2
    <2>3. CASE ~ (k = i /\ Present(i))
      <3>1. journal'[k] = journal[k]
        BY <1>2, <2>1, <2>3
      <3> QED BY <2>1, <3>1 DEF ExplainInv, JournalExplainsProfile
    <2> QED BY <2>2, <2>3
  <1> QED BY <1>3, <1>4, <1>5, <1>6 DEF Explained

(* start_transaction: the new record is the youngest, and while its frame  *)
(* holds the operation lock no other transaction is under way.             *)
LEMMA StartExplain ==
    ASSUME ExplainInv, NEW f \in Frame, StartTransaction(f), ~ unusable
    PROVE  Explained'
  <1> DEFINE l == IF loc[f].op = "storage_diet" THEN "wait" ELSE "apply"
             b == [loc[f] EXCEPT !.tx = Len(journal) + 1]
             r == [op |-> loc[f].op, state |-> "PENDING", prev |-> loc[f].prev, new |-> 0]
  <1>0. LockInv /\ TypeOK /\ loc[f] \in Local /\ loc[f].op \in OpName
    BY DEF ExplainInv, LockInv, TypeOK, Local
  <1>1. /\ pc[f] = "start" /\ loc[f].op \in LockedOps /\ Critical(f)
        /\ loc[f].op # "skill_upgrade"
    BY <1>0, LabelFacts DEF LockInv, FramesOK, StartTransaction, Critical, LockedOps
  <1>2. b.op = loc[f].op /\ b.tx = Len(journal) + 1 /\ l \in {"wait", "apply"}
        /\ r.op = loc[f].op /\ r.state = "PENDING"
    BY <1>0 DEF Local
  <1>3. Effect(f, l, b) /\ journal' = Append(journal, r) /\ active' = active
        /\ orphans' = orphans
    BY DEF StartTransaction, Goto, Effect
  <1> HIDE DEF l, b, r
  <1>4. /\ pc'[f] = l /\ loc'[f] = b
        /\ \A g \in Frame : g # f => pc'[g] = pc[g] /\ loc'[g] = loc[g]
    BY <1>0, <1>3, EffectFacts
  <1>5. /\ Len(journal) \in Nat
        /\ DOMAIN journal = 1 .. Len(journal)
        /\ DOMAIN journal' = 1 .. Len(journal) + 1
        /\ journal'[Len(journal) + 1] = r
        /\ \A j \in DOMAIN journal : journal'[j] = journal[j]
    BY <1>0, <1>3 DEF TypeOK
  <1>6. \A g \in Frame : g # f => ~ InTransaction(g)
    BY <1>0, <1>1, Alone
  <1>7. NoBypass'
    BY <1>1, <1>2, <1>3, <1>4 DEF ExplainInv, NoBypass
  <1>8. VerifiedIsActive'
    BY <1>2, <1>3, <1>4 DEF ExplainInv, VerifiedIsActive
  <1>9. TransactionsOK'
    <2>1. ASSUME NEW g \in Frame, InTransaction(g)' PROVE g = f
      BY <1>4, <1>6, <2>1 DEF InTransaction, Critical
    <2>2. /\ loc'[f].tx = Len(journal) + 1 /\ loc'[f].op = loc[f].op
          /\ loc'[f].tx \in DOMAIN journal'
          /\ journal'[loc'[f].tx].op = loc'[f].op
          /\ journal'[loc'[f].tx].state # "COMMITTED"
          /\ \A j \in DOMAIN journal' : ~ (j > loc'[f].tx)
      BY <1>2, <1>4, <1>5
    <2> QED BY <2>1, <2>2 DEF TransactionsOK
  <1>10. JournalExplainsProfile'
    <2> SUFFICES ASSUME NEW k \in DOMAIN journal',
                        journal'[k].op \in {"system_update", "rollback"},
                        journal'[k].state = "COMMITTED",
                        \A j \in DOMAIN journal' : j > k => journal'[j].op \notin ProfileOps
                 PROVE  active' = journal'[k].new
      BY DEF JournalExplainsProfile
    <2>1. k \in DOMAIN journal /\ journal'[k] = journal[k]
      BY <1>2, <1>5
    <2>2. \A j \in DOMAIN journal : j > k => journal[j].op \notin ProfileOps
      BY <1>5
    <2> QED BY <1>3, <2>1, <2>2 DEF ExplainInv, JournalExplainsProfile
  <1> QED BY <1>7, <1>8, <1>9, <1>10 DEF Explained

(* The command of a profile operation moves the link while its own         *)
(* transaction, the youngest, is not committed; no other command does.     *)
LEMMA RunExplain ==
    ASSUME ExplainInv, NEW f \in Frame, RunCommand(f)
    PROVE  Explained'
  <1>0. LockInv /\ TypeOK /\ loc[f] \in Local /\ loc[f].op \in OpName
    BY DEF ExplainInv, LockInv, TypeOK, Local
  <1>1. pc[f] = "wait" /\ journal' = journal /\ orphans' = orphans
        /\ loc[f].op # "skill_upgrade"
    BY DEF RunCommand, ExplainInv, NoBypass
  <1>2. PICK out \in Outcomes(CommandOf(f)) :
           /\ active' = out.active
           /\ IF loc[f].op \in LockedOps
              THEN Goto(f, AfterCommand(loc[f].op, out.rc0)) /\ UNCHANGED loc
              ELSE Return(f, FALSE)
    BY DEF RunCommand
  <1>3. ASSUME loc[f].op \notin ProfileOps PROVE active' = active
    <2>1. Outcomes(CommandOf(f)) = Collect
      <3>1. CommandOf(f).op \notin {"system_update", "system_stage", "skill_upgrade", "rollback"}
        BY <1>1, <1>3 DEF CommandOf, ProfileOps
      <3> QED BY <3>1 DEF Outcomes
    <2> QED BY <1>2, <2>1 DEF Collect
  <1>4. CASE loc[f].op \in LockedOps
    <2> DEFINE l == AfterCommand(loc[f].op, out.rc0)
    <2>1. /\ l \in {"abort", "post", "commit"}
          /\ loc[f].op \in {"system_update", "rollback"} => l # "commit"
      BY DEF AfterCommand
    <2> HIDE DEF l
    <2>2. Effect(f, l, loc[f])
      BY <1>0, <1>2, <1>4 DEF Effect, Goto, TypeOK, l
    <2>3. InTransaction(f) /\ Critical(f)
      BY <1>1, <1>4 DEF InTransaction, Critical
    <2>4. CASE loc[f].op \notin ProfileOps
      BY <1>1, <1>3, <2>1, <2>2, <2>3, <2>4, EffectExplain DEF ProfileOps
    <2>5. CASE loc[f].op \in ProfileOps
      <3>1. /\ pc'[f] = l /\ loc'[f] = loc[f]
            /\ \A g \in Frame : g # f => pc'[g] = pc[g] /\ loc'[g] = loc[g]
        BY <1>0, <2>2, EffectFacts
      <3>2. \A g \in Frame : g # f => ~ InTransaction(g)
        BY <1>0, <2>3, Alone
      <3>3. NoBypass'
        BY <1>1, <3>1 DEF ExplainInv, NoBypass
      <3>4. TransactionsOK'
        <4>1. ASSUME NEW g \in Frame, InTransaction(g)' PROVE g = f
          BY <3>1, <3>2, <4>1 DEF InTransaction, Critical
        <4> QED BY <1>1, <2>3, <3>1, <4>1 DEF ExplainInv, TransactionsOK
      <3>5. VerifiedIsActive'
        <4>1. ASSUME NEW g \in Frame, pc'[g] = "commit",
                     loc'[g].op \in {"system_update", "rollback"}
              PROVE  g # f /\ InTransaction(g)
          BY <2>1, <3>1, <4>1 DEF InTransaction, Critical, LockedOps
        <4> QED BY <3>2, <4>1 DEF VerifiedIsActive
      <3>6. JournalExplainsProfile'
        <4>1. /\ loc[f].tx \in DOMAIN journal
              /\ journal[loc[f].tx].op \in ProfileOps
              /\ journal[loc[f].tx].state # "COMMITTED"
              /\ \A j \in DOMAIN journal : j > loc[f].tx => journal[j].op \notin ProfileOps
          BY <2>3, <2>5 DEF ExplainInv, TransactionsOK
        <4>2. DOMAIN journal \subseteq Nat
          BY <1>0 DEF TypeOK
        <4> SUFFICES ASSUME NEW k \in DOMAIN journal,
                            journal[k].op \in {"system_update", "rollback"},
                            journal[k].state = "COMMITTED",
                            \A j \in DOMAIN journal : j > k => journal[j].op \notin ProfileOps
                     PROVE  FALSE
          BY <1>1 DEF JournalExplainsProfile
        <4>3. journal[k].op \in ProfileOps /\ k # loc[f].tx
          BY <4>1 DEF ProfileOps
        <4>4. k > loc[f].tx \/ loc[f].tx > k
          BY <4>1, <4>2, <4>3
        <4> QED BY <4>1, <4>3, <4>4
      <3> QED BY <3>3, <3>4, <3>5, <3>6 DEF Explained
    <2> QED BY <2>4, <2>5
  <1>5. CASE loc[f].op \notin LockedOps
    <2>1. loc[f].op \notin ProfileOps
      BY <1>5 DEF LockedOps, ProfileOps
    <2> QED BY <1>1, <1>2, <1>3, <1>5, <2>1, ReturnExplain
  <1> QED BY <1>4, <1>5

LEMMA StepExplain ==
    ASSUME ExplainInv, NEW f \in Frame, Step(f)
    PROVE  Explained'
  <1> USE FrameType
  <1>0. /\ LockInv /\ TypeOK /\ FramesOK /\ loc[f] \in Local
        /\ loc[f].op # "skill_upgrade" /\ active \in Generation
    BY DEF ExplainInv, LockInv, TypeOK, NoBypass
  <1>i. ASSUME pc[f] \notin {"idle", "simulate"}, loc[f].op # "rollback"
        PROVE  f # Inner(f[1])
    BY <1>0, <1>i, FrameCases DEF FramesOK
  <1>1. CASE Simulate(f)
    <2>1. CASE Return(f, FALSE)
      BY <1>1, <2>1, ReturnExplain DEF Simulate
    <2>2. ASSUME NEW t, Goto(f, "read"), loc' = [loc EXCEPT ![f].target = t]
          PROVE  Explained'
      <3> DEFINE b == [loc[f] EXCEPT !.target = t]
      <3>1. b.op = loc[f].op /\ Effect(f, "read", b)
        BY <1>0, <2>2 DEF Local, Effect, Goto
      <3> HIDE DEF b
      <3> QED BY <1>0, <1>1, <3>1, EffectExplain DEF Simulate
    <2> QED BY <1>1, <2>1, <2>2 DEF Simulate
  <1>2. CASE ReadActive(f)
    <2>1. CASE Return(f, FALSE)
      BY <1>2, <2>1, ReturnExplain DEF ReadActive
    <2>2. CASE Goto(f, "lock") /\ loc' = [loc EXCEPT ![f].prev = active]
      <3> DEFINE b == [loc[f] EXCEPT !.prev = active]
      <3>1. b.op = loc[f].op /\ Effect(f, "lock", b)
        BY <1>0, <2>2 DEF Local, Effect, Goto
      <3> HIDE DEF b
      <3> QED BY <1>0, <1>2, <3>1, EffectExplain DEF ReadActive
    <2> QED BY <1>2, <2>1, <2>2 DEF ReadActive
  <1>3. CASE AcquireLock(f)
    <2>1. CASE Return(f, FALSE)
      BY <1>3, <2>1, ReturnExplain DEF AcquireLock
    <2>2. CASE Goto(f, "start") /\ UNCHANGED loc
      <3>1. Effect(f, "start", loc[f])
        BY <1>0, <2>2 DEF Effect, Goto, TypeOK
      <3> QED BY <1>0, <1>3, <3>1, EffectExplain DEF AcquireLock
    <2> QED BY <1>3, <2>1, <2>2 DEF AcquireLock
  <1>4. CASE StartTransaction(f)
    <2>1. CASE ~ unusable
      BY <1>4, <2>1, StartExplain
    <2>2. CASE unusable /\ loc[f].op = "storage_diet"
      <3>1. Effect(f, "release", loc[f])
        BY <1>0, <1>4, <2>2 DEF Effect, Goto, StartTransaction, TypeOK
      <3> QED BY <1>0, <1>4, <2>2, <3>1, EffectExplain DEF StartTransaction
    <2>3. CASE unusable /\ loc[f].op # "storage_diet"
      BY <1>4, <2>3, ReturnExplain DEF StartTransaction
    <2> QED BY <2>1, <2>2, <2>3
  <1>5. CASE Apply(f)
    <2>1. PICK l \in {"wait", "abort"} : Goto(f, l) /\ loc' = loc
      BY <1>5 DEF Apply
    <2>2. Effect(f, l, loc[f])
      BY <1>0, <2>1 DEF Effect, Goto, TypeOK
    <2>3. pc[f] = "apply" /\ UpdateTransaction(loc[f].tx, "APPLYING", 0)
          /\ active' = active /\ orphans' = orphans
      BY <1>5 DEF Apply
    <2>4. loc[f].op \in LockedOps => InTransaction(f)
      BY <2>3 DEF InTransaction, Critical
    <2> QED BY <1>0, <2>2, <2>3, <2>4, WriteExplain
  <1>6. CASE RunCommand(f)
    BY <1>6, RunExplain
  <1>7. ASSUME NEW probe \in BOOLEAN, NEW auto \in BOOLEAN, HealthCheck(f, probe, auto)
        PROVE  Explained'
    <2> DEFINE seen == [loc[f] EXCEPT !.new = active]
               c    == [Blank EXCEPT !.op = "rollback", !.arg = loc[f].prev]
    <2>1. seen.op = loc[f].op /\ seen.tx = loc[f].tx /\ seen.new = active
          /\ c.op = "rollback"
      BY <1>0 DEF Local, Blank
    <2>2. InTransaction(f) /\ loc[f].op = "system_update" /\ pc[f] = "post"
          /\ active' = active /\ journal' = journal /\ orphans' = orphans
      BY <1>7 DEF HealthCheck, InTransaction, Critical, LockedOps
    <2>3. \/ \E l \in {"commit", "abort"} : Effect(f, l, seen)
          \/ /\ pc' = [pc EXCEPT ![f] = "call", ![Inner(f[1])] = "simulate"]
             /\ loc' = [loc EXCEPT ![f] = seen, ![Inner(f[1])] = c]
      BY <1>7 DEF HealthCheck, Effect, Goto, CallRollback
    <2> HIDE DEF seen, c
    <2>4. ASSUME NEW l \in {"commit", "abort"}, Effect(f, l, seen) PROVE Explained'
      BY <1>0, <2>1, <2>2, <2>4, EffectExplain
    <2>5. CASE /\ pc' = [pc EXCEPT ![f] = "call", ![Inner(f[1])] = "simulate"]
               /\ loc' = [loc EXCEPT ![f] = seen, ![Inner(f[1])] = c]
      BY <1>0, <1>i, <2>1, <2>2, <2>5, NestedExplain
    <2> QED BY <2>3, <2>4, <2>5
  <1>8. CASE VerifyRollback(f)
    <2> DEFINE b == [loc[f] EXCEPT !.new = active]
    <2>1. b.op = loc[f].op /\ b.tx = loc[f].tx /\ b.new = active
      BY <1>0 DEF Local
    <2>2. InTransaction(f) /\ active' = active /\ journal' = journal /\ orphans' = orphans
      BY <1>8 DEF VerifyRollback, InTransaction, Critical, LockedOps
    <2>3. \E l \in {"commit", "abort"} : Effect(f, l, b)
      BY <1>8 DEF VerifyRollback, Effect, Goto
    <2> HIDE DEF b
    <2> QED BY <1>0, <2>1, <2>2, <2>3, EffectExplain
  <1>9. CASE AutoRollbackReturns(f)
    <2> DEFINE b == [loc[f] EXCEPT !.new = active]
    <2>1. b.op = loc[f].op /\ b.tx = loc[f].tx /\ Blank.op = "none"
      BY <1>0 DEF Local, Blank
    <2>2. InTransaction(f) /\ loc[f].op = "system_update" /\ pc[f] = "call"
          /\ active' = active /\ journal' = journal /\ orphans' = orphans
      BY <1>9 DEF AutoRollbackReturns, InTransaction, Critical, LockedOps
    <2>3. /\ pc' = [pc EXCEPT ![f] = "mark", ![Inner(f[1])] = "idle"]
          /\ loc' = [loc EXCEPT ![f] = b, ![Inner(f[1])] = Blank]
      BY <1>0, <1>9, <1>i, <2>2 DEF AutoRollbackReturns, Goto, TypeOK
    <2> HIDE DEF b
    <2> QED BY <1>0, <1>i, <2>1, <2>2, <2>3, NestedExplain
  <1>10. CASE FinishTransaction(f)
    <2> DEFINE b == [loc[f] EXCEPT !.ok = pc[f] = "commit" /\ Present(loc[f].tx)]
               n == IF pc[f] = "abort" THEN 0 ELSE loc[f].new
    <2>1. b.op = loc[f].op /\ b.tx = loc[f].tx
      BY <1>0 DEF Local
    <2>2. /\ UpdateTransaction(loc[f].tx, Final(pc[f]), n)
          /\ active' = active /\ orphans' = orphans /\ pc[f] \in {"commit", "abort", "mark"}
          /\ \/ Effect(f, "release", b)
             \/ Effect(f, "abort", b) /\ ~ Present(loc[f].tx)
      BY <1>10 DEF FinishTransaction, Effect, Goto
    <2>3. InTransaction(f) /\ Critical(f)
      BY <1>0, <2>2, LabelFacts DEF InTransaction, Critical
    <2>4. \A g \in Frame : g # f => ~ InTransaction(g)
      BY <1>0, <2>3, Alone
    <2>5. Final(pc[f]) = "COMMITTED" => pc[f] = "commit"
      BY <2>2 DEF Final
    <2>6. journal[loc[f].tx].op = loc[f].op
      BY <2>3 DEF ExplainInv, TransactionsOK
    <2>7. pc[f] = "commit" /\ loc[f].op \in {"system_update", "rollback"} => n = active
      BY DEF ExplainInv, VerifiedIsActive
    <2> HIDE DEF b, n
    <2>8. CASE Effect(f, "release", b)
      BY <1>0, <2>1, <2>2, <2>3, <2>4, <2>5, <2>6, <2>7, <2>8, WriteExplain
    <2>9. CASE Effect(f, "abort", b) /\ ~ Present(loc[f].tx)
      <3>1. journal' = journal
        BY <1>0, <2>2, <2>9, UpdateTransactionFacts
      <3> QED BY <1>0, <2>1, <2>2, <2>3, <2>9, <3>1, EffectExplain
    <2> QED BY <2>2, <2>8, <2>9
  <1>11. CASE ReleaseLock(f)
    BY <1>11, ReturnExplain DEF ReleaseLock
  <1>12. CASE RecoverNext(f)
    <2> DEFINE i    == Min(loc[f].todo)
               undo == journal[i].op \in {"system_update", "rollback"} /\ journal[i].prev # 0
               at   == undo /\ active = journal[i].prev
               next == [loc[f] EXCEPT !.tx = i, !.todo = @ \ {i}, !.ok = at]
               c    == [Blank EXCEPT !.op = "rollback", !.arg = journal[i].prev]
    <2>1. loc[f].op = "recover" /\ pc[f] = "rnext"
          /\ active' = active /\ journal' = journal /\ orphans' = orphans
      BY <1>0, <1>12, LabelFacts DEF RecoverNext
    <2>2. next.op = loc[f].op /\ c.op = "rollback" /\ "recover" \notin LockedOps
      <3> HIDE DEF i, at
      <3> QED BY <1>0 DEF Local, Blank, LockedOps
    <2>3. \/ Effect(f, "rmark", next)
          \/ /\ pc' = [pc EXCEPT ![f] = "call", ![Inner(f[1])] = "simulate"]
             /\ loc' = [loc EXCEPT ![f] = next, ![Inner(f[1])] = c]
      BY <1>12 DEF RecoverNext, Effect, Goto, CallRollback
    <2> HIDE DEF next, c
    <2>4. CASE Effect(f, "rmark", next)
      BY <1>0, <2>1, <2>2, <2>4, EffectExplain
    <2>5. CASE /\ pc' = [pc EXCEPT ![f] = "call", ![Inner(f[1])] = "simulate"]
               /\ loc' = [loc EXCEPT ![f] = next, ![Inner(f[1])] = c]
      <3>1. f # Inner(f[1]) /\ next.op \notin LockedOps /\ next.op # "skill_upgrade"
            /\ c.op # "skill_upgrade"
        BY <1>i, <2>1, <2>2
      <3> QED BY <2>1, <2>2, <2>5, <3>1, NestedExplain
    <2> QED BY <2>3, <2>4, <2>5
  <1>13. CASE RecoverRollbackReturns(f)
    <2> DEFINE b == [loc[f] EXCEPT !.ok = loc[Inner(f[1])].ok]
    <2>1. b.op = loc[f].op /\ Blank.op = "none" /\ "recover" \notin LockedOps
      BY <1>0 DEF Local, Blank, LockedOps
    <2>2. loc[f].op = "recover" /\ pc[f] = "call"
          /\ active' = active /\ journal' = journal /\ orphans' = orphans
      BY <1>13 DEF RecoverRollbackReturns
    <2>3. /\ pc' = [pc EXCEPT ![f] = "rmark", ![Inner(f[1])] = "idle"]
          /\ loc' = [loc EXCEPT ![f] = b, ![Inner(f[1])] = Blank]
      BY <1>0, <1>13, <1>i, <2>2 DEF RecoverRollbackReturns, Goto, TypeOK
    <2> HIDE DEF b
    <2>4. f # Inner(f[1]) /\ b.op \notin LockedOps /\ b.op # "skill_upgrade"
          /\ Blank.op # "skill_upgrade"
      BY <1>i, <2>1, <2>2
    <2> QED BY <2>1, <2>2, <2>3, <2>4, NestedExplain
  <1>14. CASE RecoverMark(f)
    <2>1. loc[f].op = "recover" /\ "recover" \notin LockedOps
          /\ active' = active /\ orphans' = orphans
      BY <1>0, <1>14, LabelFacts DEF RecoverMark, LockedOps
    <2>2. PICK s \in {"ROLLED_BACK", "FAILED"} : UpdateTransaction(loc[f].tx, s, 0)
      BY <1>14 DEF RecoverMark
    <2>3. CASE Goto(f, "rnext") /\ UNCHANGED loc
      <3>1. Effect(f, "rnext", loc[f])
        BY <1>0, <2>3 DEF Effect, Goto, TypeOK
      <3>2. s # "COMMITTED" /\ "rnext" \notin {"commit", "apply", "wait", "post", "call",
                                               "mark", "abort"}
        BY <2>2
      <3> QED BY <1>0, <2>1, <2>2, <3>1, <3>2, WriteExplain
    <2>4. CASE ~ Present(loc[f].tx) /\ Return(f, FALSE)
      <3>1. journal' = journal
        BY <2>2, <2>4 DEF UpdateTransaction
      <3> QED BY <2>1, <2>4, <3>1, ReturnExplain
    <2> QED BY <1>14, <2>3, <2>4 DEF RecoverMark
  <1>15. CASE RecoverEnd(f)
    BY <1>15, ReturnExplain DEF RecoverEnd
  <1> QED BY <1>1, <1>2, <1>3, <1>4, <1>5, <1>6, <1>7, <1>8, <1>9, <1>10, <1>11,
             <1>12, <1>13, <1>14, <1>15 DEF Step

(* An operation begins without a lock and without a transaction.           *)
LEMMA BeginExplain ==
    ASSUME ExplainInv, "skill_upgrade" \notin Ops, NEW p \in Procs, BeginOperation(p)
    PROVE  Explained'
  <1> USE FrameType
  <1>0. active' = active /\ journal' = journal /\ orphans' = orphans
    BY DEF BeginOperation, UpdateBegin, StageBegin, RollbackBegin, DietBegin,
           UnlockedBegin, RecoverBegin
  <1>1. ASSUME NEW l, NEW b, Effect(Outer(p), l, b), b.op # "skill_upgrade",
               b.op \in LockedOps => l \in {"lock", "simulate"}, l # "commit"
        PROVE  Explained'
    BY <1>0, <1>1, EffectExplain
  <1>2. CASE UpdateBegin(p)
    <2> DEFINE b == [Blank EXCEPT !.op = "system_update", !.prev = active]
    <2>1. b.op = "system_update" /\ Effect(Outer(p), "lock", b)
      BY <1>2 DEF Blank, UpdateBegin, Begin, Effect
    <2> HIDE DEF b
    <2> QED BY <1>1, <2>1
  <1>3. CASE StageBegin(p)
    <2> DEFINE b == [Blank EXCEPT !.op = "system_stage", !.prev = active]
    <2>1. b.op = "system_stage" /\ Effect(Outer(p), "lock", b)
      BY <1>3 DEF Blank, StageBegin, Begin, Effect
    <2> HIDE DEF b
    <2> QED BY <1>1, <2>1
  <1>4. ASSUME NEW g \in Generation, RollbackBegin(p, g) PROVE Explained'
    <2> DEFINE b == [Blank EXCEPT !.op = "rollback", !.arg = g]
    <2>1. b.op = "rollback" /\ Effect(Outer(p), "simulate", b)
      BY <1>4 DEF Blank, RollbackBegin, Begin, Effect
    <2> HIDE DEF b
    <2> QED BY <1>1, <2>1
  <1>5. CASE DietBegin(p)
    <2> DEFINE b == [Blank EXCEPT !.op = "storage_diet"]
    <2>1. b.op = "storage_diet" /\ Effect(Outer(p), "lock", b)
      BY <1>5 DEF Blank, DietBegin, Begin, Effect
    <2> HIDE DEF b
    <2> QED BY <1>1, <2>1
  <1>6. ASSUME NEW o \in {"gc", "skill_upgrade"}, UnlockedBegin(p, o) PROVE Explained'
    <2> DEFINE b == [Blank EXCEPT !.op = o]
    <2>1. b.op = o /\ Effect(Outer(p), "wait", b) /\ o \in Ops
      BY <1>6 DEF Blank, UnlockedBegin, Begin, Effect, Free
    <2>2. o = "gc" /\ o \notin LockedOps
      BY <2>1 DEF LockedOps
    <2> HIDE DEF b
    <2> QED BY <1>1, <2>1, <2>2
  <1>7. CASE RecoverBegin(p)
    <2> DEFINE b == [Blank EXCEPT !.op = "recover", !.todo = Dangling]
    <2>1. b.op = "recover" /\ Effect(Outer(p), "rnext", b) /\ "recover" \notin LockedOps
      BY <1>7 DEF Blank, RecoverBegin, Goto, Effect, LockedOps
    <2> HIDE DEF b
    <2> QED BY <1>1, <2>1
  <1> QED BY <1>2, <1>3, <1>4, <1>5, <1>6, <1>7 DEF BeginOperation

LEMMA ExplainNext ==
    ASSUME MaxKills = 0, "skill_upgrade" \notin Ops
    PROVE  ExplainInv /\ [Next]_vars => ExplainInv'
  <1> SUFFICES ASSUME ExplainInv, [Next]_vars PROVE Explained'
    BY LockNext DEF ExplainInv, Explained
  <1>0. TypeOK /\ orphans = {}
    BY DEF ExplainInv, LockInv, NoBypass
  (* The locals, the link and the journal's contents stay as they are.     *)
  <1>q. ASSUME pc' = pc, loc' = loc, active' = active, journal' = journal,
               orphans' = orphans
        PROVE  Explained'
    BY <1>q, QuietExplain DEF Explained, ExplainInv, NoBypass, InTransaction, Critical
  <1>1. ASSUME NEW p \in Procs, ExitProcess(p) PROVE Explained'
    BY <1>1, <1>q DEF ExitProcess
  <1>2. ASSUME NEW p \in Procs, Kill(p) PROVE FALSE
    BY <1>0, <1>2 DEF Kill, TypeOK
  <1>3. CASE OrphanEnds
    BY <1>0, <1>3 DEF OrphanEnds
  <1>4. CASE Reboot
    <2>1. \A g \in Frame : pc'[g] = "idle" /\ loc'[g] = Blank
      BY <1>4 DEF Reboot
    <2>2. active' = active /\ journal' = journal /\ orphans' = {} /\ Blank.op = "none"
      BY <1>4 DEF Reboot, Blank
    <2>3. NoBypass'
      BY <2>1, <2>2 DEF NoBypass
    <2>4. \A g \in Frame : ~ InTransaction(g)'
      BY <2>1 DEF InTransaction, Critical
    <2> QED BY <2>1, <2>2, <2>3, <2>4, QuietExplain DEF Explained
  <1>5. CASE JournalFails \/ JournalReturns
    BY <1>5, <1>q DEF JournalFails, JournalReturns
  <1>6. CASE QuarantineAndReset
    <2>1. /\ DOMAIN journal' = DOMAIN journal
          /\ \A j \in DOMAIN journal : journal'[j].state = "GONE"
                                       /\ journal'[j].op = journal[j].op
      <3>1. \A j \in DOMAIN journal : journal[j] \in Tx
        BY <1>0 DEF TypeOK
      <3> QED BY <1>6, <3>1 DEF QuarantineAndReset, Tx
    <2>2. pc' = pc /\ loc' = loc /\ active' = active /\ orphans' = orphans
      BY <1>6 DEF QuarantineAndReset
    <2>3. NoBypass' /\ VerifiedIsActive'
      BY <2>2 DEF ExplainInv, NoBypass, VerifiedIsActive
    <2>4. JournalExplainsProfile'
      BY <2>1 DEF JournalExplainsProfile
    <2>5. TransactionsOK'
      BY <2>1, <2>2 DEF ExplainInv, TransactionsOK, InTransaction, Critical
    <2> QED BY <2>3, <2>4, <2>5 DEF Explained
  <1>7. CASE UNCHANGED vars
    BY <1>7, <1>q DEF vars
  <1> QED BY <1>1, <1>2, <1>3, <1>4, <1>5, <1>6, <1>7, BeginExplain, StepExplain DEF Next

LEMMA ExplainInit == Init => ExplainInv
  <1> SUFFICES ASSUME Init PROVE Explained
    BY LockInit DEF ExplainInv, Explained
  <1>1. \A g \in Frame : pc[g] = "idle" /\ loc[g] = Blank
    BY DEF Init
  <1>2. journal = <<>> /\ orphans = {} /\ Blank.op = "none"
    BY DEF Init, Blank
  <1> QED BY <1>1, <1>2 DEF Explained, NoBypass, TransactionsOK, VerifiedIsActive,
                            JournalExplainsProfile, InTransaction, Critical

(* The journal explains the profile: when the youngest transaction of a    *)
(* profile operation is a COMMITTED update or rollback, the link is at the *)
(* generation it names, for any number of processes and under power loss,  *)
(* journal damage, quarantine and concurrent recovery.  The two premises   *)
(* are needed: a killed process can leave a nix command running outside    *)
(* the lock, and the upgrade skill moves the link without lock or journal. *)
THEOREM JournalExplains ==
    ASSUME MaxKills = 0, "skill_upgrade" \notin Ops
    PROVE  Spec => []JournalExplainsProfile
  <1>1. ExplainInv => JournalExplainsProfile
    BY DEF ExplainInv
  <1>2. ExplainInv /\ [Next]_vars => ExplainInv'
    BY ExplainNext
  <1> QED BY <1>1, <1>2, ExplainInit, PTL DEF Spec

(* Only a nix command moves the link.                                      *)
LEMMA OnlyCommandsMove ==
    ASSUME [Next]_vars, active' # active, orphans = {}
    PROVE  \E f \in Frame : RunCommand(f)
  <1>1. ASSUME NEW p \in Procs, BeginOperation(p) \/ ExitProcess(p) \/ Kill(p) PROVE FALSE
    BY <1>1 DEF BeginOperation, UpdateBegin, StageBegin, RollbackBegin, DietBegin,
                UnlockedBegin, RecoverBegin, ExitProcess, Kill
  <1>2. ASSUME NEW f \in Frame, Step(f) PROVE RunCommand(f)
    BY <1>2 DEF Step, Simulate, ReadActive, AcquireLock, StartTransaction, Apply,
                HealthCheck, VerifyRollback, AutoRollbackReturns, FinishTransaction,
                ReleaseLock, RecoverNext, RecoverRollbackReturns, RecoverMark, RecoverEnd
  <1>3. ~ OrphanEnds /\ ~ Reboot /\ ~ JournalFails /\ ~ JournalReturns
        /\ ~ QuarantineAndReset /\ ~ UNCHANGED vars
    BY DEF OrphanEnds, Reboot, JournalFails, JournalReturns, QuarantineAndReset, vars
  <1> QED BY <1>1, <1>2, <1>3 DEF Next

(* The command that moves the link is one of a profile operation: garbage  *)
(* collection leaves it alone.                                             *)
LEMMA MoversAreProfileOps ==
    ASSUME NEW f \in Frame, RunCommand(f), active' # active, loc[f].op # "skill_upgrade"
    PROVE  pc[f] = "wait" /\ loc[f].op \in ProfileOps
  <1>1. PICK out \in Outcomes(CommandOf(f)) : active' = out.active /\ pc[f] = "wait"
    BY DEF RunCommand
  <1>2. ASSUME loc[f].op \notin ProfileOps PROVE FALSE
    <2>1. CommandOf(f).op \notin {"system_update", "system_stage", "skill_upgrade", "rollback"}
      BY <1>2 DEF CommandOf, ProfileOps
    <2>2. Outcomes(CommandOf(f)) = Collect
      BY <2>1 DEF Outcomes
    <2> QED BY <1>1, <2>2 DEF Collect
  <1> QED BY <1>1, <1>2

(* The link only moves while the frame whose command moves it holds the    *)
(* operation lock, under the same two premises.                            *)
THEOREM LinkMovesUnderLock ==
    ASSUME MaxKills = 0, "skill_upgrade" \notin Ops
    PROVE  Spec => MovesUnderLock
  <1>1. ExplainInv /\ [Next]_vars =>
           [active' # active => \E f \in Frame : opLock = f /\ pc[f] = "wait"]_vars
    <2> SUFFICES ASSUME ExplainInv, [Next]_vars, active' # active
                 PROVE  \E f \in Frame : opLock = f /\ pc[f] = "wait"
      OBVIOUS
    <2>1. LockInv /\ orphans = {} /\ \A f \in Frame : loc[f].op # "skill_upgrade"
      BY DEF ExplainInv, NoBypass
    <2>2. PICK f \in Frame : RunCommand(f)
      BY <2>1, OnlyCommandsMove
    <2>3. pc[f] = "wait" /\ loc[f].op \in ProfileOps
      BY <2>1, <2>2, MoversAreProfileOps
    <2>4. Critical(f)
      BY <2>3 DEF Critical, ProfileOps, LockedOps
    <2> QED BY <2>1, <2>3, <2>4 DEF LockInv, MutualExclusion
  <1>2. ExplainInv /\ [Next]_vars => ExplainInv'
    BY ExplainNext
  <1> QED BY <1>1, <1>2, ExplainInit, PTL DEF Spec, MovesUnderLock

-----------------------------------------------------------------------------
(* What a step of one frame leaves alone.                                  *)

(* Another frame keeps its control point and its locals, unless it is the  *)
(* idle inner frame of a rollback that is called or has returned.          *)
LEMMA OthersStay ==
    ASSUME LockInv, NEW f \in Frame, Step(f), NEW g \in Frame, g # f
    PROVE  \/ pc'[g] = pc[g] /\ loc'[g] = loc[g]
           \/ g = Inner(f[1]) /\ pc[g] = "idle" /\ pc'[g] \in {"idle", "simulate"}
  <1> DEFINE Stays == pc'[g] = pc[g] /\ loc'[g] = loc[g]
             Nests == g = Inner(f[1]) /\ pc[g] = "idle" /\ pc'[g] \in {"idle", "simulate"}
  <1>0. TypeOK /\ pc \in [Frame -> Label] /\ loc \in [Frame -> Local] /\ Inner(f[1]) \in Frame
    BY FrameType DEF LockInv, TypeOK
  <1>1. ASSUME NEW local, NEW x, CallRollback(f, local, x), pc[f] \notin {"idle", "call"},
               loc[f].op # "rollback"
        PROVE  Stays \/ Nests
    <2>1. f = Outer(f[1])
      BY <1>1, FrameCases DEF LockInv, FramesOK
    <2>2. pc[Inner(f[1])] = "idle"
      <3>1. Inner(f[1])[2] = "rb" /\ Outer(Inner(f[1])[1]) = f
        BY <2>1 DEF Inner
      <3> QED BY <1>0, <1>1, <3>1 DEF LockInv, FramesOK
    <2>3. pc' = [pc EXCEPT ![f] = "call", ![Inner(f[1])] = "simulate"]
      BY <1>1 DEF CallRollback
    <2>4. g # Inner(f[1]) => Stays
      BY <1>0, <1>1 DEF CallRollback
    <2> QED BY <1>0, <2>2, <2>3, <2>4
  <1>2. ASSUME NEW ok, Return(f, ok) PROVE Stays
    BY <1>0, <1>2 DEF Return, Goto
  <1>3. CASE Simulate(f)
    BY <1>0, <1>2, <1>3 DEF Simulate, Goto
  <1>4. CASE ReadActive(f)
    BY <1>0, <1>2, <1>4 DEF ReadActive, Goto
  <1>5. CASE AcquireLock(f)
    BY <1>0, <1>2, <1>5 DEF AcquireLock, Goto
  <1>6. CASE StartTransaction(f)
    BY <1>0, <1>2, <1>6 DEF StartTransaction, Goto
  <1>7. CASE Apply(f)
    BY <1>0, <1>7 DEF Apply, Goto
  <1>8. CASE RunCommand(f)
    BY <1>0, <1>2, <1>8 DEF RunCommand, Goto
  <1>9. ASSUME NEW probe \in BOOLEAN, NEW auto \in BOOLEAN, HealthCheck(f, probe, auto)
        PROVE  Stays \/ Nests
    <2> DEFINE seen == [loc[f] EXCEPT !.new = active]
    <2>1. \/ \E l \in {"commit", "abort"} : Goto(f, l) /\ loc' = [loc EXCEPT ![f] = seen]
          \/ CallRollback(f, seen, loc[f].prev)
      BY <1>9 DEF HealthCheck
    <2>2. pc[f] = "post" /\ loc[f].op = "system_update"
      BY <1>9 DEF HealthCheck
    <2> HIDE DEF seen
    <2>3. CASE CallRollback(f, seen, loc[f].prev)
      BY <1>1, <2>2, <2>3
    <2>4. CASE \E l \in {"commit", "abort"} : Goto(f, l) /\ loc' = [loc EXCEPT ![f] = seen]
      BY <1>0, <2>4 DEF Goto
    <2> QED BY <2>1, <2>3, <2>4
  <1>10. CASE VerifyRollback(f)
    BY <1>0, <1>10 DEF VerifyRollback, Goto
  <1>11. CASE AutoRollbackReturns(f)
    BY <1>0, <1>11 DEF AutoRollbackReturns, Goto
  <1>12. CASE FinishTransaction(f)
    BY <1>0, <1>12 DEF FinishTransaction, Goto
  <1>13. CASE ReleaseLock(f)
    BY <1>2, <1>13 DEF ReleaseLock
  <1>14. CASE RecoverNext(f)
    <2>1. loc[f].op = "recover" /\ pc[f] = "rnext"
      BY <1>0, <1>14, LabelFacts DEF RecoverNext, LockInv
    <2>2. \E next, x : \/ CallRollback(f, next, x)
                       \/ Goto(f, "rmark") /\ loc' = [loc EXCEPT ![f] = next]
      BY <1>14 DEF RecoverNext
    <2> QED BY <1>0, <1>1, <2>1, <2>2 DEF Goto
  <1>15. CASE RecoverRollbackReturns(f)
    BY <1>0, <1>15 DEF RecoverRollbackReturns, Goto
  <1>16. CASE RecoverMark(f)
    BY <1>0, <1>2, <1>16 DEF RecoverMark, Goto
  <1>17. CASE RecoverEnd(f)
    BY <1>2, <1>17 DEF RecoverEnd
  <1> QED BY <1>3, <1>4, <1>5, <1>6, <1>7, <1>8, <1>9, <1>10, <1>11, <1>12, <1>13,
             <1>14, <1>15, <1>16, <1>17 DEF Step

-----------------------------------------------------------------------------
(* The operation lock is leaked by a damaged journal only.                 *)

(* With a readable journal the holder of the lock stays in its operation.  *)
LEMMA HolderStays ==
    ASSUME LockInv, ~ unusable, NEW f \in Frame, Step(f), NEW g \in Frame,
           opLock' = g, opLock = g => Critical(g)
    PROVE  Critical(g)'
  <1> DEFINE Inside == {"start", "apply", "wait", "post", "call", "mark", "commit",
                        "abort", "release"}
  <1>0. /\ TypeOK /\ pc \in [Frame -> Label] /\ loc \in [Frame -> Local]
        /\ Inner(f[1]) \in Frame /\ NoLock \notin Frame
    BY FrameType, ConstantsAssumption DEF LockInv, TypeOK
  <1>1. CASE AcquireLock(f) /\ opLock = NoLock
    <2>1. g = f /\ pc[f] = "lock" /\ pc'[f] = "start" /\ loc'[f] = loc[f]
      BY <1>0, <1>1 DEF AcquireLock, Goto
    <2>2. loc[f].op \in LockedOps
      BY <1>0, <2>1, LabelFacts DEF LockInv
    <2> QED BY <2>1, <2>2 DEF Critical
  <1>2. CASE ReleaseLock(f)
    BY <1>0, <1>2 DEF ReleaseLock
  <1>3. CASE ~ (AcquireLock(f) /\ opLock = NoLock) /\ ~ ReleaseLock(f)
    <2>1. opLock' = opLock
      BY <1>3 DEF Step, Simulate, ReadActive, AcquireLock, StartTransaction, Apply, RunCommand,
                  HealthCheck, VerifyRollback, AutoRollbackReturns, FinishTransaction,
                  RecoverNext, RecoverRollbackReturns, RecoverMark, RecoverEnd
    <2>2. Critical(g)
      BY <2>1
    <2>3. CASE g # f
      <3>1. pc'[g] = pc[g] /\ loc'[g] = loc[g]
        BY <2>2, <2>3, OthersStay DEF Critical
      <3> QED BY <2>2, <3>1 DEF Critical
    <2>4. CASE g = f
      <3> SUFFICES loc'[f].op = loc[f].op /\ pc'[f] \in Inside
        BY <2>2, <2>4 DEF Critical
      <3>0. loc[f].op \in LockedOps /\ pc[f] \in Inside /\ loc[f] \in Local
        BY <1>0, <2>2, <2>4 DEF Critical
      <3>f. f = Outer(f[1]) \/ loc[f].op = "rollback"
        BY <3>0, FrameCases DEF LockInv, FramesOK
      <3>1. CASE StartTransaction(f)
        <4>1. loc' = [loc EXCEPT ![f].tx = Len(journal) + 1]
          BY <3>1 DEF StartTransaction
        <4>2. pc' = [pc EXCEPT ![f] = "wait"] \/ pc' = [pc EXCEPT ![f] = "apply"]
          BY <3>1 DEF StartTransaction, Goto
        <4> QED BY <1>0, <3>0, <4>1, <4>2
      <3>2. CASE Apply(f)
        BY <1>0, <3>2 DEF Apply, Goto
      <3>3. CASE RunCommand(f)
        BY <1>0, <3>0, <3>3 DEF RunCommand, Goto, AfterCommand
      <3>4. ASSUME NEW probe \in BOOLEAN, NEW auto \in BOOLEAN, HealthCheck(f, probe, auto)
            PROVE  loc'[f].op = loc[f].op /\ pc'[f] \in Inside
        <4>1. loc[f].op = "system_update" /\ f # Inner(f[1])
          BY <3>4, <3>f DEF HealthCheck, Outer, Inner
        <4> DEFINE seen == [loc[f] EXCEPT !.new = active]
                   inner == [Blank EXCEPT !.op = "rollback", !.arg = loc[f].prev]
        <4>2. seen.op = loc[f].op
          BY <3>0 DEF Local
        <4>3. \/ \E l \in {"commit", "abort"} : pc' = [pc EXCEPT ![f] = l]
                                                /\ loc' = [loc EXCEPT ![f] = seen]
              \/ /\ pc' = [pc EXCEPT ![f] = "call", ![Inner(f[1])] = "simulate"]
                 /\ loc' = [loc EXCEPT ![f] = seen, ![Inner(f[1])] = inner]
          BY <3>4 DEF HealthCheck, CallRollback, Goto
        <4> HIDE DEF seen, inner
        <4> QED BY <1>0, <4>1, <4>2, <4>3
      <3>5. CASE VerifyRollback(f)
        BY <1>0, <3>0, <3>5 DEF VerifyRollback, Goto
      <3>6. CASE AutoRollbackReturns(f)
        <4>1. loc[f].op = "system_update" /\ f # Inner(f[1])
          BY <3>6, <3>f DEF AutoRollbackReturns, Outer, Inner
        <4> DEFINE seen == [loc[f] EXCEPT !.new = active]
        <4>2. seen.op = loc[f].op
          BY <3>0 DEF Local
        <4>3. /\ loc' = [loc EXCEPT ![f] = seen, ![Inner(f[1])] = Blank]
              /\ pc' = [pc EXCEPT ![f] = "mark"]
          BY <3>6 DEF AutoRollbackReturns, Goto
        <4> HIDE DEF seen
        <4> QED BY <1>0, <4>1, <4>2, <4>3
      <3>7. CASE FinishTransaction(f)
        BY <1>0, <3>0, <3>7 DEF FinishTransaction, Goto
      <3>8. ~ (RecoverRollbackReturns(f) \/ RecoverNext(f) \/ RecoverMark(f) \/ RecoverEnd(f)
               \/ Simulate(f) \/ ReadActive(f) \/ AcquireLock(f))
        BY <3>0 DEF RecoverRollbackReturns, RecoverNext, RecoverMark, RecoverEnd, Simulate,
                    ReadActive, AcquireLock, LockedOps
      <3> QED BY <1>3, <3>1, <3>2, <3>3, <3>4, <3>5, <3>6, <3>7, <3>8 DEF Step
    <2> QED BY <2>3, <2>4
  <1> QED BY <1>1, <1>2, <1>3

(* Nothing but a counted failure makes the journal unusable.               *)
LEMMA DamageIsCounted ==
    ASSUME TypeOK, [Next]_vars, ~ JournalFails
    PROVE  faults'.fail = faults.fail /\ (unusable' => unusable)
  <1>0. faults \in [kill : Nat, reboot : Nat, fail : Nat, repair : Nat, quarantine : Nat]
    BY DEF TypeOK
  <1>1. ASSUME NEW p \in Procs, Kill(p)
        PROVE  faults'.fail = faults.fail /\ unusable' = unusable
    BY <1>0, <1>1 DEF Kill
  <1>2. CASE Reboot
    BY <1>0, <1>2 DEF Reboot
  <1>3. CASE QuarantineAndReset \/ JournalReturns
    <2>1. unusable' => unusable
      BY <1>3 DEF QuarantineAndReset, JournalReturns
    <2>2. faults'.fail = faults.fail
      BY <1>0, <1>3 DEF QuarantineAndReset, JournalReturns
    <2> QED BY <2>1, <2>2
  <1>4. ASSUME NEW p \in Procs, BeginOperation(p) \/ ExitProcess(p)
        PROVE  faults' = faults /\ unusable' = unusable
    BY <1>4 DEF BeginOperation, UpdateBegin, StageBegin, RollbackBegin, DietBegin,
                UnlockedBegin, RecoverBegin, ExitProcess
  <1>5. ASSUME NEW f \in Frame, Step(f) PROVE faults' = faults /\ unusable' = unusable
    BY <1>5 DEF Step, Simulate, ReadActive, AcquireLock, StartTransaction, Apply,
                RunCommand, HealthCheck, VerifyRollback, AutoRollbackReturns,
                FinishTransaction, ReleaseLock, RecoverNext, RecoverRollbackReturns,
                RecoverMark, RecoverEnd
  <1>6. CASE OrphanEnds \/ UNCHANGED vars
    BY <1>6 DEF OrphanEnds, vars
  <1> QED BY <1>1, <1>2, <1>3, <1>4, <1>5, <1>6 DEF Next

LEMMA LeakNext == LeakInv /\ [Next]_vars => LeakInv'
  <1> SUFFICES ASSUME LeakInv, [Next]_vars
               PROVE  (unusable' => faults'.fail > 0) /\ LeakNeedsFailure'
    BY LockNext DEF LeakInv
  <1>0. LockInv /\ TypeOK /\ faults.fail \in Nat /\ TypeOK'
    BY TypeNext DEF LeakInv, LockInv, TypeOK
  <1>1. CASE JournalFails
    <2>1. faults'.fail > 0
      BY <1>0, <1>1 DEF JournalFails, TypeOK
    <2> QED BY <2>1 DEF LeakNeedsFailure
  <1>2. CASE ~ JournalFails
    <2>1. faults'.fail = faults.fail /\ (unusable' => unusable)
      BY <1>0, <1>2, DamageIsCounted
    <2>2. SUFFICES ASSUME NEW g \in Frame, opLock' = g, ~ Critical(g)', faults.fail = 0
                   PROVE  FALSE
      BY <1>0, <2>1 DEF LeakInv, LeakNeedsFailure
    <2>3. ~ unusable /\ (opLock = g => Critical(g)) /\ NoLock \notin Frame
      BY <2>2, ConstantsAssumption DEF LeakInv, LeakNeedsFailure
    <2>4. ASSUME NEW f \in Frame, Step(f) PROVE FALSE
      BY <1>0, <2>2, <2>3, <2>4, HolderStays
    <2>5. ASSUME NEW p \in Procs, BeginOperation(p) PROVE FALSE
      <3>1. /\ pc[Outer(p)] = "idle" /\ opLock' = opLock
            /\ \A h \in Frame : h # Outer(p) => pc'[h] = pc[h] /\ loc'[h] = loc[h]
        BY <1>0, <2>5 DEF BeginOperation, UpdateBegin, StageBegin, RollbackBegin, DietBegin,
                          UnlockedBegin, RecoverBegin, Free, Begin, Goto, TypeOK
      <3> QED BY <2>2, <2>3, <3>1 DEF Critical
    <2>6. ASSUME NEW p \in Procs, ExitProcess(p) PROVE FALSE
      BY <2>2, <2>3, <2>6 DEF ExitProcess
    <2>7. ASSUME NEW p \in Procs, Kill(p) PROVE FALSE
      <3>1. opLock = g /\ g # Outer(p) /\ g # Inner(p)
        BY <2>2, <2>3, <2>7 DEF Kill, Holds
      <3>2. pc'[g] = pc[g] /\ loc'[g] = loc[g]
        BY <1>0, <2>7, <3>1 DEF Kill, TypeOK
      <3> QED BY <2>2, <2>3, <3>1, <3>2 DEF Critical
    <2>8. CASE Reboot
      BY <2>2, <2>3, <2>8 DEF Reboot
    <2>9. CASE OrphanEnds \/ JournalReturns \/ QuarantineAndReset \/ UNCHANGED vars
      BY <2>2, <2>3, <2>9 DEF OrphanEnds, JournalReturns, QuarantineAndReset, vars, Critical
    <2> QED BY <1>2, <2>4, <2>5, <2>6, <2>7, <2>8, <2>9 DEF Next
  <1> QED BY <1>1, <1>2

(* The operation lock outlives its operation only after the journal became *)
(* unusable, damaged or not writable, for any processes, servers included: *)
(* no other path through update, stage, rollback, diet or recovery leaves  *)
(* the descriptor open.                                                    *)
THEOREM LeaksNeedFailure == Spec => []LeakNeedsFailure
  <1>1. Init => LeakInv
    BY LockInit, ConstantsAssumption DEF Init, LeakInv, LeakNeedsFailure
  <1>2. LeakInv => LeakNeedsFailure
    BY DEF LeakInv
  <1> QED BY <1>1, <1>2, LeakNext, PTL DEF Spec

-----------------------------------------------------------------------------
(* Without recovery and quarantine a transaction belongs to its operation. *)

(* The steps that write the journal.                                       *)
LEMMA JournalWriters ==
    ASSUME NEW f \in Frame, Step(f), journal' # journal
    PROVE  StartTransaction(f) \/ Apply(f) \/ FinishTransaction(f) \/ RecoverMark(f)
  BY DEF Step, Simulate, ReadActive, AcquireLock, RunCommand, HealthCheck, VerifyRollback,
         AutoRollbackReturns, ReleaseLock, RecoverNext, RecoverRollbackReturns, RecoverEnd

(* The record of a frame keeps its operation when a field other than op is *)
(* written, and a returned frame has none.                                 *)
LEMMA ReturnFacts ==
    ASSUME TypeOK, NEW f \in Frame, NEW ok, Return(f, ok)
    PROVE  pc'[f] = "idle" /\ loc'[f].op = "none"
  BY DEF Return, Goto, TypeOK, Blank

(* A step inside a transaction opens it, announces it or goes on with it.  *)
LEMMA OwnMoves ==
    ASSUME LockInv, NEW f \in Frame, Step(f)
    PROVE  /\ loc'[f].op \in {loc[f].op, "none"}
           /\ InTransaction(f)' =>
                \/ /\ StartTransaction(f) /\ ~ unusable
                   /\ loc'[f].tx = Len(journal) + 1
                   /\ pc'[f] = "wait" => loc[f].op = "storage_diet"
                \/ Apply(f) /\ Present(loc[f].tx) /\ loc'[f] = loc[f]
                \/ /\ InTransaction(f) /\ loc'[f].tx = loc[f].tx
                   /\ pc'[f] # "wait" /\ journal' = journal
  <1> DEFINE Opens == /\ StartTransaction(f) /\ ~ unusable
                      /\ loc'[f].tx = Len(journal) + 1
                      /\ pc'[f] = "wait" => loc[f].op = "storage_diet"
             Announces == Apply(f) /\ Present(loc[f].tx) /\ loc'[f] = loc[f]
             GoesOn == /\ InTransaction(f) /\ loc'[f].tx = loc[f].tx
                       /\ pc'[f] # "wait" /\ journal' = journal
             Good == /\ loc'[f].op \in {loc[f].op, "none"}
                     /\ InTransaction(f)' => Opens \/ Announces \/ GoesOn
  <1> SUFFICES Good
    OBVIOUS
  <1>0. /\ TypeOK /\ pc \in [Frame -> Label] /\ loc \in [Frame -> Local] /\ FramesOK
        /\ Inner(f[1]) \in Frame /\ loc[f] \in Local
    BY FrameType DEF LockInv, TypeOK
  <1>r. ASSUME NEW ok, Return(f, ok) PROVE Good
    BY <1>0, <1>r, ReturnFacts DEF InTransaction, Critical
  (* The frame moves to a place outside any transaction.                   *)
  <1>o. ASSUME loc'[f].op = loc[f].op, pc'[f] \in {"read", "lock", "start", "release"}
        PROVE  Good
    BY <1>o DEF InTransaction, Critical
  <1>n. ASSUME loc'[f].op = loc[f].op, loc[f].op \notin LockedOps PROVE Good
    BY <1>n DEF InTransaction, Critical
  <1>g. ASSUME InTransaction(f), loc'[f].op = loc[f].op, loc'[f].tx = loc[f].tx,
               pc'[f] # "wait", journal' = journal
        PROVE  Good
    BY <1>g
  <1>1. CASE Simulate(f)
    <2>1. CASE Return(f, FALSE)
      BY <1>r, <2>1
    <2>2. ASSUME NEW t, Goto(f, "read"), loc' = [loc EXCEPT ![f].target = t] PROVE Good
      <3>1. loc'[f].op = loc[f].op /\ pc'[f] = "read"
        BY <1>0, <2>2 DEF Goto
      <3> QED BY <1>o, <3>1
    <2>3. Return(f, FALSE) \/ \E t : Goto(f, "read") /\ loc' = [loc EXCEPT ![f].target = t]
      BY <1>1 DEF Simulate
    <2> HIDE DEF Good
    <2> QED BY <2>1, <2>2, <2>3
  <1>2. CASE ReadActive(f)
    <2>1. CASE Return(f, FALSE)
      BY <1>r, <2>1
    <2>2. CASE Goto(f, "lock") /\ loc' = [loc EXCEPT ![f].prev = active]
      <3>1. loc'[f].op = loc[f].op /\ pc'[f] = "lock"
        BY <1>0, <2>2 DEF Goto
      <3> QED BY <1>o, <3>1
    <2> HIDE DEF Good
    <2> QED BY <1>2, <2>1, <2>2 DEF ReadActive
  <1>3. CASE AcquireLock(f)
    <2>1. CASE Return(f, FALSE)
      BY <1>r, <2>1
    <2>2. CASE Goto(f, "start") /\ UNCHANGED loc
      BY <1>0, <1>o, <2>2 DEF Goto
    <2> HIDE DEF Good
    <2> QED BY <1>3, <2>1, <2>2 DEF AcquireLock
  <1>4. CASE StartTransaction(f)
    <2>1. CASE Return(f, FALSE)
      BY <1>r, <2>1
    <2>2. CASE Goto(f, "release") /\ UNCHANGED loc
      BY <1>0, <1>o, <2>2 DEF Goto
    <2>3. CASE ~ unusable
      <3>1. loc' = [loc EXCEPT ![f].tx = Len(journal) + 1]
        BY <1>4, <2>3 DEF StartTransaction
      <3>2. pc' = [pc EXCEPT ![f] = IF loc[f].op = "storage_diet" THEN "wait" ELSE "apply"]
        BY <1>4, <2>3 DEF StartTransaction, Goto
      <3>3. loc'[f].op = loc[f].op /\ loc'[f].tx = Len(journal) + 1
        BY <1>0, <3>1 DEF Local
      <3>4. pc'[f] = "wait" => loc[f].op = "storage_diet"
        BY <1>0, <3>2
      <3> QED BY <1>4, <2>3, <3>3, <3>4
    <2> HIDE DEF Good
    <2> QED BY <1>4, <2>1, <2>2, <2>3 DEF StartTransaction
  <1>5. CASE Apply(f)
    <2>1. loc'[f] = loc[f]
      BY <1>5 DEF Apply
    <2>2. ~ Present(loc[f].tx) => pc'[f] = "abort" /\ journal' = journal
      BY <1>0, <1>5 DEF Apply, Goto, UpdateTransaction
    <2>3. loc[f].op \in LockedOps => InTransaction(f)
      BY <1>5 DEF Apply, InTransaction, Critical
    <2> QED BY <1>5, <1>g, <1>n, <2>1, <2>2, <2>3
  <1>6. CASE RunCommand(f)
    <2>1. CASE loc[f].op \in LockedOps
      <3>1. loc'[f] = loc[f] /\ journal' = journal /\ pc'[f] # "wait"
        BY <1>0, <1>6, <2>1 DEF RunCommand, Goto, AfterCommand
      <3>2. InTransaction(f)
        BY <1>6, <2>1 DEF RunCommand, InTransaction, Critical
      <3> QED BY <1>g, <3>1, <3>2
    <2>2. CASE loc[f].op \notin LockedOps
      BY <1>6, <1>r, <2>2 DEF RunCommand
    <2> QED BY <2>1, <2>2
  <1>7. ASSUME NEW probe \in BOOLEAN, NEW auto \in BOOLEAN, HealthCheck(f, probe, auto)
        PROVE  Good
    <2> DEFINE seen == [loc[f] EXCEPT !.new = active]
               inner == [Blank EXCEPT !.op = "rollback", !.arg = loc[f].prev]
    <2>1. pc[f] = "post" /\ loc[f].op = "system_update" /\ journal' = journal
      BY <1>7 DEF HealthCheck
    <2>2. f # Inner(f[1])
      BY <1>0, <2>1, FrameCases DEF FramesOK
    <2>3. seen.op = loc[f].op /\ seen.tx = loc[f].tx
      BY <1>0 DEF Local
    <2>4. \/ \E l \in {"commit", "abort"} : pc' = [pc EXCEPT ![f] = l]
                                            /\ loc' = [loc EXCEPT ![f] = seen]
          \/ /\ pc' = [pc EXCEPT ![f] = "call", ![Inner(f[1])] = "simulate"]
             /\ loc' = [loc EXCEPT ![f] = seen, ![Inner(f[1])] = inner]
      BY <1>7 DEF HealthCheck, CallRollback, Goto
    <2> HIDE DEF seen, inner
    <2>5. loc'[f] = seen /\ pc'[f] # "wait"
      BY <1>0, <2>2, <2>4
    <2>6. InTransaction(f)
      BY <2>1 DEF InTransaction, Critical, LockedOps
    <2> QED BY <1>g, <2>1, <2>3, <2>5, <2>6
  <1>8. CASE VerifyRollback(f)
    <2>1. /\ pc[f] = "post" /\ loc[f].op = "rollback" /\ journal' = journal
          /\ loc' = [loc EXCEPT ![f].new = active]
      BY <1>8 DEF VerifyRollback
    <2>2. loc'[f].op = loc[f].op /\ loc'[f].tx = loc[f].tx
      BY <1>0, <2>1 DEF Local
    <2>3. pc'[f] # "wait"
      BY <1>0, <1>8 DEF VerifyRollback, Goto
    <2>4. InTransaction(f)
      BY <2>1 DEF InTransaction, Critical, LockedOps
    <2> QED BY <1>g, <2>1, <2>2, <2>3, <2>4
  <1>9. CASE AutoRollbackReturns(f)
    <2> DEFINE seen == [loc[f] EXCEPT !.new = active]
    <2>1. /\ pc[f] = "call" /\ loc[f].op = "system_update" /\ journal' = journal
          /\ loc' = [loc EXCEPT ![f] = seen, ![Inner(f[1])] = Blank]
          /\ pc' = [pc EXCEPT ![f] = "mark"]
      BY <1>9 DEF AutoRollbackReturns, Goto
    <2>2. f # Inner(f[1])
      BY <1>0, <2>1, FrameCases DEF FramesOK
    <2>3. seen.op = loc[f].op /\ seen.tx = loc[f].tx
      BY <1>0 DEF Local
    <2> HIDE DEF seen
    <2>4. loc'[f] = seen /\ pc'[f] = "mark"
      BY <1>0, <2>1, <2>2
    <2>5. InTransaction(f)
      BY <2>1 DEF InTransaction, Critical, LockedOps
    <2> QED BY <1>g, <2>1, <2>3, <2>4, <2>5
  <1>10. CASE FinishTransaction(f)
    <2>1. loc'[f].op = loc[f].op /\ loc'[f].tx = loc[f].tx
      BY <1>0, <1>10 DEF FinishTransaction, Local
    <2>2. pc'[f] = "release" \/ (pc'[f] = "abort" /\ journal' = journal)
      BY <1>0, <1>10 DEF FinishTransaction, Goto, UpdateTransaction
    <2>3. loc[f].op \in LockedOps => InTransaction(f)
      BY <1>10 DEF FinishTransaction, InTransaction, Critical
    <2> QED BY <1>g, <1>n, <1>o, <2>1, <2>2, <2>3
  <1>11. CASE ReleaseLock(f)
    BY <1>11, <1>r DEF ReleaseLock
  <1>12. CASE RecoverNext(f)
    <2> DEFINE i    == Min(loc[f].todo)
               undo == journal[i].op \in {"system_update", "rollback"} /\ journal[i].prev # 0
               at   == undo /\ active = journal[i].prev
               next == [loc[f] EXCEPT !.tx = i, !.todo = @ \ {i}, !.ok = at]
               inner == [Blank EXCEPT !.op = "rollback", !.arg = journal[i].prev]
    <2>1. pc[f] = "rnext" /\ loc[f].op = "recover"
      BY <1>0, <1>12, LabelFacts DEF RecoverNext
    <2>2. f # Inner(f[1])
      BY <1>0, <2>1, FrameCases DEF FramesOK
    <2>3. next.op = loc[f].op
      BY <1>0 DEF Local
    <2>4. \/ loc' = [loc EXCEPT ![f] = next]
          \/ loc' = [loc EXCEPT ![f] = next, ![Inner(f[1])] = inner]
      BY <1>12 DEF RecoverNext, CallRollback
    <2> HIDE DEF next, inner
    <2>5. loc'[f] = next
      BY <1>0, <2>2, <2>4
    <2> QED BY <1>n, <2>1, <2>3, <2>5 DEF LockedOps
  <1>13. CASE RecoverRollbackReturns(f)
    <2> DEFINE next == [loc[f] EXCEPT !.ok = loc[Inner(f[1])].ok]
    <2>1. /\ loc[f].op = "recover" /\ pc[f] = "call"
          /\ loc' = [loc EXCEPT ![f] = next, ![Inner(f[1])] = Blank]
      BY <1>13 DEF RecoverRollbackReturns
    <2>2. f # Inner(f[1])
      BY <1>0, <2>1, FrameCases DEF FramesOK
    <2>3. next.op = loc[f].op
      BY <1>0 DEF Local
    <2> HIDE DEF next
    <2>4. loc'[f] = next
      BY <1>0, <2>1, <2>2
    <2> QED BY <1>n, <2>1, <2>3, <2>4 DEF LockedOps
  <1>14. CASE RecoverMark(f)
    <2>1. loc[f].op = "recover"
      BY <1>0, <1>14, LabelFacts DEF RecoverMark
    <2>2. CASE Return(f, FALSE)
      BY <1>r, <2>2
    <2>3. CASE loc' = loc
      BY <1>n, <2>1, <2>3 DEF LockedOps
    <2> HIDE DEF Good
    <2> QED BY <1>14, <2>2, <2>3 DEF RecoverMark
  <1>15. CASE RecoverEnd(f)
    BY <1>15, <1>r DEF RecoverEnd
  <1> HIDE DEF Good
  <1> QED BY <1>1, <1>2, <1>3, <1>4, <1>5, <1>6, <1>7, <1>8, <1>9, <1>10, <1>11,
             <1>12, <1>13, <1>14, <1>15 DEF Step

(* While its operation is under way, nobody else writes the journal.       *)
LEMMA OwnStep ==
    ASSUME OwnInv, NEW f \in Frame, Step(f)
    PROVE  (\A g \in Frame : loc'[g].op # "recover") /\ OwnTransactionsOK'
  <1>0. /\ LockInv /\ TypeOK /\ LockInv' /\ FramesOK' /\ loc[f].op # "recover"
        /\ Len(journal) \in Nat /\ DOMAIN journal = 1 .. Len(journal)
    BY LockNext DEF OwnInv, LockInv, TypeOK, Next
  <1>1. ASSUME NEW g \in Frame PROVE loc'[g].op # "recover"
    <2>1. CASE g = f
      BY <1>0, <2>1, OwnMoves
    <2>2. CASE g # f
      <3>1. CASE pc'[g] = pc[g] /\ loc'[g] = loc[g]
        BY <3>1 DEF OwnInv
      <3>2. CASE pc'[g] \in {"idle", "simulate"}
        BY <1>0, <3>2 DEF FramesOK, LabelsOf
      <3> QED BY <1>0, <2>2, <3>1, <3>2, OthersStay
    <2> QED BY <2>1, <2>2
  <1>2. ASSUME NEW g \in Frame, InTransaction(g)'
        PROVE  /\ loc'[g].tx \in Dangling'
               /\ journal'[loc'[g].tx].op = loc'[g].op
               /\ (pc'[g] = "wait" /\ loc'[g].op \in ProfileOps)
                  => journal'[loc'[g].tx].state = "APPLYING"
    <2>1. CASE g # f
      <3>1. pc'[g] = pc[g] /\ loc'[g] = loc[g]
        BY <1>0, <1>2, <2>1, OthersStay DEF InTransaction, Critical
      <3>2. InTransaction(g)
        BY <1>2, <3>1 DEF InTransaction, Critical
      <3>3. ~ Critical(f)
        BY <1>0, <2>1, <3>2, Alone DEF InTransaction
      <3>4. ~ (StartTransaction(f) \/ Apply(f) \/ FinishTransaction(f) \/ RecoverMark(f))
        <4>1. pc[f] \notin {"start", "apply", "commit", "abort", "mark", "rmark"}
          BY <1>0, <3>3, LabelFacts DEF Critical, LockInv
        <4> QED BY <4>1 DEF StartTransaction, Apply, FinishTransaction, RecoverMark
      <3>5. journal' = journal
        BY <3>4, JournalWriters
      <3> QED BY <3>1, <3>2, <3>5 DEF OwnInv, OwnTransactionsOK, Dangling
    <2>2. CASE g = f
      <3>1. loc'[f].op = loc[f].op
        BY <1>0, <1>2, <2>2, OwnMoves DEF InTransaction, Critical, LockedOps
      <3>2. CASE /\ StartTransaction(f) /\ ~ unusable
                 /\ loc'[f].tx = Len(journal) + 1
                 /\ pc'[f] = "wait" => loc[f].op = "storage_diet"
        <4> DEFINE r == [op |-> loc[f].op, state |-> "PENDING",
                         prev |-> loc[f].prev, new |-> 0]
        <4>1. journal' = Append(journal, r) /\ r.op = loc[f].op /\ r.state = "PENDING"
          BY <3>2 DEF StartTransaction
        <4> HIDE DEF r
        <4>2. loc'[f].tx \in DOMAIN journal' /\ journal'[loc'[f].tx] = r
          BY <1>0, <3>2, <4>1 DEF TypeOK
        <4> QED BY <2>2, <3>1, <3>2, <4>1, <4>2 DEF Dangling, ProfileOps
      <3>3. CASE Apply(f) /\ Present(loc[f].tx) /\ loc'[f] = loc[f]
        <4>1. InTransaction(f)
          BY <1>0, <3>3, LabelFacts DEF Apply, InTransaction, Critical, LockInv
        <4>2. journal[loc[f].tx].op = loc[f].op
          BY <4>1 DEF OwnInv, OwnTransactionsOK
        <4>3. UpdateTransaction(loc[f].tx, "APPLYING", 0)
          BY <3>3 DEF Apply
        <4>4. /\ loc[f].tx \in DOMAIN journal'
              /\ journal'[loc[f].tx].op = loc[f].op
              /\ journal'[loc[f].tx].state = "APPLYING"
          BY <1>0, <3>3, <4>2, <4>3, UpdateTransactionFacts
        <4> QED BY <2>2, <3>3, <4>4 DEF Dangling
      <3>4. CASE /\ InTransaction(f) /\ loc'[f].tx = loc[f].tx
                 /\ pc'[f] # "wait" /\ journal' = journal
        BY <2>2, <3>1, <3>4 DEF OwnInv, OwnTransactionsOK, Dangling
      <3> QED BY <1>0, <1>2, <2>2, <3>2, <3>3, <3>4, OwnMoves
    <2> QED BY <2>1, <2>2
  <1> QED BY <1>1, <1>2 DEF OwnTransactionsOK

LEMMA OwnNext ==
    ASSUME "recover" \notin Ops, MaxQuarantines = 0
    PROVE  OwnInv /\ [Next]_vars => OwnInv'
  <1> SUFFICES ASSUME OwnInv, [Next]_vars
               PROVE  (\A g \in Frame : loc'[g].op # "recover") /\ OwnTransactionsOK'
    BY LockNext DEF OwnInv
  <1>0. TypeOK /\ LockInv
    BY DEF OwnInv, LockInv
  (* Every frame stays as it is or is outside any transaction.             *)
  <1>q. ASSUME journal' = journal,
               \A g \in Frame : \/ pc'[g] = pc[g] /\ loc'[g] = loc[g]
                                \/ /\ \/ pc'[g] \in {"idle", "lock", "simulate"}
                                      \/ loc'[g].op \notin LockedOps
                                   /\ loc'[g].op # "recover"
        PROVE  (\A g \in Frame : loc'[g].op # "recover") /\ OwnTransactionsOK'
    <2>1. ASSUME NEW g \in Frame, InTransaction(g)'
          PROVE  InTransaction(g) /\ pc'[g] = pc[g] /\ loc'[g] = loc[g]
      BY <1>q, <2>1 DEF InTransaction, Critical
    <2>2. OwnTransactionsOK'
      BY <1>q, <2>1 DEF OwnInv, OwnTransactionsOK, Dangling
    <2> QED BY <1>q, <2>2 DEF OwnInv
  <1>1. ASSUME NEW p \in Procs, BeginOperation(p)
        PROVE  (\A g \in Frame : loc'[g].op # "recover") /\ OwnTransactionsOK'
    <2>1. journal' = journal
      BY <1>1 DEF BeginOperation, UpdateBegin, StageBegin, RollbackBegin, DietBegin,
                  UnlockedBegin, RecoverBegin
    <2>2. PICK o, l, local : /\ Begin(p, l, local) /\ local.op = o /\ o # "recover"
                             /\ l \in {"lock", "simulate"} \/ o \notin LockedOps
      <3>1. ~ RecoverBegin(p)
        BY DEF RecoverBegin
      <3>2. \A o : [Blank EXCEPT !.op = o].op = o
        BY DEF Blank
      <3>3. /\ [Blank EXCEPT !.op = "system_update", !.prev = active].op = "system_update"
            /\ [Blank EXCEPT !.op = "system_stage", !.prev = active].op = "system_stage"
            /\ \A g \in Generation : [Blank EXCEPT !.op = "rollback", !.arg = g].op = "rollback"
        BY DEF Blank
      <3> QED BY <1>1, <3>1, <3>2, <3>3
              DEF BeginOperation, UpdateBegin, StageBegin, RollbackBegin, DietBegin,
                  UnlockedBegin, LockedOps
    <2>3. \A g \in Frame : IF g = Outer(p) THEN pc'[g] = l /\ loc'[g] = local
                           ELSE pc'[g] = pc[g] /\ loc'[g] = loc[g]
      BY <1>0, <2>2 DEF Begin, TypeOK
    <2> QED BY <1>q, <2>1, <2>2, <2>3
  <1>2. ASSUME NEW p \in Procs, Kill(p)
        PROVE  (\A g \in Frame : loc'[g].op # "recover") /\ OwnTransactionsOK'
    <2>1. \A g \in Frame : \/ pc'[g] = pc[g] /\ loc'[g] = loc[g]
                           \/ pc'[g] = "idle" /\ loc'[g] = Blank
      BY <1>0, <1>2, FrameType DEF Kill, TypeOK
    <2>2. journal' = journal /\ Blank.op = "none"
      BY <1>2 DEF Kill, Blank
    <2> QED BY <1>q, <2>1, <2>2
  <1>3. CASE Reboot
    <2>1. journal' = journal /\ \A g \in Frame : pc'[g] = "idle" /\ loc'[g].op = "none"
      BY <1>3 DEF Reboot, Blank
    <2> QED BY <1>q, <2>1
  <1>4. CASE OrphanEnds \/ JournalFails \/ JournalReturns \/ (UNCHANGED vars)
    BY <1>4, <1>q DEF OrphanEnds, JournalFails, JournalReturns, vars
  <1>5. ASSUME NEW p \in Procs, ExitProcess(p)
        PROVE  (\A g \in Frame : loc'[g].op # "recover") /\ OwnTransactionsOK'
    BY <1>5, <1>q DEF ExitProcess
  <1>6. ~ QuarantineAndReset
    <2>1. faults.quarantine \in Nat
      BY <1>0 DEF TypeOK
    <2>2. ~ (faults.quarantine < MaxQuarantines)
      BY <2>1
    <2> QED BY <2>2, Zenon DEF QuarantineAndReset
  <1> QED BY <1>1, <1>2, <1>3, <1>4, <1>5, <1>6, OwnStep DEF Next

LEMMA OwnInit == Init => OwnInv
  <1> SUFFICES ASSUME Init
               PROVE  (\A g \in Frame : loc[g].op # "recover") /\ OwnTransactionsOK
    BY LockInit DEF OwnInv
  <1>1. \A g \in Frame : pc[g] = "idle" /\ loc[g].op = "none"
    BY DEF Init, Blank
  <1> QED BY <1>1 DEF OwnTransactionsOK, InTransaction, Critical

(* Without recovery and quarantine no operation rewrites a transaction     *)
(* that has reached COMMITTED, ROLLED_BACK or FAILED, its own included,    *)
(* for any number of processes that die, leak the lock or lose the file:   *)
(* update_transaction itself would overwrite any state.                    *)
THEOREM TerminalStaysFinal ==
    ASSUME "recover" \notin Ops, MaxQuarantines = 0
    PROVE  Spec => TerminalIsFinal
  <1>1. OwnInv /\ [Next]_vars =>
           [\A i \in DOMAIN journal :
              journal[i].state \in {"COMMITTED", "ROLLED_BACK", "FAILED"}
              => journal'[i] = journal[i]]_vars
    <2> SUFFICES ASSUME OwnInv, [Next]_vars, NEW i \in DOMAIN journal,
                        journal[i].state \in {"COMMITTED", "ROLLED_BACK", "FAILED"}
                 PROVE  journal'[i] = journal[i]
      OBVIOUS
    <2>0. LockInv /\ TypeOK /\ DOMAIN journal = 1 .. Len(journal) /\ Len(journal) \in Nat
      BY DEF OwnInv, LockInv, TypeOK
    <2>1. ASSUME NEW f \in Frame, Step(f) PROVE journal'[i] = journal[i]
      <3>1. CASE StartTransaction(f)
        <4>1. journal' = journal \/ \E t : journal' = Append(journal, t)
          BY <3>1 DEF StartTransaction
        <4>2. journal \in Seq(Tx) /\ i \in 1 .. Len(journal)
          BY <2>0 DEF TypeOK
        <4>3. ASSUME NEW t PROVE Append(journal, t)[i] = journal[i]
          BY <4>2
        <4> QED BY <4>1, <4>3
      <3>2. CASE Apply(f) \/ FinishTransaction(f)
        <4>1. InTransaction(f)
          BY <2>0, <3>2, LabelFacts
             DEF Apply, FinishTransaction, InTransaction, Critical, LockInv
        <4>2. i # loc[f].tx
          BY <4>1 DEF OwnInv, OwnTransactionsOK, Dangling
        <4>3. \E st, n : UpdateTransaction(loc[f].tx, st, n)
          BY <3>2 DEF Apply, FinishTransaction
        <4> QED BY <2>0, <4>2, <4>3, UpdateTransactionFacts
      <3>3. ~ RecoverMark(f)
        BY <2>0, LabelFacts DEF RecoverMark, OwnInv, LockInv
      <3> QED BY <2>1, <3>1, <3>2, <3>3, JournalWriters
    <2>2. ASSUME NEW p \in Procs, BeginOperation(p) \/ ExitProcess(p) \/ Kill(p)
          PROVE  journal' = journal
      BY <2>2 DEF BeginOperation, UpdateBegin, StageBegin, RollbackBegin, DietBegin,
                  UnlockedBegin, RecoverBegin, ExitProcess, Kill
    <2>3. CASE OrphanEnds \/ Reboot \/ JournalFails \/ JournalReturns \/ (UNCHANGED vars)
      BY <2>3 DEF OrphanEnds, Reboot, JournalFails, JournalReturns, vars
    <2>4. ~ QuarantineAndReset
      <3>1. faults.quarantine \in Nat
        BY <2>0 DEF TypeOK
      <3>2. ~ (faults.quarantine < MaxQuarantines)
        BY <3>1
      <3> QED BY <3>2, Zenon DEF QuarantineAndReset
    <2> QED BY <2>1, <2>2, <2>3, <2>4 DEF Next
  <1>2. OwnInv /\ [Next]_vars => OwnInv'
    BY OwnNext
  <1> QED BY <1>1, <1>2, OwnInit, PTL DEF Spec, TerminalIsFinal

(* Write-ahead: whenever the link moves, the journal already holds an      *)
(* APPLYING transaction of the operation that moves it.  Each premise      *)
(* names a way in which the code escapes this: an orphaned command, the    *)
(* upgrade skill, a recovery that settles a running transaction, a         *)
(* quarantine that takes its record away.                                  *)
THEOREM MovesAreWrittenAhead ==
    ASSUME MaxKills = 0, "skill_upgrade" \notin Ops, "recover" \notin Ops, MaxQuarantines = 0
    PROVE  Spec => MovesAreAnnounced
  <1>1. ExplainInv /\ OwnInv /\ [Next]_vars =>
           [active' # active => \E i \in DOMAIN journal :
              journal[i].op \in ProfileOps /\ journal[i].state = "APPLYING"]_vars
    <2> SUFFICES ASSUME ExplainInv, OwnInv, [Next]_vars, active' # active
                 PROVE  \E i \in DOMAIN journal :
                           journal[i].op \in ProfileOps /\ journal[i].state = "APPLYING"
      OBVIOUS
    <2>1. orphans = {} /\ \A f \in Frame : loc[f].op # "skill_upgrade"
      BY DEF ExplainInv, NoBypass
    <2>2. PICK f \in Frame : RunCommand(f)
      BY <2>1, OnlyCommandsMove
    <2>3. pc[f] = "wait" /\ loc[f].op \in ProfileOps
      BY <2>1, <2>2, MoversAreProfileOps
    <2>4. InTransaction(f)
      BY <2>3 DEF InTransaction, Critical, ProfileOps, LockedOps
    <2>5. /\ loc[f].tx \in DOMAIN journal
          /\ journal[loc[f].tx].op \in ProfileOps
          /\ journal[loc[f].tx].state = "APPLYING"
      BY <2>3, <2>4 DEF OwnInv, OwnTransactionsOK, Dangling
    <2> QED BY <2>5
  <1>2. ExplainInv /\ [Next]_vars => ExplainInv'
    BY ExplainNext
  <1>3. OwnInv /\ [Next]_vars => OwnInv'
    BY OwnNext
  <1> QED BY <1>1, <1>2, <1>3, ExplainInit, OwnInit, PTL DEF Spec, MovesAreAnnounced

-----------------------------------------------------------------------------
(* Recovery leaves nothing dangling.                                       *)

(* The inner frame rests unless the outer one waits for it.                *)
LEMMA InnerRests ==
    ASSUME LockInv, NEW p \in Procs, pc[Outer(p)] # "call"
    PROVE  pc[Inner(p)] = "idle" /\ ~ InTransaction(Inner(p))
  <1>1. Inner(p) \in Frame /\ Inner(p)[2] = "rb" /\ Outer(Inner(p)[1]) = Outer(p)
    BY FrameType DEF Inner
  <1>2. pc[Inner(p)] = "idle"
    BY <1>1 DEF LockInv, FramesOK
  <1> QED BY <1>2 DEF InTransaction, Critical

(* An idle frame takes no step; a step never repairs or damages the file,  *)
(* and only a recovery gives the journal's lock back.                      *)
LEMMA StepFacts ==
    ASSUME NEW f \in Frame, Step(f)
    PROVE  /\ pc[f] # "idle" /\ unusable' = unusable /\ faults' = faults
           /\ jlock' = jlock \/ RecoverMark(f) \/ RecoverEnd(f)
  BY DEF Step, Simulate, ReadActive, AcquireLock, StartTransaction, Apply, RunCommand,
         HealthCheck, VerifyRollback, AutoRollbackReturns, FinishTransaction, ReleaseLock,
         RecoverNext, RecoverRollbackReturns, RecoverMark, RecoverEnd

(* A process that recovers after a step of a frame recovered before it.    *)
LEMMA StillRecovers ==
    ASSUME LockInv, LockInv', NEW f \in Frame, Step(f), NEW p \in Procs,
           loc'[Outer(p)].op = "recover"
    PROVE  /\ loc[Outer(p)].op = "recover"
           /\ pc[Outer(p)] \in {"rnext", "call", "rmark"}
           /\ f # Outer(p) => pc'[Outer(p)] = pc[Outer(p)] /\ loc'[Outer(p)] = loc[Outer(p)]
  <1>0. Outer(p) \in Frame
    BY FrameType
  <1>1. loc[Outer(p)].op = "recover"
        /\ (f # Outer(p) => pc'[Outer(p)] = pc[Outer(p)] /\ loc'[Outer(p)] = loc[Outer(p)])
    <2>1. CASE f = Outer(p)
      BY <2>1, OwnMoves
    <2>2. CASE f # Outer(p)
      <3>1. pc'[Outer(p)] \notin {"idle", "simulate"}
        BY <1>0 DEF LockInv, FramesOK, LabelsOf
      <3> QED BY <1>0, <2>2, <3>1, OthersStay
    <2> QED BY <2>1, <2>2
  <1> QED BY <1>0, <1>1 DEF LockInv, FramesOK, LabelsOf

(* A frame of another process cannot write the journal during a recovery.  *)
LEMMA OthersCannotWrite ==
    ASSUME RecoveryInv, NEW f \in Frame, Step(f), NEW p \in Procs,
           loc[Outer(p)].op = "recover", f[1] # p
    PROVE  journal' = journal /\ jlock' = jlock
  <1>0. LockInv /\ TypeOK /\ jlock = p /\ p # NoLock /\ f[1] \in Procs
    BY FrameType, ConstantsAssumption DEF RecoveryInv, LockInv
  <1>1. ~ RecoverMark(f) /\ ~ RecoverEnd(f)
    <2> SUFFICES ASSUME pc[f] \in {"rnext", "rmark"} PROVE FALSE
      BY DEF RecoverMark, RecoverEnd
    <2>1. loc[f].op = "recover"
      BY <1>0, LabelFacts DEF LockInv
    <2>2. f = Outer(f[1])
      BY <1>0, <2>1, FrameCases DEF LockInv, FramesOK
    <2>3. jlock = f[1]
      BY <1>0, <2>1, <2>2 DEF RecoveryInv
    <2> QED BY <1>0, <2>3
  <1>2. ~ StartTransaction(f) /\ ~ Apply(f) /\ ~ FinishTransaction(f)
    BY <1>0 DEF StartTransaction, Apply, FinishTransaction, JournalFree
  <1> QED BY <1>1, <1>2, JournalWriters, StepFacts

(* The recovery's own steps.                                               *)
LEMMA RecoverySelf ==
    ASSUME RecoveryInv, LockInv', NEW p \in Procs, Step(Outer(p)),
           loc'[Outer(p)].op = "recover"
    PROVE  jlock' = p /\ \A i \in Dangling' : Accounted(p, i)'
  <1> DEFINE f == Outer(p)
  <1>0. /\ f \in Frame /\ f[1] = p /\ Inner(p) \in Frame /\ f # Inner(p)
        /\ LockInv /\ TypeOK /\ pc \in [Frame -> Label] /\ loc \in [Frame -> Local]
        /\ loc[f] \in Local
    BY FrameType DEF RecoveryInv, LockInv, TypeOK
  <1>1. loc[f].op = "recover" /\ pc[f] \in {"rnext", "call", "rmark"}
    BY <1>0, StillRecovers
  <1>2. jlock = p /\ \A i \in Dangling : Accounted(p, i)
    BY <1>1 DEF RecoveryInv
  <1>z. faults' = faults
    BY <1>0, StepFacts
  <1>3. RecoverNext(f) \/ RecoverRollbackReturns(f) \/ RecoverMark(f) \/ RecoverEnd(f)
    BY <1>1 DEF Step, Simulate, ReadActive, AcquireLock, StartTransaction, Apply, RunCommand,
                HealthCheck, VerifyRollback, AutoRollbackReturns, FinishTransaction, ReleaseLock
  <1>4. ~ RecoverEnd(f)
    BY <1>0, ReturnFacts DEF RecoverEnd
  <1> HIDE DEF f
  <1>5. CASE RecoverNext(f)
    <2> DEFINE k    == Min(loc[f].todo)
               undo == journal[k].op \in {"system_update", "rollback"} /\ journal[k].prev # 0
               at   == undo /\ active = journal[k].prev
               next == [loc[f] EXCEPT !.tx = k, !.todo = @ \ {k}, !.ok = at]
               inner == [Blank EXCEPT !.op = "rollback", !.arg = journal[k].prev]
    <2>1. /\ pc[f] = "rnext" /\ journal' = journal /\ jlock' = jlock /\ unusable' = unusable
          /\ \/ pc' = [pc EXCEPT ![f] = "rmark"] /\ loc' = [loc EXCEPT ![f] = next]
             \/ /\ pc' = [pc EXCEPT ![f] = "call", ![Inner(f[1])] = "simulate"]
                /\ loc' = [loc EXCEPT ![f] = next, ![Inner(f[1])] = inner]
      BY <1>5 DEF RecoverNext, CallRollback, Goto
    <2>2. next.tx = k /\ next.todo = loc[f].todo \ {k}
      BY <1>0 DEF Local
    <2> HIDE DEF next, inner, k
    <2>3. loc'[f] = next /\ pc'[f] \in {"call", "rmark"}
      BY <1>0, <2>1
    <2>4. ASSUME NEW i \in Dangling' PROVE Accounted(p, i)'
      <3>1. i \in Dangling
        BY <2>1, <2>4 DEF Dangling
      <3>2. i \in loc[f].todo \/ (journal[i].op = "rollback" /\ faults.repair > 0)
        BY <1>0, <1>2, <2>1, <3>1, InnerRests DEF Accounted, f
      <3>3. i \in loc[f].todo => i \in loc'[f].todo \/ i = loc'[f].tx
        BY <2>2, <2>3
      <3> QED BY <1>z, <2>1, <2>3, <3>2, <3>3 DEF Accounted, f
    <2> QED BY <1>2, <2>1, <2>4
  <1>6. CASE RecoverRollbackReturns(f)
    <2> DEFINE next == [loc[f] EXCEPT !.ok = loc[Inner(f[1])].ok]
    <2>1. /\ pc[f] = "call" /\ pc[Inner(p)] = "idle"
          /\ journal' = journal /\ jlock' = jlock /\ unusable' = unusable
          /\ pc' = [pc EXCEPT ![f] = "rmark"]
          /\ loc' = [loc EXCEPT ![f] = next, ![Inner(f[1])] = Blank]
      BY <1>0, <1>6 DEF RecoverRollbackReturns, Goto
    <2>2. next.tx = loc[f].tx /\ next.todo = loc[f].todo
      BY <1>0 DEF Local
    <2> HIDE DEF next
    <2>3. loc'[f] = next /\ pc'[f] = "rmark"
      BY <1>0, <2>1
    <2>4. ASSUME NEW i \in Dangling' PROVE Accounted(p, i)'
      <3>1. i \in Dangling
        BY <2>1, <2>4 DEF Dangling
      <3>2. \/ i \in loc[f].todo \/ i = loc[f].tx
            \/ journal[i].op = "rollback" /\ (unusable \/ faults.repair > 0)
        BY <1>2, <2>1, <3>1 DEF Accounted, InTransaction, Critical, f
      <3> QED BY <1>z, <2>1, <2>2, <2>3, <3>2 DEF Accounted, f
    <2> QED BY <1>2, <2>1, <2>4
  <1>7. CASE RecoverMark(f)
    <2>1. Present(loc[f].tx) /\ pc[f] = "rmark"
      BY <1>0, <1>7, ReturnFacts DEF RecoverMark, f
    <2>2. /\ loc' = loc /\ jlock' = jlock /\ unusable' = unusable /\ pc'[f] = "rnext"
          /\ pc' = [pc EXCEPT ![f] = "rnext"]
      BY <1>0, <1>7, <2>1 DEF RecoverMark, Goto
    <2>3. PICK st \in {"ROLLED_BACK", "FAILED"} : UpdateTransaction(loc[f].tx, st, 0)
      BY <1>7 DEF RecoverMark
    <2>4. /\ DOMAIN journal' = DOMAIN journal
          /\ \A j \in DOMAIN journal : j # loc[f].tx => journal'[j] = journal[j]
          /\ journal'[loc[f].tx].state = st
      BY <1>0, <2>1, <2>3, UpdateTransactionFacts
    <2>5. ASSUME NEW i \in Dangling' PROVE Accounted(p, i)'
      <3>1. i \in Dangling /\ i # loc[f].tx
        BY <2>4, <2>5 DEF Dangling
      <3>2. ~ unusable /\ ~ InTransaction(Inner(p))
        BY <1>0, <2>1, InnerRests DEF Present, f
      <3>3. i \in loc[f].todo \/ (journal[i].op = "rollback" /\ faults.repair > 0)
        BY <1>2, <3>1, <3>2 DEF Accounted, f
      <3>4. journal'[i] = journal[i]
        BY <2>4, <3>1 DEF Dangling
      <3> QED BY <1>z, <2>2, <3>3, <3>4 DEF Accounted, f
    <2> QED BY <1>2, <2>2, <2>5
  <1> QED BY <1>3, <1>4, <1>5, <1>6, <1>7 DEF f

(* The steps of the rollback a recovery has called.                        *)
LEMMA RecoveryNested ==
    ASSUME RecoveryInv, LockInv', NEW p \in Procs, Step(Inner(p)),
           loc'[Outer(p)].op = "recover"
    PROVE  jlock' = p /\ \A i \in Dangling' : Accounted(p, i)'
  <1> DEFINE f == Inner(p)
  <1>0. /\ f \in Frame /\ Outer(p) \in Frame /\ f # Outer(p) /\ f[2] = "rb" /\ f[1] = p
        /\ LockInv /\ TypeOK /\ pc \in [Frame -> Label] /\ loc \in [Frame -> Local]
        /\ Len(journal) \in Nat /\ DOMAIN journal = 1 .. Len(journal)
    BY FrameType DEF RecoveryInv, LockInv, TypeOK, Inner
  <1>1. /\ loc[Outer(p)].op = "recover"
        /\ pc'[Outer(p)] = pc[Outer(p)] /\ loc'[Outer(p)] = loc[Outer(p)]
    BY <1>0, StillRecovers
  <1>2. jlock = p /\ \A i \in Dangling : Accounted(p, i)
    BY <1>1 DEF RecoveryInv
  <1>3. /\ loc[f].op = "rollback" /\ pc[Outer(p)] = "call"
        /\ unusable' = unusable /\ faults' = faults
    <2>1. pc[f] # "idle" /\ unusable' = unusable /\ faults' = faults
      BY <1>0, StepFacts
    <2> QED BY <1>0, <2>1 DEF LockInv, FramesOK
  <1>4. ~ RecoverMark(f) /\ ~ RecoverEnd(f) /\ jlock' = p
    <2>1. pc[f] \notin {"rmark", "rnext"}
      BY <1>0, <1>3, LabelFacts DEF LockInv
    <2>2. ~ RecoverMark(f) /\ ~ RecoverEnd(f)
      BY <2>1 DEF RecoverMark, RecoverEnd
    <2> QED BY <1>0, <1>2, <2>2, StepFacts
  <1> HIDE DEF f
  (* What was accounted for otherwise than by the rollback's transaction.  *)
  <1> DEFINE Elsewhere(i) ==
               \/ i \in loc[Outer(p)].todo \/ i = loc[Outer(p)].tx
               \/ journal[i].op = "rollback" /\ (unusable \/ faults.repair > 0)
  <1>k. ASSUME NEW i, Elsewhere(i), journal'[i].op = journal[i].op PROVE Accounted(p, i)'
    BY <1>k, <1>1, <1>3 DEF Accounted
  <1>t. ASSUME NEW i, InTransaction(f)', i = loc'[f].tx, journal'[i].op = "rollback"
        PROVE  Accounted(p, i)'
    BY <1>t DEF Accounted, f
  <1>e. ASSUME NEW i \in Dangling
        PROVE  Elsewhere(i) \/ (InTransaction(f) /\ i = loc[f].tx /\ journal[i].op = "rollback")
    BY <1>2, <1>3 DEF Accounted, f
  <1> HIDE DEF Elsewhere
  <1>5. SUFFICES ASSUME NEW i \in Dangling' PROVE Accounted(p, i)'
    BY <1>4
  <1>6. CASE StartTransaction(f)
    <2>0. ~ InTransaction(f)
      BY <1>6 DEF StartTransaction, InTransaction
    <2>1. CASE unusable
      <3>1. journal' = journal
        BY <1>6, <2>1 DEF StartTransaction
      <3>2. i \in Dangling
        BY <1>5, <3>1 DEF Dangling
      <3> QED BY <1>e, <1>k, <2>0, <3>1, <3>2
    <2>2. CASE ~ unusable
      <3> DEFINE r == [op |-> loc[f].op, state |-> "PENDING", prev |-> loc[f].prev, new |-> 0]
      <3>1. /\ loc' = [loc EXCEPT ![f].tx = Len(journal) + 1]
            /\ pc' = [pc EXCEPT ![f] = "apply"]
            /\ journal' = Append(journal, r) /\ r.op = "rollback"
        BY <1>3, <1>6, <2>2 DEF StartTransaction, Goto
      <3> HIDE DEF r
      <3>2. loc'[f].tx = Len(journal) + 1 /\ loc'[f].op = "rollback" /\ pc'[f] = "apply"
        BY <1>0, <1>3, <3>1 DEF Local
      <3>3. InTransaction(f)'
        BY <3>2 DEF InTransaction, Critical, LockedOps
      <3>4. \/ i \in Dangling /\ journal'[i] = journal[i]
            \/ i = Len(journal) + 1 /\ journal'[i] = r
        <4>1. /\ i \in 1 .. (Len(journal) + 1) /\ journal'[Len(journal) + 1] = r
              /\ \A j \in DOMAIN journal : journal'[j] = journal[j]
          BY <1>0, <1>5, <3>1 DEF Dangling, TypeOK
        <4>2. i \in DOMAIN journal \/ i = Len(journal) + 1
          BY <1>0, <4>1
        <4> QED BY <1>5, <4>1, <4>2 DEF Dangling
      <3> QED BY <1>e, <1>k, <1>t, <2>0, <3>1, <3>2, <3>3, <3>4
    <2> QED BY <2>1, <2>2
  <1>7. CASE Apply(f) \/ FinishTransaction(f)
    <2>1. PICK st, n : /\ UpdateTransaction(loc[f].tx, st, n)
                       /\ Apply(f) \/ st \notin {"PENDING", "APPLYING"}
      <3>1. \A l \in {"commit", "abort", "mark"} : Final(l) \notin {"PENDING", "APPLYING"}
        BY DEF Final
      <3> QED BY <1>7, <3>1 DEF Apply, FinishTransaction
    <2>2. /\ DOMAIN journal' = DOMAIN journal
          /\ \A j \in DOMAIN journal : journal'[j].op = journal[j].op
          /\ \A j \in DOMAIN journal : j # loc[f].tx => journal'[j] = journal[j]
          /\ Present(loc[f].tx) => journal'[loc[f].tx].state = st
          /\ ~ Present(loc[f].tx) => journal' = journal
      BY <1>0, <2>1, UpdateTransactionFacts
    <2>3. CASE i # loc[f].tx
      <3>1. i \in Dangling /\ journal'[i] = journal[i]
        BY <1>5, <2>2, <2>3 DEF Dangling
      <3> QED BY <1>e, <1>k, <2>3, <3>1
    <2>4. CASE i = loc[f].tx /\ ~ Present(loc[f].tx)
      <3>1. unusable /\ i \in Dangling
        BY <1>5, <2>2, <2>4 DEF Dangling, Present
      <3>2. Elsewhere(i)
        BY <1>e, <3>1 DEF Elsewhere
      <3> QED BY <1>k, <2>2, <2>4, <3>2
    <2>5. CASE i = loc[f].tx /\ Present(loc[f].tx)
      <3>1. Apply(f) /\ i \in DOMAIN journal
        BY <1>5, <2>1, <2>2, <2>5 DEF Dangling
      <3>2. pc'[f] = "wait" /\ loc'[f] = loc[f]
        BY <1>0, <2>5, <3>1 DEF Apply, Goto
      <3>3. InTransaction(f)'
        BY <1>3, <3>2 DEF InTransaction, Critical, LockedOps
      <3>4. journal'[i].op = "rollback"
        <4>1. InTransaction(f)
          BY <1>3, <3>1 DEF Apply, InTransaction, Critical, LockedOps
        <4> QED BY <1>0, <1>3, <2>2, <2>5, <3>1, <4>1 DEF RecoveryInv, OpsRecorded
      <3> QED BY <1>t, <2>5, <3>2, <3>3, <3>4
    <2> QED BY <2>3, <2>4, <2>5
  <1>8. CASE ~ (StartTransaction(f) \/ Apply(f) \/ FinishTransaction(f))
    <2>1. journal' = journal
      BY <1>0, <1>4, <1>8, JournalWriters DEF f
    <2>2. i \in Dangling
      BY <1>5, <2>1 DEF Dangling
    <2>3. CASE ~ (InTransaction(f) /\ i = loc[f].tx)
      BY <1>e, <1>k, <2>1, <2>2, <2>3
    <2>4. CASE InTransaction(f) /\ i = loc[f].tx /\ ~ Elsewhere(i)
      <3>1. RunCommand(f) \/ VerifyRollback(f)
        <4>1. pc[f] \notin {"simulate", "read", "lock", "start", "release", "rnext", "rmark"}
          BY <2>4 DEF InTransaction, Critical
        <4> QED BY <1>3, <1>8, <4>1
                DEF Step, Simulate, ReadActive, AcquireLock, HealthCheck, ReleaseLock,
                    AutoRollbackReturns, RecoverNext, RecoverRollbackReturns, RecoverMark,
                    RecoverEnd, f
      <3>2. loc'[f].tx = loc[f].tx /\ loc'[f].op = "rollback"
            /\ pc'[f] \in {"post", "commit", "abort"}
        <4>1. CASE RunCommand(f)
          BY <1>0, <1>3, <4>1 DEF RunCommand, Goto, AfterCommand, LockedOps
        <4>2. CASE VerifyRollback(f)
          <5>1. loc' = [loc EXCEPT ![f].new = active]
            BY <4>2 DEF VerifyRollback
          <5>2. pc'[f] \in {"commit", "abort"}
            BY <1>0, <4>2 DEF VerifyRollback, Goto
          <5> QED BY <1>0, <1>3, <5>1, <5>2 DEF Local
        <4> QED BY <3>1, <4>1, <4>2
      <3>3. InTransaction(f)'
        BY <3>2 DEF InTransaction, Critical, LockedOps
      <3> QED BY <1>e, <1>t, <2>1, <2>2, <2>4, <3>2, <3>3
    <2>5. CASE Elsewhere(i)
      BY <1>k, <2>1, <2>5
    <2> QED BY <2>3, <2>4, <2>5
  <1> QED BY <1>6, <1>7, <1>8

(* The steps of the other processes.                                       *)
LEMMA RecoveryOthers ==
    ASSUME RecoveryInv, LockInv', NEW f \in Frame, Step(f), NEW p \in Procs, f[1] # p,
           loc'[Outer(p)].op = "recover"
    PROVE  jlock' = p /\ \A i \in Dangling' : Accounted(p, i)'
  <1>0. LockInv /\ Outer(p) \in Frame /\ Inner(p) \in Frame /\ f # Outer(p) /\ f # Inner(p)
    BY FrameType DEF RecoveryInv
  <1>1. /\ loc[Outer(p)].op = "recover"
        /\ pc'[Outer(p)] = pc[Outer(p)] /\ loc'[Outer(p)] = loc[Outer(p)]
    BY <1>0, StillRecovers
  <1>2. jlock = p /\ \A i \in Dangling : Accounted(p, i)
    BY <1>1 DEF RecoveryInv
  <1>3. journal' = journal /\ jlock' = p /\ unusable' = unusable /\ faults' = faults
    BY <1>1, <1>2, OthersCannotWrite, StepFacts
  <1>4. InTransaction(Inner(p)) => InTransaction(Inner(p))' /\ loc'[Inner(p)] = loc[Inner(p)]
    BY <1>0, OthersStay DEF InTransaction, Critical
  <1> QED BY <1>1, <1>2, <1>3, <1>4 DEF Accounted, Dangling

(* No step changes the operation of a recorded transaction.                *)
LEMMA OpsStep ==
    ASSUME LockInv, OpsRecorded, NEW f \in Frame, Step(f)
    PROVE  OpsRecorded'
  <1>0. /\ TypeOK /\ LockInv' /\ FramesOK'
        /\ Len(journal) \in Nat /\ DOMAIN journal = 1 .. Len(journal)
    BY LockNext DEF LockInv, TypeOK, Next
  <1>1. ASSUME NEW g \in Frame, InTransaction(g)'
        PROVE  loc'[g].tx \in DOMAIN journal' /\ journal'[loc'[g].tx].op = loc'[g].op
    <2>1. CASE g # f
      <3>1. pc'[g] = pc[g] /\ loc'[g] = loc[g]
        BY <1>0, <1>1, <2>1, OthersStay DEF InTransaction, Critical
      <3>2. InTransaction(g)
        BY <1>1, <3>1 DEF InTransaction, Critical
      <3>3. ~ Critical(f)
        BY <1>0, <2>1, <3>2, Alone DEF InTransaction
      <3>4. ~ (StartTransaction(f) \/ Apply(f) \/ FinishTransaction(f))
        <4>1. pc[f] \notin {"start", "apply", "commit", "abort", "mark"}
          BY <1>0, <3>3, LabelFacts DEF Critical, LockInv
        <4> QED BY <4>1 DEF StartTransaction, Apply, FinishTransaction
      <3>5. /\ DOMAIN journal' = DOMAIN journal
            /\ \A j \in DOMAIN journal : journal'[j].op = journal[j].op
        <4>1. CASE RecoverMark(f)
          <5>1. \E st, n : UpdateTransaction(loc[f].tx, st, n)
            BY <4>1 DEF RecoverMark
          <5> QED BY <1>0, <5>1, UpdateTransactionFacts
        <4>2. CASE ~ RecoverMark(f)
          BY <3>4, <4>2, JournalWriters
        <4> QED BY <4>1, <4>2
      <3> QED BY <3>1, <3>2, <3>5 DEF OpsRecorded
    <2>2. CASE g = f
      <3>1. loc'[f].op = loc[f].op
        BY <1>0, <1>1, <2>2, OwnMoves DEF InTransaction, Critical, LockedOps
      <3>2. CASE StartTransaction(f) /\ ~ unusable /\ loc'[f].tx = Len(journal) + 1
        <4>1. \E t : journal' = Append(journal, t) /\ t.op = loc[f].op
          BY <3>2 DEF StartTransaction
        <4> QED BY <1>0, <2>2, <3>1, <3>2, <4>1
      <3>3. CASE Apply(f) /\ Present(loc[f].tx) /\ loc'[f] = loc[f]
        <4>1. InTransaction(f)
          BY <1>0, <3>3, LabelFacts DEF InTransaction, Critical, Apply, LockInv
        <4>2. UpdateTransaction(loc[f].tx, "APPLYING", 0)
          BY <3>3 DEF Apply
        <4> QED BY <1>0, <2>2, <3>3, <4>1, <4>2, UpdateTransactionFacts DEF OpsRecorded
      <3>4. CASE InTransaction(f) /\ loc'[f].tx = loc[f].tx /\ journal' = journal
        BY <2>2, <3>1, <3>4 DEF OpsRecorded
      <3> QED BY <1>0, <1>1, <2>2, <3>2, <3>3, <3>4, OwnMoves
    <2> QED BY <2>1, <2>2
  <1> QED BY <1>1 DEF OpsRecorded

LEMMA OpsNext ==
    ASSUME LockInv, OpsRecorded, [Next]_vars
    PROVE  OpsRecorded'
  <1>0. TypeOK /\ pc \in [Frame -> Label] /\ loc \in [Frame -> Local]
        /\ \A j \in DOMAIN journal : journal[j] \in Tx
    BY DEF LockInv, TypeOK
  (* Every frame stays as it is or is outside any transaction.             *)
  <1>q. ASSUME DOMAIN journal' = DOMAIN journal,
               \A j \in DOMAIN journal : journal'[j].op = journal[j].op,
               \A g \in Frame : \/ pc'[g] = pc[g] /\ loc'[g] = loc[g]
                                \/ pc'[g] \in {"idle", "lock", "simulate"}
                                \/ loc'[g].op \notin LockedOps
        PROVE  OpsRecorded'
    <2>1. \A g \in Frame : InTransaction(g)' => InTransaction(g) /\ loc'[g] = loc[g]
      BY <1>q DEF InTransaction, Critical
    <2> QED BY <1>q, <2>1 DEF OpsRecorded
  <1>1. ASSUME NEW p \in Procs, BeginOperation(p) PROVE OpsRecorded'
    <2>1. journal' = journal
      BY <1>1 DEF BeginOperation, UpdateBegin, StageBegin, RollbackBegin, DietBegin,
                  UnlockedBegin, RecoverBegin
    <2>2. \A g \in Frame : \/ pc'[g] = pc[g] /\ loc'[g] = loc[g]
                           \/ pc'[g] \in {"idle", "lock", "simulate"}
                           \/ loc'[g].op \notin LockedOps
      <3>1. CASE RecoverBegin(p)
        <4>1. [Blank EXCEPT !.op = "recover", !.todo = Dangling].op = "recover"
          BY DEF Blank
        <4>2. loc' = [loc EXCEPT ![Outer(p)] =
                                    [Blank EXCEPT !.op = "recover", !.todo = Dangling]]
              /\ pc' = [pc EXCEPT ![Outer(p)] = "rnext"]
          BY <3>1 DEF RecoverBegin, Goto
        <4>3. "recover" \notin LockedOps
          BY DEF LockedOps
        <4> QED BY <1>0, <4>1, <4>2, <4>3
      <3>2. CASE ~ RecoverBegin(p)
        <4>1. \A o : [Blank EXCEPT !.op = o].op = o
          BY DEF Blank
        <4>2. PICK l, local : /\ Begin(p, l, local)
                              /\ l \in {"lock", "simulate"} \/ local.op \notin LockedOps
          BY <1>1, <3>2, <4>1 DEF BeginOperation, UpdateBegin, StageBegin, RollbackBegin,
                                  DietBegin, UnlockedBegin, LockedOps
        <4> QED BY <1>0, <4>2 DEF Begin
      <3> QED BY <3>1, <3>2
    <2> QED BY <1>q, <2>1, <2>2
  <1>2. ASSUME NEW p \in Procs, Kill(p) PROVE OpsRecorded'
    BY <1>0, <1>2, <1>q DEF Kill
  <1>3. CASE Reboot
    BY <1>3, <1>q DEF Reboot
  <1>4. CASE OrphanEnds \/ JournalFails \/ JournalReturns \/ (UNCHANGED vars)
    BY <1>4, <1>q DEF OrphanEnds, JournalFails, JournalReturns, vars
  <1>5. ASSUME NEW p \in Procs, ExitProcess(p) PROVE OpsRecorded'
    BY <1>5, <1>q DEF ExitProcess
  <1>6. CASE QuarantineAndReset
    <2>1. \A j \in DOMAIN journal : [journal[j] EXCEPT !.state = "GONE"].op = journal[j].op
      BY <1>0 DEF Tx
    <2> QED BY <1>6, <1>q, <2>1 DEF QuarantineAndReset
  <1> QED BY <1>1, <1>2, <1>3, <1>4, <1>5, <1>6, OpsStep DEF Next

LEMMA RecoveryNext == RecoveryInv /\ [Next]_vars => RecoveryInv'
  <1> SUFFICES ASSUME RecoveryInv, [Next]_vars, NEW p \in Procs,
                      loc'[Outer(p)].op = "recover"
               PROVE  jlock' = p /\ \A i \in Dangling' : Accounted(p, i)'
    BY LockNext, OpsNext DEF RecoveryInv
  <1>0. /\ LockInv /\ LockInv' /\ TypeOK /\ Outer(p) \in Frame /\ Inner(p) \in Frame
        /\ p # NoLock /\ pc \in [Frame -> Label] /\ loc \in [Frame -> Local]
    BY LockNext, FrameType, ConstantsAssumption DEF RecoveryInv, LockInv, TypeOK
  (* Nothing of the recovery changes, but for failures of the journal.     *)
  <1>q. ASSUME journal' = journal, jlock = p => jlock' = p,
               unusable => unusable' \/ faults'.repair > 0,
               faults.repair > 0 => faults'.repair > 0,
               pc'[Outer(p)] = pc[Outer(p)], loc'[Outer(p)] = loc[Outer(p)],
               pc'[Inner(p)] = pc[Inner(p)], loc'[Inner(p)] = loc[Inner(p)]
        PROVE  jlock' = p /\ \A i \in Dangling' : Accounted(p, i)'
    <2>1. jlock = p /\ \A i \in Dangling : Accounted(p, i)
      BY <1>q DEF RecoveryInv
    <2> QED BY <1>q, <2>1 DEF Accounted, Dangling, InTransaction, Critical
  <1>1. ASSUME NEW f \in Frame, Step(f)
        PROVE  jlock' = p /\ \A i \in Dangling' : Accounted(p, i)'
    <2>1. f[1] # p \/ f = Outer(p) \/ f = Inner(p)
      BY FrameCases
    <2> QED BY <1>0, <1>1, <2>1, RecoverySelf, RecoveryNested, RecoveryOthers
  <1>2. ASSUME NEW q \in Procs, BeginOperation(q)
        PROVE  jlock' = p /\ \A i \in Dangling' : Accounted(p, i)'
    <2>1. CASE RecoverBegin(q)
      <3> DEFINE b == [Blank EXCEPT !.op = "recover", !.todo = Dangling]
      <3>1. /\ loc' = [loc EXCEPT ![Outer(q)] = b] /\ jlock = NoLock /\ jlock' = q
            /\ journal' = journal
        BY <2>1 DEF RecoverBegin
      <3>2. b.todo = Dangling
        BY DEF Blank
      <3> HIDE DEF b
      <3>3. p = q
        <4> SUFFICES ASSUME p # q PROVE FALSE
          OBVIOUS
        <4>1. Outer(p) # Outer(q)
          BY DEF Outer
        <4>2. loc[Outer(p)].op = "recover"
          BY <1>0, <3>1, <4>1
        <4> QED BY <1>0, <3>1, <4>2 DEF RecoveryInv
      <3>4. loc'[Outer(p)] = b
        BY <1>0, <3>1, <3>3
      <3> QED BY <3>1, <3>2, <3>3, <3>4 DEF Accounted, Dangling
    <2>2. CASE ~ RecoverBegin(q)
      <3>1. /\ pc[Outer(q)] = "idle" /\ journal' = journal /\ jlock' = jlock
            /\ unusable' = unusable /\ faults' = faults
        BY <1>2, <2>2 DEF BeginOperation, UpdateBegin, StageBegin, RollbackBegin, DietBegin,
                          UnlockedBegin, Free
      <3>2. PICK l, local : Begin(q, l, local) /\ local.op # "recover"
        <4>1. \A o : [Blank EXCEPT !.op = o].op = o
          BY DEF Blank
        <4>2. /\ [Blank EXCEPT !.op = "system_update", !.prev = active].op = "system_update"
              /\ [Blank EXCEPT !.op = "system_stage", !.prev = active].op = "system_stage"
              /\ \A g \in Generation :
                    [Blank EXCEPT !.op = "rollback", !.arg = g].op = "rollback"
          BY DEF Blank
        <4> QED BY <1>2, <2>2, <4>1, <4>2
                DEF BeginOperation, UpdateBegin, StageBegin, RollbackBegin, DietBegin,
                    UnlockedBegin
      <3>3. \A g \in Frame : IF g = Outer(q) THEN loc'[g] = local
                             ELSE pc'[g] = pc[g] /\ loc'[g] = loc[g]
        BY <1>0, <3>2 DEF Begin
      <3>4. Outer(p) # Outer(q) /\ Inner(p) # Outer(q)
        BY <1>0, <3>2, <3>3 DEF Outer, Inner
      <3> QED BY <1>0, <1>q, <3>1, <3>3, <3>4
    <2> QED BY <2>1, <2>2
  <1>3. ASSUME NEW q \in Procs, ExitProcess(q)
        PROVE  jlock' = p /\ \A i \in Dangling' : Accounted(p, i)'
    BY <1>3, <1>q DEF ExitProcess
  <1>4. ASSUME NEW q \in Procs, Kill(q)
        PROVE  jlock' = p /\ \A i \in Dangling' : Accounted(p, i)'
    <2>1. p # q
      <3> SUFFICES ASSUME p = q PROVE FALSE
        OBVIOUS
      <3>1. loc'[Outer(p)] = Blank
        BY <1>0, <1>4 DEF Kill
      <3> QED BY <3>1 DEF Blank
    <2>2. {Outer(p), Inner(p)} \cap {Outer(q), Inner(q)} = {}
      BY <2>1 DEF Outer, Inner
    <2>3. /\ pc'[Outer(p)] = pc[Outer(p)] /\ loc'[Outer(p)] = loc[Outer(p)]
          /\ pc'[Inner(p)] = pc[Inner(p)] /\ loc'[Inner(p)] = loc[Inner(p)]
      BY <1>0, <1>4, <2>2 DEF Kill
    <2>4. /\ journal' = journal /\ unusable' = unusable /\ (jlock = p => jlock' = p)
          /\ faults'.repair = faults.repair
      BY <1>0, <1>4, <2>1 DEF Kill, TypeOK
    <2> QED BY <1>q, <2>3, <2>4
  <1>5. CASE Reboot
    <2>1. loc'[Outer(p)] = Blank
      BY <1>0, <1>5 DEF Reboot
    <2> QED BY <2>1 DEF Blank
  <1>6. CASE QuarantineAndReset
    <2>1. loc[Outer(p)].op = "recover" /\ jlock = NoLock
      BY <1>6 DEF QuarantineAndReset
    <2> QED BY <1>0, <2>1 DEF RecoveryInv
  <1>7. CASE OrphanEnds \/ (UNCHANGED vars)
    BY <1>7, <1>q DEF OrphanEnds, vars
  <1>8. CASE JournalFails \/ JournalReturns
    <2>1. /\ journal' = journal /\ jlock' = jlock /\ pc' = pc /\ loc' = loc
          /\ unusable => unusable' \/ faults'.repair > 0
          /\ faults.repair > 0 => faults'.repair > 0
      BY <1>0, <1>8 DEF JournalFails, JournalReturns, TypeOK
    <2> QED BY <1>q, <2>1
  <1> QED BY <1>1, <1>2, <1>3, <1>4, <1>5, <1>6, <1>7, <1>8 DEF Next

LEMMA RecoveryInit == Init => RecoveryInv
  <1> SUFFICES ASSUME Init PROVE RecoveryInv
    OBVIOUS
  <1>1. \A p \in Procs : loc[Outer(p)].op # "recover"
    BY FrameType DEF Init, Blank
  <1>2. OpsRecorded
    BY DEF Init, Blank, OpsRecorded, InTransaction, Critical
  <1> QED BY <1>1, <1>2, LockInit DEF RecoveryInv

(* recover_dangling_transactions that runs to its end leaves no            *)
(* transaction PENDING or APPLYING: not the ones it found, not those of    *)
(* operations that still run, not those its own rollbacks started, unless  *)
(* the journal failed under such a rollback and has come back since.  It   *)
(* holds for any processes and under every fault of the model, because the *)
(* journal's lock is kept from the first read to the last write.           *)
THEOREM RecoverySettlesAll == Spec => RecoveryLeavesNothingDangling
  <1>1. RecoveryInv /\ [Next]_vars =>
           [\A p \in Procs : RecoverEnd(Outer(p)) =>
              \A i \in DOMAIN journal :
                 journal[i].state \in {"PENDING", "APPLYING"} =>
                    faults.repair > 0 /\ journal[i].op = "rollback"]_vars
    <2> SUFFICES ASSUME RecoveryInv, NEW p \in Procs, RecoverEnd(Outer(p)),
                        NEW i \in Dangling
                 PROVE  faults.repair > 0 /\ journal[i].op = "rollback"
      BY DEF Dangling
    <2>1. LockInv /\ Outer(p) \in Frame /\ pc[Outer(p)] = "rnext" /\ loc[Outer(p)].todo = {}
      BY FrameType DEF RecoveryInv, RecoverEnd
    <2>2. loc[Outer(p)].op = "recover"
      BY <2>1, LabelFacts DEF LockInv
    <2>3. Accounted(p, i)
      BY <2>2 DEF RecoveryInv
    <2> QED BY <2>1, <2>3, InnerRests DEF Accounted
  <1> QED BY <1>1, RecoveryInit, RecoveryNext, PTL DEF Spec, RecoveryLeavesNothingDangling

-----------------------------------------------------------------------------
(* A recovery that records ROLLED_BACK has restored the link.              *)

(* No step forgets a transaction or the generation it started from.        *)
LEMMA PrevStays ==
    ASSUME TypeOK, NEW f \in Frame, Step(f), NEW j \in DOMAIN journal
    PROVE  j \in DOMAIN journal' /\ journal'[j].prev = journal[j].prev
  <1>0. /\ journal \in Seq(Tx) /\ j \in 1 .. Len(journal) /\ Len(journal) \in Nat
        /\ \A k \in DOMAIN journal : journal[k] \in Tx
    BY DEF TypeOK
  <1>1. ASSUME NEW i, NEW st, NEW n, UpdateTransaction(i, st, n)
        PROVE  j \in DOMAIN journal' /\ journal'[j].prev = journal[j].prev
    <2>1. CASE Present(i)
      <3> DEFINE r == [journal[i] EXCEPT !.state = st, !.new = n]
      <3>1. i \in DOMAIN journal
        BY <2>1 DEF Present
      <3>2. r.prev = journal[i].prev
        BY <1>0, <3>1 DEF Tx
      <3>3. journal' = [journal EXCEPT ![i] = r]
        BY <1>1, <2>1 DEF UpdateTransaction
      <3> HIDE DEF r
      <3> QED BY <1>0, <3>1, <3>2, <3>3
    <2>2. CASE ~ Present(i)
      BY <1>1, <2>2 DEF UpdateTransaction
    <2> QED BY <2>1, <2>2
  <1>2. CASE StartTransaction(f)
    <2>1. journal' = journal \/ \E t : journal' = Append(journal, t)
      BY <1>2 DEF StartTransaction
    <2>2. ASSUME NEW t
          PROVE  j \in DOMAIN Append(journal, t) /\ Append(journal, t)[j] = journal[j]
      BY <1>0
    <2> QED BY <2>1, <2>2
  <1>3. CASE Apply(f) \/ FinishTransaction(f) \/ RecoverMark(f)
    BY <1>1, <1>3 DEF Apply, FinishTransaction, RecoverMark
  <1> QED BY <1>2, <1>3, JournalWriters

(* Only the journal's writers take a frame out of its transaction.         *)
LEMMA StaysInTransaction ==
    ASSUME LockInv, NEW f \in Frame, Step(f), InTransaction(f),
           ~ Apply(f), ~ FinishTransaction(f)
    PROVE  InTransaction(f)'
  <1> DEFINE Open == {"apply", "wait", "post", "call", "mark", "commit", "abort"}
  <1>0. /\ TypeOK /\ FramesOK /\ pc \in [Frame -> Label] /\ loc \in [Frame -> Local]
        /\ Inner(f[1]) \in Frame /\ loc[f] \in Local
        /\ loc[f].op \in LockedOps /\ pc[f] \in Open
    BY FrameType DEF LockInv, TypeOK, InTransaction, Critical
  <1> SUFFICES loc'[f].op = loc[f].op /\ pc'[f] \in Open
    BY <1>0 DEF InTransaction, Critical
  <1>1. CASE RunCommand(f)
    BY <1>0, <1>1 DEF RunCommand, Goto, AfterCommand
  <1>2. ASSUME NEW probe \in BOOLEAN, NEW auto \in BOOLEAN, HealthCheck(f, probe, auto)
        PROVE  loc'[f].op = loc[f].op /\ pc'[f] \in Open
    <2> DEFINE seen == [loc[f] EXCEPT !.new = active]
               inner == [Blank EXCEPT !.op = "rollback", !.arg = loc[f].prev]
    <2>1. loc[f].op = "system_update" /\ pc[f] = "post"
      BY <1>2 DEF HealthCheck
    <2>2. f # Inner(f[1])
      BY <1>0, <2>1, FrameCases DEF FramesOK
    <2>3. seen.op = loc[f].op
      BY <1>0 DEF Local
    <2>4. \/ \E l \in {"commit", "abort"} : pc' = [pc EXCEPT ![f] = l]
                                            /\ loc' = [loc EXCEPT ![f] = seen]
          \/ /\ pc' = [pc EXCEPT ![f] = "call", ![Inner(f[1])] = "simulate"]
             /\ loc' = [loc EXCEPT ![f] = seen, ![Inner(f[1])] = inner]
      BY <1>2 DEF HealthCheck, CallRollback, Goto
    <2> HIDE DEF seen, inner
    <2> QED BY <1>0, <2>2, <2>3, <2>4
  <1>3. CASE VerifyRollback(f)
    <2>1. loc' = [loc EXCEPT ![f].new = active]
      BY <1>3 DEF VerifyRollback
    <2>2. pc'[f] \in {"commit", "abort"}
      BY <1>0, <1>3 DEF VerifyRollback, Goto
    <2> QED BY <1>0, <2>1, <2>2 DEF Local
  <1>4. CASE AutoRollbackReturns(f)
    <2> DEFINE seen == [loc[f] EXCEPT !.new = active]
    <2>1. /\ pc[f] = "call" /\ loc[f].op = "system_update"
          /\ loc' = [loc EXCEPT ![f] = seen, ![Inner(f[1])] = Blank]
          /\ pc' = [pc EXCEPT ![f] = "mark"]
      BY <1>4 DEF AutoRollbackReturns, Goto
    <2>2. f # Inner(f[1])
      BY <1>0, <2>1, FrameCases DEF FramesOK
    <2>3. seen.op = loc[f].op
      BY <1>0 DEF Local
    <2> HIDE DEF seen
    <2> QED BY <1>0, <2>1, <2>2, <2>3
  <1>5. ~ (Simulate(f) \/ ReadActive(f) \/ AcquireLock(f) \/ StartTransaction(f)
           \/ ReleaseLock(f) \/ RecoverNext(f) \/ RecoverRollbackReturns(f)
           \/ RecoverMark(f) \/ RecoverEnd(f))
    BY <1>0 DEF Simulate, ReadActive, AcquireLock, StartTransaction, ReleaseLock, RecoverNext,
                RecoverRollbackReturns, RecoverMark, RecoverEnd, LockedOps
  <1> QED BY <1>1, <1>2, <1>3, <1>4, <1>5 DEF Step

(* While a process recovers, the operations of the others stay in their    *)
(* transactions: they would need the journal's lock to leave.              *)
LEMMA OthersStayIn ==
    ASSUME RecoveryInv, NEW f \in Frame, Step(f), NEW p \in Procs,
           loc[Outer(p)].op = "recover", NEW g \in Frame, g[1] # p, InTransaction(g)
    PROVE  InTransaction(g)'
  <1>0. LockInv /\ jlock = p /\ p # NoLock
    BY ConstantsAssumption DEF RecoveryInv
  <1>1. CASE g = f
    <2>1. ~ Apply(f) /\ ~ FinishTransaction(f)
      BY <1>0, <1>1 DEF Apply, FinishTransaction, JournalFree
    <2> QED BY <1>0, <1>1, <2>1, StaysInTransaction
  <1>2. CASE g # f
    <2>1. pc'[g] = pc[g] /\ loc'[g] = loc[g]
      BY <1>0, <1>2, OthersStay DEF InTransaction, Critical
    <2> QED BY <2>1 DEF InTransaction, Critical
  <1> QED BY <1>1, <1>2

(* If the link leaves the goal, the operation that moves it is in the way. *)
LEMMA RestoredStays ==
    ASSUME RealInv, NEW f \in Frame, Step(f), NEW p \in Procs,
           loc[Outer(p)].op = "recover", NEW x, Restored(p, x),
           f[1] = p => active' = active
    PROVE  Restored(p, x)'
  <1>0. /\ RecoveryInv /\ LockInv /\ orphans = {}
        /\ \A g \in Frame : loc[g].op # "skill_upgrade"
    BY DEF RealInv, ExplainInv, NoBypass, RecoveryInv
  <1>1. CASE active' = active
    BY <1>0, <1>1, OthersStayIn DEF Restored
  <1>2. CASE active' # active
    <2>1. RunCommand(f)
      BY <1>2 DEF Step, Simulate, ReadActive, AcquireLock, StartTransaction, Apply,
                  HealthCheck, VerifyRollback, AutoRollbackReturns, FinishTransaction,
                  ReleaseLock, RecoverNext, RecoverRollbackReturns, RecoverMark, RecoverEnd
    <2>2. pc[f] = "wait" /\ loc[f].op \in ProfileOps
      BY <1>0, <1>2, <2>1, MoversAreProfileOps
    <2>3. InTransaction(f)
      BY <2>2 DEF InTransaction, Critical, ProfileOps, LockedOps
    <2> QED BY <1>0, <1>2, <2>3, OthersStayIn DEF Restored
  <1> QED BY <1>1, <1>2

LEMMA RealSelf ==
    ASSUME RealInv, LockInv', NEW p \in Procs, Step(Outer(p)),
           loc'[Outer(p)].op = "recover"
    PROVE  RollbackOK(p)'
  <1> DEFINE f == Outer(p)
  <1>0. /\ f \in Frame /\ f[1] = p /\ Inner(p) \in Frame /\ f # Inner(p)
        /\ LockInv /\ TypeOK /\ pc \in [Frame -> Label] /\ loc \in [Frame -> Local]
        /\ loc[f] \in Local /\ loc[f].todo \subseteq DOMAIN journal
        /\ DOMAIN journal \subseteq Nat
    BY FrameType DEF RealInv, RecoveryInv, LockInv, TypeOK
  <1>1. loc[f].op = "recover" /\ pc[f] \in {"rnext", "call", "rmark"}
    BY <1>0, StillRecovers
  <1>2. RollbackOK(p)
    BY <1>1 DEF RealInv
  <1>3. RecoverNext(f) \/ RecoverRollbackReturns(f) \/ RecoverMark(f) \/ RecoverEnd(f)
    BY <1>1 DEF Step, Simulate, ReadActive, AcquireLock, StartTransaction, Apply, RunCommand,
                HealthCheck, VerifyRollback, AutoRollbackReturns, FinishTransaction, ReleaseLock
  <1>4. ~ RecoverEnd(f)
    BY <1>0, ReturnFacts DEF RecoverEnd
  <1>5. CASE RecoverNext(f)
    <2> DEFINE k    == Min(loc[f].todo)
               undo == journal[k].op \in {"system_update", "rollback"} /\ journal[k].prev # 0
               at   == undo /\ active = journal[k].prev
               next == [loc[f] EXCEPT !.tx = k, !.todo = @ \ {k}, !.ok = at]
               inner == [Blank EXCEPT !.op = "rollback", !.arg = journal[k].prev]
    <2>1. /\ loc[f].todo # {} /\ journal' = journal /\ active' = active
          /\ \/ pc' = [pc EXCEPT ![f] = "rmark"] /\ loc' = [loc EXCEPT ![f] = next]
             \/ /\ undo
                /\ pc' = [pc EXCEPT ![f] = "call", ![Inner(f[1])] = "simulate"]
                /\ loc' = [loc EXCEPT ![f] = next, ![Inner(f[1])] = inner]
      BY <1>5 DEF RecoverNext, CallRollback, Goto
    <2>2. k \in loc[f].todo /\ k \in DOMAIN journal
      BY <1>0, <2>1, NatMinIn
    <2>3. next.tx = k /\ next.ok = at
      BY <1>0 DEF Local
    <2>4. inner.arg = journal[k].prev /\ inner.ok = FALSE
      BY DEF Blank
    <2>5. at => active = journal[k].prev
      OBVIOUS
    <2>6. undo => journal[k].prev # 0
      OBVIOUS
    <2> HIDE DEF next, inner, k, at, undo, f
    <2>7. CASE pc' = [pc EXCEPT ![f] = "rmark"] /\ loc' = [loc EXCEPT ![f] = next]
      <3>1. pc'[f] = "rmark" /\ loc'[f] = next
        BY <1>0, <2>7
      <3>2. /\ loc'[f].ok => active' = journal'[loc'[f].tx].prev
            /\ loc'[f].tx \in DOMAIN journal'
        BY <2>1, <2>2, <2>3, <2>5, <3>1
      <3> QED BY <3>1, <3>2 DEF RollbackOK, Restored, f
    <2>8. CASE /\ undo
               /\ pc' = [pc EXCEPT ![f] = "call", ![Inner(f[1])] = "simulate"]
               /\ loc' = [loc EXCEPT ![f] = next, ![Inner(f[1])] = inner]
      <3>1. /\ pc'[f] = "call" /\ loc'[f] = next
            /\ pc'[Inner(p)] = "simulate" /\ loc'[Inner(p)] = inner
        BY <1>0, <2>8
      <3> QED BY <2>1, <2>2, <2>3, <2>4, <2>6, <2>8, <3>1 DEF RollbackOK, f
    <2> QED BY <2>1, <2>7, <2>8
  <1>6. CASE RecoverRollbackReturns(f)
    <2> DEFINE next == [loc[f] EXCEPT !.ok = loc[Inner(f[1])].ok]
    <2>1. /\ pc[f] = "call" /\ pc[Inner(p)] = "idle"
          /\ journal' = journal /\ active' = active
          /\ pc' = [pc EXCEPT ![f] = "rmark"]
          /\ loc' = [loc EXCEPT ![f] = next, ![Inner(f[1])] = Blank]
      BY <1>0, <1>6 DEF RecoverRollbackReturns, Goto
    <2>2. next.tx = loc[f].tx /\ next.ok = loc[Inner(p)].ok
      BY <1>0 DEF Local
    <2> HIDE DEF next, f
    <2>3. loc'[f] = next /\ pc'[f] = "rmark"
      BY <1>0, <2>1
    <2>4. /\ loc[f].tx \in DOMAIN journal
          /\ loc[Inner(p)].ok => Restored(p, journal[loc[f].tx].prev)
      BY <1>2, <2>1 DEF RollbackOK, f
    <2>5. PICK x : x = journal[loc[f].tx].prev
      OBVIOUS
    <2>6. loc[Inner(p)].ok => Restored(p, x)'
      BY <1>0, <1>1, <2>1, <2>4, <2>5, RestoredStays DEF f
    <2>7. x = journal'[loc'[f].tx].prev /\ loc'[f].tx \in DOMAIN journal'
      BY <2>1, <2>2, <2>3, <2>4, <2>5
    <2>8. loc'[f].ok => Restored(p, x)'
      BY <2>2, <2>3, <2>6
    <2> QED BY <2>3, <2>7, <2>8 DEF RollbackOK, Restored, f
  <1>7. CASE RecoverMark(f)
    <2>1. pc'[f] = "rnext"
      BY <1>0, <1>7, ReturnFacts DEF RecoverMark, Goto
    <2> QED BY <2>1 DEF RollbackOK
  <1> QED BY <1>3, <1>4, <1>5, <1>6, <1>7

LEMMA RealOthers ==
    ASSUME RealInv, LockInv', NEW f \in Frame, Step(f), NEW p \in Procs, f[1] # p,
           loc'[Outer(p)].op = "recover"
    PROVE  RollbackOK(p)'
  <1>0. /\ RecoveryInv /\ LockInv /\ TypeOK /\ orphans = {}
        /\ \A g \in Frame : loc[g].op # "skill_upgrade"
        /\ Outer(p) \in Frame /\ Inner(p) \in Frame /\ f # Outer(p) /\ f # Inner(p)
        /\ Inner(f[1]) # Inner(p)
    BY FrameType DEF RealInv, ExplainInv, NoBypass, RecoveryInv, LockInv, Inner
  <1>1. /\ loc[Outer(p)].op = "recover" /\ pc[Outer(p)] \in {"rnext", "call", "rmark"}
        /\ pc'[Outer(p)] = pc[Outer(p)] /\ loc'[Outer(p)] = loc[Outer(p)]
    BY <1>0, StillRecovers
  <1>2. RollbackOK(p)
    BY <1>1 DEF RealInv
  <1>3. pc'[Inner(p)] = pc[Inner(p)] /\ loc'[Inner(p)] = loc[Inner(p)]
    BY <1>0, OthersStay
  <1>4. journal' = journal
    BY <1>0, <1>1, OthersCannotWrite
  <1>5. \A x : Restored(p, x) => Restored(p, x)'
    BY <1>0, <1>1, RestoredStays
  (* The rollback holds the operation lock, so the link cannot move.       *)
  <1>6. pc[Outer(p)] = "call" /\ pc[Inner(p)] \in {"commit", "release"} => active' = active
    <2> SUFFICES ASSUME pc[Inner(p)] \in {"commit", "release"}, active' # active PROVE FALSE
      OBVIOUS
    <2>1. loc[Inner(p)].op \in LockedOps
      BY <1>0, LabelFacts DEF LockInv
    <2>2. Critical(Inner(p))
      BY <2>1 DEF Critical
    <2>3. RunCommand(f)
      BY DEF Step, Simulate, ReadActive, AcquireLock, StartTransaction, Apply, HealthCheck,
             VerifyRollback, AutoRollbackReturns, FinishTransaction, ReleaseLock, RecoverNext,
             RecoverRollbackReturns, RecoverMark, RecoverEnd
    <2>4. pc[f] = "wait" /\ loc[f].op \in ProfileOps
      BY <1>0, <2>3, MoversAreProfileOps
    <2>5. Critical(f)
      BY <2>4 DEF Critical, ProfileOps, LockedOps
    <2> QED BY <1>0, <2>2, <2>5, Alone
  <1> DEFINE goal == journal[loc[Outer(p)].tx].prev
  <1>7. /\ pc[Outer(p)] = "rmark" /\ loc[Outer(p)].ok => Restored(p, goal)
        /\ pc[Outer(p)] = "call" /\ loc[Inner(p)].ok =>
              \/ pc[Inner(p)] = "release" /\ active = goal
              \/ pc[Inner(p)] = "idle" /\ Restored(p, goal)
    BY <1>2 DEF RollbackOK
  <1>8. goal' = goal
    BY <1>1, <1>4
  <1>9. /\ pc[Outer(p)] = "rmark" /\ loc[Outer(p)].ok => Restored(p, goal)'
        /\ pc[Outer(p)] = "call" /\ loc[Inner(p)].ok =>
              \/ pc[Inner(p)] = "release" /\ active' = goal
              \/ pc[Inner(p)] = "idle" /\ Restored(p, goal)'
    BY <1>5, <1>6, <1>7, <1>8
  <1> QED BY <1>1, <1>2, <1>3, <1>4, <1>6, <1>9 DEF RollbackOK

LEMMA RealNested ==
    ASSUME RealInv, LockInv', NEW p \in Procs, Step(Inner(p)),
           loc'[Outer(p)].op = "recover"
    PROVE  RollbackOK(p)'
  <1> DEFINE f == Inner(p)
  <1>0. /\ f \in Frame /\ Outer(p) \in Frame /\ f # Outer(p) /\ f[2] = "rb" /\ f[1] = p
        /\ LockInv /\ TypeOK /\ pc \in [Frame -> Label] /\ loc \in [Frame -> Local]
        /\ loc[f] \in Local
    BY FrameType DEF RealInv, RecoveryInv, LockInv, TypeOK, Inner
  <1>1. /\ loc[Outer(p)].op = "recover"
        /\ pc'[Outer(p)] = pc[Outer(p)] /\ loc'[Outer(p)] = loc[Outer(p)]
    BY <1>0, StillRecovers
  <1>2. RollbackOK(p)
    BY <1>1 DEF RealInv
  <1>3. loc[f].op = "rollback" /\ pc[Outer(p)] = "call" /\ pc[f] # "idle"
    <2>1. pc[f] # "idle"
      BY <1>0, StepFacts
    <2> QED BY <1>0, <2>1 DEF LockInv, FramesOK
  <1>4. PICK x : x = journal[loc[Outer(p)].tx].prev
    OBVIOUS
  <1>5. /\ loc[Outer(p)].tx \in DOMAIN journal'
        /\ journal'[loc[Outer(p)].tx].prev = x
    <2>1. loc[Outer(p)].tx \in DOMAIN journal
      BY <1>2, <1>3 DEF RollbackOK
    <2> QED BY <1>0, <1>4, <2>1, PrevStays DEF f
  <1>6. /\ x # 0 /\ loc[f].arg = x
        /\ pc[f] # "simulate" => loc[f].target = x
        /\ pc[f] = "commit" => active = x
        /\ loc[f].ok => pc[f] = "release" /\ active = x
    BY <1>2, <1>3, <1>4 DEF RollbackOK, f
  (* What the step has to leave behind in the inner frame.                 *)
  <1>g. SUFFICES /\ pc'[f] # "idle" => loc'[f].arg = x
                 /\ pc'[f] \notin {"idle", "simulate"} => loc'[f].target = x
                 /\ pc'[f] = "commit" => active' = x
                 /\ loc'[f].ok => /\ pc'[f] \in {"release", "idle"}
                                  /\ active' = x
    BY <1>1, <1>3, <1>5, <1>6 DEF RollbackOK, Restored, f
  <1> HIDE DEF f
  <1>r. ASSUME Return(f, FALSE) PROVE pc'[f] = "idle" /\ loc'[f].ok = FALSE
    BY <1>0, <1>r DEF Return, Goto, Blank
  <1>7. CASE Simulate(f)
    <2>1. CASE Return(f, FALSE)
      BY <1>r, <2>1
    <2>2. CASE ~ Return(f, FALSE)
      <3>1. loc' = [loc EXCEPT ![f].target = loc[f].arg] /\ pc' = [pc EXCEPT ![f] = "read"]
        BY <1>6, <1>7, <2>2 DEF Simulate, Goto
      <3>2. /\ pc'[f] = "read" /\ loc'[f].target = loc[f].arg /\ loc'[f].arg = loc[f].arg
            /\ loc'[f].ok = loc[f].ok
        BY <1>0, <3>1 DEF Local
      <3> QED BY <1>6, <1>7, <3>2 DEF Simulate
    <2> QED BY <2>1, <2>2
  <1>8. CASE ReadActive(f)
    <2>1. CASE Return(f, FALSE)
      BY <1>r, <2>1
    <2>2. CASE ~ Return(f, FALSE)
      <3>1. loc' = [loc EXCEPT ![f].prev = active] /\ pc' = [pc EXCEPT ![f] = "lock"]
        BY <1>8, <2>2 DEF ReadActive, Goto
      <3>2. /\ pc'[f] = "lock" /\ loc'[f].target = loc[f].target /\ loc'[f].arg = loc[f].arg
            /\ loc'[f].ok = loc[f].ok
        BY <1>0, <3>1 DEF Local
      <3> QED BY <1>6, <1>8, <3>2 DEF ReadActive
    <2> QED BY <2>1, <2>2
  <1>9. CASE AcquireLock(f)
    <2>1. CASE Return(f, FALSE)
      BY <1>r, <2>1
    <2>2. CASE ~ Return(f, FALSE)
      <3>1. loc' = loc /\ pc'[f] = "start" /\ pc[f] = "lock"
        BY <1>0, <1>9, <2>2 DEF AcquireLock, Goto
      <3> QED BY <1>6, <3>1
    <2> QED BY <2>1, <2>2
  <1>10. CASE StartTransaction(f)
    <2>1. CASE Return(f, FALSE)
      BY <1>r, <2>1
    <2>2. CASE ~ Return(f, FALSE)
      <3>1. /\ loc' = [loc EXCEPT ![f].tx = Len(journal) + 1]
            /\ pc' = [pc EXCEPT ![f] = "apply"]
        BY <1>3, <1>10, <2>2 DEF StartTransaction, Goto
      <3>2. /\ pc'[f] = "apply" /\ loc'[f].target = loc[f].target /\ loc'[f].arg = loc[f].arg
            /\ loc'[f].ok = loc[f].ok
        BY <1>0, <3>1 DEF Local
      <3> QED BY <1>6, <1>10, <3>2 DEF StartTransaction
    <2> QED BY <2>1, <2>2
  <1>11. CASE Apply(f)
    <2>1. loc' = loc /\ pc'[f] \in {"wait", "abort"} /\ pc[f] = "apply"
      BY <1>0, <1>11 DEF Apply, Goto
    <2> QED BY <1>6, <2>1
  <1>12. CASE RunCommand(f)
    <2>1. loc' = loc /\ pc'[f] \in {"post", "abort"} /\ pc[f] = "wait"
      BY <1>0, <1>3, <1>12 DEF RunCommand, Goto, AfterCommand, LockedOps
    <2> QED BY <1>6, <2>1
  <1>13. CASE VerifyRollback(f)
    <2>1. /\ loc' = [loc EXCEPT ![f].new = active] /\ active' = active /\ pc[f] = "post"
          /\ pc'[f] \in {"commit", "abort"} /\ (pc'[f] = "commit" => active = loc[f].target)
      BY <1>0, <1>13 DEF VerifyRollback, Goto
    <2>2. loc'[f].target = loc[f].target /\ loc'[f].arg = loc[f].arg /\ loc'[f].ok = loc[f].ok
      BY <1>0, <2>1 DEF Local
    <2> QED BY <1>6, <2>1, <2>2
  <1>14. CASE FinishTransaction(f)
    <2>1. /\ loc' = [loc EXCEPT ![f].ok = pc[f] = "commit" /\ Present(loc[f].tx)]
          /\ active' = active /\ pc[f] \in {"commit", "abort", "mark"}
          /\ pc'[f] = "release" \/ (pc'[f] = "abort" /\ ~ Present(loc[f].tx))
      BY <1>0, <1>14 DEF FinishTransaction, Goto
    <2>2. /\ loc'[f].target = loc[f].target /\ loc'[f].arg = loc[f].arg
          /\ loc'[f].ok => pc[f] = "commit" /\ Present(loc[f].tx)
      BY <1>0, <2>1 DEF Local
    <2> QED BY <1>6, <2>1, <2>2
  <1>15. CASE ReleaseLock(f)
    <2>1. /\ pc'[f] = "idle" /\ active' = active
          /\ loc' = [loc EXCEPT ![f] = [Blank EXCEPT !.ok = loc[f].ok /\ f[2] = "rb"]]
      BY <1>0, <1>15 DEF ReleaseLock, Return, Goto
    <2>2. loc'[f].ok => loc[f].ok
      BY <1>0, <2>1 DEF Blank
    <2> QED BY <1>6, <2>1, <2>2
  <1>16. ~ (RecoverNext(f) \/ RecoverRollbackReturns(f) \/ RecoverMark(f) \/ RecoverEnd(f)
            \/ AutoRollbackReturns(f)
            \/ \E probe, auto \in BOOLEAN : HealthCheck(f, probe, auto))
    <2>1. pc[f] \notin {"rnext", "rmark"}
      BY <1>0, <1>3, LabelFacts DEF LockInv
    <2> QED BY <1>3, <2>1 DEF RecoverNext, RecoverRollbackReturns, RecoverMark, RecoverEnd,
                              AutoRollbackReturns, HealthCheck
  <1> QED BY <1>7, <1>8, <1>9, <1>10, <1>11, <1>12, <1>13, <1>14, <1>15, <1>16 DEF Step, f

LEMMA RealNext ==
    ASSUME MaxKills = 0, "skill_upgrade" \notin Ops
    PROVE  RealInv /\ [Next]_vars => RealInv'
  <1> SUFFICES ASSUME RealInv, [Next]_vars, NEW p \in Procs, loc'[Outer(p)].op = "recover"
               PROVE  RollbackOK(p)'
    BY ExplainNext, RecoveryNext DEF RealInv
  <1>0. /\ RecoveryInv /\ LockInv /\ LockInv' /\ TypeOK /\ orphans = {}
        /\ Outer(p) \in Frame /\ Inner(p) \in Frame
        /\ p # NoLock /\ pc \in [Frame -> Label] /\ loc \in [Frame -> Local]
    BY LockNext, FrameType, ConstantsAssumption
       DEF RealInv, RecoveryInv, ExplainInv, NoBypass, LockInv, TypeOK
  (* The link, the journal and the frames of p stay, and so do the others' *)
  (* transactions.                                                         *)
  <1>q. ASSUME journal' = journal, active' = active,
               pc'[Outer(p)] = pc[Outer(p)], loc'[Outer(p)] = loc[Outer(p)],
               pc'[Inner(p)] = pc[Inner(p)], loc'[Inner(p)] = loc[Inner(p)],
               \A g \in Frame : InTransaction(g) => InTransaction(g)'
        PROVE  RollbackOK(p)'
    <2>1. RollbackOK(p)
      BY <1>q DEF RealInv
    <2>2. \A x : Restored(p, x) => Restored(p, x)'
      BY <1>q DEF Restored
    <2> DEFINE goal == journal[loc[Outer(p)].tx].prev
    <2>3. goal' = goal
      BY <1>q
    <2>4. Restored(p, goal) => Restored(p, goal)'
      BY <2>2, <2>3
    <2> QED BY <1>q, <2>1, <2>3, <2>4 DEF RollbackOK
  <1>1. ASSUME NEW f \in Frame, Step(f) PROVE RollbackOK(p)'
    <2>1. f[1] # p \/ f = Outer(p) \/ f = Inner(p)
      BY FrameCases
    <2> QED BY <1>0, <1>1, <2>1, RealSelf, RealNested, RealOthers
  <1>2. ASSUME NEW q \in Procs, BeginOperation(q) PROVE RollbackOK(p)'
    <2>1. PICK l, local : /\ pc' = [pc EXCEPT ![Outer(q)] = l]
                          /\ loc' = [loc EXCEPT ![Outer(q)] = local]
                          /\ l \notin {"call", "rmark"}
      <3>1. \E l \in {"lock", "simulate", "wait", "rnext"} : pc' = [pc EXCEPT ![Outer(q)] = l]
        BY <1>2 DEF BeginOperation, UpdateBegin, StageBegin, RollbackBegin, DietBegin,
                    UnlockedBegin, RecoverBegin, Begin, Goto
      <3>2. \E local : loc' = [loc EXCEPT ![Outer(q)] = local]
        BY <1>2 DEF BeginOperation, UpdateBegin, StageBegin, RollbackBegin, DietBegin,
                    UnlockedBegin, RecoverBegin, Begin
      <3> QED BY <3>1, <3>2
    <2>2. pc[Outer(q)] = "idle" /\ journal' = journal /\ active' = active
      BY <1>2 DEF BeginOperation, UpdateBegin, StageBegin, RollbackBegin, DietBegin,
                  UnlockedBegin, RecoverBegin, Free
    <2>3. CASE p = q
      <3>1. pc'[Outer(p)] \notin {"call", "rmark"}
        BY <1>0, <2>1, <2>3
      <3> QED BY <3>1 DEF RollbackOK
    <2>4. CASE p # q
      <3>1. \A g \in Frame : g # Outer(q) => pc'[g] = pc[g] /\ loc'[g] = loc[g]
        BY <1>0, <2>1
      <3>2. Outer(p) # Outer(q) /\ Inner(p) # Outer(q)
        BY <2>4 DEF Outer, Inner
      <3>3. \A g \in Frame : InTransaction(g) => InTransaction(g)'
        BY <2>2, <3>1 DEF InTransaction, Critical
      <3> QED BY <1>0, <1>q, <2>2, <3>1, <3>2, <3>3
    <2> QED BY <2>3, <2>4
  <1>3. ASSUME NEW q \in Procs, Kill(q) PROVE FALSE
    BY <1>0, <1>3 DEF Kill, TypeOK
  <1>4. CASE OrphanEnds
    BY <1>0, <1>4 DEF OrphanEnds
  <1>5. CASE Reboot
    <2>1. loc'[Outer(p)] = Blank
      BY <1>0, <1>5 DEF Reboot
    <2> QED BY <2>1 DEF Blank
  <1>6. CASE QuarantineAndReset
    <2>1. loc[Outer(p)].op = "recover" /\ jlock = NoLock
      BY <1>6 DEF QuarantineAndReset
    <2> QED BY <1>0, <2>1 DEF RecoveryInv
  <1>7. ASSUME pc' = pc, loc' = loc, journal' = journal, active' = active
        PROVE  RollbackOK(p)'
    BY <1>7, <1>q DEF InTransaction, Critical
  <1>8. ASSUME NEW q \in Procs, ExitProcess(q) PROVE RollbackOK(p)'
    BY <1>7, <1>8 DEF ExitProcess
  <1>9. CASE JournalFails \/ JournalReturns \/ (UNCHANGED vars)
    BY <1>7, <1>9 DEF JournalFails, JournalReturns, vars
  <1> QED BY <1>1, <1>2, <1>3, <1>4, <1>5, <1>6, <1>8, <1>9 DEF Next

LEMMA RealInit == Init => RealInv
  <1> SUFFICES ASSUME Init, NEW p \in Procs PROVE loc[Outer(p)].op # "recover"
    BY ExplainInit, RecoveryInit DEF RealInv
  <1> QED BY FrameType DEF Init, Blank

(* A recovery that records ROLLED_BACK while no other process is inside a  *)
(* transaction tells the truth: the link is at the generation that         *)
(* transaction started from.  The nested rollback has freed the operation  *)
(* lock by then; the journal's lock, which the recovery still holds, keeps *)
(* everybody else from opening a transaction in between.                   *)
THEOREM RecoveryTellsTruth ==
    ASSUME MaxKills = 0, "skill_upgrade" \notin Ops
    PROVE  Spec => RecoveryRollbackIsReal
  <1>1. RealInv /\ [Next]_vars =>
           [\A p \in Procs :
              (/\ RecoverMark(Outer(p))
               /\ loc[Outer(p)].ok
               /\ Present(loc[Outer(p)].tx)
               /\ \A f \in Frame : f[1] # p => ~ InTransaction(f))
              => active = journal[loc[Outer(p)].tx].prev]_vars
    <2> SUFFICES ASSUME RealInv, NEW p \in Procs, RecoverMark(Outer(p)), loc[Outer(p)].ok,
                        \A f \in Frame : f[1] # p => ~ InTransaction(f)
                 PROVE  active = journal[loc[Outer(p)].tx].prev
      OBVIOUS
    <2>1. LockInv /\ Outer(p) \in Frame /\ pc[Outer(p)] = "rmark"
      BY FrameType DEF RealInv, RecoveryInv, RecoverMark
    <2>2. loc[Outer(p)].op = "recover"
      BY <2>1, LabelFacts DEF LockInv
    <2>3. RollbackOK(p)
      BY <2>2 DEF RealInv
    <2> QED BY <2>1, <2>3 DEF RollbackOK, Restored
  <1>2. RealInv /\ [Next]_vars => RealInv'
    BY RealNext
  <1> QED BY <1>1, <1>2, RealInit, PTL DEF Spec, RecoveryRollbackIsReal

=============================================================================
