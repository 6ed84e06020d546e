------------------------- MODULE BootSentinelProofs -------------------------
(***************************************************************************)
(* Theorems about BootSentinel, for every bound and every environment that *)
(* their premises admit.                                                   *)
(***************************************************************************)
EXTENDS BootSentinel, WellFoundedInduction, TLAPS

(* A non-empty set of generations has a largest element.                   *)
LEMMA LatestExists ==
    ASSUME NEW S, S \subseteq Generation, S # {}
    PROVE  Max(S) \in S
  <1> DEFINE U == {m \in Nat : \A y \in S : y <= m}
  <1>1. MaxGen \in U
    BY SentinelAssumption DEF Generation
  <1>2. PICK m \in U : \A k \in U : ~ (<<k, m>> \in OpToRel(<, Nat))
    <2>1. U \subseteq Nat /\ U # {}
      BY <1>1
    <2> HIDE DEF U
    <2> QED BY <2>1, NatLessThanWellFounded, WFMin, Zenon
  <1>3. \A k \in U : ~ (k < m)
    BY <1>2, Zenon DEF OpToRel
  <1>4. m \in S
    <2> SUFFICES ASSUME m \notin S PROVE FALSE
      OBVIOUS
    <2>1. PICK s \in S : TRUE
      OBVIOUS
    <2>2. m # 0
      BY <2>1, SentinelAssumption DEF Generation
    <2>3. m - 1 \in U
      BY <2>2, SentinelAssumption DEF Generation
    <2> QED BY <2>3, <1>3
  <1>5. \E x \in S : \A y \in S : x >= y
    BY <1>4, SentinelAssumption DEF Generation
  <1> QED BY <1>5 DEF Max

-----------------------------------------------------------------------------
(* Type correctness.                                                       *)

LEMMA SafeInit == Init => SafeInv
  <1> SUFFICES ASSUME Init PROVE SafeInv
    OBVIOUS
  <1>1. 1 \in Generation
    BY SentinelAssumption DEF Generation
  <1>2. link \in gens /\ gens \subseteq Generation /\ sick \subseteq Generation
        /\ running \in Generation
    BY <1>1 DEF Init
  <1>3. TypeOK
    BY <1>2 DEF Init, TypeOK
  <1> QED BY <1>3 DEF Init, SafeInv, FreshBoot

LEMMA SafeUnit ==
    ASSUME SafeInv, Unit
    PROVE  SafeInv'
  <1> USE DEF SafeInv, TypeOK, FreshBoot, disk, boot, units, history
  <1>1. CASE Activate
    BY <1>1 DEF Activate, Seed
  <1>2. CASE Arm
    BY <1>2 DEF Arm
  <1>3. CASE ConfirmStop
    BY <1>3 DEF ConfirmStop
  <1>4. CASE ConfirmRecord
    BY <1>4 DEF ConfirmRecord
  <1>5. CASE WatchdogFires
    BY <1>5 DEF WatchdogFires
  <1>6. CASE FallbackRead
    BY <1>6 DEF FallbackRead
  <1>7. CASE FallbackRollback
    BY <1>7 DEF FallbackRollback, Switched
  <1>8. CASE FallbackVerify
    BY <1>8 DEF FallbackVerify, BootInto
  <1> QED BY <1>1, <1>2, <1>3, <1>4, <1>5, <1>6, <1>7, <1>8 DEF Unit

LEMMA SafeNext == SafeInv /\ [Next]_vars => SafeInv'
  <1> SUFFICES ASSUME SafeInv, [Next]_vars PROVE SafeInv'
    OBVIOUS
  <1>1. CASE Unit
    BY <1>1, SafeUnit
  <1> USE DEF SafeInv, TypeOK, FreshBoot, disk, boot, units, history
  <1>2. CASE Restart
    <2>1. PICK g \in gens : BootInto(g)
      BY <1>2 DEF Restart
    <2>2. restarts' \in Nat
      BY <1>2 DEF Restart
    <2> QED BY <1>2, <2>1, <2>2 DEF Restart, BootInto
  <1>3. CASE GraphicalReached
    BY <1>3 DEF GraphicalReached
  <1>4. CASE ManualRecord
    <2>1. lkg' \in {0} \cup Generation /\ booting' \in {0} \cup Generation
      BY <1>4 DEF ManualRecord
    <2> QED BY <1>4, <2>1 DEF ManualRecord
  <1>5. CASE ManualStop
    BY <1>5, ZenonT(30) DEF ManualStop
  <1>6. ASSUME NEW o \in Operation, OperationBegin(o) PROVE SafeInv'
    BY <1>6 DEF OperationBegin
  <1>7. CASE RebuildEnds
    <2>1. Max(gens) + 1 \in Generation
      <3>1. gens \subseteq Generation /\ gens # {}
        OBVIOUS
      <3>2. Max(gens) \in Generation
        BY <3>1, LatestExists
      <3> QED BY <1>7, <3>2, SentinelAssumption DEF RebuildEnds, Generation
    <2> QED BY <1>7, <2>1 DEF RebuildEnds, Seed, Switched
  <1>8. CASE RollbackEnds
    BY <1>8 DEF RollbackEnds, Switched
  <1>9. CASE CollectEnds
    BY <1>9 DEF CollectEnds
  <1>10. CASE OperationFails
    BY <1>10 DEF OperationFails
  <1>11. CASE UNCHANGED vars
    BY <1>11 DEF vars
  <1> QED BY <1>1, <1>2, <1>3, <1>4, <1>5, <1>6, <1>7, <1>8, <1>9, <1>10, <1>11 DEF Next

(* Every variable keeps its type; in particular the link never names a     *)
(* generation that does not exist.                                         *)
THEOREM SentinelTypes == Spec => []TypeOK
  <1>1. SafeInv => TypeOK
    BY DEF SafeInv
  <1> QED BY <1>1, SafeInit, SafeNext, PTL DEF Spec

-----------------------------------------------------------------------------
(* What the confirm unit records.                                          *)

LEMMA AssessInit == Init => AssessInv
  BY SafeInit DEF AssessInv, StillLink, Init

LEMMA AssessNext ==
    ASSUME "window" \notin Env, "menu" \notin Env
    PROVE  AssessInv /\ [Next]_vars => AssessInv'
  <1> SUFFICES ASSUME AssessInv, [Next]_vars PROVE StillLink'
    BY SafeNext DEF AssessInv
  <1> USE DEF AssessInv, StillLink, SafeInv, FreshBoot, disk, boot, units, history
  <1>1. CASE Unit
    <2>1. CASE Activate
      BY <2>1 DEF Activate, Seed
    <2>2. CASE Arm
      BY <2>2 DEF Arm
    <2>3. CASE ConfirmStop
      BY <2>3 DEF ConfirmStop
    <2>4. CASE ConfirmRecord
      BY <2>4 DEF ConfirmRecord
    <2>5. CASE WatchdogFires
      BY <2>5 DEF WatchdogFires
    <2>6. CASE FallbackRead
      BY <2>6 DEF FallbackRead
    <2>7. CASE FallbackRollback
      BY <2>7 DEF FallbackRollback, Switched
    <2>8. CASE FallbackVerify
      BY <2>8 DEF FallbackVerify, BootInto
    <2> QED BY <1>1, <2>1, <2>2, <2>3, <2>4, <2>5, <2>6, <2>7, <2>8 DEF Unit
  <1>2. CASE Restart
    BY <1>2 DEF Restart, BootInto
  <1>3. CASE GraphicalReached
    BY <1>3 DEF GraphicalReached
  <1>4. CASE ManualRecord
    BY <1>4 DEF ManualRecord
  <1>5. CASE ManualStop
    BY <1>5 DEF ManualStop
  <1>6. ASSUME NEW o \in Operation, OperationBegin(o) PROVE StillLink'
    BY <1>6 DEF OperationBegin
  <1>7. CASE RebuildEnds
    BY <1>7 DEF RebuildEnds, Seed, Switched
  <1>8. CASE RollbackEnds
    BY <1>8 DEF RollbackEnds, Switched
  <1>9. CASE CollectEnds
    BY <1>9 DEF CollectEnds
  <1>10. CASE OperationFails
    BY <1>10 DEF OperationFails
  <1>11. CASE UNCHANGED vars
    BY <1>11 DEF vars
  <1> QED BY <1>1, <1>2, <1>3, <1>4, <1>5, <1>6, <1>7, <1>8, <1>9, <1>10, <1>11 DEF Next

(* A boot the fallback did not touch is confirmed for a generation that    *)
(* reached graphical.target.  The premises are needed: an operation before *)
(* the confirmation moves the link the unit reads, and the boot menu makes *)
(* the running generation another one than the link's.                     *)
THEOREM ConfirmsOnlyProven ==
    ASSUME "window" \notin Env, "menu" \notin Env
    PROVE  Spec => ConfirmsProven
  <1>1. AssessInv /\ [Next]_vars =>
           [ConfirmRecord /\ fb = "idle" => lkg' \in reached]_vars
    BY DEF AssessInv, StillLink, ConfirmRecord
  <1>2. AssessInv /\ [Next]_vars => AssessInv'
    BY AssessNext
  <1> QED BY <1>1, <1>2, AssessInit, PTL DEF Spec, ConfirmsProven

-----------------------------------------------------------------------------
(* What the fallback returns to.                                           *)

LEMMA ProvenInit == Init => ProvenInv
  BY AssessInit DEF ProvenInv, LkgIsProven, Vouched, Init

LEMMA ProvenNext ==
    ASSUME "window" \notin Env, "menu" \notin Env, "drift" \notin Env
    PROVE  ProvenInv /\ [Next]_vars => ProvenInv'
  <1> SUFFICES ASSUME ProvenInv, [Next]_vars PROVE ProvenInv'
    OBVIOUS
  <1>0. AssessInv'
    BY AssessNext DEF ProvenInv
  <1> USE DEF ProvenInv, LkgIsProven, Vouched, AssessInv, StillLink, SafeInv, FreshBoot,
              disk, boot, units, history
  <1>1. CASE Unit
    <2>1. CASE Activate
      BY <1>0, <2>1 DEF Activate, Seed, TypeOK, Generation
    <2>2. CASE Arm
      BY <1>0, <2>2 DEF Arm
    <2>3. CASE ConfirmStop
      BY <1>0, <2>3 DEF ConfirmStop
    <2>4. CASE ConfirmRecord
      BY <1>0, <2>4 DEF ConfirmRecord, TypeOK, Generation
    <2>5. CASE WatchdogFires
      BY <1>0, <2>5 DEF WatchdogFires
    <2>6. CASE FallbackRead
      BY <1>0, <2>6 DEF FallbackRead
    <2>7. CASE FallbackRollback
      BY <1>0, <2>7 DEF FallbackRollback, Switched
    <2>8. CASE FallbackVerify
      BY <1>0, <2>8 DEF FallbackVerify, BootInto
    <2> QED BY <1>1, <2>1, <2>2, <2>3, <2>4, <2>5, <2>6, <2>7, <2>8 DEF Unit
  <1>2. CASE Restart
    BY <1>0, <1>2 DEF Restart, BootInto
  <1>3. CASE GraphicalReached
    BY <1>0, <1>3 DEF GraphicalReached
  <1>4. CASE ManualRecord
    BY <1>0, <1>4 DEF ManualRecord, TypeOK, Generation
  <1>5. CASE ManualStop
    BY <1>0, <1>5 DEF ManualStop
  <1>6. ASSUME NEW o \in Operation, OperationBegin(o) PROVE ProvenInv'
    BY <1>0, <1>6 DEF OperationBegin
  <1>7. CASE RebuildEnds
    BY <1>0, <1>7 DEF RebuildEnds, Seed, Switched
  <1>8. CASE RollbackEnds
    BY <1>0, <1>8 DEF RollbackEnds, Switched
  <1>9. CASE CollectEnds
    BY <1>0, <1>9 DEF CollectEnds
  <1>10. CASE OperationFails
    BY <1>0, <1>10 DEF OperationFails
  <1>11. CASE UNCHANGED vars
    BY <1>0, <1>11 DEF vars
  <1> QED BY <1>1, <1>2, <1>3, <1>4, <1>5, <1>6, <1>7, <1>8, <1>9, <1>10, <1>11 DEF Next

(* last-known-good is a generation that reached graphical.target, the one  *)
(* the installation started with or one a person confirmed, if none of     *)
(* three things happens: an operation before the confirmation, a boot from *)
(* the menu, a switch that activates its target without moving the link.   *)
(* Run SentinelDrift shows that the last one alone breaks it.              *)
THEOREM LkgStaysProven ==
    ASSUME "window" \notin Env, "menu" \notin Env, "drift" \notin Env
    PROVE  Spec => []LkgIsProven
  <1>1. ProvenInv => LkgIsProven
    BY DEF ProvenInv
  <1>2. ProvenInv /\ [Next]_vars => ProvenInv'
    BY ProvenNext
  <1> QED BY <1>1, <1>2, ProvenInit, PTL DEF Spec

(* Under the same premises the fallback reboots into such a generation     *)
(* only, for any number of rebuilds, restarts, confirmations and timers    *)
(* that a switch starts again.                                             *)
THEOREM FallbackStaysSafe ==
    ASSUME "window" \notin Env, "menu" \notin Env, "drift" \notin Env
    PROVE  Spec => FallbackLandsSafely
  <1>1. ProvenInv /\ [Next]_vars =>
           [FallbackVerify /\ phase' = "activate" => running' \in Vouched]_vars
    <2> SUFFICES ASSUME ProvenInv, FallbackVerify, phase' = "activate"
                 PROVE  running' \in Vouched
      OBVIOUS
    <2>1. last \in Vouched /\ phase = "up"
      BY DEF ProvenInv, AssessInv, SafeInv, FreshBoot, FallbackVerify
    <2>2. link = last /\ BootInto(link)
      BY <2>1 DEF FallbackVerify, boot
    <2> QED BY <2>1, <2>2 DEF BootInto
  <1>2. ProvenInv /\ [Next]_vars => ProvenInv'
    BY ProvenNext
  <1> QED BY <1>1, <1>2, ProvenInit, PTL DEF Spec, FallbackLandsSafely

=============================================================================
