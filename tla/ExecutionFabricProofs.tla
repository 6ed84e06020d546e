------------------------ MODULE ExecutionFabricProofs ------------------------
(***************************************************************************)
(* Theorems about ExecutionFabric: it implements ExecutionContract, and    *)
(* its safety invariants hold for any callers, submissions and programs    *)
(* that come and go, not only for the ones of the TLC run.                 *)
(***************************************************************************)
EXTENDS ExecutionFabric, TLAPS

(* The safety part of the specification: without fairness.                 *)
Safety == Init /\ [][Next]_vars

(* The local variables of a call.                                          *)
Local == [sub : Submissions, current : Int, provider : Providers, exit : {0, 124, 127},
          ran : Int, after : Int, entitled : BOOLEAN]

Types ==
    /\ pc \in [Callers -> Steps]
    /\ loc \in [Callers -> Local]
    /\ cache \in [Programs -> {"unasked", "known", "missing"}]
    /\ granted \in BOOLEAN
    /\ root \in Nat

LEMMA IdleType == Idle \in Local
  <1>1. (CHOOSE s \in Submissions : TRUE) \in Submissions
    BY SubmissionsAreSubmissions
  <1> QED
    BY <1>1 DEF Idle, Local, Providers, NoRoot

LEMMA EntitledType ==
    ASSUME NEW l \in Local PROVE [l EXCEPT !.entitled = TRUE] \in Local
  BY DEF Local

(* Every variable the other proofs rest on keeps its type.                 *)
LEMMA TypesStep == Types /\ [Next]_vars => Types'
  <1> SUFFICES ASSUME Types, [Next]_vars PROVE Types'
    OBVIOUS
  <1> USE IdleType DEF Types
  <1>1. ASSUME NEW c \in Callers, NEW s \in Submits[c], Submit(c, s) PROVE Types'
    <2>1. s \in Submissions
      BY DEF Submissions
    <2>2. [Idle EXCEPT !.sub = s, !.entitled = granted,
                       !.current = IF s.observed THEN root ELSE NoRoot] \in Local
      <3> DEFINE r == IF s.observed THEN root ELSE NoRoot
      <3>1. r \in Int
        BY DEF NoRoot
      <3> HIDE DEF r
      <3>2. [Idle EXCEPT !.sub = s, !.entitled = granted, !.current = r] \in Local
        BY <2>1, <3>1 DEF Local
      <3> QED
        BY <3>2 DEF r
    <2> QED
      BY <1>1, <2>2 DEF Submit, Goto, Steps, world
  <1>2. ASSUME NEW c \in Callers, Evaluate(c) PROVE Types'
    BY <1>2 DEF Evaluate, Goto, End, Steps, world
  <1>3. ASSUME NEW c \in Callers, Resolve(c) PROVE Types'
    <2>1. cache' \in [Programs -> {"unasked", "known", "missing"}]
      BY <1>3 DEF Resolve, Ask
    <2>2. pc' \in [Callers -> Steps] /\ loc' \in [Callers -> Local]
      BY <1>3 DEF Resolve, Goto, End, Steps, Local, Best
    <2> QED
      BY <1>3, <2>1, <2>2 DEF Resolve
  <1>4. ASSUME NEW c \in Callers, Prepare(c) PROVE Types'
    BY <1>4 DEF Prepare, Goto, End, Steps, world
  <1>5. ASSUME NEW c \in Callers, Execute(c) PROVE Types'
    BY <1>5 DEF Execute, Goto, Steps, world, Local
  <1>6. ASSUME NEW c \in Callers, Finish(c) PROVE Types'
    BY <1>6 DEF Finish, Goto, Steps, Local
  <1>7. ASSUME NEW c \in Callers, Receipt(c) PROVE Types'
    BY <1>7 DEF Receipt, Goto, Steps, world, Local, NoRoot
  <1>8. ASSUME NEW c \in Callers, Cleanup(c) PROVE Types'
    BY <1>8 DEF Cleanup, Goto, Steps, world
  <1>9. ASSUME NEW c \in Callers, Certify(c) PROVE Types'
    BY <1>9 DEF Certify, Goto, End, Steps, world
  <1>10. ASSUME NEW c \in Callers, Answer(c) PROVE Types'
    BY <1>10 DEF Answer, Goto, End, Steps, world
  <1>11. ASSUME NEW p \in Movable, MoveProgram(p) PROVE Types'
    BY <1>11 DEF MoveProgram
  <1>12. CASE Delegate
    <2>1. \A c \in Callers : [loc[c] EXCEPT !.entitled = TRUE] \in Local
      BY EntitledType
    <2>2. loc' \in [Callers -> Local]
      BY <1>12, <2>1, Zenon DEF Delegate
    <2> QED
      BY <1>12, <2>2 DEF Delegate
  <1>13. CASE HostChanges
    BY <1>13 DEF HostChanges
  <1>14. CASE SetWeights
    BY <1>14 DEF SetWeights
  <1>15. CASE Kill
    BY <1>15 DEF Kill, Steps
  <1>16. CASE UNCHANGED vars
    BY <1>16 DEF vars
  <1> QED
    BY <1>1, <1>2, <1>3, <1>4, <1>5, <1>6, <1>7, <1>8, <1>9, <1>10, <1>11, <1>12,
       <1>13, <1>14, <1>15, <1>16 DEF Next, Step

LEMMA TypesInit == Init => Types
  BY IdleType DEF Init, Types, Steps

LEMMA TypesHold == Safety => []Types
  BY TypesInit, TypesStep, PTL DEF Safety

-----------------------------------------------------------------------------
(* The refinement.  Types says that a call is at one of the control points *)
(* Stage names; everything else is the correspondence of the steps.        *)

LEMMA StageMoves ==
    ASSUME Types, NEW c \in Callers, NEW step \in Steps, pc' = [pc EXCEPT ![c] = step]
    PROVE  Contract!Move(c, StageOf[pc[c]], StageOf[step])
  BY DEF Types, Contract!Move

LEMMA StageStays ==
    ASSUME Types, NEW c \in Callers, NEW step \in Steps, pc' = [pc EXCEPT ![c] = step],
           StageOf[step] = StageOf[pc[c]], UNCHANGED <<dirs, strays>>
    PROVE  UNCHANGED Contract!vars
  <1>1. \A d \in Callers : StageOf[pc'[d]] = StageOf[pc[d]]
    BY DEF Types
  <1> QED
    BY <1>1 DEF Contract!vars

LEMMA ContractInit == Init => Contract!Init
  BY DEF Init, Contract!Init, StageOf

LEMMA ContractStep == Types /\ [Next]_vars => [Contract!Next]_(Contract!vars)
  <1> SUFFICES ASSUME Types, [Next]_vars PROVE [Contract!Next]_(Contract!vars)
    OBVIOUS
  <1>1. ASSUME NEW c \in Callers, NEW s \in Submits[c], Submit(c, s)
        PROVE  Contract!Submit(c)
    <2>1. PICK step \in {"resolve", "evaluate"} : pc' = [pc EXCEPT ![c] = step]
      BY <1>1 DEF Submit, Goto
    <2>2. step \in Steps /\ StageOf[step] = "submitted" /\ StageOf[pc[c]] = "idle"
      BY <1>1 DEF Submit, StageOf, Steps
    <2>3. Contract!Move(c, "idle", "submitted")
      BY <2>1, <2>2, StageMoves
    <2> QED
      BY <1>1, <2>3 DEF Submit, Contract!Submit
  <1>2. ASSUME NEW c \in Callers, Evaluate(c)
        PROVE  Contract!Refuse(c) \/ UNCHANGED Contract!vars
    <2>1. pc[c] = "evaluate" /\ UNCHANGED <<dirs, strays>>
      BY <1>2 DEF Evaluate
    <2>2. CASE pc' = [pc EXCEPT ![c] = "resolve"]
      <3>1. "resolve" \in Steps /\ StageOf["resolve"] = StageOf[pc[c]]
        BY <2>1 DEF StageOf, Steps
      <3> QED
        BY <2>1, <2>2, <3>1, StageStays
    <2>3. CASE pc' = [pc EXCEPT ![c] = "idle"]
      <3>1. Contract!Move(c, StageOf[pc[c]], StageOf["idle"])
        BY <2>3, StageMoves DEF Steps
      <3> QED
        BY <2>1, <3>1 DEF StageOf, Contract!Refuse
    <2> QED
      BY <1>2, <2>2, <2>3 DEF Evaluate, Goto, End
  <1>3. ASSUME NEW c \in Callers, Resolve(c)
        PROVE  Contract!Refuse(c) \/ UNCHANGED Contract!vars
    <2>1. pc[c] = "resolve" /\ UNCHANGED <<dirs, strays>>
      BY <1>3 DEF Resolve
    <2>2. CASE pc' = [pc EXCEPT ![c] = "prepare"]
      <3>1. "prepare" \in Steps /\ StageOf["prepare"] = StageOf[pc[c]]
        BY <2>1 DEF StageOf, Steps
      <3> QED
        BY <2>1, <2>2, <3>1, StageStays
    <2>3. CASE pc' = [pc EXCEPT ![c] = "idle"]
      <3>1. Contract!Move(c, StageOf[pc[c]], StageOf["idle"])
        BY <2>3, StageMoves DEF Steps
      <3> QED
        BY <2>1, <3>1 DEF StageOf, Contract!Refuse
    <2> QED
      BY <1>3, <2>2, <2>3 DEF Resolve, Goto, End
  <1>4. ASSUME NEW c \in Callers, Prepare(c)
        PROVE  Contract!Prepare(c) \/ Contract!Refuse(c) \/ Contract!Abandon(c)
    <2>1. pc[c] = "prepare"
      BY <1>4 DEF Prepare
    <2>2. CASE pc' = [pc EXCEPT ![c] = "execute"] /\ dirs' \in {dirs, dirs \cup {c}}
               /\ UNCHANGED strays
      <3>1. Contract!Move(c, StageOf[pc[c]], StageOf["execute"])
        BY <2>2, StageMoves DEF Steps
      <3> QED
        BY <2>1, <2>2, <3>1 DEF StageOf, Contract!Prepare
    <2>3. CASE pc' = [pc EXCEPT ![c] = "idle"] /\ UNCHANGED <<dirs, strays>>
      <3>1. Contract!Move(c, StageOf[pc[c]], StageOf["idle"])
        BY <2>3, StageMoves DEF Steps
      <3> QED
        BY <2>1, <2>3, <3>1 DEF StageOf, Contract!Refuse
    <2>4. CASE pc' = [pc EXCEPT ![c] = "idle"] /\ UNCHANGED dirs /\ strays' = TRUE
      <3>1. Contract!Move(c, StageOf[pc[c]], StageOf["idle"])
        BY <2>4, StageMoves DEF Steps
      <3> QED
        BY <2>1, <2>4, <3>1 DEF StageOf, Contract!Abandon
    <2> QED
      BY <1>4, <2>2, <2>3, <2>4 DEF Prepare, Goto, End
  <1>5. ASSUME NEW c \in Callers, Execute(c)
        PROVE  Contract!Run(c) \/ UNCHANGED Contract!vars
    <2>1. pc[c] = "execute" /\ UNCHANGED <<dirs, strays>>
      BY <1>5 DEF Execute
    <2>2. CASE pc' = [pc EXCEPT ![c] = "run"]
      <3>1. "run" \in Steps /\ StageOf["run"] = StageOf[pc[c]]
        BY <2>1 DEF StageOf, Steps
      <3> QED
        BY <2>1, <2>2, <3>1, StageStays
    <2>3. CASE pc' = [pc EXCEPT ![c] = "receipt"]
      <3>1. Contract!Move(c, StageOf[pc[c]], StageOf["receipt"])
        BY <2>3, StageMoves DEF Steps
      <3> QED
        BY <2>1, <3>1 DEF StageOf, Contract!Run
    <2> QED
      BY <1>5, <2>2, <2>3 DEF Execute, Goto
  <1>6. ASSUME NEW c \in Callers, Finish(c) PROVE Contract!Run(c)
    <2>1. pc[c] = "run" /\ UNCHANGED <<dirs, strays>> /\ pc' = [pc EXCEPT ![c] = "receipt"]
      BY <1>6 DEF Finish, Goto
    <2>2. Contract!Move(c, StageOf[pc[c]], StageOf["receipt"])
      BY <2>1, StageMoves DEF Steps
    <2> QED
      BY <2>1, <2>2 DEF StageOf, Contract!Run
  <1>7. ASSUME NEW c \in Callers, Receipt(c) PROVE UNCHANGED Contract!vars
    <2>1. pc[c] = "receipt" /\ UNCHANGED <<dirs, strays>> /\ pc' = [pc EXCEPT ![c] = "cleanup"]
      BY <1>7 DEF Receipt, Goto
    <2>2. "cleanup" \in Steps /\ StageOf["cleanup"] = StageOf[pc[c]]
      BY <2>1 DEF StageOf, Steps
    <2> QED
      BY <2>1, <2>2, StageStays
  <1>8. ASSUME NEW c \in Callers, Cleanup(c) PROVE Contract!CleanUp(c)
    <2>1. pc[c] = "cleanup" /\ dirs' = dirs \ {c} /\ UNCHANGED strays /\ pc' = [pc EXCEPT ![c] = "certify"]
      BY <1>8 DEF Cleanup, Goto
    <2>2. Contract!Move(c, StageOf[pc[c]], StageOf["certify"])
      BY <2>1, StageMoves DEF Steps
    <2> QED
      BY <2>1, <2>2 DEF StageOf, Contract!CleanUp
  <1>9. ASSUME NEW c \in Callers, Certify(c)
        PROVE  Contract!Answer(c) \/ UNCHANGED Contract!vars
    <2>1. pc[c] = "certify" /\ UNCHANGED <<dirs, strays>>
      BY <1>9 DEF Certify
    <2>2. CASE pc' = [pc EXCEPT ![c] = "answer"]
      <3>1. "answer" \in Steps /\ StageOf["answer"] = StageOf[pc[c]]
        BY <2>1 DEF StageOf, Steps
      <3> QED
        BY <2>1, <2>2, <3>1, StageStays
    <2>3. CASE pc' = [pc EXCEPT ![c] = "idle"]
      <3>1. Contract!Move(c, StageOf[pc[c]], StageOf["idle"])
        BY <2>3, StageMoves DEF Steps
      <3> QED
        BY <2>1, <3>1 DEF StageOf, Contract!Answer
    <2> QED
      BY <1>9, <2>2, <2>3 DEF Certify, Goto, End
  <1>10. ASSUME NEW c \in Callers, Answer(c) PROVE Contract!Answer(c)
    <2>1. pc[c] = "answer" /\ UNCHANGED <<dirs, strays>> /\ pc' = [pc EXCEPT ![c] = "idle"]
      BY <1>10 DEF Answer, End, Goto
    <2>2. Contract!Move(c, StageOf[pc[c]], StageOf["idle"])
      BY <2>1, StageMoves DEF Steps
    <2> QED
      BY <2>1, <2>2 DEF StageOf, Contract!Answer
  <1>11. CASE Kill
    <2>1. Contract!Die
      BY <1>11 DEF Kill, Contract!Die, StageOf
    <2> QED
      BY <2>1 DEF Contract!Next
  <1>12. ASSUME UNCHANGED <<pc, dirs, strays>> PROVE UNCHANGED Contract!vars
    BY <1>12 DEF Contract!vars
  <1>13. ASSUME NEW p \in Movable, MoveProgram(p) PROVE UNCHANGED <<pc, dirs, strays>>
    BY <1>13 DEF MoveProgram
  <1>14. ASSUME Delegate \/ HostChanges \/ SetWeights \/ UNCHANGED vars
         PROVE  UNCHANGED <<pc, dirs, strays>>
    BY <1>14 DEF Delegate, HostChanges, SetWeights, vars
  <1> QED
    BY <1>1, <1>2, <1>3, <1>4, <1>5, <1>6, <1>7, <1>8, <1>9, <1>10, <1>11, <1>12,
       <1>13, <1>14 DEF Next, Step, Contract!Next

(* The fabric implements its contract: a call of execute_envelope, or of a *)
(* provider, is refused before anything was set up, or prepares, runs at   *)
(* most once, cleans up and answers, in this order, for any number of      *)
(* threads and whatever they submit; no directory is left behind but by a  *)
(* prepare that raises half way and by the death of the process.           *)
THEOREM FabricImplementsContract == Spec => ImplementsContract
  <1>1. Spec => Safety
    BY PTL DEF Spec, Safety
  <1>2. Safety => Contract!Spec
    BY ContractInit, ContractStep, TypesHold, PTL DEF Safety, Contract!Spec
  <1> QED
    BY <1>1, <1>2 DEF ImplementsContract

-----------------------------------------------------------------------------
(* Entitlement.  MutationsAreEntitled speaks of the moment a command runs; *)
(* what makes it true is checked in Evaluate, and has to be carried along. *)

Cleared(l) ==
    \/ l.sub.principal = "HUMAN" /\ l.sub.tier = "FULL_OPERATOR"
    \/ l.sub.principal = "AI_AGENT" /\ l.entitled

Entitlement(c) ==
    /\ pc[c] # "idle" /\ granted => loc[c].entitled
    /\ /\ pc[c] \in {"resolve", "prepare", "execute", "run"}
       /\ loc[c].sub.category = "MUTATE" /\ ~ loc[c].sub.direct
       => Cleared(loc[c])

EntitlementInv == \A c \in Callers : Entitlement(c)

LEMMA EntitlementStep ==
    Types /\ Types' /\ EntitlementInv /\ [Next]_vars => EntitlementInv'
  <1> SUFFICES ASSUME Types, Types', EntitlementInv, [Next]_vars, NEW d \in Callers
               PROVE  Entitlement(d)'
    BY DEF EntitlementInv
  <1>0. Entitlement(d)
    BY DEF EntitlementInv
  <1>a. loc[d] \in Local /\ loc'[d] \in Local /\ pc[d] \in Steps /\ pc'[d] \in Steps
    BY DEF Types
  <1>b. ASSUME UNCHANGED <<pc[d], loc[d], granted>> PROVE Entitlement(d)'
    BY <1>0, <1>b DEF Entitlement, Cleared
  <1>1. ASSUME NEW c \in Callers, NEW s \in Submits[c], Submit(c, s) PROVE Entitlement(d)'
    <2>1. CASE d = c
      <3>1. loc'[c] = [Idle EXCEPT !.sub = s, !.entitled = granted,
                                   !.current = IF s.observed THEN root ELSE NoRoot]
        BY <1>1 DEF Submit, Types
      <3>2. loc'[c].sub = s /\ loc'[c].entitled = granted
        BY <3>1, IdleType DEF Local
      <3>3. granted' = granted /\ pc'[c] = IF s.direct THEN "resolve" ELSE "evaluate"
        BY <1>1 DEF Submit, Goto, Types, world
      <3> QED
        BY <2>1, <3>2, <3>3 DEF Entitlement
    <2>2. CASE d # c
      BY <1>1, <1>b, <2>2 DEF Submit, Goto, Types, world
    <2> QED
      BY <2>1, <2>2
  <1>2. ASSUME NEW c \in Callers, Evaluate(c) PROVE Entitlement(d)'
    <2>1. CASE d = c /\ pc'[c] = "resolve"
      <3>1. loc'[c] = loc[c] /\ granted' = granted /\ pc[c] = "evaluate" /\ Authorized(loc[c].sub)
        BY <1>2, <2>1 DEF Evaluate, Goto, End, Types, world
      <3> QED
        BY <1>0, <2>1, <3>1 DEF Entitlement, Authorized, Cleared
    <2>2. CASE d = c /\ pc'[c] = "idle"
      BY <2>2 DEF Entitlement
    <2>3. CASE d # c
      BY <1>2, <1>b, <2>3 DEF Evaluate, Goto, End, Types, world
    <2> QED
      BY <1>2, <2>1, <2>2, <2>3 DEF Evaluate, Goto, End, Types
  <1>3. ASSUME NEW c \in Callers, Resolve(c) PROVE Entitlement(d)'
    <2>1. CASE d = c /\ pc'[c] = "prepare"
      <3>1. /\ granted' = granted /\ pc[c] = "resolve"
            /\ loc'[c].sub = loc[c].sub /\ loc'[c].entitled = loc[c].entitled
        BY <1>3, <1>a, <2>1 DEF Resolve, Goto, End, Types, Local
      <3> QED
        BY <1>0, <2>1, <3>1 DEF Entitlement, Cleared
    <2>2. CASE d = c /\ pc'[c] = "idle"
      BY <2>2 DEF Entitlement
    <2>3. CASE d # c
      BY <1>3, <1>b, <2>3 DEF Resolve, Goto, End, Types
    <2> QED
      BY <1>3, <2>1, <2>2, <2>3 DEF Resolve, Goto, End, Types
  <1>4. ASSUME NEW c \in Callers, Prepare(c) PROVE Entitlement(d)'
    <2>1. CASE d = c /\ pc'[c] = "execute"
      <3>1. granted' = granted /\ pc[c] = "prepare" /\ loc'[c] = loc[c]
        BY <1>4, <2>1 DEF Prepare, Goto, End, Types, world
      <3> QED
        BY <1>0, <2>1, <3>1 DEF Entitlement, Cleared
    <2>2. CASE d = c /\ pc'[c] = "idle"
      BY <2>2 DEF Entitlement
    <2>3. CASE d # c
      BY <1>4, <1>b, <2>3 DEF Prepare, Goto, End, Types, world
    <2> QED
      BY <1>4, <2>1, <2>2, <2>3 DEF Prepare, Goto, End, Types
  <1>5. ASSUME NEW c \in Callers, Execute(c) PROVE Entitlement(d)'
    <2>1. CASE d = c
      <3>1. /\ granted' = granted /\ pc[c] = "execute"
            /\ loc'[c].sub = loc[c].sub /\ loc'[c].entitled = loc[c].entitled
        BY <1>5, <1>a, <2>1 DEF Execute, Goto, Types, Local, world
      <3> QED
        BY <1>0, <2>1, <3>1 DEF Entitlement, Cleared
    <2>2. CASE d # c
      BY <1>5, <1>b, <2>2 DEF Execute, Goto, Types, world
    <2> QED
      BY <2>1, <2>2
  <1>6. ASSUME NEW c \in Callers, Finish(c) \/ Receipt(c) PROVE Entitlement(d)'
    <2>1. CASE d = c
      <3>1. /\ granted' = granted /\ pc[c] # "idle" /\ pc'[c] \in {"receipt", "cleanup"}
            /\ loc'[c].entitled = loc[c].entitled
        BY <1>6, <1>a, <2>1 DEF Finish, Receipt, Goto, Types, Local, world
      <3> QED
        BY <1>0, <2>1, <3>1 DEF Entitlement
    <2>2. CASE d # c
      BY <1>6, <1>b, <2>2 DEF Finish, Receipt, Goto, Types, world
    <2> QED
      BY <2>1, <2>2
  <1>7. ASSUME NEW c \in Callers, Cleanup(c) \/ Certify(c) \/ Answer(c) PROVE Entitlement(d)'
    <2>1. CASE d = c /\ pc'[c] = "idle"
      BY <2>1 DEF Entitlement
    <2>2. CASE d = c /\ pc'[c] # "idle"
      <3>1. /\ granted' = granted /\ pc[c] # "idle" /\ pc'[c] \in {"certify", "answer"}
            /\ loc'[c] = loc[c]
        BY <1>7, <2>2 DEF Cleanup, Certify, Answer, End, Goto, Types, world
      <3> QED
        BY <1>0, <2>2, <3>1 DEF Entitlement
    <2>3. CASE d # c
      BY <1>7, <1>b, <2>3 DEF Cleanup, Certify, Answer, End, Goto, Types, world
    <2> QED
      BY <2>1, <2>2, <2>3
  <1>8. ASSUME NEW p \in Movable, MoveProgram(p) PROVE Entitlement(d)'
    BY <1>8, <1>b DEF MoveProgram
  <1>9. CASE Delegate
    <2>1. CASE granted
      <3>1. pc' = pc /\ ~ granted' /\ loc'[d] = loc[d]
        BY <1>9, <2>1 DEF Delegate, Types
      <3> QED
        BY <1>0, <3>1 DEF Entitlement, Cleared
    <2>2. CASE ~ granted
      <3>1. pc' = pc
        BY <1>9 DEF Delegate
      <3>2. CASE pc[d] = "idle"
        BY <3>1, <3>2 DEF Entitlement
      <3>3. CASE pc[d] # "idle"
        <4>1. loc'[d] = [loc[d] EXCEPT !.entitled = TRUE]
          BY <1>9, <2>2, <3>3 DEF Delegate, Types
        <4>2. loc'[d].entitled /\ loc'[d].sub = loc[d].sub
          BY <4>1, <1>a DEF Local
        <4> QED
          BY <1>0, <3>1, <4>2 DEF Entitlement, Cleared
      <3> QED
        BY <3>2, <3>3
    <2> QED
      BY <2>1, <2>2
  <1>10. CASE HostChanges \/ SetWeights
    BY <1>10, <1>b DEF HostChanges, SetWeights
  <1>11. CASE Kill
    BY <1>11 DEF Kill, Entitlement
  <1>12. CASE UNCHANGED vars
    BY <1>12, <1>b DEF vars
  <1> QED
    BY <1>1, <1>2, <1>3, <1>4, <1>5, <1>6, <1>7, <1>8, <1>9, <1>10, <1>11, <1>12
       DEF Next, Step

(* evaluate_envelope: no mutation of an agent runs unless the agent held a *)
(* valid grant during the call, though grants come and go between the      *)
(* check and the run, for any number of threads and any envelopes.         *)
THEOREM MutationsStayEntitled == Spec => []MutationsAreEntitled
  <1>1. Init => EntitlementInv
    BY DEF Init, EntitlementInv, Entitlement
  <1>2. EntitlementInv => MutationsAreEntitled
    BY DEF EntitlementInv, Entitlement, Cleared, MutationsAreEntitled
  <1>3. Spec => Safety
    BY PTL DEF Spec, Safety
  <1> QED
    BY <1>1, <1>2, <1>3, EntitlementStep, TypesHold, PTL DEF Safety

-----------------------------------------------------------------------------
(* Receipts.  What an answer says was gathered in three steps of the call, *)
(* between which the root of the host grows.                               *)

Truthful(c) ==
    LET l == loc[c]
    IN  /\ l.ran <= root
        /\ pc[c] = "run" => l.ran # NoRoot
        /\ pc[c] \in {"receipt", "cleanup", "certify", "answer"} /\ l.exit = 0 => l.ran # NoRoot
        /\ pc[c] \in {"cleanup", "certify", "answer"} /\ l.after # NoRoot => l.after >= l.ran
        /\ pc[c] = "answer" /\ l.sub.category = "MUTATE" /\ ~ l.sub.direct => l.after # NoRoot

TruthfulInv == \A c \in Callers : Truthful(c)

LEMMA IdleTruthful ==
    ASSUME Types', NEW d \in Callers, pc'[d] = "idle", loc'[d] = Idle
    PROVE  Truthful(d)'
  BY DEF Truthful, Idle, NoRoot, Types

LEMMA TruthfulStep == Types /\ Types' /\ TruthfulInv /\ [Next]_vars => TruthfulInv'
  <1> SUFFICES ASSUME Types, Types', TruthfulInv, [Next]_vars, NEW d \in Callers
               PROVE  Truthful(d)'
    BY DEF TruthfulInv
  <1>0. Truthful(d)
    BY DEF TruthfulInv
  <1>a. /\ loc[d] \in Local /\ loc'[d] \in Local /\ pc[d] \in Steps /\ pc'[d] \in Steps
        /\ root \in Nat /\ root' \in Nat
    BY DEF Types
  <1>b. ASSUME pc'[d] = pc[d], loc'[d] = loc[d], root' >= root PROVE Truthful(d)'
    <2>1. loc[d].ran \in Int
      BY <1>a DEF Local
    <2> QED
      BY <1>0, <1>a, <1>b, <2>1 DEF Truthful
  <1>1. ASSUME NEW c \in Callers, NEW s \in Submits[c], Submit(c, s) PROVE Truthful(d)'
    <2>1. CASE d = c
      <3>1. loc'[c] = [Idle EXCEPT !.sub = s, !.entitled = granted,
                                   !.current = IF s.observed THEN root ELSE NoRoot]
        BY <1>1 DEF Submit, Types
      <3>2. loc'[c].ran = NoRoot
        BY <3>1 DEF Idle
      <3>3. pc'[c] \in {"resolve", "evaluate"}
        BY <1>1 DEF Submit, Goto, Types
      <3> QED
        BY <1>a, <2>1, <3>2, <3>3 DEF Truthful, NoRoot
    <2>2. CASE d # c
      BY <1>1, <1>a, <1>b, <2>2 DEF Submit, Goto, Types, world
    <2> QED
      BY <2>1, <2>2
  <1>2. ASSUME NEW c \in Callers, Evaluate(c) \/ Prepare(c) PROVE Truthful(d)'
    <2>1. CASE d = c /\ pc'[c] = "idle"
      BY <1>2, <2>1, IdleTruthful DEF Evaluate, Prepare, Goto, End, Types
    <2>2. CASE d = c /\ pc'[c] # "idle"
      <3>1. loc'[c] = loc[c] /\ root' = root /\ pc'[c] \in {"resolve", "execute"}
        BY <1>2, <2>2 DEF Evaluate, Prepare, Goto, End, Types, world
      <3> QED
        BY <1>0, <2>2, <3>1 DEF Truthful
    <2>3. CASE d # c
      BY <1>2, <1>a, <1>b, <2>3 DEF Evaluate, Prepare, Goto, End, Types, world
    <2> QED
      BY <2>1, <2>2, <2>3
  <1>3. ASSUME NEW c \in Callers, Resolve(c) PROVE Truthful(d)'
    <2>1. CASE d = c /\ pc'[c] = "idle"
      BY <1>3, <2>1, IdleTruthful DEF Resolve, Goto, End, Types
    <2>2. CASE d = c /\ pc'[c] # "idle"
      <3>1. loc'[c].ran = loc[c].ran /\ root' = root /\ pc'[c] = "prepare"
        BY <1>3, <1>a, <2>2 DEF Resolve, Goto, End, Types, Local
      <3> QED
        BY <1>0, <2>2, <3>1 DEF Truthful
    <2>3. CASE d # c
      BY <1>3, <1>a, <1>b, <2>3 DEF Resolve, Goto, End, Types
    <2> QED
      BY <2>1, <2>2, <2>3
  <1>4. ASSUME NEW c \in Callers, Execute(c) PROVE Truthful(d)'
    <2>1. CASE d = c /\ pc'[c] = "run"
      <3>1. loc'[c].ran = root /\ root' = root
        BY <1>4, <1>a, <2>1 DEF Execute, Goto, Types, Local, world
      <3> QED
        BY <1>a, <2>1, <3>1 DEF Truthful, NoRoot
    <2>2. CASE d = c /\ pc'[c] # "run"
      <3>1. /\ loc'[c].ran = loc[c].ran /\ loc'[c].exit = 127 /\ root' = root
            /\ pc'[c] = "receipt"
        BY <1>4, <1>a, <2>2 DEF Execute, Goto, Types, Local, world
      <3> QED
        BY <1>0, <1>a, <2>2, <3>1 DEF Truthful
    <2>3. CASE d # c
      BY <1>4, <1>a, <1>b, <2>3 DEF Execute, Goto, Types, world
    <2> QED
      BY <2>1, <2>2, <2>3
  <1>5. ASSUME NEW c \in Callers, Finish(c) PROVE Truthful(d)'
    <2>0. root' >= root
      BY <1>5, <1>a DEF Finish
    <2>1. CASE d = c
      <3>1. loc'[c].ran = loc[c].ran /\ loc[c].ran \in Int /\ pc[c] = "run" /\ pc'[c] = "receipt"
        BY <1>5, <1>a, <2>1 DEF Finish, Goto, Types, Local
      <3> QED
        BY <1>0, <1>a, <2>0, <2>1, <3>1 DEF Truthful
    <2>2. CASE d # c
      BY <1>5, <1>b, <2>0, <2>2 DEF Finish, Goto, Types
    <2> QED
      BY <2>1, <2>2
  <1>6. ASSUME NEW c \in Callers, Receipt(c) PROVE Truthful(d)'
    <2>1. CASE d = c
      <3>1. /\ loc'[c].ran = loc[c].ran /\ loc'[c].exit = loc[c].exit /\ loc[c].ran \in Int
            /\ loc'[c].after \in {root, NoRoot}
            /\ pc[c] = "receipt" /\ pc'[c] = "cleanup" /\ root' = root
        BY <1>6, <1>a, <2>1 DEF Receipt, Goto, Types, Local, world
      <3> QED
        BY <1>0, <1>a, <2>1, <3>1 DEF Truthful
    <2>2. CASE d # c
      BY <1>6, <1>a, <1>b, <2>2 DEF Receipt, Goto, Types, world
    <2> QED
      BY <2>1, <2>2
  <1>7. ASSUME NEW c \in Callers, Cleanup(c) PROVE Truthful(d)'
    <2>1. CASE d = c
      <3>1. loc'[c] = loc[c] /\ pc[c] = "cleanup" /\ pc'[c] = "certify" /\ root' = root
        BY <1>7 DEF Cleanup, Goto, Types, world
      <3> QED
        BY <1>0, <2>1, <3>1 DEF Truthful
    <2>2. CASE d # c
      BY <1>7, <1>a, <1>b, <2>2 DEF Cleanup, Goto, Types, world
    <2> QED
      BY <2>1, <2>2
  <1>8. ASSUME NEW c \in Callers, Certify(c) PROVE Truthful(d)'
    <2>1. CASE d = c /\ pc'[c] = "idle"
      BY <1>8, <2>1, IdleTruthful DEF Certify, Goto, End, Types
    <2>2. CASE d = c /\ pc'[c] # "idle"
      <3>1. /\ loc'[c] = loc[c] /\ pc[c] = "certify" /\ pc'[c] = "answer" /\ root' = root
            /\ loc[c].sub.category = "MUTATE" /\ ~ loc[c].sub.direct => loc[c].after # NoRoot
        BY <1>8, <2>2 DEF Certify, Goto, End, Types, world
      <3> QED
        BY <1>0, <2>2, <3>1 DEF Truthful
    <2>3. CASE d # c
      BY <1>8, <1>a, <1>b, <2>3 DEF Certify, Goto, End, Types, world
    <2> QED
      BY <2>1, <2>2, <2>3
  <1>9. ASSUME NEW c \in Callers, Answer(c) PROVE Truthful(d)'
    <2>1. CASE d = c
      BY <1>9, <2>1, IdleTruthful DEF Answer, Goto, End, Types
    <2>2. CASE d # c
      BY <1>9, <1>a, <1>b, <2>2 DEF Answer, Goto, End, Types, world
    <2> QED
      BY <2>1, <2>2
  <1>10. ASSUME NEW p \in Movable, MoveProgram(p) PROVE Truthful(d)'
    BY <1>10, <1>a, <1>b DEF MoveProgram
  <1>11. CASE Delegate
    <2>1. pc' = pc /\ root' = root
      BY <1>11 DEF Delegate
    <2>2. loc'[d] = loc[d] \/ loc'[d] = [loc[d] EXCEPT !.entitled = TRUE]
      BY <1>11 DEF Delegate, Types
    <2>3. /\ loc'[d].ran = loc[d].ran /\ loc'[d].exit = loc[d].exit
          /\ loc'[d].after = loc[d].after /\ loc'[d].sub = loc[d].sub
      BY <1>a, <2>2 DEF Local
    <2> QED
      BY <1>0, <2>1, <2>3 DEF Truthful
  <1>12. CASE HostChanges
    BY <1>12, <1>a, <1>b DEF HostChanges
  <1>13. CASE SetWeights
    BY <1>13, <1>a, <1>b DEF SetWeights
  <1>14. CASE Kill
    BY <1>14, IdleTruthful DEF Kill
  <1>15. CASE UNCHANGED vars
    BY <1>15, <1>a, <1>b DEF vars
  <1> QED
    BY <1>1, <1>2, <1>3, <1>4, <1>5, <1>6, <1>7, <1>8, <1>9, <1>10, <1>11, <1>12,
       <1>13, <1>14, <1>15 DEF Next, Step

(* execute and the fail-closed check of execute_envelope: a receipt that   *)
(* says success is about a command that ran, and its root is not older     *)
(* than the command, for any interleaving of calls and changes of the      *)
(* host.                                                                   *)
THEOREM ReceiptsStayTruthful == Spec => []ReceiptsTellTheTruth
  <1>1. Init => TruthfulInv
    BY DEF Init, TruthfulInv, Truthful, Idle, NoRoot
  <1>2. TruthfulInv => ReceiptsTellTheTruth
    BY DEF TruthfulInv, Truthful, ReceiptsTellTheTruth
  <1>3. Spec => Safety
    BY PTL DEF Spec, Safety
  <1> QED
    BY <1>1, <1>2, <1>3, TruthfulStep, TypesHold, PTL DEF Safety

-----------------------------------------------------------------------------
(* The choice of the provider.  The scores of compatible providers under   *)
(* the default weights are a matter of arithmetic; that the choice stays   *)
(* right while the call prepares and runs is a matter of the cache, whose  *)
(* answers never change once given.                                        *)

LEMMA ScoreNative ==
    ASSUME weights = DefaultWeights, NEW s, Inspect("native.linux", s)
    PROVE  Score("native.linux", s) = IF s.isolation = "TIER_0_HOST" THEN 9780
                                      ELSE IF s.isolation = "TIER_1_SANDBOX" THEN 6680 ELSE 5555
  BY DEF Score, Vector, VectorNative, DefaultWeights

LEMMA ScoreBwrap ==
    ASSUME weights = DefaultWeights, NEW s, Inspect("rootfs.bwrap", s)
    PROVE  Score("rootfs.bwrap", s)
              = (IF s.format = "rootfs-dir" THEN 2375 ELSE 2125)
                + (IF Sandboxed(s) THEN 2250 ELSE 1750) + 4400
  BY DEF Score, Vector, VectorBwrap, DefaultWeights

LEMMA InspectKept ==
    ASSUME NEW s, \A q \in Lookups(s) : Found(q)' <=> Found(q)
    PROVE  /\ InspectBwrap(s)' <=> InspectBwrap(s)
           /\ InspectOci(s)' <=> InspectOci(s)
           /\ s.entry # "path" => (InspectNative(s)' <=> InspectNative(s))
  <1>1. s.format \in {"elf-binary", "posix-script"} \/ (s.format = "rootfs-dir" /\ s.rootfs) =>
            (Found("bwrap")' <=> Found("bwrap"))
    BY DEF Lookups, Programs
  <1>2. s.format = "oci-image" => (Found("engine")' <=> Found("engine"))
    BY DEF Lookups, Programs
  <1>3. s.format \in {"rootfs-dir", "oci-bundle"} => (Found("runtime")' <=> Found("runtime"))
    BY DEF Lookups, Programs
  <1>4. s.entry = "name" /\ s.format \in {"elf-binary", "nix-closure", "posix-script"} =>
            (Found("entry")' <=> Found("entry"))
    BY DEF Lookups, Programs
  <1>5. InspectBwrap(s)' <=> InspectBwrap(s)
    BY <1>1 DEF InspectBwrap
  <1>6. InspectOci(s)' <=> InspectOci(s)
    BY <1>2, <1>3 DEF InspectOci
  <1>7. s.entry # "path" => (InspectNative(s)' <=> InspectNative(s))
    BY <1>4 DEF InspectNative
  <1> QED
    BY <1>5, <1>6, <1>7

LEMMA FitsStays ==
    ASSUME NEW s, NEW p, Fits(s, p), p \in Providers,
           \A q \in Lookups(s) : Found(q)' <=> Found(q)
    PROVE  Fits(s, p)'
  <1>1. /\ InspectBwrap(s)' <=> InspectBwrap(s)
        /\ InspectOci(s)' <=> InspectOci(s)
        /\ s.entry # "path" => (InspectNative(s)' <=> InspectNative(s))
    BY InspectKept
  <1>2. p # "native.linux" => (Inspect(p, s)' <=> Inspect(p, s))
    BY <1>1 DEF Inspect, Providers
  <1> QED
    BY <1>1, <1>2 DEF Fits

(* The arithmetic of the choice.                                           *)
LEMMA BestFits ==
    ASSUME weights = DefaultWeights, NEW s, NEW p \in Best(s)
    PROVE  Fits(s, p)
  <1>1. p \in Providers /\ Inspect(p, s)
    BY DEF Best, Score
  <1>2. \A q \in Providers \ {p} :
           Score(p, s) > Score(q, s) \/ (Score(p, s) = Score(q, s) /\ Preference[p] < Preference[q])
    BY DEF Best
  <1>3. ASSUME s.isolation # "TIER_0_HOST", p = "native.linux"
        PROVE  ~ InspectBwrap(s) /\ ~ InspectOci(s)
    <2>1. InspectNative(s)
      BY <1>1, <1>3 DEF Inspect
    <2>2. ~ InspectOci(s)
      BY <2>1 DEF InspectNative, InspectOci
    <2>3. ASSUME InspectBwrap(s) PROVE FALSE
      <3>1. Inspect("rootfs.bwrap", s)
        BY <2>3 DEF Inspect
      <3>2. Score("rootfs.bwrap", s) \in {8275, 8775, 8525, 9025}
        BY <3>1, ScoreBwrap
      <3>3. Score("native.linux", s) \in {6680, 5555}
        BY <1>1, <1>3, ScoreNative
      <3> QED
        BY <1>2, <1>3, <3>2, <3>3 DEF Providers
    <2> QED
      BY <2>2, <2>3
  <1>4. ASSUME s.isolation = "TIER_0_HOST", p # "native.linux", InspectNative(s)
        PROVE  FALSE
    <2>1. Inspect("native.linux", s)
      BY <1>4 DEF Inspect
    <2>2. Score("native.linux", s) = 9780
      BY <1>4, <2>1, ScoreNative
    <2>3. p = "rootfs.bwrap"
      BY <1>1, <1>4 DEF Providers, Inspect, InspectOci, InspectNative
    <2>4. Score("rootfs.bwrap", s) \in {8275, 8775, 8525, 9025}
      BY <1>1, <2>3, ScoreBwrap
    <2> QED
      BY <1>2, <2>2, <2>3, <2>4 DEF Providers
  <1> QED
    BY <1>1, <1>3, <1>4 DEF Fits

(* The cache of _find_binary keeps its answers, and asking gives the       *)
(* answer that was found.                                                  *)
Remembers == \A q \in Programs : cache[q] # "unasked" => cache'[q] = cache[q]

LEMMA AskRemembers ==
    ASSUME Types, NEW P, Ask(P)
    PROVE  /\ Remembers
           /\ \A q \in P \cap Programs : cache'[q] # "unasked" /\ (Found(q)' <=> Found(q))
  BY DEF Types, Ask, Remembers, Found

Asked(s) == \A q \in Lookups(s) : cache[q] # "unasked"

Chosen(c) ==
    pc[c] \in {"prepare", "execute", "run"} =>
        /\ weights = DefaultWeights => Fits(loc[c].sub, loc[c].provider)
        /\ Asked(loc[c].sub)

ChosenInv == \A c \in Callers : Chosen(c)

LEMMA AskedStays ==
    ASSUME Remembers, NEW s, Asked(s)
    PROVE  Asked(s)' /\ \A q \in Lookups(s) : Found(q)' <=> Found(q)
  <1>1. Lookups(s) \subseteq Programs /\ Lookups(s)' = Lookups(s)
    BY DEF Lookups
  <1> QED
    BY <1>1 DEF Remembers, Asked, Found

LEMMA ChosenStep == Types /\ Types' /\ ChosenInv /\ [Next]_vars => ChosenInv'
  <1> SUFFICES ASSUME Types, Types', ChosenInv, [Next]_vars, NEW d \in Callers
               PROVE  Chosen(d)'
    BY DEF ChosenInv
  <1>0. Chosen(d)
    BY DEF ChosenInv
  <1>a. loc[d] \in Local /\ loc'[d] \in Local
    BY DEF Types
  <1>b. ASSUME pc[d] \in {"prepare", "execute", "run"} \/ pc'[d] \notin {"prepare", "execute", "run"},
               loc'[d].sub = loc[d].sub, loc'[d].provider = loc[d].provider,
               weights' = weights, Remembers
        PROVE  Chosen(d)'
    <2>0. PICK s, p : s = loc[d].sub /\ p = loc[d].provider
      OBVIOUS
    <2> SUFFICES ASSUME pc'[d] \in {"prepare", "execute", "run"}
                 PROVE  (weights' = DefaultWeights => Fits(s, p)') /\ Asked(s)'
      <3>1. /\ Fits(loc[d].sub, loc[d].provider)' <=> Fits(s, p)'
            /\ Asked(loc[d].sub)' <=> Asked(s)'
        BY <1>b, <2>0 DEF Asked, Lookups, Fits, Inspect, InspectNative, InspectBwrap, InspectOci, Found
      <3> QED
        BY <3>1 DEF Chosen, DefaultWeights
    <2>1. Asked(s) /\ p \in Providers
      BY <1>0, <1>a, <1>b, <2>0 DEF Chosen, Local
    <2>2. Asked(s)' /\ \A q \in Lookups(s) : Found(q)' <=> Found(q)
      BY <1>b, <2>1, AskedStays
    <2>3. weights = DefaultWeights => Fits(s, p)
      BY <1>0, <1>b, <2>0 DEF Chosen
    <2> QED
      BY <1>b, <2>1, <2>2, <2>3, FitsStays DEF DefaultWeights
  <1>c. ASSUME pc'[d] \notin {"prepare", "execute", "run"} PROVE Chosen(d)'
    BY <1>c DEF Chosen
  <1>1. ASSUME NEW c \in Callers, NEW s \in Submits[c], Submit(c, s) PROVE Chosen(d)'
    <2>1. CASE d = c
      BY <1>1, <1>c, <2>1 DEF Submit, Goto, Types
    <2>2. CASE d # c
      BY <1>1, <1>b, <2>2 DEF Submit, Goto, Types, world, Remembers
    <2> QED
      BY <2>1, <2>2
  <1>2. ASSUME NEW c \in Callers, Resolve(c) PROVE Chosen(d)'
    <2>0. Remembers
      BY <1>2, AskRemembers DEF Resolve
    <2>1. CASE d = c /\ pc'[c] = "prepare"
      <3>1. PICK s \in Submissions : s = loc[c].sub
        BY <1>a, <2>1 DEF Local
      <3>2. PICK p \in Best(s) : loc' = [loc EXCEPT ![c].provider = p]
        BY <1>2, <2>1, <3>1 DEF Resolve, Goto, End, Types
      <3>3. loc'[c].sub = s /\ loc'[c].provider = p
        BY <1>a, <2>1, <3>1, <3>2 DEF Types, Local
      <3>4. weights' = weights /\ Ask(Lookups(s))
        BY <1>2, <3>1 DEF Resolve
      <3>5. Lookups(s) \subseteq Programs /\ p \in Providers
        BY DEF Lookups, Best
      <3>6. \A q \in Lookups(s) : cache'[q] # "unasked" /\ (Found(q)' <=> Found(q))
        BY <3>4, <3>5, AskRemembers
      <3>7. weights = DefaultWeights => Fits(s, p)'
        BY <3>5, <3>6, BestFits, FitsStays
      <3>8. /\ Fits(loc[c].sub, loc[c].provider)' <=> Fits(s, p)'
            /\ Asked(loc[c].sub)' <=> \A q \in Lookups(s) : cache'[q] # "unasked"
        BY <3>3 DEF Asked, Lookups, Fits, Inspect, InspectNative, InspectBwrap, InspectOci, Found
      <3> QED
        BY <2>1, <3>4, <3>6, <3>7, <3>8 DEF Chosen, DefaultWeights
    <2>2. CASE d = c /\ pc'[c] # "prepare"
      BY <1>2, <1>c, <2>2 DEF Resolve, Goto, End, Types
    <2>3. CASE d # c
      BY <1>2, <1>b, <2>0, <2>3 DEF Resolve, Goto, End, Types
    <2> QED
      BY <2>1, <2>2, <2>3
  <1>3. ASSUME NEW c \in Callers, Prepare(c) \/ Execute(c) PROVE Chosen(d)'
    <2>0. Remembers /\ weights' = weights
      BY <1>3 DEF Prepare, Execute, world, Remembers
    <2>1. CASE d = c /\ pc'[c] \in {"execute", "run"}
      <3>1. pc[c] \in {"prepare", "execute"}
        BY <1>3 DEF Prepare, Execute
      <3>2. loc'[c].sub = loc[c].sub /\ loc'[c].provider = loc[c].provider
        BY <1>3, <1>a, <2>1 DEF Prepare, Execute, Goto, End, Types, Local
      <3> QED
        BY <1>b, <2>0, <2>1, <3>1, <3>2
    <2>2. CASE d = c /\ pc'[c] \notin {"execute", "run"}
      BY <1>3, <1>c, <2>2 DEF Prepare, Execute, Goto, End, Types
    <2>3. CASE d # c
      BY <1>3, <1>b, <2>0, <2>3 DEF Prepare, Execute, Goto, End, Types
    <2> QED
      BY <2>1, <2>2, <2>3
  <1>4. ASSUME NEW c \in Callers,
               Evaluate(c) \/ Finish(c) \/ Receipt(c) \/ Cleanup(c) \/ Certify(c) \/ Answer(c)
        PROVE  Chosen(d)'
    <2>0. Remembers /\ weights' = weights
      BY <1>4 DEF Evaluate, Finish, Receipt, Cleanup, Certify, Answer, world, Remembers
    <2>1. CASE d = c
      BY <1>4, <1>c, <2>1
         DEF Evaluate, Finish, Receipt, Cleanup, Certify, Answer, Goto, End, Types
    <2>2. CASE d # c
      BY <1>4, <1>b, <2>0, <2>2
         DEF Evaluate, Finish, Receipt, Cleanup, Certify, Answer, Goto, End, Types
    <2> QED
      BY <2>1, <2>2
  <1>5. ASSUME NEW p \in Movable, MoveProgram(p) PROVE Chosen(d)'
    BY <1>5, <1>b DEF MoveProgram, Remembers
  <1>6. CASE Delegate
    <2>1. pc' = pc /\ weights' = weights /\ Remembers
      BY <1>6 DEF Delegate, Remembers
    <2>2. loc'[d] = loc[d] \/ loc'[d] = [loc[d] EXCEPT !.entitled = TRUE]
      BY <1>6 DEF Delegate, Types
    <2>3. loc'[d].sub = loc[d].sub /\ loc'[d].provider = loc[d].provider
      BY <1>a, <2>2 DEF Local
    <2> QED
      BY <1>b, <2>1, <2>3
  <1>7. CASE HostChanges
    BY <1>7, <1>b DEF HostChanges, Remembers
  <1>8. CASE SetWeights
    <2>1. weights' # DefaultWeights
      BY <1>8 DEF SetWeights, DefaultWeights
    <2>2. pc' = pc /\ loc' = loc /\ cache' = cache
      BY <1>8 DEF SetWeights
    <2> QED
      BY <1>0, <2>1, <2>2 DEF Chosen, Asked, Lookups, Fits, Inspect, InspectNative, InspectBwrap,
         InspectOci, Found, DefaultWeights
  <1>9. CASE Kill
    BY <1>9, <1>c DEF Kill
  <1>10. CASE UNCHANGED vars
    BY <1>10, <1>b DEF vars, Remembers
  <1> QED
    BY <1>1, <1>2, <1>3, <1>4, <1>5, <1>6, <1>7, <1>8, <1>9, <1>10 DEF Next, Step

(* resolve, compute_score and the three evaluate_capabilities: with the    *)
(* default weights a workload that asks for isolation runs on the bare     *)
(* host only when no isolating provider takes it, and one that asks for    *)
(* the host leaves it only when the host provider does not take it, for    *)
(* every submission and however the programs come and go.                  *)
THEOREM ProvidersFit == Spec => []ProviderFitsRequest
  <1>1. Init => ChosenInv
    BY DEF Init, ChosenInv, Chosen
  <1>2. ChosenInv => ProviderFitsRequest
    BY DEF ChosenInv, Chosen, ProviderFitsRequest
  <1>3. Spec => Safety
    BY PTL DEF Spec, Safety
  <1> QED
    BY <1>1, <1>2, <1>3, ChosenStep, TypesHold, PTL DEF Safety

=============================================================================
