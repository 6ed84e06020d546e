---------------------------- MODULE Attestation ----------------------------
(***************************************************************************)
(* The state engine (state.py), the domain proofs of the execution plane   *)
(* (hyperion.py) and the boot health contract (boot_trust.py) that stands  *)
(* on the state engine.                                                    *)
(*                                                                         *)
(* build_state gathers five leaves, and two of them from several files,    *)
(* one file after the other while the host changes; what it makes of them  *)
(* is pure.  The engines share nothing but the documents they hand out, so *)
(* one call runs at a time, by any user.  SHA-256 over canonical JSON is   *)
(* taken as injective, a digest is the value it was computed from; it has  *)
(* no key, and whoever holds a document can compute it again.              *)
(***************************************************************************)
EXTENDS Integers, FiniteSets

CONSTANTS Users, Requests, Failures,
          Builds,          \* who builds documents, for which events
          Assertions,      \* assertions the assurance record counts
          StaleAfter,      \* 86400 s in the code, in ticks of the clock
          MaxClock, MaxCalls, MaxChanges, MaxEdits

(* The record counts assertions, some of which may have failed.            *)
ASSUME AttestAssumption == Assertions \in Nat \ {0} /\ Failures \subseteq Nat

VARIABLES host,      \* what the leaves are read from
          clock,
          job,       \* the call under way: its kind, step and locals
          saved,     \* the document somebody kept
          proof,     \* the domain proof somebody kept
          answer,    \* what the last call returned
          seen,      \* history: the hosts there were during this call
          calls, changes, edits

machine == <<host, clock>>
papers == <<saved, proof, edits>>
attestVars == <<host, clock, job, saved, proof, answer, seen, calls, changes, edits>>

Tiers == 0 .. 3
Kinds == {"build", "verify", "prove", "check", "boot"}

(* What the leaves are read from, in the order of the reads: posture; the  *)
(* generation, store path and flake lock of the substrate; the journal for *)
(* the provenance; policy; the assurance record and the journal again for  *)
(* the evidence.                                                           *)
Reads == {"pcr", "gen", "store", "lock", "tx", "policy", "record", "valid"}
NextRead == [pcr |-> "gen", gen |-> "store", store |-> "lock", lock |-> "tx", tx |-> "policy",
             policy |-> "record", record |-> "valid", valid |-> "use"]

Nothing == [none |-> TRUE]

(* What the boot stages of the code look for on the host.                  *)
Conditions == {"MOUNTS_HEALTHY", "DAEMON_READY", "DESKTOP_TARGET"}

-----------------------------------------------------------------------------
(* The leaves.                                                             *)

(* int(round(100 * verified / executed)): Python rounds halves to even.    *)
PassRate(failed) ==
    LET n == 100 * (Assertions - failed)
        q == n \div Assertions
        r == 2 * (n % Assertions)
    IN  IF r > Assertions \/ (r = Assertions /\ q % 2 = 1) THEN q + 1 ELSE q

(* The transaction the journal updated last; the time when there is none,  *)
(* or when the journal cannot be read.                                     *)
TransactionId(h, now, event) ==
    IF event = "DAEMON_INSPECTION" THEN <<"daemon", 0>>
    ELSE IF h.valid /\ h.tx > 0 THEN <<"tx", h.tx>>
    ELSE <<"snapshot", now>>

(* One file is read from host h at a time.                                 *)
ReadOf(h, now, field, event) ==
    CASE field = "tx" -> TransactionId(h, now, event)
      [] field = "record" -> [failed |-> h.failed, rate |-> PassRate(h.failed), stamp |-> h.stamp]
      [] OTHER -> h[field]

Fresh(leaves) == clock - leaves.record.stamp <= StaleAfter

(* The checks of verify_state that can fail: the policy file was found and *)
(* the pass rate is 100.  The generation is always positive and there is   *)
(* always a transaction id.                                                *)
Checks(leaves) == leaves.policy # "null" /\ leaves.record.rate = 100

(* derive_trust_vector: overall.                                           *)
Overall(leaves) ==
    CASE ~ Checks(leaves) -> "DEGRADED"
      [] Checks(leaves) /\ Fresh(leaves) -> "TRUSTED"
      [] OTHER -> "CONDITIONAL"

-----------------------------------------------------------------------------
(* Domain specifications.                                                  *)

(* negotiate_domain and resolve_minimum_sufficient_tier: the tier asked    *)
(* for, else the one the intent names, else the least that will do.        *)
NegotiatedTier(r) ==
    CASE r.requested \in Tiers -> r.requested
      [] r.requested \notin Tiers /\ r.intent \in Tiers -> r.intent
      [] OTHER -> IF r.offline THEN 2 ELSE 1

(* create_domain_spec.                                                     *)
DomainSpec(r) == [tier |-> NegotiatedTier(r), offline |-> r.offline, memory |-> r.memory]

(* validate_spec: of what create_domain_spec fills in from its arguments   *)
(* only the memory limit can be wrong.                                     *)
ValidSpec(spec) == spec.memory >= 64

(* Without a receipt the evidence is made up for the tier, with no nonce.  *)
Evidence(spec, r) ==
    IF r.receipt = "none" THEN [tier |-> spec.tier, nonce |-> FALSE]
    ELSE [tier |-> IF r.receipt = "other" THEN (spec.tier + 1) % 4 ELSE spec.tier,
          nonce |-> r.receipt # "anonymous"]

(* Mutation: the exit code outranks a missing receipt, and is believed.    *)
TrustVerdictCareless(p, overall) ==
    IF p.exit = 0 /\ overall = "TRUSTED" THEN "VERIFIED_TRUSTED" ELSE "UNTRUSTED_HOST_POSTURE"

(* calculate_domain_proof's verdict, in its order.                         *)
TrustVerdict(p, overall) ==
    IF ~ p.evidence.nonce THEN "NO_RUNTIME_RECEIPT"
    ELSE IF p.exit # 0 THEN "EXECUTION_ANOMALY"
    ELSE IF p.evidence.tier # p.spec.tier THEN "ISOLATION_EVIDENCE_MISMATCH"
    ELSE IF overall # "TRUSTED" THEN "UNTRUSTED_HOST_POSTURE"
    ELSE "VERIFIED_TRUSTED"

(* What the root of a proof is computed from: not its exit code, its tier  *)
(* and its copy of the nonce, and not the evidence when the proof has no   *)
(* digest of it.                                                           *)
Bound(p) == [state |-> p.state, spec |-> p.spec, policy |-> p.policy,
             evidence |-> IF p.hashed THEN p.evidence ELSE Nothing]

(* History: the last three fields are what was issued, and what somebody   *)
(* has written into the proof since.                                       *)
DomainProof(leaves, r) ==
    LET spec == DomainSpec(r)
        base == [state |-> leaves, spec |-> spec, policy |-> leaves.policy,
                 evidence |-> Evidence(spec, r), hashed |-> TRUE, exit |-> r.exit]
    IN  [state |-> leaves, spec |-> spec, policy |-> leaves.policy,
         evidence |-> base.evidence, hashed |-> TRUE, exit |-> r.exit,
         nonce |-> base.evidence.nonce, tier |-> spec.tier,
         verdict |-> TrustVerdict(base, Overall(leaves)),
         root |-> Bound(base), made |-> Bound(base), ended |-> r.exit, edited |-> {}]

-----------------------------------------------------------------------------
(* Calls.  A call that reads the host goes through all the reads.          *)

(* Whose call it is tells documents apart; of the other calls it tells     *)
(* nothing, and one user makes them.                                       *)
Operator == CHOOSE u \in Users : TRUE

NothingRead == [field \in Reads |-> "unread"]

(* A call, whose it is and what it is about: a document, a proof, a        *)
(* request or a boot mode.  The stage is that of a boot.                   *)
Job(kind, prov, of, stage, step) ==
    [kind |-> kind, prov |-> prov, of |-> of, stage |-> stage, step |-> step,
     got |-> NothingRead]

(* The part of the provenance leaf that is not read from the host.         *)
Inspection(by) == [actor |-> by, event |-> "SYSTEM_INSPECTION", parent |-> "none"]

(* What the root of a document is computed from.                           *)
Body(d) == [leaves |-> d.leaves, prov |-> d.prov]

NoJob == [kind |-> "idle"]
NoAnswer == [kind |-> "none"]

(* History: between two calls it is forgotten with the answer.             *)
Observe ==
    /\ seen' = IF job = NoJob THEN {} ELSE seen \cup {[h |-> host', t |-> clock']}
    /\ answer' = IF job = NoJob THEN NoAnswer ELSE answer

Reading(kind, prov, of) ==
    /\ job' = Job(kind, prov, of, 0, "pcr")
    /\ answer' = NoAnswer

Begin ==
    /\ job = NoJob /\ calls < MaxCalls
    /\ calls' = calls + 1
    /\ seen' = {[h |-> host, t |-> clock]}
    /\ UNCHANGED <<machine, papers, changes>>

Return(kind, result, paper) ==
    /\ job' = NoJob
    /\ answer' = [kind |-> kind, result |-> result, paper |-> paper]

(* build_state, by a user or by the daemon.                                *)
Build(prov) ==
    /\ Begin
    /\ Reading("build", prov, Nothing)

(* Mutation: the document is compared with itself only.                    *)
VerifyAlone(by) ==
    /\ saved # Nothing
    /\ Begin
    /\ Return("verify", IF saved.root = Body(saved) /\ Checks(saved.leaves) THEN "TRUSTED"
                        ELSE "TAMPER_DETECTED", saved)

(* verify_state of a kept document: its own root first, then its checks,   *)
(* then a fresh state, for the document's own event and parent, to compare *)
(* it with.                                                                *)
Verify(by) ==
    /\ saved # Nothing
    /\ Begin
    /\ IF saved.root # Body(saved) THEN Return("verify", "TAMPER_DETECTED", saved)
       ELSE IF ~ Checks(saved.leaves) THEN Return("verify", "DEGRADED", saved)
       ELSE Reading("verify", [saved.prov EXCEPT !.actor = by], saved)

(* calculate_domain_proof; a specification that is not valid raises.       *)
Prove(r) ==
    /\ ValidSpec(DomainSpec(r))
    /\ Begin
    /\ Reading("prove", Inspection(Operator), r)

(* Mutation: the root is not computed again.                               *)
ProofStandsUnbound(p, given) ==
    /\ p.evidence.nonce \/ p.nonce
    /\ given # "other" /\ (given = "right" => p.tier = p.spec.tier)
    /\ p.tier \in Tiers => p.evidence.tier = p.tier
    /\ p.exit = 0

(* verify_domain_proof up to the look at the host.  The specification that *)
(* is handed in is the one in the proof, another or none; the tier is the  *)
(* proof's own field, and one that is no tier is compared with nothing.    *)
ProofStands(p, given) ==
    /\ p.root = Bound(p)
    /\ p.evidence.nonce \/ p.nonce
    /\ given # "other"
    /\ given = "right" => ValidSpec(p.spec) /\ p.tier = p.spec.tier
    /\ p.tier \in Tiers => p.evidence.tier = p.tier
    /\ p.exit = 0

Check(given) ==
    /\ proof # Nothing
    /\ Begin
    /\ LET of == [proof |-> proof, given |-> given]
       IN  IF ProofStands(proof, given)
           THEN Reading("check", Inspection(Operator), of)
           ELSE Return("check", IF given = "other" THEN "OTHER_SPEC" ELSE "REJECTED", of)

(* One file is read; the host may change before the next, in the middle of *)
(* a leaf too.                                                             *)
ReadLeaf ==
    /\ job # NoJob /\ job.step \in Reads
    /\ job' = [job EXCEPT !.step = NextRead[@],
                          !.got[job.step] = ReadOf(host, clock, job.step, job.prov.event)]
    /\ UNCHANGED <<machine, papers, answer, seen, calls, changes>>

(* What each call does with the state it has read.                         *)
Use ==
    /\ job # NoJob /\ job.step = "use"
    /\ \/ /\ job.kind = "build"
          /\ saved' = [leaves |-> job.got, prov |-> job.prov,
                       root |-> [leaves |-> job.got, prov |-> job.prov]]
          /\ Return("build", Overall(job.got), saved')
          /\ UNCHANGED proof
       \/ /\ job.kind = "verify"
          /\ Return("verify", IF job.of.root = [leaves |-> job.got, prov |-> job.prov]
                              THEN "TRUSTED" ELSE "DRIFT_DETECTED", job.of)
          /\ UNCHANGED <<saved, proof>>
       \/ /\ job.kind = "prove"
          /\ proof' = DomainProof(job.got, job.of)
          /\ Return("prove", proof'.verdict, proof')
          /\ UNCHANGED saved
       \/ /\ job.kind = "check"
          /\ Return("check", IF Checks(job.got) THEN "ACCEPTED" ELSE "UNTRUSTED_HOST", job.of)
          /\ UNCHANGED <<saved, proof>>
    /\ UNCHANGED <<machine, edits, seen, calls, changes>>

-----------------------------------------------------------------------------
(* The boot health contract: five stages in their order.                   *)

Stages == <<"KERNEL_REACH", "MOUNTS_HEALTHY", "DAEMON_READY", "STATE_VERIFIED", "DESKTOP_TARGET">>

EvaluateBoot(mode) ==
    /\ Begin
    /\ job' = Job("boot", Inspection(Operator), mode, 1, "probe")
    /\ answer' = NoAnswer

(* Mutation: the fallback of the tests is left on.                         *)
HealthyEmulated(stage) == stage # "DAEMON_READY" \/ stage \in host.up \/ job.of # "PRODUCTION"

(* probe_stage_condition: outside PRODUCTION every stage has a fallback.   *)
Healthy(stage) == stage = "KERNEL_REACH" \/ stage \in host.up \/ job.of # "PRODUCTION"

(* advance_stage, then evaluate_contract after the last one.               *)
Advance ==
    IF job.stage = 5
    THEN Return("boot", "COMMIT_LKG", [mode |-> job.of])
    ELSE /\ job' = Job("boot", job.prov, job.of, job.stage + 1, "probe")
         /\ UNCHANGED answer

Rollback == Return("boot", "TRIGGER_ROLLBACK", [mode |-> job.of])

Probe ==
    /\ job.kind = "boot" /\ job.step = "probe"
    /\ IF Stages[job.stage] = "STATE_VERIFIED"
       THEN /\ job' = [job EXCEPT !.step = "pcr"]
            /\ UNCHANGED answer
       ELSE IF Healthy(Stages[job.stage]) THEN Advance ELSE Rollback
    /\ UNCHANGED <<machine, papers, seen, calls, changes>>

(* The stage STATE_VERIFIED is verify_state of the live host.              *)
ProbeState ==
    /\ job.kind = "boot" /\ job.step = "use"
    /\ IF Checks(job.got) \/ job.of # "PRODUCTION" THEN Advance ELSE Rollback
    /\ UNCHANGED <<machine, papers, seen, calls, changes>>

-----------------------------------------------------------------------------
(* The host, and whoever keeps the documents.                              *)

Change(h) ==
    /\ changes < MaxChanges /\ h # host
    /\ changes' = changes + 1
    /\ host' = h
    /\ UNCHANGED <<clock, job, papers, calls>>
    /\ Observe

(* A transaction begins, or an older one is updated again.                 *)
Transaction ==
    \/ Change([host EXCEPT !.tx = changes + 1, !.txs = @ \cup {changes + 1}])
    \/ \E t \in host.txs : Change([host EXCEPT !.tx = t])

(* nix-env --set moves the profile, the activation what is current.        *)
Switch == Change([host EXCEPT !.gen = 3 - @])
Activate == Change([host EXCEPT !.store = host.gen])

EditLock == Change([host EXCEPT !.lock = 1 - @])

EditPolicy == \E p \in {"null", "a", "b"} : Change([host EXCEPT !.policy = p])

RecordRun == \E f \in Failures : Change([host EXCEPT !.failed = f, !.stamp = clock])

DamageJournal == Change([host EXCEPT !.valid = FALSE])

QuarantineJournal == ~ host.valid /\ Change([host EXCEPT !.valid = TRUE, !.tx = 0, !.txs = {}])

Unit == \E u \in Conditions :
            Change([host EXCEPT !.up = IF u \in @ THEN @ \ {u} ELSE @ \cup {u}])

(* The machine is started again, and other things are measured.            *)
PowerCycle ==
    /\ changes < MaxChanges
    /\ changes' = changes + 1
    /\ host' = [host EXCEPT !.pcr = IF @ = "a" THEN "b" ELSE "a", !.up = {}]
    /\ job' = NoJob /\ answer' = NoAnswer /\ seen' = {}
    /\ UNCHANGED <<clock, papers, calls>>

Tick ==
    /\ clock < MaxClock
    /\ clock' = clock + 1
    /\ UNCHANGED <<host, job, papers, calls, changes>>
    /\ Observe

(* A kept document is edited: what was read, or the event and the parent   *)
(* that verify_state takes over from it.  Its root is left, or computed    *)
(* again.                                                                  *)
EditDocument ==
    /\ saved # Nothing /\ edits < MaxEdits
    /\ edits' = edits + 1
    /\ \E d \in {[saved EXCEPT !.leaves.gen = 3 - @], [saved EXCEPT !.leaves.record.rate = 100],
                 [saved EXCEPT !.leaves.tx = <<"daemon", 0>>],
                 [saved EXCEPT !.prov.event = "DAEMON_INSPECTION"],
                 [saved EXCEPT !.prov.parent = "other"]} :
          saved' \in {d, [d EXCEPT !.root = Body(d)]}
    /\ UNCHANGED <<machine, job, proof, answer, seen, calls, changes>>

(* A kept proof is edited: what its root binds, the root then left or      *)
(* computed again, or what it does not bind.                               *)
EditProof ==
    /\ proof # Nothing /\ edits < MaxEdits
    /\ edits' = edits + 1
    /\ \/ \E p \in {[proof EXCEPT !.evidence.nonce = TRUE], [proof EXCEPT !.hashed = FALSE],
                    [proof EXCEPT !.evidence.tier = proof.spec.tier],
                    [proof EXCEPT !.spec.tier = proof.evidence.tier]} :
             proof' \in {p, [p EXCEPT !.root = Bound(p), !.edited = @ \cup {"root"}]}
       \/ proof' = [proof EXCEPT !.nonce = TRUE, !.edited = @ \cup {"nonce"}]
       \/ proof' = [proof EXCEPT !.exit = 0, !.edited = @ \cup {"exit"}]
       \/ \E t \in Tiers \cup {4} :
             proof' = [proof EXCEPT !.tier = t, !.edited = @ \cup {"tier"}]
    /\ UNCHANGED <<machine, job, saved, answer, seen, calls, changes>>

AttestInit ==
    /\ host = [pcr |-> "a", gen |-> 1, store |-> 1, lock |-> 0, tx |-> 0, txs |-> {}, valid |-> TRUE, policy |-> "a",
               failed |-> 0, stamp |-> 0, up |-> Conditions]
    /\ clock = 0
    /\ job = NoJob
    /\ saved = Nothing /\ proof = Nothing
    /\ answer = NoAnswer
    /\ seen = {}
    /\ calls = 0 /\ changes = 0 /\ edits = 0

AttestNext ==
    \/ \E b \in Builds : Build(b)
    \/ \E by \in Users : Verify(by)
    \/ \E r \in Requests : Prove(r)
    \/ \E given \in {"right", "other", "none"} : Check(given)
    \/ \E mode \in {"PRODUCTION", "EMULATION"} : EvaluateBoot(mode)
    \/ ReadLeaf \/ Use \/ Probe \/ ProbeState
    \/ Transaction \/ Switch \/ Activate \/ EditLock \/ EditPolicy \/ RecordRun \/ DamageJournal \/ QuarantineJournal
    \/ Unit \/ PowerCycle \/ Tick
    \/ EditDocument \/ EditProof

AttestSpec == AttestInit /\ [][AttestNext]_attestVars

-----------------------------------------------------------------------------
(* Properties.                                                             *)

(* What the host was like at some moment of the last call.                 *)
Sometime(P(_)) == \E s \in seen : P(s.h)

(* verify_state: whatever a kept document says that was read from the host *)
(* was so at some moment of its verification when it is TRUSTED, though    *)
(* the files are read one by one while transactions, switches, edits and   *)
(* the clock go on, and though whoever kept it may have edited it and      *)
(* computed its root again.  Only the event and the parent are the         *)
(* document's own word.  It is not said of the leaves as wholes: the       *)
(* generation of one moment may stand beside the store path of another.    *)
TrustedMeansLive ==
    answer.kind = "verify" /\ answer.result = "TRUSTED" /\ job = NoJob =>
        \A field \in Reads : \E s \in seen :
            answer.paper.leaves[field] = ReadOf(s.h, s.t, field, answer.paper.prov.event)

(* verify_domain_proof: what an accepted proof guarantees.  What the root  *)
(* binds is as it was issued unless the root was computed again, for it    *)
(* has no key.  The nonce, the exit code and, where no specification is    *)
(* handed in, the tier are what they were at the issue only if nobody      *)
(* wrote into the fields outside the root; a specification that is handed  *)
(* in makes up for the tier.  And the host had its policy and at most half *)
(* a percent of failed assertions (the rate is rounded) during the         *)
(* verification.                                                           *)
AcceptedProofsAreSound ==
    answer.kind = "check" /\ answer.result = "ACCEPTED" /\ job = NoJob =>
        LET p == answer.paper.proof
            kept(fields) == fields \cap p.edited = {}
        IN  /\ kept({"root"}) => Bound(p) = p.made
            /\ kept({"root", "nonce"}) => p.made.evidence.nonce
            /\ kept({"root", "tier"}) \/ (kept({"root"}) /\ answer.paper.given = "right") =>
                  p.made.evidence.tier = p.made.spec.tier
            /\ kept({"exit"}) => p.ended = 0
            /\ Sometime(LAMBDA h : h.policy # "null")
            /\ Sometime(LAMBDA h : 200 * h.failed <= Assertions)

(* The two judges agree: an unedited proof issued as VERIFIED_TRUSTED is   *)
(* turned down for another specification, or because of what the host has  *)
(* become since, never for anything in the proof.                          *)
TrustedProofsVerify ==
    answer.kind = "check" /\ answer.paper.proof.verdict = "VERIFIED_TRUSTED"
      /\ Bound(answer.paper.proof) = answer.paper.proof.made
      /\ answer.paper.proof.edited = {} /\ job = NoJob =>
        \/ answer.result \in {"ACCEPTED", "OTHER_SPEC"}
        \/ answer.result = "UNTRUSTED_HOST"
              /\ Sometime(LAMBDA h : h.policy = "null" \/ PassRate(h.failed) # 100)

(* run_live_health_evaluation: in PRODUCTION a boot is committed only if   *)
(* every stage's condition held while it was evaluated; a condition lost   *)
(* after its probe is not noticed, one never met is.                       *)
CommitNeedsHealth ==
    answer.kind = "boot" /\ answer.result = "COMMIT_LKG" /\ answer.paper.mode = "PRODUCTION"
      /\ job = NoJob =>
        /\ \A u \in Conditions : Sometime(LAMBDA h : u \in h.up)
        /\ Sometime(LAMBDA h : h.policy # "null")
        /\ Sometime(LAMBDA h : PassRate(h.failed) = 100)

=============================================================================
