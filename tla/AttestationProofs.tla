-------------------------- MODULE AttestationProofs --------------------------
(***************************************************************************)
(* Theorems about Attestation, for any users, requests, builds and failure *)
(* counts, however long the calls go on and the host changes under them.   *)
(***************************************************************************)
EXTENDS Attestation, TLAPS

Hosts == [pcr : {"a", "b"}, gen : {1, 2}, store : {1, 2}, lock : {0, 1}, tx : Nat, txs : SUBSET Nat, valid : BOOLEAN,
          policy : {"null", "a", "b"}, failed : Failures \cup {0}, stamp : Nat,
          up : SUBSET Conditions]

(* What a call has read when it comes to a step.                           *)
ReadBefore == [probe |-> {}, pcr |-> {}, gen |-> {"pcr"}, store |-> {"pcr", "gen"},
               lock |-> {"pcr", "gen", "store"}, tx |-> {"pcr", "gen", "store", "lock"},
               policy |-> {"pcr", "gen", "store", "lock", "tx"},
               record |-> {"pcr", "gen", "store", "lock", "tx", "policy"},
               valid |-> {"pcr", "gen", "store", "lock", "tx", "policy", "record"},
               use |-> Reads]

HostTypeOK ==
    /\ host \in Hosts
    /\ clock \in Nat /\ changes \in Nat
    /\ seen \in SUBSET [h : Hosts, t : Nat]

Evidences == [tier : Tiers, nonce : BOOLEAN]

ProofFields == {"state", "spec", "policy", "evidence", "hashed", "exit", "nonce", "tier",
                "verdict", "root", "made", "ended", "edited"}

(* A domain proof somebody keeps: a field nobody wrote into is as issued.  *)
Issued(p) ==
    /\ p = [field \in ProofFields |-> p[field]]
    /\ "root" \notin p.edited => p.root = p.made
    /\ "exit" \notin p.edited => p.exit = p.ended
    /\ "nonce" \notin p.edited => p.nonce = p.made.evidence.nonce
    /\ "tier" \notin p.edited => p.tier = p.made.spec.tier
    /\ p.made.evidence \in Evidences
    /\ p.made.spec.tier \in Tiers /\ ValidSpec(p.made.spec)
    /\ p.verdict = "VERIFIED_TRUSTED" =>
          /\ p.made.evidence.nonce
          /\ p.made.evidence.tier = p.made.spec.tier
          /\ p.ended = 0

ProofInv == proof # Nothing => Issued(proof)

(* What call j has read in a field is the host's at a moment of S.         *)
ReadFrom(j, S, field) == \E s \in S : j.got[field] = ReadOf(s.h, s.t, field, j.prov.event)

(* The boot stages before stage k were met at moments of S.                *)
MetBefore(S, k) ==
    /\ k > 2 => \E s \in S : "MOUNTS_HEALTHY" \in s.h.up
    /\ k > 3 => \E s \in S : "DAEMON_READY" \in s.h.up
    /\ k > 4 => /\ \E s \in S : s.h.policy # "null"
                /\ \E s \in S : PassRate(s.h.failed) = 100
    /\ k > 5 => \E s \in S : "DESKTOP_TARGET" \in s.h.up

(* A call under way that has lived through the moments S.                  *)
JobOK(j, S) ==
    /\ j = [kind |-> j.kind, prov |-> j.prov, of |-> j.of, stage |-> j.stage,
            step |-> j.step, got |-> j.got]
    /\ j.kind \in Kinds
    /\ j.step \in Reads \cup {"probe", "use"}
    /\ j.got = [field \in Reads |-> j.got[field]]
    /\ \A field \in ReadBefore[j.step] : ReadFrom(j, S, field)
    /\ j.kind = "verify" => j.of.root = Body(j.of)
    /\ j.kind = "prove" => ValidSpec(DomainSpec(j.of))
    /\ j.kind = "check" => Issued(j.of.proof) /\ ProofStands(j.of.proof, j.of.given)
    /\ j.kind = "boot" =>
          /\ j.stage \in 1 .. 5
          /\ j.step # "probe" => j.stage = 4
          /\ j.of = "PRODUCTION" => MetBefore(S, j.stage)

JobInv == job # NoJob => JobOK(job, seen) /\ [h |-> host, t |-> clock] \in seen

Answers == TrustedMeansLive /\ AcceptedProofsAreSound /\ TrustedProofsVerify /\ CommitNeedsHealth

AttestInv == HostTypeOK /\ ProofInv /\ JobInv /\ Answers

-----------------------------------------------------------------------------
(* The operators of the model.                                             *)

LEMMA ReadValues ==
    ASSUME NEW h, NEW t, NEW event
    PROVE  /\ ReadOf(h, t, "policy", event) = h.policy
           /\ ReadOf(h, t, "record", event).rate = PassRate(h.failed)
  <1>1. ReadOf(h, t, "policy", event) = h["policy"]
    BY DEF ReadOf
  <1>2. ReadOf(h, t, "record", event)
          = [failed |-> h.failed, rate |-> PassRate(h.failed), stamp |-> h.stamp]
    BY DEF ReadOf
  <1> QED
    BY <1>1, <1>2

LEMMA DivMod ==
    ASSUME NEW n \in Int, NEW a \in Nat \ {0}
    PROVE  /\ n \div a \in Int /\ n % a \in Int
           /\ n = a * (n \div a) + (n % a)
           /\ 0 <= n % a /\ n % a < a
  OBVIOUS

(* The rate is rounded: 100 percent stands for at most half a percent of   *)
(* failures.                                                               *)
LEMMA FullRate ==
    ASSUME NEW f \in Nat, PassRate(f) = 100 PROVE 200 * f <= Assertions
  <1> DEFINE n == 100 * (Assertions - f)
             q == n \div Assertions
             m == n % Assertions
  <1>1. Assertions \in Nat \ {0} /\ n \in Int
    BY AttestAssumption
  <1>2. q \in Int /\ m \in Int /\ n = Assertions * q + m /\ 0 <= m /\ m < Assertions
    BY <1>1, DivMod
  <1>3. \/ q = 100
        \/ q = 99 /\ 2 * m >= Assertions
    BY <1>1, <1>2 DEF PassRate
  <1>4. n = 100 * Assertions - 100 * f
    BY <1>1
  <1> HIDE DEF n, q, m
  <1>5. CASE q = 100
    <2>1. n = Assertions * 100 + m
      BY <1>2, <1>5
    <2> QED
      BY <1>1, <1>2, <1>4, <2>1
  <1>6. CASE q = 99 /\ 2 * m >= Assertions
    <2>1. n = Assertions * 99 + m
      BY <1>2, <1>6
    <2> QED
      BY <1>1, <1>2, <1>4, <1>6, <2>1
  <1> QED
    BY <1>3, <1>5, <1>6

LEMMA DomainTiers ==
    ASSUME NEW r
    PROVE  /\ DomainSpec(r).tier \in Tiers
           /\ Evidence(DomainSpec(r), r) \in [tier : Tiers, nonce : BOOLEAN]
  <1>1. NegotiatedTier(r) \in Tiers
    BY DEF NegotiatedTier, Tiers
  <1>2. DomainSpec(r).tier \in Tiers
    BY <1>1 DEF DomainSpec
  <1>3. \A t \in Tiers : (t + 1) % 4 \in Tiers
    BY DEF Tiers
  <1>4. Evidence(DomainSpec(r), r) \in [tier : Tiers, nonce : BOOLEAN]
    BY <1>2, <1>3 DEF Evidence
  <1> QED
    BY <1>2, <1>4

(* What calculate_domain_proof issues.                                     *)
LEMMA DomainProofIssued ==
    ASSUME NEW leaves, NEW r, ValidSpec(DomainSpec(r)) PROVE Issued(DomainProof(leaves, r))
  <1> DEFINE spec == DomainSpec(r)
             evidence == Evidence(spec, r)
             base == [state |-> leaves, spec |-> spec, policy |-> leaves.policy,
                      evidence |-> evidence, hashed |-> TRUE, exit |-> r.exit]
             verdict == TrustVerdict(base, Overall(leaves))
             p == [state |-> leaves, spec |-> spec, policy |-> leaves.policy,
                   evidence |-> base.evidence, hashed |-> TRUE, exit |-> r.exit,
                   nonce |-> base.evidence.nonce, tier |-> spec.tier, verdict |-> verdict,
                   root |-> Bound(base), made |-> Bound(base), ended |-> r.exit, edited |-> {}]
  <1>1. DomainProof(leaves, r) = p
    BY DEF DomainProof
  <1>2. spec.tier \in Tiers /\ evidence \in Evidences /\ ValidSpec(spec)
    BY DomainTiers DEF Evidences
  <1>3. verdict = "VERIFIED_TRUSTED" =>
          evidence.nonce /\ evidence.tier = spec.tier /\ r.exit = 0
    BY DEF TrustVerdict
  <1>4. Bound(base).evidence = evidence /\ Bound(base).spec = spec
    BY DEF Bound
  <1> HIDE DEF spec, evidence, verdict
  <1>5. p = [field \in ProofFields |-> p[field]]
    BY DEF ProofFields
  <1>6. Issued(p)
    BY <1>2, <1>3, <1>4, <1>5 DEF Issued
  <1> QED
    BY <1>1, <1>6

(* What the root binds is as issued: then so are evidence and spec.        *)
LEMMA BoundAsIssued ==
    ASSUME NEW p, Issued(p), Bound(p) = p.made
    PROVE  p.evidence = p.made.evidence /\ p.spec = p.made.spec
  <1>1. Bound(p).spec = p.spec
    BY DEF Bound
  <1>2. Bound(p).evidence = IF p.hashed THEN p.evidence ELSE Nothing
    BY DEF Bound
  <1>3. Nothing \notin Evidences
    <2>1. DOMAIN Nothing = {"none"}
      BY DEF Nothing
    <2>2. \A e \in Evidences : DOMAIN e = {"tier", "nonce"}
      BY DEF Evidences
    <2> QED
      BY <2>1, <2>2
  <1>4. p.made.evidence \in Evidences
    BY DEF Issued
  <1> QED
    BY <1>1, <1>2, <1>3, <1>4

(* A proof issued as VERIFIED_TRUSTED and not edited stands.               *)
LEMMA IssuedStands ==
    ASSUME NEW p, Issued(p), p.verdict = "VERIFIED_TRUSTED", Bound(p) = p.made, p.edited = {},
           NEW given, given # "other"
    PROVE  ProofStands(p, given)
  <1>1. p.evidence = p.made.evidence /\ p.spec = p.made.spec
    BY BoundAsIssued
  <1> QED
    BY <1>1 DEF Issued, ProofStands

(* What a proof that stands vouches for.                                   *)
LEMMA StandingProof ==
    ASSUME NEW p, NEW given, Issued(p), ProofStands(p, given)
    PROVE  /\ "root" \notin p.edited => Bound(p) = p.made
           /\ {"root", "nonce"} \cap p.edited = {} => p.made.evidence.nonce
           /\ "root" \notin p.edited /\ ("tier" \notin p.edited \/ given = "right") =>
                 p.made.evidence.tier = p.made.spec.tier
           /\ "exit" \notin p.edited => p.ended = 0
  <1>1. "root" \notin p.edited => Bound(p) = p.made
    BY DEF Issued, ProofStands
  <1>2. "root" \notin p.edited => p.evidence = p.made.evidence /\ p.spec = p.made.spec
    BY <1>1, BoundAsIssued
  <1>3. {"root", "nonce"} \cap p.edited = {} => p.made.evidence.nonce
    BY <1>2 DEF Issued, ProofStands
  <1>4. "root" \notin p.edited /\ ("tier" \notin p.edited \/ given = "right") =>
           p.made.evidence.tier = p.made.spec.tier
    BY <1>2 DEF Issued, ProofStands
  <1>5. "exit" \notin p.edited => p.ended = 0
    BY DEF Issued, ProofStands
  <1> QED
    BY <1>1, <1>3, <1>4, <1>5

(* Moments are only added.                                                 *)
LEMMA JobGrows ==
    ASSUME NEW j, NEW S, NEW T, S \subseteq T, JobOK(j, S) PROVE JobOK(j, T)
  <1>1. \A field : ReadFrom(j, S, field) => ReadFrom(j, T, field)
    BY DEF ReadFrom
  <1>2. \A k : MetBefore(S, k) => MetBefore(T, k)
    BY DEF MetBefore
  <1> QED
    BY <1>1, <1>2 DEF JobOK

-----------------------------------------------------------------------------
(* The steps.                                                              *)

LEMMA AttestInitInv == AttestInit => AttestInv
  <1> SUFFICES ASSUME AttestInit PROVE AttestInv
    OBVIOUS
  <1>1. HostTypeOK
    BY DEF AttestInit, HostTypeOK, Hosts, Conditions
  <1>2. ProofInv /\ JobInv
    BY DEF AttestInit, ProofInv, JobInv
  <1>3. answer.kind = "none"
    BY DEF AttestInit, NoAnswer
  <1>4. Answers
    BY <1>3 DEF Answers, TrustedMeansLive, AcceptedProofsAreSound, TrustedProofsVerify,
               CommitNeedsHealth
  <1> QED
    BY <1>1, <1>2, <1>4 DEF AttestInv

(* Nothing is said of an answer while a call is under way, or of none.     *)
LEMMA NoAnswerYet ==
    ASSUME job' # NoJob \/ answer' = NoAnswer PROVE Answers'
  <1>1. CASE job' # NoJob
    BY <1>1 DEF Answers, TrustedMeansLive, AcceptedProofsAreSound, TrustedProofsVerify,
                CommitNeedsHealth
  <1>2. CASE answer' = NoAnswer
    <2>1. answer'.kind = "none"
      BY <1>2 DEF NoAnswer
    <2> QED
      BY <2>1 DEF Answers, TrustedMeansLive, AcceptedProofsAreSound, TrustedProofsVerify,
                  CommitNeedsHealth
  <1> QED
    BY <1>1, <1>2

LEMMA PapersKept ==
    ASSUME ProofInv, UNCHANGED papers PROVE ProofInv'
  BY DEF papers, ProofInv

(* A call begins: it has seen the host as it is.                           *)
LEMMA BeginStep ==
    ASSUME AttestInv, Begin
    PROVE  /\ HostTypeOK' /\ ProofInv'
           /\ [h |-> host', t |-> clock'] \in seen'
  <1>1. HostTypeOK /\ ProofInv
    BY DEF AttestInv
  <1>2. HostTypeOK'
    BY <1>1 DEF Begin, machine, HostTypeOK
  <1>3. ProofInv'
    BY <1>1, PapersKept DEF Begin
  <1>4. [h |-> host', t |-> clock'] \in seen'
    BY DEF Begin, machine
  <1> QED
    BY <1>2, <1>3, <1>4

LEMMA JobIsNew ==
    ASSUME NEW kind \in Kinds, NEW prov, NEW of, NEW stage, NEW step
    PROVE  Job(kind, prov, of, stage, step) # NoJob
  <1>1. Job(kind, prov, of, stage, step).kind # "idle"
    BY DEF Job, Kinds
  <1>2. NoJob.kind = "idle"
    BY DEF NoJob
  <1> QED
    BY <1>1, <1>2

LEMMA ReadingStep ==
    ASSUME AttestInv, Begin, NEW kind \in Kinds, NEW prov, NEW of,
           Reading(kind, prov, of), kind # "boot",
           kind = "verify" => of.root = Body(of),
           kind = "prove" => ValidSpec(DomainSpec(of)),
           kind = "check" => Issued(of.proof) /\ ProofStands(of.proof, of.given)
    PROVE  AttestInv'
  <1>1. job' = Job(kind, prov, of, 0, "pcr") /\ answer' = NoAnswer
    BY DEF Reading
  <1>2. JobOK(job', seen')
    BY <1>1 DEF JobOK, Job, NothingRead, ReadBefore, Reads
  <1>3. JobInv'
    BY <1>2, BeginStep DEF JobInv
  <1> QED
    BY <1>1, <1>3, BeginStep, NoAnswerYet DEF AttestInv

LEMMA VerifyStep ==
    ASSUME AttestInv, NEW by, Verify(by) PROVE AttestInv'
  <1>0. Begin
    BY DEF Verify
  <1>1. CASE saved.root = Body(saved) /\ Checks(saved.leaves)
    <2>1. Reading("verify", [saved.prov EXCEPT !.actor = by], saved)
      BY <1>1 DEF Verify
    <2>2. "verify" \in Kinds
      BY DEF Kinds
    <2> QED
      BY <1>0, <1>1, <2>1, <2>2, ReadingStep
  <1>2. CASE ~ (saved.root = Body(saved) /\ Checks(saved.leaves))
    <2>1. /\ job' = NoJob
          /\ answer'.kind = "verify" /\ answer'.result # "TRUSTED"
      BY <1>2 DEF Verify, Return
    <2>2. Answers'
      BY <2>1 DEF Answers, TrustedMeansLive, AcceptedProofsAreSound, TrustedProofsVerify,
                  CommitNeedsHealth
    <2>3. JobInv'
      BY <2>1 DEF JobInv
    <2> QED
      BY <1>0, <2>2, <2>3, BeginStep DEF AttestInv
  <1> QED
    BY <1>1, <1>2

LEMMA CheckStep ==
    ASSUME AttestInv, NEW given \in {"right", "other", "none"}, Check(given) PROVE AttestInv'
  <1>0. Begin /\ proof # Nothing /\ Issued(proof)
    BY DEF Check, AttestInv, ProofInv
  <1> DEFINE of == [proof |-> proof, given |-> given]
  <1>1. CASE ProofStands(proof, given)
    <2>1. Reading("check", Inspection(Operator), of)
      BY <1>1 DEF Check
    <2>2. Issued(of.proof) /\ ProofStands(of.proof, of.given)
      BY <1>0, <1>1
    <2>3. "check" \in Kinds
      BY DEF Kinds
    <2> HIDE DEF of
    <2> QED
      BY <1>0, <2>1, <2>2, <2>3, ReadingStep
  <1>2. CASE ~ ProofStands(proof, given)
    <2>1. /\ job' = NoJob
          /\ answer'.kind = "check" /\ answer'.paper.proof = proof
          /\ answer'.result = IF given = "other" THEN "OTHER_SPEC" ELSE "REJECTED"
      BY <1>2 DEF Check, Return
    <2>2. ASSUME proof.verdict = "VERIFIED_TRUSTED", Bound(proof) = proof.made,
                 proof.edited = {}
          PROVE  given = "other"
      BY <1>0, <1>2, <2>2, IssuedStands
    <2>3. TrustedProofsVerify'
      BY <2>1, <2>2 DEF TrustedProofsVerify, Bound
    <2>4. TrustedMeansLive' /\ AcceptedProofsAreSound' /\ CommitNeedsHealth'
      BY <2>1 DEF TrustedMeansLive, AcceptedProofsAreSound, CommitNeedsHealth
    <2>5. JobInv'
      BY <2>1 DEF JobInv
    <2> QED
      BY <1>0, <2>3, <2>4, <2>5, BeginStep DEF AttestInv, Answers
  <1> QED
    BY <1>1, <1>2

LEMMA EvaluateBootStep ==
    ASSUME AttestInv, NEW mode, EvaluateBoot(mode) PROVE AttestInv'
  <1>1. /\ Begin /\ answer' = NoAnswer
        /\ job' = Job("boot", Inspection(Operator), mode, 1, "probe")
    BY DEF EvaluateBoot
  <1>2. JobOK(job', seen')
    BY <1>1 DEF JobOK, Job, NothingRead, ReadBefore, Reads, Kinds, MetBefore
  <1>3. JobInv'
    BY <1>1, <1>2, BeginStep DEF JobInv
  <1> QED
    BY <1>1, <1>3, BeginStep, NoAnswerYet DEF AttestInv

(* One more field is what the host is now.                                 *)
LEMMA ReadLeafStep ==
    ASSUME AttestInv, ReadLeaf PROVE AttestInv'
  <1>0. /\ HostTypeOK /\ ProofInv /\ JobOK(job, seen)
        /\ [h |-> host, t |-> clock] \in seen
    BY DEF AttestInv, JobInv, ReadLeaf
  <1> DEFINE value == ReadOf(host, clock, job.step, job.prov.event)
             got == [job.got EXCEPT ![job.step] = value]
  <1>1. job.step \in Reads
    BY DEF ReadLeaf
  <1>2. job' = [job EXCEPT !.step = NextRead[job.step], !.got = got]
    BY <1>0 DEF ReadLeaf, JobOK
  <1>3. /\ job'.kind = job.kind /\ job'.prov = job.prov
        /\ job'.of = job.of /\ job'.stage = job.stage
        /\ job'.step = NextRead[job.step] /\ job'.got = got
        /\ job' = [kind |-> job'.kind, prov |-> job'.prov, of |-> job'.of,
                   stage |-> job'.stage, step |-> job'.step, got |-> job'.got]
    <2> HIDE DEF got
    <2> QED
      BY <1>0, <1>2 DEF JobOK
  <1>4. /\ NextRead[job.step] \in Reads \cup {"use"}
        /\ ReadBefore[NextRead[job.step]] = ReadBefore[job.step] \cup {job.step}
        /\ ReadBefore[job.step] \subseteq Reads /\ job.step \notin ReadBefore[job.step]
    BY <1>1 DEF NextRead, ReadBefore, Reads
  <1>5. /\ got[job.step] = value
        /\ \A field \in Reads \ {job.step} : got[field] = job.got[field]
        /\ got = [field \in Reads |-> got[field]]
    BY <1>0, <1>1 DEF JobOK
  <1> HIDE DEF got
  <1>6. \A field \in ReadBefore[job.step] : ReadFrom(job', seen, field)
    BY <1>0, <1>3, <1>4, <1>5 DEF JobOK, ReadFrom
  <1>7. ReadFrom(job', seen, job.step)
    BY <1>0, <1>3, <1>5 DEF ReadFrom
  <1>8. UNCHANGED <<host, clock, saved, proof, answer, seen, changes>>
    BY DEF ReadLeaf, machine, papers
  <1>9. job.step # "probe"
    BY <1>1 DEF Reads
  <1>10. JobOK(job', seen)
    BY <1>0, <1>3, <1>4, <1>5, <1>6, <1>7, <1>9 DEF JobOK, Reads
  <1>11. job' # NoJob
    BY <1>0, <1>3 DEF JobOK, Kinds, NoJob
  <1>12. HostTypeOK' /\ ProofInv' /\ JobInv'
    BY <1>0, <1>8, <1>10 DEF HostTypeOK, ProofInv, JobInv
  <1> QED
    BY <1>11, <1>12, NoAnswerYet DEF AttestInv

(* What a call that has read everything knows of the host.                 *)
LEMMA AllRead ==
    ASSUME JobOK(job, seen), job.step = "use", HostTypeOK
    PROVE  /\ \A field \in Reads : \E s \in seen :
                 job.got[field] = ReadOf(s.h, s.t, field, job.prov.event)
           /\ \E s \in seen : job.got.policy = s.h.policy
           /\ \E s \in seen : job.got.record.rate = PassRate(s.h.failed) /\ s.h.failed \in Nat
  <1>1. \A field \in Reads : \E s \in seen :
            job.got[field] = ReadOf(s.h, s.t, field, job.prov.event)
    BY DEF JobOK, ReadFrom, ReadBefore
  <1>2. PICK s1 \in seen : job.got["policy"] = ReadOf(s1.h, s1.t, "policy", job.prov.event)
    BY <1>1 DEF Reads
  <1>3. PICK s2 \in seen : job.got["record"] = ReadOf(s2.h, s2.t, "record", job.prov.event)
    BY <1>1 DEF Reads
  <1>4. s2.h.failed \in Nat
    <2>1. s2 \in [h : Hosts, t : Nat]
      BY DEF HostTypeOK
    <2>2. s2.h.failed \in Failures \cup {0}
      BY <2>1 DEF Hosts
    <2>3. Failures \cup {0} \subseteq Nat
      BY AttestAssumption
    <2> QED
      BY <2>2, <2>3
  <1> QED
    BY <1>1, <1>2, <1>3, <1>4, ReadValues

(* verify_state, verify_domain_proof and the two that make papers, once    *)
(* the leaves are read.                                                    *)
LEMMA UseStep ==
    ASSUME AttestInv, Use PROVE AttestInv'
  <1>0. /\ HostTypeOK /\ ProofInv /\ JobOK(job, seen)
        /\ job.step = "use" /\ job' = NoJob
        /\ UNCHANGED <<host, clock, seen, changes>>
    BY DEF AttestInv, JobInv, Use, Return, machine
  <1>1. HostTypeOK' /\ JobInv'
    BY <1>0 DEF HostTypeOK, JobInv
  <1>2. CASE job.kind = "build"
    <2>1. proof' = proof /\ answer'.kind = "build"
      BY <1>2 DEF Use, Return
    <2>2. ProofInv'
      BY <1>0, <2>1 DEF ProofInv
    <2>3. Answers'
      BY <2>1 DEF Answers, TrustedMeansLive, AcceptedProofsAreSound, TrustedProofsVerify,
                  CommitNeedsHealth
    <2> QED
      BY <1>1, <2>2, <2>3 DEF AttestInv
  <1>3. CASE job.kind = "verify"
    <2>1. /\ proof' = proof
          /\ answer'.kind = "verify" /\ answer'.paper = job.of
          /\ answer'.result = IF job.of.root = [leaves |-> job.got, prov |-> job.prov]
                              THEN "TRUSTED" ELSE "DRIFT_DETECTED"
      BY <1>3 DEF Use, Return
    <2>2. job.of.root = [leaves |-> job.of.leaves, prov |-> job.of.prov]
      BY <1>0, <1>3 DEF JobOK, Body
    <2>3. TrustedMeansLive'
      <3> SUFFICES ASSUME answer'.result = "TRUSTED" PROVE TrustedMeansLive'
        BY DEF TrustedMeansLive
      <3>1. answer'.paper.leaves = job.got /\ answer'.paper.prov = job.prov
        <4>1. [leaves |-> job.of.leaves, prov |-> job.of.prov]
                = [leaves |-> job.got, prov |-> job.prov]
          BY <2>1, <2>2
        <4> QED
          BY <2>1, <4>1
      <3>2. \A field \in Reads : \E s \in seen' :
                answer'.paper.leaves[field] = ReadOf(s.h, s.t, field, answer'.paper.prov.event)
        BY <1>0, <3>1, AllRead
      <3> QED
        BY <3>2 DEF TrustedMeansLive
    <2>4. Answers'
      BY <2>1, <2>3 DEF Answers, AcceptedProofsAreSound, TrustedProofsVerify, CommitNeedsHealth
    <2> QED
      BY <1>0, <1>1, <2>1, <2>4 DEF AttestInv, ProofInv
  <1>4. CASE job.kind = "prove"
    <2>1. /\ proof' = DomainProof(job.got, job.of)
          /\ answer'.kind = "prove"
      BY <1>4 DEF Use, Return
    <2>2. ProofInv'
      BY <1>0, <1>4, <2>1, DomainProofIssued DEF ProofInv, JobOK
    <2>3. Answers'
      BY <2>1 DEF Answers, TrustedMeansLive, AcceptedProofsAreSound, TrustedProofsVerify,
                  CommitNeedsHealth
    <2> QED
      BY <1>1, <2>2, <2>3 DEF AttestInv
  <1>5. CASE job.kind = "check"
    <2>1. /\ proof' = proof
          /\ answer'.kind = "check" /\ answer'.paper = job.of
          /\ answer'.result = IF Checks(job.got) THEN "ACCEPTED" ELSE "UNTRUSTED_HOST"
      BY <1>5 DEF Use, Return
    <2>2. Issued(job.of.proof) /\ ProofStands(job.of.proof, job.of.given)
      BY <1>0, <1>5 DEF JobOK
    <2>3. PICK s1 \in seen : job.got.policy = s1.h.policy
      BY <1>0, AllRead
    <2>4. PICK s2 \in seen :
            job.got.record.rate = PassRate(s2.h.failed) /\ s2.h.failed \in Nat
      BY <1>0, AllRead
    <2>5. AcceptedProofsAreSound'
      <3> SUFFICES ASSUME answer'.result = "ACCEPTED" PROVE AcceptedProofsAreSound'
        BY DEF AcceptedProofsAreSound
      <3>1. s1.h.policy # "null" /\ PassRate(s2.h.failed) = 100
        BY <2>1, <2>3, <2>4 DEF Checks
      <3>2. 200 * s2.h.failed <= Assertions
        BY <2>4, <3>1, FullRate
      <3> DEFINE p == job.of.proof
      <3>3. /\ {"root"} \cap p.edited = {} => Bound(p) = p.made
            /\ {"root", "nonce"} \cap p.edited = {} => p.made.evidence.nonce
            /\ {"root", "tier"} \cap p.edited = {}
                 \/ ({"root"} \cap p.edited = {} /\ job.of.given = "right") =>
                  p.made.evidence.tier = p.made.spec.tier
            /\ {"exit"} \cap p.edited = {} => p.ended = 0
        BY <2>2, StandingProof
      <3> QED
        BY <1>0, <2>1, <3>1, <3>2, <3>3 DEF AcceptedProofsAreSound, Sometime, Bound
    <2>6. TrustedProofsVerify'
      <3>1. CASE Checks(job.got)
        BY <2>1, <3>1 DEF TrustedProofsVerify
      <3>2. CASE ~ Checks(job.got)
        <4>1. s1.h.policy = "null" \/ PassRate(s2.h.failed) # 100
          BY <2>3, <2>4, <3>2 DEF Checks
        <4> QED
          BY <1>0, <2>1, <3>2, <4>1 DEF TrustedProofsVerify, Sometime
      <3> QED
        BY <3>1, <3>2
    <2>7. TrustedMeansLive' /\ CommitNeedsHealth'
      BY <2>1 DEF TrustedMeansLive, CommitNeedsHealth
    <2> QED
      BY <1>0, <1>1, <2>1, <2>5, <2>6, <2>7 DEF AttestInv, Answers, ProofInv
  <1> QED
    BY <1>2, <1>3, <1>4, <1>5 DEF Use

(* advance_stage: the condition of the stage has been met.                 *)
LEMMA AdvanceStep ==
    ASSUME AttestInv, job # NoJob, job.kind = "boot",
           job.of = "PRODUCTION" => MetBefore(seen, job.stage + 1),
           Advance, UNCHANGED <<host, clock, saved, proof, edits, seen, changes>>
    PROVE  AttestInv'
  <1>0. /\ HostTypeOK /\ ProofInv /\ JobOK(job, seen)
        /\ [h |-> host, t |-> clock] \in seen
    BY DEF AttestInv, JobInv
  <1>1. HostTypeOK' /\ ProofInv'
    BY <1>0 DEF HostTypeOK, ProofInv
  <1>2. job.stage \in 1 .. 5
    BY <1>0 DEF JobOK
  <1>3. CASE job.stage = 5
    <2>1. /\ job' = NoJob /\ answer'.kind = "boot" /\ answer'.paper.mode = job.of
      BY <1>3 DEF Advance, Return
    <2>2. job.of = "PRODUCTION" => MetBefore(seen, 6)
      BY <1>3
    <2>3. CommitNeedsHealth'
      BY <2>1, <2>2 DEF CommitNeedsHealth, MetBefore, Sometime, Conditions
    <2>4. TrustedMeansLive' /\ AcceptedProofsAreSound' /\ TrustedProofsVerify'
      BY <2>1 DEF TrustedMeansLive, AcceptedProofsAreSound, TrustedProofsVerify
    <2>5. JobInv'
      BY <2>1 DEF JobInv
    <2> QED
      BY <1>1, <2>3, <2>4, <2>5 DEF AttestInv, Answers
  <1>4. CASE job.stage # 5
    <2>1. job' = Job("boot", job.prov, job.of, job.stage + 1, "probe")
      BY <1>4 DEF Advance
    <2>2. "boot" \in Kinds /\ job.stage + 1 \in 1 .. 5
      BY <1>2, <1>4 DEF Kinds
    <2>3. JobOK(job', seen)
      BY <2>1, <2>2 DEF JobOK, Job, NothingRead, ReadBefore, Reads
    <2>4. JobInv'
      BY <1>0, <2>3 DEF JobInv
    <2> QED
      BY <1>1, <2>1, <2>2, <2>4, JobIsNew, NoAnswerYet DEF AttestInv
  <1> QED
    BY <1>3, <1>4

LEMMA RollbackStep ==
    ASSUME AttestInv, Rollback, UNCHANGED <<host, clock, saved, proof, edits, seen, changes>>
    PROVE  AttestInv'
  <1>0. HostTypeOK /\ ProofInv
    BY DEF AttestInv
  <1>1. job' = NoJob /\ answer'.kind = "boot" /\ answer'.result = "TRIGGER_ROLLBACK"
    BY DEF Rollback, Return
  <1>2. HostTypeOK' /\ ProofInv' /\ JobInv'
    BY <1>0, <1>1 DEF HostTypeOK, ProofInv, JobInv
  <1>3. Answers'
    BY <1>1 DEF Answers, TrustedMeansLive, AcceptedProofsAreSound, TrustedProofsVerify,
                CommitNeedsHealth
  <1> QED
    BY <1>2, <1>3 DEF AttestInv

(* probe_stage_condition of the stages that look at the host.              *)
LEMMA ProbeStep ==
    ASSUME AttestInv, Probe PROVE AttestInv'
  <1>1. job # NoJob
    BY DEF Probe, NoJob
  <1>0. /\ HostTypeOK /\ ProofInv /\ JobOK(job, seen)
        /\ [h |-> host, t |-> clock] \in seen /\ job.kind = "boot" /\ job.step = "probe"
        /\ UNCHANGED <<host, clock, saved, proof, edits, seen, changes>>
    BY <1>1 DEF AttestInv, JobInv, Probe, machine, papers
  <1>2. job.stage \in 1 .. 5 /\ (job.of = "PRODUCTION" => MetBefore(seen, job.stage))
    BY <1>0 DEF JobOK
  <1>3. CASE Stages[job.stage] = "STATE_VERIFIED"
    <2>1. job.stage = 4
      BY <1>2, <1>3 DEF Stages
    <2>2. job' = [job EXCEPT !.step = "pcr"]
      BY <1>3 DEF Probe
    <2>3. /\ job'.kind = job.kind /\ job'.prov = job.prov
          /\ job'.of = job.of /\ job'.stage = job.stage /\ job'.got = job.got
          /\ job'.step = "pcr"
          /\ job' = [kind |-> job'.kind, prov |-> job'.prov, of |-> job'.of,
                     stage |-> job'.stage, step |-> job'.step, got |-> job'.got]
      BY <1>0, <2>2 DEF JobOK
    <2>4. JobOK(job', seen)
      BY <1>0, <2>1, <2>3 DEF JobOK, ReadBefore, Reads
    <2>5. job' # NoJob
      BY <1>0, <2>3 DEF NoJob
    <2>6. HostTypeOK' /\ ProofInv' /\ JobInv'
      BY <1>0, <2>4 DEF HostTypeOK, ProofInv, JobInv
    <2> QED
      BY <2>5, <2>6, NoAnswerYet DEF AttestInv
  <1>4. CASE Stages[job.stage] # "STATE_VERIFIED" /\ Healthy(Stages[job.stage])
    <2>1. Advance
      BY <1>4 DEF Probe
    <2>2. job.stage # 4
      BY <1>4 DEF Stages
    <2>3. ASSUME job.of = "PRODUCTION" PROVE MetBefore(seen, job.stage + 1)
      <3>1. job.stage # 1 => Stages[job.stage] \in host.up
        BY <1>2, <1>4, <2>3 DEF Healthy, Stages
      <3>2. /\ job.stage = 2 => "MOUNTS_HEALTHY" \in host.up
            /\ job.stage = 3 => "DAEMON_READY" \in host.up
            /\ job.stage = 5 => "DESKTOP_TARGET" \in host.up
        BY <3>1 DEF Stages
      <3>3. \E s \in seen : s.h = host
        BY <1>0
      <3> QED
        BY <1>2, <2>2, <2>3, <3>2, <3>3 DEF MetBefore
    <2> QED
      BY <1>0, <1>1, <2>1, <2>3, AdvanceStep
  <1>5. CASE Stages[job.stage] # "STATE_VERIFIED" /\ ~ Healthy(Stages[job.stage])
    <2>1. Rollback
      BY <1>5 DEF Probe
    <2> QED
      BY <1>0, <2>1, RollbackStep
  <1> QED
    BY <1>3, <1>4, <1>5

(* The stage that verifies the live state.                                 *)
LEMMA ProbeStateStep ==
    ASSUME AttestInv, ProbeState PROVE AttestInv'
  <1>1. job # NoJob
    BY DEF ProbeState, NoJob
  <1>0. /\ HostTypeOK /\ JobOK(job, seen) /\ job.kind = "boot" /\ job.step = "use"
        /\ UNCHANGED <<host, clock, saved, proof, edits, seen, changes>>
    BY <1>1 DEF AttestInv, JobInv, ProbeState, machine, papers
  <1>2. job.stage = 4 /\ (job.of = "PRODUCTION" => MetBefore(seen, job.stage))
    BY <1>0 DEF JobOK
  <1>3. CASE Checks(job.got) \/ job.of # "PRODUCTION"
    <2>1. Advance
      BY <1>3 DEF ProbeState
    <2>2. ASSUME job.of = "PRODUCTION" PROVE MetBefore(seen, job.stage + 1)
      <3>1. Checks(job.got)
        BY <1>3, <2>2
      <3>2. PICK s1 \in seen : job.got.policy = s1.h.policy
        BY <1>0, AllRead
      <3>3. PICK s2 \in seen : job.got.record.rate = PassRate(s2.h.failed)
        BY <1>0, AllRead
      <3>4. s1.h.policy # "null" /\ PassRate(s2.h.failed) = 100
        BY <3>1, <3>2, <3>3 DEF Checks
      <3> QED
        BY <1>2, <2>2, <3>4 DEF MetBefore
    <2> QED
      BY <1>0, <1>1, <2>1, <2>2, AdvanceStep
  <1>4. CASE ~ (Checks(job.got) \/ job.of # "PRODUCTION")
    <2>1. Rollback
      BY <1>4 DEF ProbeState
    <2> QED
      BY <1>0, <2>1, RollbackStep
  <1> QED
    BY <1>3, <1>4

(* The host or the clock moves on under a call, or between two.            *)
LEMMA ObserveStep ==
    ASSUME AttestInv, Observe, job' = job, UNCHANGED papers,
           host' \in Hosts, clock' \in Nat, changes' \in Nat
    PROVE  AttestInv'
  <1>0. HostTypeOK /\ ProofInv /\ JobInv
    BY DEF AttestInv
  <1> DEFINE moment == [h |-> host', t |-> clock']
  <1>1. ProofInv'
    BY <1>0, PapersKept
  <1>2. moment \in [h : Hosts, t : Nat]
    OBVIOUS
  <1>3. seen' = IF job = NoJob THEN {} ELSE seen \cup {moment}
    BY DEF Observe
  <1> HIDE DEF moment
  <1>4. HostTypeOK'
    BY <1>0, <1>2, <1>3 DEF HostTypeOK
  <1>5. JobInv'
    <2>1. CASE job # NoJob
      <3>1. seen \subseteq seen' /\ moment \in seen'
        BY <1>3, <2>1
      <3>2. JobOK(job', seen')
        BY <1>0, <2>1, <3>1, JobGrows DEF JobInv
      <3> QED
        BY <3>1, <3>2 DEF JobInv, moment
    <2>2. CASE job = NoJob
      BY <2>2 DEF JobInv
    <2> QED
      BY <2>1, <2>2
  <1>6. Answers'
    BY NoAnswerYet DEF Observe
  <1> QED
    BY <1>1, <1>4, <1>5, <1>6 DEF AttestInv

LEMMA ChangeStep ==
    ASSUME AttestInv, NEW h \in Hosts, Change(h) PROVE AttestInv'
  <1>1. /\ host' \in Hosts /\ clock' \in Nat /\ changes' \in Nat
        /\ job' = job /\ UNCHANGED papers /\ Observe
    BY DEF AttestInv, HostTypeOK, Change
  <1> QED
    BY <1>1, ObserveStep

(* Everything that happens to the host leaves it a host.                   *)
LEMMA HostStep ==
    ASSUME AttestInv,
           Transaction \/ Switch \/ Activate \/ EditLock \/ EditPolicy \/ RecordRun \/ DamageJournal
             \/ QuarantineJournal \/ Unit
    PROVE  AttestInv'
  <1>0. host \in Hosts /\ clock \in Nat /\ changes \in Nat
    BY DEF AttestInv, HostTypeOK
  <1>1. CASE Transaction
    <2>1. [host EXCEPT !.tx = changes + 1, !.txs = @ \cup {changes + 1}] \in Hosts
      <3>1. changes + 1 \in Nat /\ host.txs \cup {changes + 1} \in SUBSET Nat
        BY <1>0 DEF Hosts
      <3>2. \A n \in Nat, T \in SUBSET Nat : [host EXCEPT !.tx = n, !.txs = T] \in Hosts
        BY <1>0 DEF Hosts
      <3> QED
        BY <3>1, <3>2
    <2>2. \A t \in host.txs : [host EXCEPT !.tx = t] \in Hosts
      BY <1>0 DEF Hosts
    <2> QED
      BY <1>1, <2>1, <2>2, ChangeStep DEF Transaction
  <1>2. CASE Switch
    <2>1. [host EXCEPT !.gen = 3 - @] \in Hosts
      BY <1>0 DEF Hosts
    <2> QED
      BY <1>2, <2>1, ChangeStep DEF Switch
  <1>8. CASE Activate
    <2>1. [host EXCEPT !.store = host.gen] \in Hosts
      BY <1>0 DEF Hosts
    <2> QED
      BY <1>8, <2>1, ChangeStep DEF Activate
  <1>9. CASE EditLock
    <2>1. [host EXCEPT !.lock = 1 - @] \in Hosts
      BY <1>0 DEF Hosts
    <2> QED
      BY <1>9, <2>1, ChangeStep DEF EditLock
  <1>3. CASE EditPolicy
    <2>1. \A p \in {"null", "a", "b"} : [host EXCEPT !.policy = p] \in Hosts
      BY <1>0 DEF Hosts
    <2> QED
      BY <1>3, <2>1, ChangeStep DEF EditPolicy
  <1>4. CASE RecordRun
    <2>1. \A f \in Failures : [host EXCEPT !.failed = f, !.stamp = clock] \in Hosts
      BY <1>0 DEF Hosts
    <2> QED
      BY <1>4, <2>1, ChangeStep DEF RecordRun
  <1>5. CASE DamageJournal
    <2>1. [host EXCEPT !.valid = FALSE] \in Hosts
      BY <1>0 DEF Hosts
    <2> QED
      BY <1>5, <2>1, ChangeStep DEF DamageJournal
  <1>6. CASE QuarantineJournal
    <2>1. [host EXCEPT !.valid = TRUE, !.tx = 0, !.txs = {}] \in Hosts
      BY <1>0 DEF Hosts
    <2> QED
      BY <1>6, <2>1, ChangeStep DEF QuarantineJournal
  <1>7. CASE Unit
    <2>1. \A u \in Conditions :
            [host EXCEPT !.up = IF u \in @ THEN @ \ {u} ELSE @ \cup {u}] \in Hosts
      BY <1>0 DEF Hosts
    <2> QED
      BY <1>7, <2>1, ChangeStep DEF Unit
  <1> QED
    BY <1>1, <1>2, <1>3, <1>4, <1>5, <1>6, <1>7, <1>8, <1>9

(* A machine that is started again has no call under way.                  *)
LEMMA PowerCycleStep ==
    ASSUME AttestInv, PowerCycle PROVE AttestInv'
  <1>0. HostTypeOK /\ ProofInv
    BY DEF AttestInv
  <1>1. host' \in Hosts
    BY <1>0 DEF PowerCycle, HostTypeOK, Hosts
  <1>2. HostTypeOK'
    BY <1>0, <1>1 DEF PowerCycle, HostTypeOK
  <1>3. ProofInv' /\ JobInv'
    BY <1>0, PapersKept DEF PowerCycle, JobInv
  <1>4. Answers'
    BY NoAnswerYet DEF PowerCycle
  <1> QED
    BY <1>2, <1>3, <1>4 DEF AttestInv

LEMMA EditStep ==
    ASSUME AttestInv, EditDocument \/ EditProof PROVE AttestInv'
  <1>0. HostTypeOK /\ ProofInv /\ JobInv /\ Answers
    BY DEF AttestInv
  <1>1. UNCHANGED <<host, clock, job, answer, seen, changes>>
    BY DEF EditDocument, EditProof, machine
  <1>2. HostTypeOK' /\ JobInv'
    BY <1>0, <1>1 DEF HostTypeOK, JobInv
  <1>3. Answers'
    BY <1>0, <1>1 DEF Answers, TrustedMeansLive, AcceptedProofsAreSound, TrustedProofsVerify,
                      CommitNeedsHealth, Sometime
  <1>4. CASE EditDocument
    BY <1>0, <1>2, <1>3, <1>4 DEF EditDocument, ProofInv, AttestInv
  <1>5. CASE EditProof
    <2>1. Issued(proof)
      BY <1>0, <1>5 DEF EditProof, ProofInv
    <2>2. ASSUME NEW p, NEW evidence, NEW spec, NEW hashed,
                 p = [proof EXCEPT !.evidence = evidence, !.spec = spec, !.hashed = hashed]
          PROVE  /\ Issued(p)
                 /\ Issued([p EXCEPT !.root = Bound(p), !.edited = @ \cup {"root"}])
      <3>1. Issued(p)
        BY <2>1, <2>2 DEF Issued, ProofFields
      <3> DEFINE root == Bound(p)
                 q == [p EXCEPT !.root = root, !.edited = @ \cup {"root"}]
      <3> HIDE DEF root
      <3>2. /\ q.edited = p.edited \cup {"root"}
            /\ \A field \in ProofFields \ {"root", "edited"} : q[field] = p[field]
            /\ q = [field \in ProofFields |-> q[field]]
        BY <3>1 DEF Issued, ProofFields
      <3> HIDE DEF q
      <3>3. Issued(q)
        BY <3>1, <3>2 DEF Issued, ProofFields
      <3> QED
        BY <3>1, <3>3 DEF q, root
    <2>3. ASSUME NEW v PROVE Issued([proof EXCEPT !.nonce = v, !.edited = @ \cup {"nonce"}])
      <3> DEFINE q == [proof EXCEPT !.nonce = v, !.edited = @ \cup {"nonce"}]
      <3>1. /\ q.edited = proof.edited \cup {"nonce"}
            /\ \A field \in ProofFields \ {"nonce", "edited"} : q[field] = proof[field]
            /\ q = [field \in ProofFields |-> q[field]]
        BY <2>1 DEF Issued, ProofFields
      <3> HIDE DEF q
      <3>2. Issued(q)
        BY <2>1, <3>1 DEF Issued, ProofFields
      <3> QED
        BY <3>2 DEF q
    <2>6. ASSUME NEW v PROVE Issued([proof EXCEPT !.exit = v, !.edited = @ \cup {"exit"}])
      <3> DEFINE q == [proof EXCEPT !.exit = v, !.edited = @ \cup {"exit"}]
      <3>1. /\ q.edited = proof.edited \cup {"exit"}
            /\ \A field \in ProofFields \ {"exit", "edited"} : q[field] = proof[field]
            /\ q = [field \in ProofFields |-> q[field]]
        BY <2>1 DEF Issued, ProofFields
      <3> HIDE DEF q
      <3>2. Issued(q)
        BY <2>1, <3>1 DEF Issued, ProofFields
      <3> QED
        BY <3>2 DEF q
    <2>7. ASSUME NEW v PROVE Issued([proof EXCEPT !.tier = v, !.edited = @ \cup {"tier"}])
      <3> DEFINE q == [proof EXCEPT !.tier = v, !.edited = @ \cup {"tier"}]
      <3>1. /\ q.edited = proof.edited \cup {"tier"}
            /\ \A field \in ProofFields \ {"tier", "edited"} : q[field] = proof[field]
            /\ q = [field \in ProofFields |-> q[field]]
        BY <2>1 DEF Issued, ProofFields
      <3> HIDE DEF q
      <3>2. Issued(q)
        BY <2>1, <3>1 DEF Issued, ProofFields
      <3> QED
        BY <3>2 DEF q
    <2>4. /\ [proof EXCEPT !.evidence.nonce = TRUE]
               = [proof EXCEPT !.evidence = [proof.evidence EXCEPT !.nonce = TRUE],
                               !.spec = proof.spec, !.hashed = proof.hashed]
          /\ [proof EXCEPT !.hashed = FALSE]
               = [proof EXCEPT !.evidence = proof.evidence, !.spec = proof.spec,
                               !.hashed = FALSE]
          /\ [proof EXCEPT !.evidence.tier = proof.spec.tier]
               = [proof EXCEPT !.evidence = [proof.evidence EXCEPT !.tier = proof.spec.tier],
                               !.spec = proof.spec, !.hashed = proof.hashed]
          /\ [proof EXCEPT !.spec.tier = proof.evidence.tier]
               = [proof EXCEPT !.evidence = proof.evidence,
                               !.spec = [proof.spec EXCEPT !.tier = proof.evidence.tier],
                               !.hashed = proof.hashed]
      BY <2>1 DEF Issued, ProofFields
    <2> DEFINE Sealed(p) == [p EXCEPT !.root = Bound(p), !.edited = @ \cup {"root"}]
               nonced == [proof EXCEPT !.evidence.nonce = TRUE]
               bare == [proof EXCEPT !.hashed = FALSE]
               moved == [proof EXCEPT !.evidence.tier = proof.spec.tier]
               lowered == [proof EXCEPT !.spec.tier = proof.evidence.tier]
    <2>8. \A p, evidence, spec, hashed :
            p = [proof EXCEPT !.evidence = evidence, !.spec = spec, !.hashed = hashed] =>
              Issued(p) /\ Issued(Sealed(p))
      BY <2>2
    <2>9. /\ Issued(nonced) /\ Issued(Sealed(nonced))
          /\ Issued(bare) /\ Issued(Sealed(bare))
          /\ Issued(moved) /\ Issued(Sealed(moved))
          /\ Issued(lowered) /\ Issued(Sealed(lowered))
      <3> HIDE DEF Sealed
      <3> QED
        BY <2>4, <2>8, Zenon
    <2>10. \/ \E p \in {nonced, bare, moved, lowered} : proof' \in {p, Sealed(p)}
           \/ proof' = [proof EXCEPT !.nonce = TRUE, !.edited = @ \cup {"nonce"}]
           \/ proof' = [proof EXCEPT !.exit = 0, !.edited = @ \cup {"exit"}]
           \/ \E t \in Tiers \cup {4} :
                 proof' = [proof EXCEPT !.tier = t, !.edited = @ \cup {"tier"}]
      BY <1>5, Zenon DEF EditProof
    <2>5. Issued(proof')
      <3> HIDE DEF Sealed, nonced, bare, moved, lowered
      <3>1. CASE \E p \in {nonced, bare, moved, lowered} : proof' \in {p, Sealed(p)}
        BY <2>9, <3>1, Zenon
      <3>2. CASE proof' = [proof EXCEPT !.nonce = TRUE, !.edited = @ \cup {"nonce"}]
        BY <2>3, <3>2, Zenon
      <3>3. CASE proof' = [proof EXCEPT !.exit = 0, !.edited = @ \cup {"exit"}]
        BY <2>6, <3>3, Zenon
      <3>4. CASE \E t \in Tiers \cup {4} :
                   proof' = [proof EXCEPT !.tier = t, !.edited = @ \cup {"tier"}]
        BY <2>7, <3>4, Zenon
      <3> QED
        BY <2>10, <3>1, <3>2, <3>3, <3>4
    <2> QED
      BY <1>0, <1>2, <1>3, <2>5 DEF ProofInv, AttestInv
  <1> QED
    BY <1>4, <1>5

LEMMA AttestStep == AttestInv /\ [AttestNext]_attestVars => AttestInv'
  <1> SUFFICES ASSUME AttestInv, [AttestNext]_attestVars PROVE AttestInv'
    OBVIOUS
  <1>0. {"build", "prove"} \subseteq Kinds
    BY DEF Kinds
  <1>1. ASSUME NEW b \in Builds, Build(b) PROVE AttestInv'
    BY <1>0, <1>1, ReadingStep DEF Build
  <1>2. ASSUME NEW by \in Users, Verify(by) PROVE AttestInv'
    BY <1>2, VerifyStep
  <1>3. ASSUME NEW r \in Requests, Prove(r) PROVE AttestInv'
    BY <1>0, <1>3, ReadingStep DEF Prove
  <1>4. ASSUME NEW given \in {"right", "other", "none"}, Check(given) PROVE AttestInv'
    BY <1>4, CheckStep
  <1>5. ASSUME NEW mode \in {"PRODUCTION", "EMULATION"}, EvaluateBoot(mode) PROVE AttestInv'
    BY <1>5, EvaluateBootStep
  <1>6. CASE Tick
    <2>1. /\ host' \in Hosts /\ clock' \in Nat /\ changes' \in Nat
          /\ job' = job /\ UNCHANGED papers /\ Observe
      BY <1>6 DEF AttestInv, HostTypeOK, Tick
    <2> QED
      BY <2>1, ObserveStep
  <1>7. CASE UNCHANGED attestVars
    <2>1. HostTypeOK' /\ ProofInv' /\ JobInv'
      BY <1>7 DEF attestVars, AttestInv, HostTypeOK, ProofInv, JobInv
    <2>2. Answers'
      BY <1>7 DEF attestVars, AttestInv, Answers, TrustedMeansLive, AcceptedProofsAreSound,
                  TrustedProofsVerify, CommitNeedsHealth, Sometime
    <2> QED
      BY <2>1, <2>2 DEF AttestInv
  <1> QED
    BY <1>1, <1>2, <1>3, <1>4, <1>5, <1>6, <1>7, ReadLeafStep, UseStep, ProbeStep,
       ProbeStateStep, HostStep, PowerCycleStep, EditStep
       DEF AttestNext

LEMMA AttestInvHolds == AttestSpec => []AttestInv
  BY AttestInitInv, AttestStep, PTL DEF AttestSpec

-----------------------------------------------------------------------------

(* verify_state: everything a TRUSTED document says that was read from the *)
(* host was so at some moment of the verification, whatever happens        *)
(* between the reads and whatever was edited into the document, its root   *)
(* included.                                                               *)
THEOREM TrustIsLive == AttestSpec => []TrustedMeansLive
  <1>1. AttestInv => TrustedMeansLive
    BY DEF AttestInv, Answers
  <1> QED
    BY <1>1, AttestInvHolds, PTL

(* verify_domain_proof: what an accepted proof still guarantees, field by  *)
(* field, after which of its fields were written into: the bound ones as   *)
(* long as the root was not computed again, the isolation too against a    *)
(* rewritten tier when the specification is handed in.  The host failed at *)
(* most half a percent of its assertions, for any number of them: the      *)
(* bound is what rounding the rate costs.                                  *)
THEOREM AcceptanceIsSound == AttestSpec => []AcceptedProofsAreSound
  <1>1. AttestInv => AcceptedProofsAreSound
    BY DEF AttestInv, Answers
  <1> QED
    BY <1>1, AttestInvHolds, PTL

(* calculate_domain_proof and verify_domain_proof agree: an unedited proof *)
(* issued as VERIFIED_TRUSTED is never rejected for what is in it.         *)
THEOREM JudgesAgree == AttestSpec => []TrustedProofsVerify
  <1>1. AttestInv => TrustedProofsVerify
    BY DEF AttestInv, Answers
  <1> QED
    BY <1>1, AttestInvHolds, PTL

(* run_live_health_evaluation: in PRODUCTION a boot is committed only if   *)
(* each of the five stages was met at some moment of the evaluation.       *)
THEOREM CommitIsHealthy == AttestSpec => []CommitNeedsHealth
  <1>1. AttestInv => CommitNeedsHealth
    BY DEF AttestInv, Answers
  <1> QED
    BY <1>1, AttestInvHolds, PTL

=============================================================================
