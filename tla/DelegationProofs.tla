-------------------------- MODULE DelegationProofs --------------------------
(***************************************************************************)
(* Theorems about Delegation, for every set of agents, skills and inputs,  *)
(* every time to live and every bound.                                     *)
(***************************************************************************)
EXTENDS Delegation, TLAPS

-----------------------------------------------------------------------------
(* Sequences that grow at their end or change in one place.                *)

LEMMA AppendFacts ==
    ASSUME NEW S, NEW s \in Seq(S), NEW e \in S
    PROVE  /\ Append(s, e) \in Seq(S)
           /\ Len(s) \in Nat
           /\ DOMAIN s = 1 .. Len(s)
           /\ DOMAIN Append(s, e) = 1 .. Len(s) + 1
           /\ \A i \in DOMAIN s : Append(s, e)[i] = s[i]
           /\ Append(s, e)[Len(s) + 1] = e
  OBVIOUS

LEMMA ChangeFacts ==
    ASSUME NEW S, NEW s \in Seq(S), NEW i \in DOMAIN s, NEW e \in S
    PROVE  /\ [s EXCEPT ![i] = e] \in Seq(S)
           /\ DOMAIN [s EXCEPT ![i] = e] = DOMAIN s
           /\ [s EXCEPT ![i] = e][i] = e
           /\ \A j \in DOMAIN s : j # i => [s EXCEPT ![i] = e][j] = s[j]
           /\ \A j \in DOMAIN s : s[j] \in S
  OBVIOUS

-----------------------------------------------------------------------------
(* Effects: what the parts of a request do to grants and proposals.        *)

LEMMA NewGrantFacts ==
    ASSUME TypeOK,
           NEW principal \in Agents \cup {"OPERATOR_APPROVAL"}, NEW tier \in Tier,
           NEW scope \in Skills \cup {"*"}, NEW digest \in Inputs \cup {NoDigest},
           NEW single \in BOOLEAN, NEW ttl \in Nat, NEW p \in Nat,
           NewGrant(principal, tier, scope, digest, single, ttl, p)
    PROVE  /\ grants' \in Seq(GrantRecord)
           /\ DOMAIN grants = 1 .. Len(grants)
           /\ Len(grants) \in Nat
           /\ DOMAIN grants' = 1 .. Len(grants) + 1
           /\ \A t \in DOMAIN grants : grants'[t] = grants[t]
           /\ grants'[Len(grants) + 1] =
                [principal |-> principal, tier |-> tier, scope |-> scope,
                 digest |-> digest, single |-> single, exp |-> now + ttl,
                 revoked |-> FALSE, consumed |-> FALSE, proposal |-> p, ended |-> 0]
           /\ registry' \in [Host -> SUBSET (DOMAIN grants')]
           /\ Len(grants) + 1 \in registry'["broker"]
           /\ registry["broker"] \subseteq registry'["broker"]
  <1> DEFINE r == [principal |-> principal, tier |-> tier, scope |-> scope,
                   digest |-> digest, single |-> single, exp |-> now + ttl,
                   revoked |-> FALSE, consumed |-> FALSE, proposal |-> p, ended |-> 0]
  <1>1. r \in GrantRecord
    BY DEF TypeOK, GrantRecord
  <1>2. grants \in Seq(GrantRecord) /\ grants' = Append(grants, r)
        /\ registry' = [registry EXCEPT !["broker"] = @ \cup {Len(grants) + 1}]
    BY DEF TypeOK, NewGrant
  <1> HIDE DEF r
  <1>3. /\ Append(grants, r) \in Seq(GrantRecord)
        /\ Len(grants) \in Nat
        /\ DOMAIN grants = 1 .. Len(grants)
        /\ DOMAIN Append(grants, r) = 1 .. Len(grants) + 1
        /\ \A t \in DOMAIN grants : Append(grants, r)[t] = grants[t]
        /\ Append(grants, r)[Len(grants) + 1] = r
    BY <1>1, <1>2, AppendFacts
  <1>4. /\ registry' \in [Host -> SUBSET (DOMAIN grants')]
        /\ Len(grants) + 1 \in registry'["broker"]
        /\ registry["broker"] \subseteq registry'["broker"]
    <2>1. registry \in [Host -> SUBSET (1 .. Len(grants))] /\ "broker" \in Host
      BY <1>3 DEF TypeOK, Host
    <2> QED BY <1>2, <1>3, <2>1
  <1>5. grants'[Len(grants) + 1] = r
    BY <1>2, <1>3
  <1> QED BY <1>2, <1>3, <1>4, <1>5 DEF r

LEMMA NewProposalFacts ==
    ASSUME TypeOK, NEW h \in Host, NEW s \in Skills, NEW i \in Inputs,
           GenerateProposal(h, s, i)
    PROVE  /\ proposals' \in Seq(Proposal)
           /\ DOMAIN proposals = 1 .. Len(proposals)
           /\ Len(proposals) \in Nat
           /\ DOMAIN proposals' = 1 .. Len(proposals) + 1
           /\ \A p \in DOMAIN proposals : proposals'[p] = proposals[p]
           /\ proposals'[Len(proposals) + 1].verdict = "PENDING"
           /\ pending' \in [Host -> SUBSET (DOMAIN proposals')]
           /\ srvPending' \subseteq DOMAIN proposals'
  <1> DEFINE r == [skill |-> s, input |-> i, exp |-> now + ProposalTTL,
                   verdict |-> "PENDING"]
  <1>1. r \in Proposal /\ r.verdict = "PENDING"
    BY DelegationAssumption DEF TypeOK, Proposal, Verdict
  <1>2. proposals \in Seq(Proposal) /\ proposals' = Append(proposals, r)
    BY DEF TypeOK, GenerateProposal
  <1> HIDE DEF r
  <1>3. /\ Append(proposals, r) \in Seq(Proposal)
        /\ Len(proposals) \in Nat
        /\ DOMAIN proposals = 1 .. Len(proposals)
        /\ DOMAIN Append(proposals, r) = 1 .. Len(proposals) + 1
        /\ \A p \in DOMAIN proposals : Append(proposals, r)[p] = proposals[p]
        /\ Append(proposals, r)[Len(proposals) + 1] = r
    BY <1>1, <1>2, AppendFacts
  <1>4. proposals'[Len(proposals) + 1].verdict = "PENDING"
    BY <1>1, <1>2, <1>3
  <1>5. pending' \in [Host -> SUBSET (DOMAIN proposals')]
    BY <1>2, <1>3 DEF TypeOK, GenerateProposal
  <1>6. srvPending' \subseteq DOMAIN proposals'
    BY <1>2, <1>3 DEF TypeOK, GenerateProposal
  <1> QED BY <1>2, <1>3, <1>4, <1>5, <1>6

LEMMA ConsumeFacts ==
    ASSUME TypeOK, NEW t \in DOMAIN grants, grants' = [grants EXCEPT ![t] = Consume(@)]
    PROVE  /\ grants' \in Seq(GrantRecord)
           /\ DOMAIN grants' = DOMAIN grants
           /\ grants'[t] = Consume(grants[t])
           /\ \A u \in DOMAIN grants : u # t => grants'[u] = grants[u]
  <1>1. grants \in Seq(GrantRecord) /\ grants[t] \in GrantRecord
    BY DEF TypeOK
  <1>2. Len(handled) + 1 \in Nat
    BY DEF TypeOK
  <1>3. Consume(grants[t]) \in GrantRecord
    BY <1>1, <1>2 DEF Consume, GrantRecord
  <1>4. grants' = [grants EXCEPT ![t] = Consume(grants[t])]
    OBVIOUS
  <1> QED BY <1>1, <1>3, <1>4, ChangeFacts

(* A request names a record or none; execute may consume it.               *)
LEMMA ExecuteGrants ==
    ASSUME TypeOK, NEW h \in Host, NEW t \in Token, NEW s \in Skills, NEW i \in Inputs,
           NEW o \in BOOLEAN, Execute(h, t, s, i, o)
    PROVE  /\ grants' \in Seq(GrantRecord)
           /\ DOMAIN grants' = DOMAIN grants
           /\ \/ grants' = grants
              \/ /\ t \in DOMAIN grants
                 /\ grants[t].single
                 /\ grants'[t] = Consume(grants[t])
                 /\ \A u \in DOMAIN grants : u # t => grants'[u] = grants[u]
  <1>1. \/ grants' = grants
        \/ /\ t \in registry[h] /\ grants[t].single
           /\ grants' = [grants EXCEPT ![t] = Consume(@)]
    BY DEF Execute
  <1>2. registry[h] \subseteq DOMAIN grants
    BY DEF TypeOK
  <1>3. CASE grants' = grants
    BY <1>3 DEF TypeOK
  <1>4. CASE /\ t \in DOMAIN grants /\ grants[t].single
             /\ grants' = [grants EXCEPT ![t] = Consume(@)]
    BY <1>4, ConsumeFacts
  <1> QED BY <1>1, <1>2, <1>3, <1>4

(* One more call of a handler, under the grant t or under none; a grant    *)
(* fits the call, and a single-use one is consumed with it.                *)
CallUnder(t, s, i) ==
    \E used \in {0, t}, b \in BOOLEAN :
        /\ handled' = Append(handled, [token |-> used, skill |-> s, input |-> i,
                                       overridden |-> b, at |-> now])
        /\ used # 0 => /\ t \in DOMAIN grants
                       /\ IsValidFor(grants[t], s)
                       /\ grants[t].single => /\ grants[t].digest \in {NoDigest, i}
                                              /\ grants'[t] = Consume(grants[t])
                       /\ ~ grants[t].single => grants' = grants
        /\ s \in Gated /\ ~ b => used # 0 /\ HasDelegatedMutation(grants[t].tier)

LEMMA ExecuteHandled ==
    ASSUME TypeOK, NEW h \in Host, NEW t \in Token, NEW s \in Skills, NEW i \in Inputs,
           NEW o \in BOOLEAN, Execute(h, t, s, i, o)
    PROVE  /\ handled' \in Seq(Call)
           /\ handled' = handled \/ CallUnder(t, s, i)
  <1> DEFINE may == HasDelegatedMutation(ActiveTier(h, t, s))
             used == IF t \in registry[h] /\ IsValidFor(grants[t], s) THEN t ELSE 0
             r == [token |-> used, skill |-> s, input |-> i, overridden |-> o /\ ~ may,
                   at |-> now]
  <1>1. \/ handled' = handled
        \/ handled' = Append(handled, r) /\ (s \in Gated => may \/ o)
    BY DEF Execute, HandlerCalled
  <1>2. t \in Nat /\ used \in {0, t}
    BY DEF Token, TypeOK
  <1>3. (o /\ ~ may) \in BOOLEAN
    OBVIOUS
  <1>4. used # 0 => /\ t \in DOMAIN grants
                    /\ IsValidFor(grants[t], s)
                    /\ grants[t].single =>
                          /\ grants[t].digest \in {NoDigest, i}
                          /\ grants'[t] = Consume(grants[t])
                    /\ ~ grants[t].single => grants' = grants
    <2> SUFFICES ASSUME used # 0
                 PROVE  /\ t \in DOMAIN grants
                        /\ IsValidFor(grants[t], s)
                        /\ grants[t].single =>
                              /\ grants[t].digest \in {NoDigest, i}
                              /\ grants'[t] = Consume(grants[t])
                        /\ ~ grants[t].single => grants' = grants
      OBVIOUS
    <2>1. t \in registry[h] /\ IsValidFor(grants[t], s) /\ t # 0 /\ t \in DOMAIN grants
      BY DEF TypeOK
    <2>2. grants[t].single => grants[t].digest \in {NoDigest, i}
      BY <2>1 DEF Execute, Refused
    <2>3. grants[t].single => grants' = [grants EXCEPT ![t] = Consume(@)]
      BY <2>1 DEF Execute
    <2>4. grants[t].single => grants'[t] = Consume(grants[t])
      BY <2>1, <2>3, ConsumeFacts
    <2>5. ~ grants[t].single => grants' = grants
      BY DEF Execute
    <2> QED BY <2>1, <2>2, <2>4, <2>5
  <1>5. r \in Call
    BY <1>2, <1>3 DEF Call, TypeOK
  <1>6. may => used # 0 /\ HasDelegatedMutation(grants[t].tier)
    <2>1. registry[h] \subseteq DOMAIN grants /\ 0 \notin DOMAIN grants
      BY DEF TypeOK
    <2>2. ~ HasDelegatedMutation("PROPOSE_ONLY")
      BY DEF HasDelegatedMutation
    <2> QED BY <2>1, <2>2 DEF ActiveTier
  <1> HIDE DEF may
  <1>7. handled' \in Seq(Call)
    BY <1>1, <1>5 DEF TypeOK
  <1>8. handled' = handled \/ CallUnder(t, s, i)
    BY <1>1, <1>2, <1>3, <1>4, <1>6, ZenonT(30) DEF CallUnder
  <1> QED BY <1>7, <1>8

-----------------------------------------------------------------------------
(* Types, and the two books of open proposals.                             *)

LEMMA BooksInit == Init => BooksInv
  BY DEF Init, BooksInv, TypeOK, BooksAgree, PendingIsOpen, Host, Tier, GrantRecord,
         Proposal, Call

LEMMA ExecuteBooks ==
    ASSUME BooksInv, NEW h \in Host, NEW t \in Token, NEW s \in Skills, NEW i \in Inputs,
           NEW o \in BOOLEAN, Execute(h, t, s, i, o)
    PROVE  BooksInv'
  <1>1. TypeOK /\ BooksAgree /\ PendingIsOpen
    BY DEF BooksInv
  <1>2. grants' \in Seq(GrantRecord) /\ DOMAIN grants' = DOMAIN grants
    BY <1>1, ExecuteGrants
  <1>3. handled' \in Seq(Call)
    BY <1>1, ExecuteHandled
  <1>4. UNCHANGED <<now, registry, srvResolved, tokens, tiers>>
    BY DEF Execute
  <1>5. CASE UNCHANGED <<proposals, pending, srvPending>>
    BY <1>1, <1>2, <1>3, <1>4, <1>5 DEF BooksInv, TypeOK, BooksAgree, PendingIsOpen
  <1>6. CASE GenerateProposal(h, s, i)
    <2>1. /\ proposals' \in Seq(Proposal)
          /\ DOMAIN proposals = 1 .. Len(proposals)
          /\ Len(proposals) \in Nat
          /\ DOMAIN proposals' = 1 .. Len(proposals) + 1
          /\ \A p \in DOMAIN proposals : proposals'[p] = proposals[p]
          /\ proposals'[Len(proposals) + 1].verdict = "PENDING"
          /\ pending' \in [Host -> SUBSET (DOMAIN proposals')]
          /\ srvPending' \subseteq DOMAIN proposals'
      BY <1>1, <1>6, NewProposalFacts
    <2>2. srvResolved' \subseteq DOMAIN proposals'
      BY <1>1, <1>4, <2>1 DEF TypeOK
    <2>3. TypeOK'
      BY <1>1, <1>2, <1>3, <1>4, <2>1, <2>2 DEF TypeOK
    <2>4. pending' = [pending EXCEPT ![h] = @ \cup {Len(proposals) + 1}]
      BY <1>6 DEF GenerateProposal
    <2>5. pending \in [Host -> SUBSET (DOMAIN proposals)] /\ "broker" \in Host
      BY <1>1 DEF TypeOK, Host
    <2>6. srvPending' = IF h = "broker" THEN srvPending \cup {Len(proposals) + 1}
                                        ELSE srvPending
      BY <1>6 DEF GenerateProposal
    <2>7. BooksAgree'
      <3>1. CASE h = "broker"
        BY <1>1, <2>4, <2>5, <2>6, <3>1 DEF BooksAgree
      <3>2. CASE h # "broker"
        BY <1>1, <2>4, <2>5, <2>6, <3>2 DEF BooksAgree
      <3> QED BY <3>1, <3>2
    <2>8. PendingIsOpen'
      BY <1>1, <2>1, <2>4, <2>5 DEF PendingIsOpen
    <2> QED BY <2>3, <2>7, <2>8 DEF BooksInv
  <1> QED BY <1>5, <1>6 DEF Execute

LEMMA GrantBooks ==
    ASSUME BooksInv, NEW a \in Agents, NEW tier \in GrantTiers, AuthorityGrant(a, tier)
    PROVE  BooksInv'
  <1>1. TypeOK /\ BooksAgree /\ PendingIsOpen
    BY DEF BooksInv
  <1>2. NewGrant(a, tier, "*", NoDigest, FALSE, GrantTTL, 0) /\ tier \in Tier /\ GrantTTL \in Nat
    BY DelegationAssumption DEF AuthorityGrant
  <1>3. /\ grants' \in Seq(GrantRecord)
        /\ DOMAIN grants = 1 .. Len(grants)
        /\ Len(grants) \in Nat
        /\ DOMAIN grants' = 1 .. Len(grants) + 1
        /\ registry' \in [Host -> SUBSET (DOMAIN grants')]
    BY <1>1, <1>2, NewGrantFacts
  <1>4. tokens' \in [Agents -> {0} \cup DOMAIN grants']
    BY <1>1, <1>3 DEF AuthorityGrant, TypeOK
  <1>5. tiers' \in [Agents -> Tier \cup {"NONE"}]
    BY <1>1, <1>2 DEF AuthorityGrant, TypeOK
  <1>6. UNCHANGED <<now, proposals, pending, srvPending, srvResolved, handled>>
    BY DEF AuthorityGrant
  <1> QED BY <1>1, <1>3, <1>4, <1>5, <1>6 DEF BooksInv, TypeOK, BooksAgree, PendingIsOpen

(* authority.revoke changes two fields of one record.                      *)
LEMMA RevokeFacts ==
    ASSUME TypeOK, NEW a \in Agents, AuthorityRevoke(a)
    PROVE  /\ grants' \in Seq(GrantRecord)
           /\ DOMAIN grants' = DOMAIN grants
           /\ tokens[a] \in DOMAIN grants
           /\ grants'[tokens[a]] =
                 [grants[tokens[a]] EXCEPT !.revoked = TRUE, !.ended = Len(handled)]
           /\ \A u \in DOMAIN grants : u # tokens[a] => grants'[u] = grants[u]
  <1> DEFINE t == tokens[a]
             r == [grants[t] EXCEPT !.revoked = TRUE, !.ended = Len(handled)]
  <1>1. t \in DOMAIN grants /\ grants \in Seq(GrantRecord) /\ Len(handled) \in Nat
    BY DEF AuthorityRevoke, TypeOK
  <1>2. grants[t] \in GrantRecord
    BY <1>1
  <1>3. r \in GrantRecord
    BY <1>1, <1>2 DEF GrantRecord
  <1>4. grants' = [grants EXCEPT ![t] = r]
    BY <1>1 DEF AuthorityRevoke
  <1> HIDE DEF r
  <1>5. /\ grants' \in Seq(GrantRecord)
        /\ DOMAIN grants' = DOMAIN grants
        /\ grants'[t] = r
        /\ \A u \in DOMAIN grants : u # t => grants'[u] = grants[u]
    BY <1>1, <1>3, <1>4, ChangeFacts
  <1> QED BY <1>1, <1>5 DEF r

(* The proposal requests change the verdict of one proposal and drop it    *)
(* from both books.                                                        *)
LEMMA VerdictBooks ==
    ASSUME BooksInv, NEW p \in DOMAIN proposals, NEW v \in Verdict,
           PopProposal(p),
           srvPending' = srvPending \ {p},
           proposals' = [proposals EXCEPT ![p].verdict = v]
    PROVE  /\ proposals' \in Seq(Proposal)
           /\ DOMAIN proposals' = DOMAIN proposals
           /\ proposals[p].verdict = "PENDING"
           /\ proposals'[p] = [proposals[p] EXCEPT !.verdict = v]
           /\ \A q \in DOMAIN proposals : q # p => proposals'[q] = proposals[q]
           /\ pending' \in [Host -> SUBSET (DOMAIN proposals')]
           /\ srvPending' \subseteq DOMAIN proposals'
           /\ BooksAgree'
           /\ PendingIsOpen'
  <1> DEFINE r == [proposals[p] EXCEPT !.verdict = v]
  <1>1. TypeOK /\ BooksAgree /\ PendingIsOpen /\ proposals \in Seq(Proposal)
        /\ proposals[p] \in Proposal
    BY DEF BooksInv, TypeOK
  <1>2. r \in Proposal
    BY <1>1 DEF Proposal
  <1>3. proposals' = [proposals EXCEPT ![p] = r]
    BY <1>1
  <1> HIDE DEF r
  <1>4. /\ proposals' \in Seq(Proposal)
        /\ DOMAIN proposals' = DOMAIN proposals
        /\ proposals'[p] = r
        /\ \A q \in DOMAIN proposals : q # p => proposals'[q] = proposals[q]
    BY <1>1, <1>2, <1>3, ChangeFacts
  <1>5. /\ pending \in [Host -> SUBSET (DOMAIN proposals)] /\ "broker" \in Host
        /\ p \in pending["broker"]
        /\ pending' = [pending EXCEPT !["broker"] = @ \ {p}]
    BY <1>1 DEF TypeOK, Host, PopProposal
  <1>6. pending' \in [Host -> SUBSET (DOMAIN proposals')] /\ srvPending' \subseteq DOMAIN proposals'
    BY <1>1, <1>4, <1>5 DEF TypeOK
  <1>7. BooksAgree'
    BY <1>1, <1>5 DEF BooksAgree
  <1>8. proposals[p].verdict = "PENDING"
    BY <1>1, <1>5 DEF PendingIsOpen
  <1>9. PendingIsOpen'
    BY <1>1, <1>4, <1>5 DEF PendingIsOpen
  <1> QED BY <1>4, <1>6, <1>7, <1>8, <1>9 DEF r

(* proposal.resolve: an approval adds one single-use record to the grants. *)
LEMMA ResolveGrants ==
    ASSUME TypeOK, NEW p \in DOMAIN proposals, NEW action \in {"APPROVE", "REJECT"},
           ProposalResolve(p, action)
    PROVE  /\ grants' \in Seq(GrantRecord)
           /\ DOMAIN grants = 1 .. Len(grants) /\ Len(grants) \in Nat
           /\ DOMAIN grants \subseteq DOMAIN grants'
           /\ \A t \in DOMAIN grants : grants'[t] = grants[t]
           /\ registry' \in [Host -> SUBSET (DOMAIN grants')]
           /\ registry["broker"] \subseteq registry'["broker"]
           /\ \/ DOMAIN grants' = DOMAIN grants
              \/ /\ action = "APPROVE"
                 /\ DOMAIN grants' = 1 .. Len(grants) + 1
                 /\ grants'[Len(grants) + 1] =
                      [principal |-> "OPERATOR_APPROVAL", tier |-> "PRIVILEGED_EXECUTE",
                       scope |-> proposals[p].skill, digest |-> proposals[p].input,
                       single |-> TRUE, exp |-> now + TokenTTL, revoked |-> FALSE,
                       consumed |-> FALSE, proposal |-> p, ended |-> 0]
  <1>1. CASE action = "APPROVE"
    <2>1. proposals[p] \in Proposal /\ p \in Nat
      BY DEF TypeOK
    <2>2. /\ proposals[p].skill \in Skills \cup {"*"}
          /\ proposals[p].input \in Inputs \cup {NoDigest}
      BY <2>1 DEF Proposal
    <2> DEFINE sk == proposals[p].skill
               dg == proposals[p].input
    <2>3. "PRIVILEGED_EXECUTE" \in Tier /\ TokenTTL \in Nat
          /\ "OPERATOR_APPROVAL" \in Agents \cup {"OPERATOR_APPROVAL"} /\ TRUE \in BOOLEAN
      BY DelegationAssumption DEF Tier
    <2>4. NewGrant("OPERATOR_APPROVAL", "PRIVILEGED_EXECUTE", proposals[p].skill,
                   proposals[p].input, TRUE, TokenTTL, p)
      BY <1>1 DEF ProposalResolve
    <2>5. sk \in Skills \cup {"*"} /\ dg \in Inputs \cup {NoDigest}
      BY <2>2
    <2>6. NewGrant("OPERATOR_APPROVAL", "PRIVILEGED_EXECUTE", sk, dg, TRUE, TokenTTL, p)
      BY <2>4
    <2> HIDE DEF sk, dg
    <2>7. /\ grants' \in Seq(GrantRecord)
          /\ DOMAIN grants = 1 .. Len(grants)
          /\ Len(grants) \in Nat
          /\ DOMAIN grants' = 1 .. Len(grants) + 1
          /\ \A t \in DOMAIN grants : grants'[t] = grants[t]
          /\ grants'[Len(grants) + 1] =
               [principal |-> "OPERATOR_APPROVAL", tier |-> "PRIVILEGED_EXECUTE",
                scope |-> sk, digest |-> dg,
                single |-> TRUE, exp |-> now + TokenTTL, revoked |-> FALSE,
                consumed |-> FALSE, proposal |-> p, ended |-> 0]
          /\ registry' \in [Host -> SUBSET (DOMAIN grants')]
          /\ registry["broker"] \subseteq registry'["broker"]
      BY <2>1, <2>3, <2>5, <2>6, NewGrantFacts, ZenonT(30)
    <2>8. DOMAIN grants \subseteq DOMAIN grants'
      BY <2>7
    <2> QED BY <1>1, <2>7, <2>8 DEF sk, dg
  <1>2. CASE action # "APPROVE"
    <2>1. UNCHANGED <<grants, registry>>
      BY <1>2 DEF ProposalResolve
    <2> QED BY <2>1 DEF TypeOK
  <1> QED BY <1>1, <1>2

LEMMA BooksNext == BooksInv /\ [Next]_vars => BooksInv'
  <1> SUFFICES ASSUME BooksInv, [Next]_vars
               PROVE  BooksInv'
    OBVIOUS
  <1>0. TypeOK /\ BooksAgree /\ PendingIsOpen
    BY DEF BooksInv
  <1>1. ASSUME NEW a \in Agents, NEW t \in Token, NEW s \in Skills, NEW i \in Inputs,
               NEW o \in BOOLEAN, Invoke(a, t, s, i, o)
        PROVE  BooksInv'
    <2>1. (IF t = 0 THEN tokens[a] ELSE t) \in Token /\ "broker" \in Host
      BY <1>0 DEF Token, TypeOK, Host
    <2> QED BY <1>1, <2>1, ExecuteBooks DEF Invoke
  <1>2. ASSUME NEW a \in Agents, NEW t \in Token, NEW s \in Skills, NEW i \in Inputs,
               ToolsCall(a, t, s, i)
        PROVE  BooksInv'
    <2>1. "mcp" \in Host /\ FALSE \in BOOLEAN
      BY DEF Host
    <2> QED BY <1>2, <2>1, ExecuteBooks DEF ToolsCall
  <1>3. ASSUME NEW a \in Agents, AuthorityRevoke(a)
        PROVE  BooksInv'
    <2>1. grants' \in Seq(GrantRecord) /\ DOMAIN grants' = DOMAIN grants
      BY <1>0, <1>3, RevokeFacts
    <2> QED BY <1>0, <1>3, <2>1
            DEF AuthorityRevoke, BooksInv, TypeOK, BooksAgree, PendingIsOpen
  <1>4. ASSUME NEW a \in Agents, NEW tier \in GrantTiers, AuthorityGrant(a, tier)
        PROVE  BooksInv'
    BY <1>4, GrantBooks
  <1>5. ASSUME NEW p \in DOMAIN proposals, ProposalUnknown(p)
        PROVE  BooksInv'
    BY <1>0, <1>5 DEF ProposalUnknown, BooksInv, TypeOK, BooksAgree, PendingIsOpen
  <1>6. ASSUME NEW p \in DOMAIN proposals, ProposalExpired(p)
        PROVE  BooksInv'
    <2>1. "EXPIRED" \in Verdict
      BY DEF Verdict
    <2>2. /\ PopProposal(p) /\ srvPending' = srvPending \ {p}
          /\ proposals' = [proposals EXCEPT ![p].verdict = "EXPIRED"]
          /\ UNCHANGED <<now, grants, registry, srvResolved, tokens, tiers, handled>>
      BY <1>6 DEF ProposalExpired
    <2>3. /\ proposals' \in Seq(Proposal) /\ DOMAIN proposals' = DOMAIN proposals
          /\ pending' \in [Host -> SUBSET (DOMAIN proposals')]
          /\ srvPending' \subseteq DOMAIN proposals'
          /\ BooksAgree' /\ PendingIsOpen'
      BY <2>1, <2>2, VerdictBooks
    <2>4. TypeOK'
      BY <1>0, <2>2, <2>3 DEF TypeOK
    <2> QED BY <2>3, <2>4 DEF BooksInv
  <1>7. ASSUME NEW p \in DOMAIN proposals, NEW action \in {"APPROVE", "REJECT"},
               ProposalResolve(p, action)
        PROVE  BooksInv'
    <2>1. action \in Verdict
      BY DEF Verdict
    <2>2. /\ PopProposal(p) /\ srvPending' = srvPending \ {p}
          /\ proposals' = [proposals EXCEPT ![p].verdict = action]
          /\ srvResolved' = srvResolved \cup {p}
          /\ UNCHANGED <<now, tokens, tiers, handled>>
      BY <1>7 DEF ProposalResolve
    <2>3. /\ proposals' \in Seq(Proposal) /\ DOMAIN proposals' = DOMAIN proposals
          /\ pending' \in [Host -> SUBSET (DOMAIN proposals')]
          /\ srvPending' \subseteq DOMAIN proposals'
          /\ BooksAgree' /\ PendingIsOpen'
      BY <2>1, <2>2, VerdictBooks
    <2>4. /\ grants' \in Seq(GrantRecord) /\ DOMAIN grants \subseteq DOMAIN grants'
          /\ registry' \in [Host -> SUBSET (DOMAIN grants')]
      BY <1>0, <1>7, ResolveGrants
    <2>5. srvResolved' \subseteq DOMAIN proposals'
      BY <1>0, <2>2, <2>3 DEF TypeOK
    <2>6. tokens' \in [Agents -> {0} \cup DOMAIN grants']
      BY <1>0, <2>2, <2>4 DEF TypeOK
    <2>7. TypeOK'
      BY <1>0, <2>2, <2>3, <2>4, <2>5, <2>6 DEF TypeOK
    <2> QED BY <2>3, <2>7 DEF BooksInv
  <1>8. CASE Tick
    BY <1>0, <1>8 DEF Tick, BooksInv, TypeOK, BooksAgree, PendingIsOpen
  <1>9. CASE RestartBroker
    BY <1>0, <1>9 DEF RestartBroker, BooksInv, TypeOK, BooksAgree, PendingIsOpen, Host
  <1>10. CASE RestartMcp
    BY <1>0, <1>10 DEF RestartMcp, BooksInv, TypeOK, BooksAgree, PendingIsOpen, Host
  <1>11. CASE UNCHANGED vars
    BY <1>0, <1>11 DEF vars, BooksInv, TypeOK, BooksAgree, PendingIsOpen
  <1> QED BY <1>1, <1>2, <1>3, <1>4, <1>5, <1>6, <1>7, <1>8, <1>9, <1>10, <1>11 DEF Next

(* Every table of the broker and the bridge holds ids of records that      *)
(* exist, whatever requests, expiries and restarts came before.            *)
THEOREM DelegationTypes == Spec => []TypeOK
  <1>1. BooksInv => TypeOK
    BY DEF BooksInv
  <1> QED BY BooksInit, BooksNext, <1>1, PTL DEF Spec

(* The broker's table of open proposals and its dispatcher's never differ, *)
(* after the requests that fail halfway too.                               *)
THEOREM BooksStayEqual == Spec => []BooksAgree
  <1>1. BooksInv => BooksAgree
    BY DEF BooksInv
  <1> QED BY BooksInit, BooksNext, <1>1, PTL DEF Spec

-----------------------------------------------------------------------------
(* Verdicts: what the agent asked for never changes under a proposal, and  *)
(* a verdict is final.                                                     *)

ProposalsLast ==
    /\ DOMAIN proposals \subseteq DOMAIN proposals'
    /\ \A p \in DOMAIN proposals :
          /\ proposals'[p].skill = proposals[p].skill
          /\ proposals'[p].input = proposals[p].input
          /\ proposals'[p].exp = proposals[p].exp
          /\ proposals[p].verdict # "PENDING" =>
                /\ proposals'[p].verdict = proposals[p].verdict
                /\ p \notin pending'["broker"]

LEMMA ExecuteVerdicts ==
    ASSUME BooksInv, NEW h \in Host, NEW t \in Token, NEW s \in Skills, NEW i \in Inputs,
           NEW o \in BOOLEAN, Execute(h, t, s, i, o)
    PROVE  ProposalsLast
  <1>1. TypeOK /\ PendingIsOpen
    BY DEF BooksInv
  <1>2. CASE UNCHANGED <<proposals, pending, srvPending>>
    BY <1>1, <1>2 DEF ProposalsLast, PendingIsOpen
  <1>3. CASE GenerateProposal(h, s, i)
    <2>1. /\ DOMAIN proposals = 1 .. Len(proposals)
          /\ Len(proposals) \in Nat
          /\ DOMAIN proposals' = 1 .. Len(proposals) + 1
          /\ \A p \in DOMAIN proposals : proposals'[p] = proposals[p]
      BY <1>1, <1>3, NewProposalFacts
    <2>2. pending' = [pending EXCEPT ![h] = @ \cup {Len(proposals) + 1}]
      BY <1>3 DEF GenerateProposal
    <2>3. pending \in [Host -> SUBSET (DOMAIN proposals)] /\ "broker" \in Host
      BY <1>1 DEF TypeOK, Host
    <2>4. \A p \in DOMAIN proposals : p \in pending'["broker"] => p \in pending["broker"]
      BY <2>1, <2>2, <2>3
    <2> QED BY <1>1, <2>1, <2>4 DEF ProposalsLast, PendingIsOpen
  <1> QED BY <1>2, <1>3 DEF Execute

LEMMA ResolvedVerdicts ==
    ASSUME BooksInv, NEW p \in DOMAIN proposals, NEW v \in Verdict,
           PopProposal(p),
           srvPending' = srvPending \ {p},
           proposals' = [proposals EXCEPT ![p].verdict = v]
    PROVE  ProposalsLast
  <1>1. TypeOK /\ PendingIsOpen /\ proposals[p] \in Proposal
    BY DEF BooksInv, TypeOK
  <1>2. /\ DOMAIN proposals' = DOMAIN proposals
        /\ proposals[p].verdict = "PENDING"
        /\ proposals'[p] = [proposals[p] EXCEPT !.verdict = v]
        /\ \A q \in DOMAIN proposals : q # p => proposals'[q] = proposals[q]
    BY VerdictBooks
  <1>3. pending'["broker"] \subseteq pending["broker"]
    BY <1>1 DEF PopProposal, TypeOK, Host
  <1>4. /\ proposals'[p].skill = proposals[p].skill
        /\ proposals'[p].input = proposals[p].input
        /\ proposals'[p].exp = proposals[p].exp
    BY <1>1, <1>2 DEF Proposal
  <1> QED BY <1>1, <1>2, <1>3, <1>4 DEF ProposalsLast, PendingIsOpen

LEMMA VerdictsNext == BooksInv /\ [Next]_vars => ProposalsLast
  <1> SUFFICES ASSUME BooksInv, [Next]_vars
               PROVE  ProposalsLast
    OBVIOUS
  <1>0. TypeOK /\ PendingIsOpen
    BY DEF BooksInv
  <1>1. ASSUME NEW a \in Agents, NEW t \in Token, NEW s \in Skills, NEW i \in Inputs,
               NEW o \in BOOLEAN, Invoke(a, t, s, i, o)
        PROVE  ProposalsLast
    <2>1. (IF t = 0 THEN tokens[a] ELSE t) \in Token /\ "broker" \in Host
      BY <1>0 DEF Token, TypeOK, Host
    <2> QED BY <1>1, <2>1, ExecuteVerdicts DEF Invoke
  <1>2. ASSUME NEW a \in Agents, NEW t \in Token, NEW s \in Skills, NEW i \in Inputs,
               ToolsCall(a, t, s, i)
        PROVE  ProposalsLast
    <2>1. "mcp" \in Host /\ FALSE \in BOOLEAN
      BY DEF Host
    <2> QED BY <1>2, <2>1, ExecuteVerdicts DEF ToolsCall
  <1>3. ASSUME UNCHANGED proposals, pending'["broker"] \subseteq pending["broker"]
        PROVE  ProposalsLast
    BY <1>0, <1>3 DEF ProposalsLast, PendingIsOpen
  <1>4. ASSUME NEW a \in Agents, AuthorityRevoke(a)
        PROVE  ProposalsLast
    BY <1>3, <1>4 DEF AuthorityRevoke
  <1>5. ASSUME NEW a \in Agents, NEW tier \in GrantTiers, AuthorityGrant(a, tier)
        PROVE  ProposalsLast
    BY <1>3, <1>5 DEF AuthorityGrant
  <1>6. ASSUME NEW p \in DOMAIN proposals, ProposalUnknown(p)
        PROVE  ProposalsLast
    BY <1>3, <1>6 DEF ProposalUnknown
  <1>7. ASSUME NEW p \in DOMAIN proposals, ProposalExpired(p)
        PROVE  ProposalsLast
    <2>1. "EXPIRED" \in Verdict
      BY DEF Verdict
    <2> QED BY <1>7, <2>1, ResolvedVerdicts DEF ProposalExpired
  <1>8. ASSUME NEW p \in DOMAIN proposals, NEW action \in {"APPROVE", "REJECT"},
               ProposalResolve(p, action)
        PROVE  ProposalsLast
    <2>1. action \in Verdict
      BY DEF Verdict
    <2> QED BY <1>8, <2>1, ResolvedVerdicts DEF ProposalResolve
  <1>9. CASE Tick
    BY <1>3, <1>9 DEF Tick
  <1>10. CASE RestartBroker
    BY <1>0, <1>3, <1>10 DEF RestartBroker, TypeOK, Host
  <1>11. CASE RestartMcp
    BY <1>0, <1>3, <1>11 DEF RestartMcp, TypeOK, Host
  <1>12. CASE UNCHANGED vars
    BY <1>3, <1>12 DEF vars
  <1> QED BY <1>1, <1>2, <1>4, <1>5, <1>6, <1>7, <1>8, <1>9, <1>10, <1>11, <1>12 DEF Next

(* resolve_proposal: neither another verdict, nor an expiry, nor a restart *)
(* of the broker changes a verdict or opens its proposal again.            *)
THEOREM VerdictsAreFinal == Spec => VerdictIsFinal
  <1>1. BooksInv /\ [Next]_vars =>
           [\A p \in DOMAIN proposals : proposals[p].verdict # "PENDING" =>
               /\ proposals'[p].verdict = proposals[p].verdict
               /\ p \notin pending'["broker"]]_vars
    BY VerdictsNext DEF ProposalsLast
  <1> QED BY BooksInit, BooksNext, <1>1, PTL DEF Spec, VerdictIsFinal

-----------------------------------------------------------------------------
(* The tokens the broker keeps.                                            *)

LEMMA TokensInit == Init => TokensInv
  <1> SUFFICES ASSUME Init
               PROVE  TokensInv
    OBVIOUS
  <1>1. \A a \in Agents : tokens[a] = 0 /\ tiers[a] = "NONE"
    BY DEF Init
  <1> QED BY <1>1, BooksInit DEF TokensInv, KeptTokensAreCurrent

(* execute consumes single-use grants only, and no kept token is one.      *)
LEMMA ExecuteTokens ==
    ASSUME TokensInv, BooksInv', NEW h \in Host, NEW t \in Token, NEW s \in Skills,
           NEW i \in Inputs, NEW o \in BOOLEAN, Execute(h, t, s, i, o)
    PROVE  TokensInv'
  <1>1. TypeOK /\ KeptTokensAreCurrent
        /\ \A a \in Agents : tokens[a] # 0 => ~ grants[tokens[a]].single
    BY DEF TokensInv, BooksInv
  <1>2. UNCHANGED <<registry, tokens, tiers>>
    BY DEF Execute
  <1>3. \/ grants' = grants
        \/ /\ t \in DOMAIN grants
           /\ grants[t].single
           /\ \A u \in DOMAIN grants : u # t => grants'[u] = grants[u]
    BY <1>1, ExecuteGrants
  <1>4. \A a \in Agents : tokens[a] # 0 => grants'[tokens[a]] = grants[tokens[a]]
    BY <1>1, <1>3 DEF TypeOK
  <1> QED BY <1>1, <1>2, <1>4 DEF TokensInv, KeptTokensAreCurrent

LEMMA TokensNext == TokensInv /\ [Next]_vars => TokensInv'
  <1> SUFFICES ASSUME TokensInv, [Next]_vars
               PROVE  TokensInv'
    OBVIOUS
  <1>0. TypeOK /\ KeptTokensAreCurrent
        /\ \A a \in Agents : tokens[a] # 0 => ~ grants[tokens[a]].single
    BY DEF TokensInv, BooksInv
  <1>01. BooksInv'
    BY BooksNext DEF TokensInv
  <1>1. ASSUME NEW a \in Agents, NEW t \in Token, NEW s \in Skills, NEW i \in Inputs,
               NEW o \in BOOLEAN, Invoke(a, t, s, i, o)
        PROVE  TokensInv'
    <2>1. (IF t = 0 THEN tokens[a] ELSE t) \in Token /\ "broker" \in Host
      BY <1>0 DEF Token, TypeOK, Host
    <2> QED BY <1>01, <1>1, <2>1, ExecuteTokens DEF Invoke
  <1>2. ASSUME NEW a \in Agents, NEW t \in Token, NEW s \in Skills, NEW i \in Inputs,
               ToolsCall(a, t, s, i)
        PROVE  TokensInv'
    <2>1. "mcp" \in Host /\ FALSE \in BOOLEAN
      BY DEF Host
    <2> QED BY <1>01, <1>2, <2>1, ExecuteTokens DEF ToolsCall
  <1>3. ASSUME NEW a \in Agents, AuthorityRevoke(a)
        PROVE  TokensInv'
    <2>1. /\ tokens[a] \in DOMAIN grants /\ tokens[a] # 0
          /\ \A u \in DOMAIN grants : u # tokens[a] => grants'[u] = grants[u]
      BY <1>0, <1>3, RevokeFacts DEF AuthorityRevoke
    <2>2. /\ tokens' = [tokens EXCEPT ![a] = 0] /\ tiers' = [tiers EXCEPT ![a] = "NONE"]
          /\ registry' = registry
      BY <1>3 DEF AuthorityRevoke
    <2>3. tokens \in [Agents -> {0} \cup DOMAIN grants] /\ tiers \in [Agents -> Tier \cup {"NONE"}]
      BY <1>0 DEF TypeOK
    <2>4. tokens'[a] = 0 /\ tiers'[a] = "NONE"
      BY <2>2, <2>3
    <2>5. ASSUME NEW b \in Agents, b # a
          PROVE  /\ tokens'[b] = tokens[b] /\ tiers'[b] = tiers[b]
                 /\ tokens[b] # 0 => grants'[tokens[b]] = grants[tokens[b]]
      BY <1>0, <2>1, <2>2, <2>3, <2>5 DEF KeptTokensAreCurrent
    <2>6. KeptTokensAreCurrent'
      BY <1>0, <2>2, <2>4, <2>5 DEF KeptTokensAreCurrent
    <2> QED BY <1>0, <1>01, <2>4, <2>5, <2>6 DEF TokensInv
  <1>4. ASSUME NEW a \in Agents, NEW tier \in GrantTiers, AuthorityGrant(a, tier)
        PROVE  TokensInv'
    <2> DEFINE n == Len(grants) + 1
    <2>1. NewGrant(a, tier, "*", NoDigest, FALSE, GrantTTL, 0) /\ tier \in Tier /\ GrantTTL \in Nat
      BY <1>4, DelegationAssumption DEF AuthorityGrant
    <2>11. /\ a \in Agents \cup {"OPERATOR_APPROVAL"} /\ "*" \in Skills \cup {"*"}
           /\ NoDigest \in Inputs \cup {NoDigest} /\ FALSE \in BOOLEAN /\ 0 \in Nat
      OBVIOUS
    <2>2. /\ Len(grants) \in Nat
          /\ \A t \in DOMAIN grants : grants'[t] = grants[t]
          /\ grants'[n] = [principal |-> a, tier |-> tier, scope |-> "*",
                 digest |-> NoDigest, single |-> FALSE, exp |-> now + GrantTTL,
                 revoked |-> FALSE, consumed |-> FALSE, proposal |-> 0, ended |-> 0]
          /\ n \in registry'["broker"]
          /\ registry["broker"] \subseteq registry'["broker"]
      BY <1>0, <2>1, <2>11, NewGrantFacts, ZenonT(30)
    <2>3. /\ grants'[n].principal = a /\ grants'[n].tier = tier
          /\ ~ grants'[n].revoked /\ ~ grants'[n].single
      BY <2>2
    <2> HIDE DEF n
    <2>4. tokens' = [tokens EXCEPT ![a] = n] /\ tiers' = [tiers EXCEPT ![a] = tier]
      BY <1>4 DEF AuthorityGrant, n
    <2>5. tokens \in [Agents -> {0} \cup DOMAIN grants] /\ tiers \in [Agents -> Tier \cup {"NONE"}]
      BY <1>0 DEF TypeOK
    <2>6. tokens'[a] = n /\ tiers'[a] = tier /\ n # 0
      BY <2>2, <2>4, <2>5 DEF n
    <2>7. ASSUME NEW b \in Agents, b # a
          PROVE  /\ tokens'[b] = tokens[b] /\ tiers'[b] = tiers[b]
                 /\ tokens[b] # 0 => grants'[tokens[b]] = grants[tokens[b]]
      BY <2>2, <2>4, <2>5, <2>7
    <2>8. KeptTokensAreCurrent'
      BY <1>0, <2>2, <2>3, <2>6, <2>7 DEF KeptTokensAreCurrent
    <2>9. \A b \in Agents : tokens'[b] # 0 => ~ grants'[tokens'[b]].single
      BY <1>0, <2>3, <2>6, <2>7
    <2> QED BY <1>01, <2>8, <2>9 DEF TokensInv
  <1>5. ASSUME NEW p \in DOMAIN proposals, NEW action \in {"APPROVE", "REJECT"},
               ProposalResolve(p, action)
        PROVE  TokensInv'
    <2>1. UNCHANGED <<tokens, tiers>>
      BY <1>5 DEF ProposalResolve
    <2>2. /\ \A t \in DOMAIN grants : grants'[t] = grants[t]
          /\ registry["broker"] \subseteq registry'["broker"]
      BY <1>0, <1>5, ResolveGrants
    <2>3. \A a \in Agents : tokens[a] # 0 => grants'[tokens[a]] = grants[tokens[a]]
      BY <1>0, <2>2 DEF TypeOK
    <2> QED BY <1>0, <1>01, <2>1, <2>2, <2>3 DEF TokensInv, KeptTokensAreCurrent
  <1>6. ASSUME UNCHANGED <<grants, registry, tokens, tiers>>
        PROVE  TokensInv'
    BY <1>0, <1>01, <1>6 DEF TokensInv, KeptTokensAreCurrent
  <1>7. ASSUME NEW p \in DOMAIN proposals, ProposalUnknown(p) \/ ProposalExpired(p)
        PROVE  TokensInv'
    BY <1>6, <1>7 DEF ProposalUnknown, ProposalExpired
  <1>8. CASE Tick \/ RestartMcp \/ UNCHANGED vars
    BY <1>6, <1>8 DEF Tick, RestartMcp, vars
  <1>9. CASE RestartBroker
    <2>1. \A a \in Agents : tokens'[a] = 0 /\ tiers'[a] = "NONE"
      BY <1>9 DEF RestartBroker
    <2> QED BY <1>01, <2>1 DEF TokensInv, KeptTokensAreCurrent
  <1> QED BY <1>1, <1>2, <1>3, <1>4, <1>5, <1>7, <1>8, <1>9 DEF Next

(* authority.grant and authority.revoke: the token the broker adds to an   *)
(* agent's requests is that agent's own, unrevoked, of the tier reported.  *)
THEOREM TokensStayCurrent == Spec => []KeptTokensAreCurrent
  <1>1. TokensInv => KeptTokensAreCurrent
    BY DEF TokensInv
  <1> QED BY TokensInit, TokensNext, <1>1, PTL DEF Spec

-----------------------------------------------------------------------------
(* Approvals.                                                              *)

(* Nothing rewrites what a grant is for, and what is consumed stays so.    *)
GrantsLast ==
    /\ DOMAIN grants \subseteq DOMAIN grants'
    /\ \A t \in DOMAIN grants :
          /\ grants'[t].scope = grants[t].scope
          /\ grants'[t].digest = grants[t].digest
          /\ grants'[t].single = grants[t].single
          /\ grants'[t].exp = grants[t].exp
          /\ grants'[t].proposal = grants[t].proposal
          /\ grants[t].consumed => grants'[t].consumed

LEMMA ApprovalInit == Init => ApprovalInv
  <1> SUFFICES ASSUME Init
               PROVE  ApprovalInv
    OBVIOUS
  <1>1. BooksInv /\ DOMAIN grants = {} /\ DOMAIN handled = {}
    BY BooksInit DEF Init
  <1> QED BY <1>1 DEF ApprovalInv, ApprovalsBound, ApprovalsUnique, CallsFit

(* A step that adds no grant keeps the approvals.                          *)
LEMMA ApprovalsKept ==
    ASSUME ApprovalInv, ProposalsLast, GrantsLast, DOMAIN grants' = DOMAIN grants
    PROVE  ApprovalsBound' /\ ApprovalsUnique'
  <1>1. ApprovalsBound /\ ApprovalsUnique
    BY DEF ApprovalInv
  <1>2. ApprovalsBound'
    BY <1>1 DEF ApprovalsBound, ProposalsLast, GrantsLast
  <1>3. ApprovalsUnique'
    BY <1>1 DEF ApprovalsUnique, GrantsLast
  <1> QED BY <1>2, <1>3

(* A step that calls no handler keeps the calls.                           *)
LEMMA CallsKept ==
    ASSUME ApprovalInv, GrantsLast, handled' = handled
    PROVE  CallsFit'
  BY DEF ApprovalInv, CallsFit, GrantsLast

LEMMA ConsumedGrants ==
    ASSUME TypeOK, NEW h \in Host, NEW t \in Token, NEW s \in Skills, NEW i \in Inputs,
           NEW o \in BOOLEAN, Execute(h, t, s, i, o)
    PROVE  GrantsLast /\ DOMAIN grants' = DOMAIN grants
  <1>1. /\ DOMAIN grants' = DOMAIN grants
        /\ \/ grants' = grants
           \/ /\ t \in DOMAIN grants
              /\ grants'[t] = Consume(grants[t])
              /\ \A u \in DOMAIN grants : u # t => grants'[u] = grants[u]
    BY ExecuteGrants
  <1>2. CASE grants' = grants
    BY <1>2 DEF GrantsLast
  <1>3. CASE /\ t \in DOMAIN grants
             /\ grants'[t] = Consume(grants[t])
             /\ \A u \in DOMAIN grants : u # t => grants'[u] = grants[u]
    <2>1. grants[t] \in GrantRecord
      BY <1>3 DEF TypeOK
    <2>2. /\ grants'[t].scope = grants[t].scope
          /\ grants'[t].digest = grants[t].digest
          /\ grants'[t].single = grants[t].single
          /\ grants'[t].exp = grants[t].exp
          /\ grants'[t].proposal = grants[t].proposal
          /\ grants'[t].consumed
      BY <1>3, <2>1 DEF Consume, GrantRecord
    <2> QED BY <1>1, <1>3, <2>2 DEF GrantsLast
  <1> QED BY <1>1, <1>2, <1>3

(* The one new call fits its grant; an earlier call under a single-use     *)
(* grant would have left it consumed, hence not valid.                     *)
LEMMA ExecuteCalls ==
    ASSUME ApprovalInv, NEW h \in Host, NEW t \in Token, NEW s \in Skills, NEW i \in Inputs,
           NEW o \in BOOLEAN, Execute(h, t, s, i, o)
    PROVE  CallsFit'
  <1>1. TypeOK /\ ApprovalsBound /\ CallsFit
    BY DEF ApprovalInv, BooksInv
  <1>2. GrantsLast /\ DOMAIN grants' = DOMAIN grants
    BY <1>1, ConsumedGrants
  <1>3. CASE handled' = handled
    BY <1>2, <1>3, CallsKept
  <1>4. ASSUME NEW used \in {0, t}, NEW b \in BOOLEAN,
               handled' = Append(handled, [token |-> used, skill |-> s, input |-> i,
                                           overridden |-> b, at |-> now]),
               used # 0 => /\ t \in DOMAIN grants
                           /\ IsValidFor(grants[t], s)
                           /\ grants[t].single =>
                                 /\ grants[t].digest \in {NoDigest, i}
                                 /\ grants'[t] = Consume(grants[t])
        PROVE  CallsFit'
    <2> DEFINE r == [token |-> used, skill |-> s, input |-> i, overridden |-> b, at |-> now]
               n == Len(handled) + 1
    <2>1. r \in Call /\ r.token = used /\ r.skill = s /\ r.input = i /\ r.at = now
      BY <1>1 DEF Call, Token, TypeOK
    <2> HIDE DEF r
    <2>2. /\ DOMAIN handled = 1 .. Len(handled) /\ Len(handled) \in Nat
          /\ DOMAIN handled' = 1 .. n
          /\ \A k \in DOMAIN handled : handled'[k] = handled[k]
          /\ handled'[n] = r
      <3>1. handled \in Seq(Call) /\ handled' = Append(handled, r)
        BY <1>1, <1>4 DEF TypeOK, r
      <3>2. /\ DOMAIN handled = 1 .. Len(handled) /\ Len(handled) \in Nat
            /\ DOMAIN Append(handled, r) = 1 .. Len(handled) + 1
            /\ \A k \in DOMAIN handled : Append(handled, r)[k] = handled[k]
            /\ Append(handled, r)[Len(handled) + 1] = r
        BY <2>1, <3>1, AppendFacts
      <3> QED BY <3>1, <3>2
    <2>3. DOMAIN handled' = DOMAIN handled \cup {n} /\ n \notin DOMAIN handled
      BY <2>2
    <2> HIDE DEF n
    <2>4. used # 0 /\ grants[used].single =>
             /\ s = grants[used].scope /\ i = grants[used].digest
             /\ now <= grants[used].exp
             /\ grants'[used].consumed
             /\ \A l \in DOMAIN handled : handled[l].token # used
      <3> SUFFICES ASSUME used # 0, grants[used].single
                   PROVE  /\ s = grants[used].scope /\ i = grants[used].digest
                          /\ now <= grants[used].exp
                          /\ grants'[used].consumed
                          /\ \A l \in DOMAIN handled : handled[l].token # used
        OBVIOUS
      <3>1. /\ used = t /\ t \in DOMAIN grants /\ IsValidFor(grants[t], s)
            /\ grants[t].digest \in {NoDigest, i} /\ grants'[t] = Consume(grants[t])
            /\ grants[t] \in GrantRecord
        BY <1>1, <1>4 DEF TypeOK
      <3>2. grants[t].scope \in Skills /\ grants[t].digest \in Inputs
        <4>1. /\ grants[t].proposal \in DOMAIN proposals
              /\ grants[t].scope = proposals[grants[t].proposal].skill
              /\ grants[t].digest = proposals[grants[t].proposal].input
          BY <1>1, <3>1 DEF ApprovalsBound
        <4>2. proposals[grants[t].proposal] \in Proposal
          BY <1>1, <4>1 DEF TypeOK
        <4> QED BY <4>1, <4>2 DEF Proposal
      <3>3. grants[t].scope = s /\ grants[t].digest = i /\ now <= grants[t].exp
            /\ ~ grants[t].consumed
        BY <3>1, <3>2, DelegationAssumption DEF IsValidFor
      <3>4. grants'[t].consumed
        BY <3>1 DEF Consume, GrantRecord
      <3>5. \A l \in DOMAIN handled : handled[l].token # t
        BY <1>1, <3>1, <3>3 DEF CallsFit
      <3> QED BY <3>1, <3>3, <3>4, <3>5
    <2>5. used # 0 => used \in DOMAIN grants'
      BY <1>2, <1>4
    <2>6. SUFFICES ASSUME NEW k \in DOMAIN handled', handled'[k].token # 0
                   PROVE  LET u == handled'[k].token
                          IN  /\ u \in DOMAIN grants'
                              /\ grants'[u].single =>
                                    /\ handled'[k].skill = grants'[u].scope
                                    /\ handled'[k].input = grants'[u].digest
                                    /\ handled'[k].at <= grants'[u].exp
                                    /\ grants'[u].consumed
                                    /\ \A l \in DOMAIN handled' : handled'[l].token = u => l = k
      BY DEF CallsFit
    <2>7. CASE k = n
      <3>1. /\ handled'[k].token = used /\ handled'[k].skill = s
            /\ handled'[k].input = i /\ handled'[k].at = now
        BY <2>1, <2>2, <2>7
      <3>2. \A l \in DOMAIN handled : handled'[l].token = handled[l].token
        BY <2>2
      <3>3. /\ used \in DOMAIN grants'
            /\ grants'[used].single = grants[used].single
            /\ grants'[used].scope = grants[used].scope
            /\ grants'[used].digest = grants[used].digest
            /\ grants'[used].exp = grants[used].exp
        BY <1>2, <2>5, <2>6, <3>1 DEF GrantsLast
      <3>4. used # 0
        BY <2>6, <3>1
      <3>5. grants'[used].single =>
               \A l \in DOMAIN handled' : handled'[l].token = used => l = k
        BY <2>3, <2>4, <2>7, <3>2, <3>3, <3>4
      <3> QED BY <2>4, <3>1, <3>3, <3>4, <3>5
    <2>8. CASE k # n
      <3> DEFINE u == handled[k].token
      <3>1. k \in DOMAIN handled /\ handled'[k] = handled[k]
        BY <2>2, <2>3, <2>6, <2>8
      <3>2. u # 0 /\ u \in DOMAIN grants
        BY <1>1, <2>6, <3>1 DEF CallsFit
      <3>3. grants[u].single =>
               /\ handled[k].skill = grants[u].scope
               /\ handled[k].input = grants[u].digest
               /\ handled[k].at <= grants[u].exp
               /\ grants[u].consumed
               /\ \A l \in DOMAIN handled : handled[l].token = u => l = k
        BY <1>1, <3>1, <3>2 DEF CallsFit
      <3>4. /\ grants'[u].single = grants[u].single
            /\ grants'[u].scope = grants[u].scope
            /\ grants'[u].digest = grants[u].digest
            /\ grants'[u].exp = grants[u].exp
            /\ grants[u].consumed => grants'[u].consumed
        BY <1>2, <3>2 DEF GrantsLast
      <3>5. handled'[n].token = used
        BY <2>1, <2>2
      <3>6. grants[u].single => used # u
        BY <2>4, <3>1, <3>2
      <3>7. \A l \in DOMAIN handled : handled'[l].token = handled[l].token
        BY <2>2
      <3>8. grants[u].single =>
               \A l \in DOMAIN handled' : handled'[l].token = u => l = k
        BY <2>3, <3>3, <3>5, <3>6, <3>7
      <3> QED BY <1>2, <3>1, <3>2, <3>3, <3>4, <3>8
    <2> QED BY <2>7, <2>8
  <1>5. handled' = handled \/ CallUnder(t, s, i)
    BY <1>1, ExecuteHandled
  <1> QED BY <1>3, <1>4, <1>5 DEF CallUnder

(* A step that adds one grant, of an open proposal or of none.             *)
LEMMA ApprovalsGrow ==
    ASSUME ApprovalInv, ProposalsLast, GrantsLast, NEW n, n \notin DOMAIN grants,
           DOMAIN grants' = DOMAIN grants \cup {n},
           grants'[n].proposal # 0 =>
              \A t \in DOMAIN grants : grants[t].proposal # grants'[n].proposal,
           IF grants'[n].single
           THEN LET p == grants'[n].proposal
                IN  /\ p \in DOMAIN proposals'
                    /\ proposals'[p].verdict = "APPROVE"
                    /\ grants'[n].scope = proposals'[p].skill
                    /\ grants'[n].digest = proposals'[p].input
                    /\ grants'[n].exp <= proposals'[p].exp + TokenTTL
           ELSE grants'[n].proposal = 0
    PROVE  ApprovalsBound' /\ ApprovalsUnique'
  <1>1. ApprovalsBound /\ ApprovalsUnique
    BY DEF ApprovalInv
  <1>2. ApprovalsBound'
    BY <1>1 DEF ApprovalsBound, ProposalsLast, GrantsLast
  <1>3. ApprovalsUnique'
    BY <1>1 DEF ApprovalsUnique, GrantsLast
  <1> QED BY <1>2, <1>3

LEMMA ApprovalNext == ApprovalInv /\ [Next]_vars => ApprovalInv'
  <1> SUFFICES ASSUME ApprovalInv, [Next]_vars
               PROVE  ApprovalInv'
    OBVIOUS
  <1>1. BooksInv /\ TypeOK /\ ApprovalsBound /\ PendingIsOpen
    BY DEF ApprovalInv, BooksInv
  <1>2. BooksInv' /\ ProposalsLast
    BY <1>1, BooksNext, VerdictsNext
  <1>3. ASSUME NEW h \in Host, NEW t \in Token, NEW s \in Skills, NEW i \in Inputs,
               NEW o \in BOOLEAN, Execute(h, t, s, i, o)
        PROVE  ApprovalInv'
    <2>1. GrantsLast /\ DOMAIN grants' = DOMAIN grants
      BY <1>1, <1>3, ConsumedGrants
    <2>2. CallsFit'
      BY <1>3, ExecuteCalls
    <2> QED BY <1>2, <2>1, <2>2, ApprovalsKept DEF ApprovalInv
  <1>4. ASSUME NEW a \in Agents, NEW t \in Token, NEW s \in Skills, NEW i \in Inputs,
               NEW o \in BOOLEAN, Invoke(a, t, s, i, o)
        PROVE  ApprovalInv'
    <2>1. (IF t = 0 THEN tokens[a] ELSE t) \in Token /\ "broker" \in Host
      BY <1>1 DEF Token, TypeOK, Host
    <2> QED BY <1>3, <1>4, <2>1 DEF Invoke
  <1>5. ASSUME NEW a \in Agents, NEW t \in Token, NEW s \in Skills, NEW i \in Inputs,
               ToolsCall(a, t, s, i)
        PROVE  ApprovalInv'
    <2>1. "mcp" \in Host /\ FALSE \in BOOLEAN
      BY DEF Host
    <2> QED BY <1>3, <1>5, <2>1 DEF ToolsCall
  <1>6. ASSUME GrantsLast, DOMAIN grants' = DOMAIN grants, handled' = handled
        PROVE  ApprovalInv'
    BY <1>2, <1>6, ApprovalsKept, CallsKept DEF ApprovalInv
  <1>7. ASSUME UNCHANGED <<grants, handled>>
        PROVE  ApprovalInv'
    <2>1. GrantsLast
      BY <1>7 DEF GrantsLast
    <2> QED BY <1>6, <1>7, <2>1
  <1>8. ASSUME NEW a \in Agents, AuthorityRevoke(a)
        PROVE  ApprovalInv'
    <2>1. /\ DOMAIN grants' = DOMAIN grants
          /\ tokens[a] \in DOMAIN grants
          /\ grants'[tokens[a]] =
                [grants[tokens[a]] EXCEPT !.revoked = TRUE, !.ended = Len(handled)]
          /\ \A u \in DOMAIN grants : u # tokens[a] => grants'[u] = grants[u]
      BY <1>1, <1>8, RevokeFacts
    <2>2. grants[tokens[a]] \in GrantRecord
      BY <1>1, <2>1 DEF TypeOK
    <2>3. /\ grants'[tokens[a]].scope = grants[tokens[a]].scope
          /\ grants'[tokens[a]].digest = grants[tokens[a]].digest
          /\ grants'[tokens[a]].single = grants[tokens[a]].single
          /\ grants'[tokens[a]].exp = grants[tokens[a]].exp
          /\ grants'[tokens[a]].proposal = grants[tokens[a]].proposal
          /\ grants'[tokens[a]].consumed = grants[tokens[a]].consumed
      BY <2>1, <2>2 DEF GrantRecord
    <2>4. GrantsLast
      <3> DEFINE t == tokens[a]
      <3>1. /\ grants'[t].scope = grants[t].scope
            /\ grants'[t].digest = grants[t].digest
            /\ grants'[t].single = grants[t].single
            /\ grants'[t].exp = grants[t].exp
            /\ grants'[t].proposal = grants[t].proposal
            /\ grants[t].consumed => grants'[t].consumed
        BY <2>3
      <3>2. \A u \in DOMAIN grants : u # t => grants'[u] = grants[u]
        BY <2>1
      <3> HIDE DEF t
      <3> QED BY <2>1, <3>1, <3>2 DEF GrantsLast
    <2> QED BY <1>6, <1>8, <2>1, <2>4 DEF AuthorityRevoke
  <1>9. ASSUME NEW a \in Agents, NEW tier \in GrantTiers, AuthorityGrant(a, tier)
        PROVE  ApprovalInv'
    <2> DEFINE n == Len(grants) + 1
    <2>1. NewGrant(a, tier, "*", NoDigest, FALSE, GrantTTL, 0) /\ tier \in Tier /\ GrantTTL \in Nat
      BY <1>9, DelegationAssumption DEF AuthorityGrant
    <2>2. /\ a \in Agents \cup {"OPERATOR_APPROVAL"} /\ "*" \in Skills \cup {"*"}
          /\ NoDigest \in Inputs \cup {NoDigest} /\ FALSE \in BOOLEAN /\ 0 \in Nat
      OBVIOUS
    <2>3. /\ DOMAIN grants = 1 .. Len(grants)
          /\ Len(grants) \in Nat
          /\ DOMAIN grants' = 1 .. Len(grants) + 1
          /\ \A t \in DOMAIN grants : grants'[t] = grants[t]
          /\ grants'[n] = [principal |-> a, tier |-> tier, scope |-> "*",
                 digest |-> NoDigest, single |-> FALSE, exp |-> now + GrantTTL,
                 revoked |-> FALSE, consumed |-> FALSE, proposal |-> 0, ended |-> 0]
      BY <1>1, <2>1, <2>2, NewGrantFacts
    <2>4. n \notin DOMAIN grants /\ DOMAIN grants' = DOMAIN grants \cup {n}
          /\ ~ grants'[n].single /\ grants'[n].proposal = 0
      BY <2>3
    <2>5. GrantsLast
      BY <2>3 DEF GrantsLast
    <2> HIDE DEF n
    <2>6. ApprovalsBound' /\ ApprovalsUnique'
      BY <1>2, <2>4, <2>5, ApprovalsGrow
    <2>7. CallsFit'
      BY <1>9, <2>5, CallsKept DEF AuthorityGrant
    <2> QED BY <1>2, <2>6, <2>7 DEF ApprovalInv
  <1>10. ASSUME NEW p \in DOMAIN proposals, NEW action \in {"APPROVE", "REJECT"},
                ProposalResolve(p, action)
         PROVE  ApprovalInv'
    <2> DEFINE n == Len(grants) + 1
    <2>1. /\ DOMAIN grants = 1 .. Len(grants) /\ Len(grants) \in Nat
          /\ DOMAIN grants \subseteq DOMAIN grants'
          /\ \A t \in DOMAIN grants : grants'[t] = grants[t]
          /\ \/ DOMAIN grants' = DOMAIN grants
             \/ /\ action = "APPROVE"
                /\ DOMAIN grants' = 1 .. Len(grants) + 1
                /\ grants'[Len(grants) + 1] =
                     [principal |-> "OPERATOR_APPROVAL", tier |-> "PRIVILEGED_EXECUTE",
                      scope |-> proposals[p].skill, digest |-> proposals[p].input,
                      single |-> TRUE, exp |-> now + TokenTTL, revoked |-> FALSE,
                      consumed |-> FALSE, proposal |-> p, ended |-> 0]
      BY <1>1, <1>10, ResolveGrants
    <2>2. GrantsLast /\ handled' = handled
      BY <1>10, <2>1 DEF GrantsLast, ProposalResolve
    <2>3. CASE DOMAIN grants' = DOMAIN grants
      BY <1>6, <2>2, <2>3
    <2>4. ASSUME action = "APPROVE", DOMAIN grants' = 1 .. Len(grants) + 1,
                 grants'[Len(grants) + 1] =
                     [principal |-> "OPERATOR_APPROVAL", tier |-> "PRIVILEGED_EXECUTE",
                      scope |-> proposals[p].skill, digest |-> proposals[p].input,
                      single |-> TRUE, exp |-> now + TokenTTL, revoked |-> FALSE,
                      consumed |-> FALSE, proposal |-> p, ended |-> 0]
          PROVE  ApprovalInv'
      <3>1. n \notin DOMAIN grants /\ DOMAIN grants' = DOMAIN grants \cup {n}
        BY <2>1, <2>4
      <3>2. /\ grants'[n].single /\ grants'[n].proposal = p
            /\ grants'[n].scope = proposals[p].skill
            /\ grants'[n].digest = proposals[p].input
            /\ grants'[n].exp = now + TokenTTL
        BY <2>4
      <3> HIDE DEF n
      <3>3. /\ PopProposal(p) /\ now <= proposals[p].exp
            /\ proposals' = [proposals EXCEPT ![p].verdict = "APPROVE"]
        BY <1>10, <2>4 DEF ProposalResolve
      <3>4. proposals[p].verdict = "PENDING"
        BY <1>1, <3>3 DEF PopProposal, PendingIsOpen
      <3>5. \A t \in DOMAIN grants : grants[t].proposal # p
        <4>1. p # 0
          BY <1>1 DEF TypeOK
        <4> QED BY <1>1, <3>4, <4>1 DEF ApprovalsBound
      <3>6. proposals[p] \in Proposal /\ now \in Nat /\ TokenTTL \in Nat
        BY <1>1, DelegationAssumption DEF TypeOK
      <3>7. /\ proposals'[p].verdict = "APPROVE"
            /\ proposals'[p].skill = proposals[p].skill
            /\ proposals'[p].input = proposals[p].input
            /\ proposals'[p].exp = proposals[p].exp
            /\ p \in DOMAIN proposals'
        BY <1>1, <3>3, <3>6 DEF TypeOK, Proposal
      <3>8. grants'[n].exp <= proposals'[p].exp + TokenTTL
        BY <3>2, <3>3, <3>6, <3>7 DEF Proposal
      <3>9. ApprovalsBound' /\ ApprovalsUnique'
        BY <1>2, <2>2, <3>1, <3>2, <3>5, <3>7, <3>8, ApprovalsGrow
      <3> QED BY <1>2, <2>2, <3>9, CallsKept DEF ApprovalInv
    <2> QED BY <2>1, <2>3, <2>4
  <1>11. ASSUME NEW p \in DOMAIN proposals, ProposalUnknown(p) \/ ProposalExpired(p)
         PROVE  ApprovalInv'
    BY <1>7, <1>11 DEF ProposalUnknown, ProposalExpired
  <1>12. CASE Tick \/ RestartBroker \/ RestartMcp \/ UNCHANGED vars
    BY <1>7, <1>12 DEF Tick, RestartBroker, RestartMcp, vars
  <1> QED BY <1>4, <1>5, <1>8, <1>9, <1>10, <1>11, <1>12 DEF Next

(* resolve_proposal and execute: one approval buys at most one handler     *)
(* call, of the approved skill with the approved input, in the lifetime of *)
(* the proposal and its token, across replays, second verdicts, expiries   *)
(* and restarts.                                                           *)
THEOREM ApprovalsRunOnce == Spec => []ApprovalRunsOnce
  <1>1. ApprovalInv => ApprovalRunsOnce
    <2> SUFFICES ASSUME ApprovalInv, NEW k \in DOMAIN handled,
                        handled[k].token # 0, grants[handled[k].token].single
                 PROVE  LET g == grants[handled[k].token]
                        IN  /\ proposals[g.proposal].verdict = "APPROVE"
                            /\ handled[k].skill = proposals[g.proposal].skill
                            /\ handled[k].input = proposals[g.proposal].input
                            /\ handled[k].at <= proposals[g.proposal].exp + TokenTTL
                            /\ \A l \in DOMAIN handled :
                                  /\ handled[l].token # 0
                                  /\ grants[handled[l].token].proposal = g.proposal
                                  => l = k
      BY DEF ApprovalRunsOnce
    <2> DEFINE t == handled[k].token
               p == grants[t].proposal
    <2>1. TypeOK /\ ApprovalsBound /\ ApprovalsUnique /\ CallsFit
      BY DEF ApprovalInv, BooksInv
    <2>2. /\ t \in DOMAIN grants
          /\ handled[k].skill = grants[t].scope
          /\ handled[k].input = grants[t].digest
          /\ handled[k].at <= grants[t].exp
          /\ \A l \in DOMAIN handled : handled[l].token = t => l = k
      BY <2>1 DEF CallsFit
    <2>3. /\ p \in DOMAIN proposals
          /\ proposals[p].verdict = "APPROVE"
          /\ grants[t].scope = proposals[p].skill
          /\ grants[t].digest = proposals[p].input
          /\ grants[t].exp <= proposals[p].exp + TokenTTL
      BY <2>1, <2>2 DEF ApprovalsBound
    <2>4. handled[k].at <= proposals[p].exp + TokenTTL
      <3>1. handled[k] \in Call /\ grants[t] \in GrantRecord /\ proposals[p] \in Proposal
            /\ TokenTTL \in Nat
        BY <2>1, <2>2, <2>3, DelegationAssumption DEF TypeOK
      <3>2. handled[k].at \in Nat /\ grants[t].exp \in Nat /\ proposals[p].exp \in Nat
        BY <3>1 DEF Call, GrantRecord, Proposal
      <3> QED BY <2>2, <2>3, <3>1, <3>2
    <2>5. ASSUME NEW l \in DOMAIN handled, handled[l].token # 0,
                 grants[handled[l].token].proposal = p
          PROVE  l = k
      <3>1. handled[l].token \in DOMAIN grants
        BY <2>1, <2>5 DEF CallsFit
      <3>2. p # 0
        BY <2>1, <2>3 DEF TypeOK
      <3>3. handled[l].token = t
        BY <2>1, <2>2, <2>5, <3>1, <3>2 DEF ApprovalsUnique
      <3> QED BY <2>2, <3>3
    <2> QED BY <2>2, <2>3, <2>4, <2>5
  <1> QED BY ApprovalInit, ApprovalNext, <1>1, PTL DEF Spec

-----------------------------------------------------------------------------
(* Gated calls.                                                            *)

LEMMA GatedInit == Init => GatedInv
  <1> SUFFICES ASSUME Init
               PROVE  GatedInv
    OBVIOUS
  <1>1. BooksInv /\ DOMAIN handled = {}
    BY BooksInit DEF Init
  <1> QED BY <1>1 DEF GatedInv, GatedCallsAreDelegated

(* A grant keeps its tier, its scope and its end of life, and is revoked   *)
(* after the calls made so far.                                            *)
GrantsEndLater ==
    /\ DOMAIN grants \subseteq DOMAIN grants'
    /\ \A t \in DOMAIN grants :
          /\ grants'[t].tier = grants[t].tier
          /\ grants'[t].scope = grants[t].scope
          /\ grants'[t].exp = grants[t].exp
          /\ \/ grants'[t].revoked = grants[t].revoked /\ grants'[t].ended = grants[t].ended
             \/ Len(handled) <= grants'[t].ended /\ grants'[t].ended \in Nat

(* The earlier calls stay delegated.                                       *)
LEMMA GatedKept ==
    ASSUME GatedInv, GrantsEndLater, NEW k \in DOMAIN handled
    PROVE  /\ handled[k].token \in {0} \cup DOMAIN grants'
           /\ handled[k].skill \in Gated /\ ~ handled[k].overridden =>
                 /\ handled[k].token # 0
                 /\ HasDelegatedMutation(grants'[handled[k].token].tier)
                 /\ grants'[handled[k].token].scope \in {"*", handled[k].skill}
                 /\ handled[k].at <= grants'[handled[k].token].exp
                 /\ grants'[handled[k].token].revoked => k <= grants'[handled[k].token].ended
  <1> DEFINE t == handled[k].token
  <1>1. t \in {0} \cup DOMAIN grants /\ TypeOK
    BY DEF GatedInv, BooksInv
  <1>2. t \in {0} \cup DOMAIN grants'
    BY <1>1 DEF GrantsEndLater
  <1>3. ASSUME handled[k].skill \in Gated, ~ handled[k].overridden
        PROVE  /\ t # 0
               /\ HasDelegatedMutation(grants'[t].tier)
               /\ grants'[t].scope \in {"*", handled[k].skill}
               /\ handled[k].at <= grants'[t].exp
               /\ grants'[t].revoked => k <= grants'[t].ended
    <2>1. /\ t # 0
          /\ HasDelegatedMutation(grants[t].tier)
          /\ grants[t].scope \in {"*", handled[k].skill}
          /\ handled[k].at <= grants[t].exp
          /\ grants[t].revoked => k <= grants[t].ended
      BY <1>3 DEF GatedInv, GatedCallsAreDelegated
    <2>2. k \in Nat /\ k <= Len(handled) /\ Len(handled) \in Nat
      BY <1>1 DEF TypeOK
    <2>3. /\ grants'[t].tier = grants[t].tier
          /\ grants'[t].scope = grants[t].scope
          /\ grants'[t].exp = grants[t].exp
          /\ \/ grants'[t].revoked = grants[t].revoked /\ grants'[t].ended = grants[t].ended
             \/ Len(handled) <= grants'[t].ended /\ grants'[t].ended \in Nat
      BY <1>1, <2>1 DEF GrantsEndLater
    <2>4. grants'[t].revoked => k <= grants'[t].ended
      <3>1. CASE grants'[t].revoked = grants[t].revoked /\ grants'[t].ended = grants[t].ended
        BY <2>1, <3>1, Zenon
      <3>2. CASE Len(handled) <= grants'[t].ended /\ grants'[t].ended \in Nat
        BY <2>2, <3>2
      <3> QED BY <2>3, <3>1, <3>2
    <2> QED BY <2>1, <2>3, <2>4
  <1> QED BY <1>2, <1>3

LEMMA ExecuteGated ==
    ASSUME GatedInv, BooksInv', NEW h \in Host, NEW t \in Token, NEW s \in Skills,
           NEW i \in Inputs, NEW o \in BOOLEAN, Execute(h, t, s, i, o)
    PROVE  GatedInv'
  <1>1. TypeOK
    BY DEF GatedInv, BooksInv
  <1>2. GrantsEndLater /\ DOMAIN grants' = DOMAIN grants
    <2>1. /\ DOMAIN grants' = DOMAIN grants
          /\ \/ grants' = grants
             \/ /\ t \in DOMAIN grants
                /\ grants'[t] = Consume(grants[t])
                /\ \A u \in DOMAIN grants : u # t => grants'[u] = grants[u]
      BY <1>1, ExecuteGrants
    <2>2. CASE grants' = grants
      BY <2>2 DEF GrantsEndLater
    <2>3. CASE /\ t \in DOMAIN grants
               /\ grants'[t] = Consume(grants[t])
               /\ \A u \in DOMAIN grants : u # t => grants'[u] = grants[u]
      <3>1. grants[t] \in GrantRecord /\ Len(handled) \in Nat
        BY <1>1, <2>3 DEF TypeOK
      <3>2. /\ grants'[t].tier = grants[t].tier
            /\ grants'[t].scope = grants[t].scope
            /\ grants'[t].exp = grants[t].exp
            /\ grants'[t].ended = Len(handled) + 1
        BY <2>3, <3>1 DEF Consume, GrantRecord
      <3> QED BY <2>1, <2>3, <3>1, <3>2 DEF GrantsEndLater
    <2> QED BY <2>1, <2>2, <2>3
  <1>3. CASE handled' = handled
    <2>1. GatedCallsAreDelegated' /\ \A k \in DOMAIN handled' : handled'[k].token \in {0} \cup DOMAIN grants'
      BY <1>2, <1>3, GatedKept DEF GatedCallsAreDelegated
    <2> QED BY <2>1 DEF GatedInv
  <1>4. CASE CallUnder(t, s, i)
    <2>1. PICK used \in {0, t}, b \in BOOLEAN :
             /\ handled' = Append(handled, [token |-> used, skill |-> s, input |-> i,
                                            overridden |-> b, at |-> now])
             /\ used # 0 => /\ t \in DOMAIN grants
                            /\ IsValidFor(grants[t], s)
                            /\ grants[t].single => /\ grants[t].digest \in {NoDigest, i}
                                                   /\ grants'[t] = Consume(grants[t])
                            /\ ~ grants[t].single => grants' = grants
             /\ s \in Gated /\ ~ b => used # 0 /\ HasDelegatedMutation(grants[t].tier)
      BY <1>4 DEF CallUnder
    <2> DEFINE r == [token |-> used, skill |-> s, input |-> i, overridden |-> b, at |-> now]
               n == Len(handled) + 1
    <2>2. r \in Call /\ r.token = used /\ r.skill = s /\ r.at = now /\ r.overridden = b
      BY <1>1 DEF Call, Token, TypeOK
    <2>3. handled \in Seq(Call) /\ handled' = Append(handled, r)
      BY <1>1, <2>1 DEF TypeOK
    <2> HIDE DEF r
    <2>4. /\ DOMAIN handled = 1 .. Len(handled) /\ Len(handled) \in Nat
          /\ DOMAIN Append(handled, r) = 1 .. Len(handled) + 1
          /\ \A k \in DOMAIN handled : Append(handled, r)[k] = handled[k]
          /\ Append(handled, r)[Len(handled) + 1] = r
      BY <2>2, <2>3, AppendFacts
    <2>5. /\ DOMAIN handled' = DOMAIN handled \cup {n} /\ n \in Nat
          /\ \A k \in DOMAIN handled : handled'[k] = handled[k]
          /\ handled'[n] = r
      BY <2>3, <2>4
    <2>6. r.token \in {0} \cup DOMAIN grants'
      BY <1>2, <2>1, <2>2
    <2>7. ASSUME s \in Gated, ~ b
          PROVE  /\ used # 0
                 /\ HasDelegatedMutation(grants'[used].tier)
                 /\ grants'[used].scope \in {"*", s}
                 /\ now <= grants'[used].exp
                 /\ grants'[used].revoked => n <= grants'[used].ended
      <3>1. /\ used = t /\ used # 0 /\ HasDelegatedMutation(grants[t].tier)
            /\ t \in DOMAIN grants /\ IsValidFor(grants[t], s)
        BY <2>1, <2>7
      <3>2. /\ grants[t].scope \in {"*", s} /\ now <= grants[t].exp /\ ~ grants[t].revoked
        BY <3>1 DEF IsValidFor
      <3>3. /\ grants'[t].tier = grants[t].tier
            /\ grants'[t].scope = grants[t].scope
            /\ grants'[t].exp = grants[t].exp
        BY <1>2, <3>1 DEF GrantsEndLater
      <3>4. grants'[t].revoked => n <= grants'[t].ended
        <4>1. grants[t] \in GrantRecord
          BY <1>1, <3>1 DEF TypeOK
        <4>2. CASE grants[t].single
          <5>1. grants'[t].ended = n
            BY <2>1, <3>1, <4>1, <4>2 DEF Consume, GrantRecord
          <5> QED BY <2>5, <5>1
        <4>3. CASE ~ grants[t].single
          BY <2>1, <3>1, <3>2, <4>3
        <4> QED BY <4>2, <4>3
      <3> QED BY <3>1, <3>2, <3>3, <3>4
    <2> HIDE DEF n
    <2>8. \A k \in DOMAIN handled' : handled'[k].token \in {0} \cup DOMAIN grants'
      BY <1>2, <2>5, <2>6, GatedKept
    <2>9. GatedCallsAreDelegated'
      <3> SUFFICES ASSUME NEW k \in DOMAIN handled',
                          handled'[k].skill \in Gated, ~ handled'[k].overridden
                   PROVE  /\ handled'[k].token # 0
                          /\ HasDelegatedMutation(grants'[handled'[k].token].tier)
                          /\ grants'[handled'[k].token].scope \in {"*", handled'[k].skill}
                          /\ handled'[k].at <= grants'[handled'[k].token].exp
                          /\ grants'[handled'[k].token].revoked =>
                                k <= grants'[handled'[k].token].ended
        BY DEF GatedCallsAreDelegated
      <3>1. CASE k \in DOMAIN handled
        <4>1. handled'[k] = handled[k]
          BY <2>5, <3>1
        <4> QED BY <1>2, <3>1, <4>1, GatedKept
      <3>2. CASE k = n
        BY <2>2, <2>5, <2>7, <3>2
      <3> QED BY <2>5, <3>1, <3>2
    <2> QED BY <2>8, <2>9 DEF GatedInv
  <1> QED BY <1>1, <1>3, <1>4, ExecuteHandled

LEMMA GatedNext == GatedInv /\ [Next]_vars => GatedInv'
  <1> SUFFICES ASSUME GatedInv, [Next]_vars
               PROVE  GatedInv'
    OBVIOUS
  <1>1. BooksInv /\ TypeOK
    BY DEF GatedInv, BooksInv
  <1>2. BooksInv'
    BY <1>1, BooksNext
  <1>3. ASSUME NEW a \in Agents, NEW t \in Token, NEW s \in Skills, NEW i \in Inputs,
               NEW o \in BOOLEAN, Invoke(a, t, s, i, o)
        PROVE  GatedInv'
    <2>1. (IF t = 0 THEN tokens[a] ELSE t) \in Token /\ "broker" \in Host
      BY <1>1 DEF Token, TypeOK, Host
    <2> QED BY <1>2, <1>3, <2>1, ExecuteGated DEF Invoke
  <1>4. ASSUME NEW a \in Agents, NEW t \in Token, NEW s \in Skills, NEW i \in Inputs,
               ToolsCall(a, t, s, i)
        PROVE  GatedInv'
    <2>1. "mcp" \in Host /\ FALSE \in BOOLEAN
      BY DEF Host
    <2> QED BY <1>2, <1>4, <2>1, ExecuteGated DEF ToolsCall
  <1>5. ASSUME GrantsEndLater, handled' = handled
        PROVE  GatedInv'
    <2>1. /\ GatedCallsAreDelegated'
          /\ \A k \in DOMAIN handled' : handled'[k].token \in {0} \cup DOMAIN grants'
      BY <1>5, GatedKept DEF GatedCallsAreDelegated
    <2> QED BY <1>2, <2>1 DEF GatedInv
  <1>6. ASSUME UNCHANGED <<grants, handled>>
        PROVE  GatedInv'
    <2>1. GrantsEndLater
      BY <1>6 DEF GrantsEndLater
    <2> QED BY <1>5, <1>6, <2>1
  <1>7. ASSUME NEW a \in Agents, AuthorityRevoke(a)
        PROVE  GatedInv'
    <2>1. /\ DOMAIN grants' = DOMAIN grants
          /\ tokens[a] \in DOMAIN grants
          /\ grants'[tokens[a]] =
                [grants[tokens[a]] EXCEPT !.revoked = TRUE, !.ended = Len(handled)]
          /\ \A u \in DOMAIN grants : u # tokens[a] => grants'[u] = grants[u]
      BY <1>1, <1>7, RevokeFacts
    <2>2. grants[tokens[a]] \in GrantRecord /\ Len(handled) \in Nat
      BY <1>1, <2>1 DEF TypeOK
    <2>3. /\ grants'[tokens[a]].tier = grants[tokens[a]].tier
          /\ grants'[tokens[a]].scope = grants[tokens[a]].scope
          /\ grants'[tokens[a]].exp = grants[tokens[a]].exp
          /\ grants'[tokens[a]].ended = Len(handled)
      BY <2>1, <2>2 DEF GrantRecord
    <2>4. GrantsEndLater
      <3> DEFINE t == tokens[a]
      <3>1. Len(handled) <= grants'[t].ended /\ grants'[t].ended \in Nat
        BY <2>2, <2>3
      <3> HIDE DEF t
      <3>2. \A u \in DOMAIN grants : u # t => grants'[u] = grants[u]
        BY <2>1 DEF t
      <3>3. /\ grants'[t].tier = grants[t].tier
            /\ grants'[t].scope = grants[t].scope
            /\ grants'[t].exp = grants[t].exp
        BY <2>3 DEF t
      <3> QED BY <2>1, <3>1, <3>2, <3>3 DEF GrantsEndLater
    <2> QED BY <1>5, <1>7, <2>4 DEF AuthorityRevoke
  <1>8. ASSUME NEW a \in Agents, NEW tier \in GrantTiers, AuthorityGrant(a, tier)
        PROVE  GatedInv'
    <2>1. NewGrant(a, tier, "*", NoDigest, FALSE, GrantTTL, 0) /\ tier \in Tier /\ GrantTTL \in Nat
      BY <1>8, DelegationAssumption DEF AuthorityGrant
    <2>2. /\ DOMAIN grants = 1 .. Len(grants)
          /\ Len(grants) \in Nat
          /\ DOMAIN grants' = 1 .. Len(grants) + 1
          /\ \A t \in DOMAIN grants : grants'[t] = grants[t]
      BY <1>1, <2>1, NewGrantFacts
    <2>3. GrantsEndLater
      BY <2>2 DEF GrantsEndLater
    <2> QED BY <1>5, <1>8, <2>3 DEF AuthorityGrant
  <1>9. ASSUME NEW p \in DOMAIN proposals, NEW action \in {"APPROVE", "REJECT"},
               ProposalResolve(p, action)
        PROVE  GatedInv'
    <2>1. /\ DOMAIN grants \subseteq DOMAIN grants'
          /\ \A t \in DOMAIN grants : grants'[t] = grants[t]
      BY <1>1, <1>9, ResolveGrants
    <2>2. GrantsEndLater
      BY <2>1 DEF GrantsEndLater
    <2> QED BY <1>5, <1>9, <2>2 DEF ProposalResolve
  <1>10. ASSUME NEW p \in DOMAIN proposals, ProposalUnknown(p) \/ ProposalExpired(p)
         PROVE  GatedInv'
    BY <1>6, <1>10 DEF ProposalUnknown, ProposalExpired
  <1>11. CASE Tick \/ RestartBroker \/ RestartMcp \/ UNCHANGED vars
    BY <1>6, <1>11 DEF Tick, RestartBroker, RestartMcp, vars
  <1> QED BY <1>3, <1>4, <1>7, <1>8, <1>9, <1>10, <1>11 DEF Next

(* SkillDispatcher.execute: an agent's call that reached the handler of a  *)
(* gated skill without the override was made under a grant of a mutating   *)
(* tier that covered it and was neither expired nor revoked.               *)
THEOREM GatedCallsStayDelegated == Spec => []GatedCallsAreDelegated
  <1>1. GatedInv => GatedCallsAreDelegated
    BY DEF GatedInv
  <1> QED BY GatedInit, GatedNext, <1>1, PTL DEF Spec

=============================================================================
