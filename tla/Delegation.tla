----------------------------- MODULE Delegation -----------------------------
(***************************************************************************)
(* Delegated authority: the skill dispatcher of neuronix_core (skills.py), *)
(* the conductor-runtime broker that serves it over a socket, and the      *)
(* conductor-mcp bridge.                                                   *)
(*                                                                         *)
(* An agent that asks for a gated skill gets a proposal instead of an      *)
(* execution, unless a grant covers it.  A human approves a proposal once; *)
(* the approval is a single-use token bound to one skill and one input.    *)
(*                                                                         *)
(* The broker and the bridge are separate processes with a dispatcher      *)
(* each.  Requests are handled one at a time: no handler awaits anything   *)
(* between its first and its last access to the state, so one action is    *)
(* one request.  A request that changes nothing is no action: one that     *)
(* raises at once, and a skill call of the human owner or operator, which  *)
(* needs no grant and leaves no trace in the dispatcher.                   *)
(***************************************************************************)
EXTENDS Naturals, Sequences, FiniteSets

CONSTANTS
    Agents,         \* principals that are neither owner nor operator
    Skills,         \* the skill contracts
    Gated,          \* the ones in category MUTATE with approval_gate_required
    Inputs,         \* skill inputs; the digest of an input is the input
    NoDigest,       \* a grant that is not bound to an input
    GrantTiers,     \* the tiers the owner hands out
    ProposalTTL,    \* 600 s in the code
    TokenTTL,       \* 300 s: an approved proposal's token
    GrantTTL,       \* 86400 s: a delegation
    MaxTime,        \* bound: clock ticks
    MaxGrants,      \* bound: delegations and approvals
    MaxProposals,   \* bound: proposals
    MaxCalls        \* bound: handler calls

Tier == {"OBSERVE_ONLY", "PROPOSE_ONLY", "USERSPACE_EXECUTE", "PRIVILEGED_EXECUTE",
         "FULL_DELEGATED_CONTROL"}

Host == {"broker", "mcp"}

ASSUME DelegationAssumption ==
    /\ "OPERATOR_APPROVAL" \notin Agents
    /\ Gated \subseteq Skills
    /\ "*" \notin Skills
    /\ NoDigest \notin Inputs
    /\ GrantTiers \subseteq Tier
    /\ ProposalTTL \in Nat /\ TokenTTL \in Nat /\ GrantTTL \in Nat
    /\ MaxTime \in Nat /\ MaxGrants \in Nat /\ MaxProposals \in Nat /\ MaxCalls \in Nat

VARIABLES
    now,         \* the clock
    grants,      \* every DelegationRecord ever made, in order
    registry,    \* the ids in the DelegationRegistry of each process
    proposals,   \* every proposal ever generated, in order
    pending,     \* _pending_proposals of each process's dispatcher
    srvPending,  \* the broker's own _pending_proposals
    srvResolved, \* the broker's own _resolved_proposals
    tokens,      \* the broker's _delegated_tokens; 0 is no entry
    tiers,       \* the broker's _delegated_authorities; "NONE" is no entry
    handled      \* history: the agents' handler calls, in order

vars == <<now, grants, registry, proposals, pending, srvPending, srvResolved,
          tokens, tiers, handled>>

(* A grant; proposal is the approved proposal it came from (0: none), and  *)
(* ended the number of handler calls made when it was revoked (history).   *)
GrantRecord ==
    [principal : Agents \cup {"OPERATOR_APPROVAL"}, tier : Tier, scope : Skills \cup {"*"},
     digest : Inputs \cup {NoDigest}, single : BOOLEAN, exp : Nat,
     revoked : BOOLEAN, consumed : BOOLEAN, proposal : Nat, ended : Nat]

Verdict == {"PENDING", "EXPIRED", "APPROVE", "REJECT"}

Proposal == [skill : Skills, input : Inputs, exp : Nat, verdict : Verdict]

Call == [token : Nat, skill : Skills, input : Inputs, overridden : BOOLEAN, at : Nat]

(* The type invariant; every id in a table is the id of a record.          *)
TypeOK ==
    /\ now \in Nat
    /\ grants \in Seq(GrantRecord)
    /\ registry \in [Host -> SUBSET (DOMAIN grants)]
    /\ proposals \in Seq(Proposal)
    /\ pending \in [Host -> SUBSET (DOMAIN proposals)]
    /\ srvPending \subseteq DOMAIN proposals
    /\ srvResolved \subseteq DOMAIN proposals
    /\ tokens \in [Agents -> {0} \cup DOMAIN grants]
    /\ tiers \in [Agents -> Tier \cup {"NONE"}]
    /\ handled \in Seq(Call)

-----------------------------------------------------------------------------
(* Grants.                                                                 *)

(* Mutation: a revoked or consumed grant is still good.                    *)
IsValidForIgnoringRevocation(g, s) == now <= g.exp /\ g.scope \in {"*", s}

IsValidFor(g, s) ==
    /\ ~ g.revoked /\ ~ g.consumed
    /\ now <= g.exp
    /\ g.scope \in {"*", s}

(* Mutation: consume leaves the record as it is.                           *)
ConsumeNot(g) == g

(* DelegationRegistry.consume on a single-use record.                      *)
Consume(g) == [g EXCEPT !.consumed = TRUE, !.revoked = TRUE, !.ended = Len(handled) + 1]

(* DelegationRegistry.grant in the broker.                                 *)
NewGrant(principal, tier, scope, digest, single, ttl, p) ==
    /\ Len(grants) < MaxGrants
    /\ grants' = Append(grants, [principal |-> principal, tier |-> tier, scope |-> scope,
                                 digest |-> digest, single |-> single, exp |-> now + ttl,
                                 revoked |-> FALSE, consumed |-> FALSE,
                                 proposal |-> p, ended |-> 0])
    /\ registry' = [registry EXCEPT !["broker"] = @ \cup {Len(grants) + 1}]

-----------------------------------------------------------------------------
(* SkillDispatcher.execute.                                                *)

(* A single-use token that does not fit raises; the call changes nothing.  *)
Refused(h, t, s, i) ==
    /\ t \in registry[h]
    /\ grants[t].single
    /\ ~ (IsValidFor(grants[t], s) /\ grants[t].digest \in {NoDigest, i})

(* The tier of an agent: a grant decides, never the agent's own word.      *)
ActiveTier(h, t, s) ==
    IF t \in registry[h] /\ IsValidFor(grants[t], s) THEN grants[t].tier
                                                    ELSE "PROPOSE_ONLY"

HasDelegatedMutation(tier) ==
    tier \in {"USERSPACE_EXECUTE", "PRIVILEGED_EXECUTE", "FULL_DELEGATED_CONTROL"}

(* Mutation: the broker does not note the proposal it passes on.           *)
GenerateProposalUnnoted(h, s, i) ==
    /\ Len(proposals) < MaxProposals
    /\ proposals' = Append(proposals, [skill |-> s, input |-> i, exp |-> now + ProposalTTL,
                                       verdict |-> "PENDING"])
    /\ pending' = [pending EXCEPT ![h] = @ \cup {Len(proposals) + 1}]
    /\ UNCHANGED srvPending

(* _generate_proposal; the broker notes the proposal in a table of its own *)
(* when SkillApprovalRequired passes through _process_raw_message.         *)
GenerateProposal(h, s, i) ==
    /\ Len(proposals) < MaxProposals
    /\ proposals' = Append(proposals, [skill |-> s, input |-> i, exp |-> now + ProposalTTL,
                                       verdict |-> "PENDING"])
    /\ pending' = [pending EXCEPT ![h] = @ \cup {Len(proposals) + 1}]
    /\ srvPending' = IF h = "broker" THEN srvPending \cup {Len(proposals) + 1}
                                     ELSE srvPending

(* The handler is called; it may still raise.  The history notes the grant *)
(* the call rested on and whether only the override let it pass; it leaves *)
(* out the calls that need no grant and rest on none.                      *)
HandlerCalled(t, s, i, overridden) ==
    IF t = 0 /\ (overridden \/ s \notin Gated)
    THEN UNCHANGED handled
    ELSE /\ Len(handled) < MaxCalls
         /\ handled' = Append(handled, [token |-> t, skill |-> s, input |-> i,
                                        overridden |-> overridden, at |-> now])

(* The token is consumed before the gate and before the handler, so a      *)
(* handler that raises leaves it spent.                                    *)
Execute(h, t, s, i, override) ==
    LET may  == HasDelegatedMutation(ActiveTier(h, t, s))
        used == IF t \in registry[h] /\ IsValidFor(grants[t], s) THEN t ELSE 0
    IN  /\ ~ Refused(h, t, s, i)
        /\ grants' = IF used # 0 /\ grants[t].single
                     THEN [grants EXCEPT ![t] = Consume(@)] ELSE grants
        /\ IF s \in Gated /\ ~ may /\ ~ override
           THEN GenerateProposal(h, s, i) /\ UNCHANGED handled
           ELSE /\ HandlerCalled(used, s, i, override /\ ~ may)
                /\ UNCHANGED <<proposals, pending, srvPending>>
        /\ UNCHANGED <<now, registry, srvResolved, tokens, tiers>>

(* skills.invoke: a request without a token gets the one the broker keeps  *)
(* for its caller.                                                         *)
Invoke(a, t, s, i, override) ==
    Execute("broker", IF t = 0 THEN tokens[a] ELSE t, s, i, override)

(* tools/call: the caller is always an agent; a token that is valid but    *)
(* was issued to somebody else than the claimed caller is turned down.     *)
ToolsCall(a, t, s, i) ==
    /\ (t \in registry["mcp"] /\ IsValidFor(grants[t], s)) => grants[t].principal = a
    /\ Execute("mcp", t, s, i, FALSE)

-----------------------------------------------------------------------------
(* The broker's authority and proposal requests.                           *)

(* authority.grant: the earlier token of the agent, if any, is forgotten   *)
(* by the broker and stays in the registry.                                *)
AuthorityGrant(a, tier) ==
    /\ NewGrant(a, tier, "*", NoDigest, FALSE, GrantTTL, 0)
    /\ tokens' = [tokens EXCEPT ![a] = Len(grants) + 1]
    /\ tiers' = [tiers EXCEPT ![a] = tier]
    /\ UNCHANGED <<now, proposals, pending, srvPending, srvResolved, handled>>

(* Mutation: the token is revoked but stays in the broker's table.         *)
AuthorityRevokeKeepingToken(a) ==
    /\ tokens[a] # 0
    /\ grants' = [grants EXCEPT ![tokens[a]].revoked = TRUE, ![tokens[a]].ended = Len(handled)]
    /\ tiers' = [tiers EXCEPT ![a] = "NONE"]
    /\ UNCHANGED <<now, registry, proposals, pending, srvPending, srvResolved, tokens, handled>>

AuthorityRevoke(a) ==
    /\ tokens[a] # 0
    /\ grants' = [grants EXCEPT ![tokens[a]].revoked = TRUE, ![tokens[a]].ended = Len(handled)]
    /\ tokens' = [tokens EXCEPT ![a] = 0]
    /\ tiers' = [tiers EXCEPT ![a] = "NONE"]
    /\ UNCHANGED <<now, registry, proposals, pending, srvPending, srvResolved, handled>>

(* Mutation: the proposal is looked up and stays in the dispatcher's table. *)
PopProposalNot(p) ==
    /\ p \in pending["broker"]
    /\ UNCHANGED pending

(* The dispatcher resolves what is pending, and pops it first.             *)
PopProposal(p) ==
    /\ p \in pending["broker"]
    /\ pending' = [pending EXCEPT !["broker"] = @ \ {p}]

(* proposal.resolve by a human.  The broker drops its own entry before it  *)
(* asks the dispatcher, which raises for a proposal it does not know and   *)
(* for an expired one; only a verdict reaches the broker's table.          *)
ProposalUnknown(p) ==
    /\ p \notin srvResolved
    /\ p \notin pending["broker"]
    /\ srvPending' = srvPending \ {p}
    /\ UNCHANGED <<now, grants, registry, proposals, pending, srvResolved, tokens, tiers, handled>>

ProposalExpired(p) ==
    /\ p \notin srvResolved
    /\ now > proposals[p].exp
    /\ PopProposal(p)
    /\ srvPending' = srvPending \ {p}
    /\ proposals' = [proposals EXCEPT ![p].verdict = "EXPIRED"]
    /\ UNCHANGED <<now, grants, registry, srvResolved, tokens, tiers, handled>>

ProposalResolve(p, action) ==
    /\ p \notin srvResolved
    /\ now <= proposals[p].exp
    /\ PopProposal(p)
    /\ srvPending' = srvPending \ {p}
    /\ srvResolved' = srvResolved \cup {p}
    /\ proposals' = [proposals EXCEPT ![p].verdict = action]
    /\ IF action = "APPROVE"
       THEN NewGrant("OPERATOR_APPROVAL", "PRIVILEGED_EXECUTE", proposals[p].skill, proposals[p].input,
                     TRUE, TokenTTL, p)
       ELSE UNCHANGED <<grants, registry>>
    /\ UNCHANGED <<now, tokens, tiers, handled>>

-----------------------------------------------------------------------------
(* Time, and the end of a process: everything it knew was in memory.       *)

Tick ==
    /\ now < MaxTime
    /\ now' = now + 1
    /\ UNCHANGED <<grants, registry, proposals, pending, srvPending, srvResolved,
                   tokens, tiers, handled>>

RestartBroker ==
    /\ registry' = [registry EXCEPT !["broker"] = {}]
    /\ pending' = [pending EXCEPT !["broker"] = {}]
    /\ srvPending' = {}
    /\ srvResolved' = {}
    /\ tokens' = [a \in Agents |-> 0]
    /\ tiers' = [a \in Agents |-> "NONE"]
    /\ UNCHANGED <<now, grants, proposals, handled>>

RestartMcp ==
    /\ pending' = [pending EXCEPT !["mcp"] = {}]
    /\ UNCHANGED <<now, grants, registry, proposals, srvPending, srvResolved,
                   tokens, tiers, handled>>

Init ==
    /\ now = 0
    /\ grants = <<>>
    /\ registry = [h \in Host |-> {}]
    /\ proposals = <<>>
    /\ pending = [h \in Host |-> {}]
    /\ srvPending = {}
    /\ srvResolved = {}
    /\ tokens = [a \in Agents |-> 0]
    /\ tiers = [a \in Agents |-> "NONE"]
    /\ handled = <<>>

(* A request names any token that was ever handed out, or none.            *)
Token == {0} \cup DOMAIN grants

Next ==
    \/ \E a \in Agents, t \in Token, s \in Skills, i \in Inputs, o \in BOOLEAN :
          Invoke(a, t, s, i, o)
    \/ \E a \in Agents, t \in Token, s \in Skills, i \in Inputs : ToolsCall(a, t, s, i)
    \/ \E a \in Agents : AuthorityRevoke(a) \/ \E tier \in GrantTiers : AuthorityGrant(a, tier)
    \/ \E p \in DOMAIN proposals :
          \/ ProposalUnknown(p)
          \/ ProposalExpired(p)
          \/ \E action \in {"APPROVE", "REJECT"} : ProposalResolve(p, action)
    \/ Tick
    \/ RestartBroker
    \/ RestartMcp

Spec == Init /\ [][Next]_vars

-----------------------------------------------------------------------------
(* Properties.                                                             *)

(* resolve_proposal: an approval is worth one call of one handler, with    *)
(* the skill and the input that were approved, while its token lives;      *)
(* neither a replay, nor a second resolution, nor a restart in between     *)
(* buys another one.                                                       *)
ApprovalRunsOnce ==
    \A k \in DOMAIN handled :
        LET g == grants[handled[k].token]
        IN  handled[k].token # 0 /\ g.single =>
               /\ proposals[g.proposal].verdict = "APPROVE"
               /\ handled[k].skill = proposals[g.proposal].skill
               /\ handled[k].input = proposals[g.proposal].input
               /\ handled[k].at <= proposals[g.proposal].exp + TokenTTL
               /\ \A l \in DOMAIN handled :
                     /\ handled[l].token # 0
                     /\ grants[handled[l].token].proposal = g.proposal
                     => l = k

(* SkillDispatcher.execute: an agent's call that reached the handler of a  *)
(* gated skill names a grant of a mutating tier that covered the skill and *)
(* had neither expired nor been revoked by then, or its own request set    *)
(* sovereign_override.  The broker takes that flag from any client and the *)
(* dispatcher honours it for every principal, so this is a guarantee for   *)
(* clients that leave the flag alone, and weaker than the unbypassable     *)
(* delegation that specification 21 of the documentation asks for.         *)
GatedCallsAreDelegated ==
    \A k \in DOMAIN handled :
        LET g == grants[handled[k].token]
        IN  handled[k].skill \in Gated /\ ~ handled[k].overridden =>
               /\ handled[k].token # 0
               /\ HasDelegatedMutation(g.tier)
               /\ g.scope \in {"*", handled[k].skill}
               /\ handled[k].at <= g.exp
               /\ g.revoked => k <= g.ended

(* The two tables of open proposals, of the broker and of its dispatcher,  *)
(* are the same set after every request, the failing ones included.        *)
BooksAgree == srvPending = pending["broker"]

(* authority.grant and revoke: the token the broker adds to an agent's     *)
(* requests is a grant of that agent that nobody revoked, with the tier    *)
(* identity.resolve reports.                                               *)
KeptTokensAreCurrent ==
    \A a \in Agents :
        IF tokens[a] = 0 THEN tiers[a] = "NONE"
        ELSE /\ tokens[a] \in registry["broker"]
             /\ grants[tokens[a]].principal = a
             /\ ~ grants[tokens[a]].revoked
             /\ grants[tokens[a]].tier = tiers[a]

(* A verdict is never taken back, and a proposal that has one does not     *)
(* become open again.                                                      *)
VerdictIsFinal ==
    [][\A p \in DOMAIN proposals : proposals[p].verdict # "PENDING" =>
          /\ proposals'[p].verdict = proposals[p].verdict
          /\ p \notin pending'["broker"]]_vars

-----------------------------------------------------------------------------
(* The inductive strengthening.                                            *)

(* What is pending in the broker has no verdict yet.                       *)
PendingIsOpen == \A p \in pending["broker"] : proposals[p].verdict = "PENDING"

BooksInv == TypeOK /\ BooksAgree /\ PendingIsOpen

(* A single-use grant is the approval of one proposal, bound to its skill  *)
(* and its input; a delegation comes from no proposal.                     *)
ApprovalsBound ==
    \A t \in DOMAIN grants :
        IF grants[t].single
        THEN LET p == grants[t].proposal
             IN  /\ p \in DOMAIN proposals
                 /\ proposals[p].verdict = "APPROVE"
                 /\ grants[t].scope = proposals[p].skill
                 /\ grants[t].digest = proposals[p].input
                 /\ grants[t].exp <= proposals[p].exp + TokenTTL
        ELSE grants[t].proposal = 0

(* No proposal was approved twice.                                         *)
ApprovalsUnique ==
    \A t, u \in DOMAIN grants :
        grants[t].proposal = grants[u].proposal /\ grants[t].proposal # 0 => t = u

(* A call under a single-use grant fits it, has consumed it, and is the    *)
(* only call under it.                                                     *)
CallsFit ==
    \A k \in DOMAIN handled :
        LET t == handled[k].token
        IN  t # 0 =>
              /\ t \in DOMAIN grants
              /\ grants[t].single =>
                    /\ handled[k].skill = grants[t].scope
                    /\ handled[k].input = grants[t].digest
                    /\ handled[k].at <= grants[t].exp
                    /\ grants[t].consumed
                    /\ \A l \in DOMAIN handled : handled[l].token = t => l = k

(* The kept tokens are current, and none of them is a single-use one.      *)
TokensInv ==
    /\ BooksInv
    /\ KeptTokensAreCurrent
    /\ \A a \in Agents : tokens[a] # 0 => ~ grants[tokens[a]].single

(* Delegated calls, each under a grant that exists.                        *)
GatedInv ==
    /\ BooksInv
    /\ GatedCallsAreDelegated
    /\ \A k \in DOMAIN handled : handled[k].token \in {0} \cup DOMAIN grants

ApprovalInv == BooksInv /\ ApprovalsBound /\ ApprovalsUnique /\ CallsFit

=============================================================================
