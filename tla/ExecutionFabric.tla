--------------------------- MODULE ExecutionFabric ---------------------------
(***************************************************************************)
(* The universal execution fabric (uef/) under the operational semantics   *)
(* layer (osl/coherence.py).  Callers are threads of one process: they     *)
(* share the resolver, and the cache of every look-up of a program.  A     *)
(* call of execute_envelope evaluates the envelope, picks a provider,      *)
(* prepares, executes, cleans up and certifies; a direct call uses the     *)
(* providers without an envelope.                                          *)
(*                                                                         *)
(* A state root is a number that grows when the host changes; what a       *)
(* workload computes and prints is left open.                              *)
(***************************************************************************)
EXTENDS Integers, FiniteSets

CONSTANTS
    Callers,       \* threads that call the engine
    Submits,       \* what each of them submits, see Submission
    Movable,       \* the programs that come and go while the process lives
    Kvm,           \* whether /dev/kvm exists
    MaxCalls,      \* bound: calls
    MaxRoot,       \* bound: changes of the host
    MaxEvents      \* bound: programs that come or go, grants and revocations,
                   \* new weights, deaths of the process

Programs == {"entry", "bwrap", "engine", "runtime"}   \* podman or docker; crun or runc

Formats == {"elf-binary", "nix-closure", "posix-script", "rootfs-dir", "oci-image", "oci-bundle"}

Tiers == {"TIER_0_HOST", "TIER_1_SANDBOX", "TIER_2_MICROVM", "TIER_3_FORMAL"}

Providers == {"native.linux", "rootfs.bwrap", "oci.crun"}

NoRoot == -1

(* An envelope with the workload it describes.  entry: an absolute path, a *)
(* name to look up, a registered skill or nothing.  inv: the invariants it *)
(* lists.  planned: it requires the root it was planned for, the first     *)
(* one; observed: its client passes the root it sees.  A direct call has   *)
(* no envelope, but may name a root directory or a bundle, which no        *)
(* envelope can.                                                           *)
Submission ==
    [direct : BOOLEAN, category : {"READ", "PROPOSE", "MUTATE", "OTHER"},
     principal : {"AI_AGENT", "HUMAN", "OTHER"}, tier : {"FULL_OPERATOR", "OBSERVE_ONLY"},
     token : BOOLEAN, inv : {"none", "malformed", "INV-SEC-002", "INV-SEC-014"}, leak : BOOLEAN,
     format : Formats, isolation : Tiers, entry : {"path", "name", "skill", "none"},
     rootfs : BOOLEAN, bundle : {"none", "broken", "good"}, pinned : BOOLEAN,
     planned : BOOLEAN, observed : BOOLEAN]

Submissions == UNION {Submits[c] : c \in Callers}

ASSUME SubmissionsAreSubmissions ==
    /\ Submissions \subseteq Submission /\ Submissions # {}
    /\ \A s \in Submissions : ~ s.direct => ~ s.rootfs /\ s.bundle = "none"
    /\ Movable \subseteq Programs /\ Kvm \in BOOLEAN
    /\ MaxCalls \in Nat /\ MaxRoot \in Nat /\ MaxEvents \in Nat

VARIABLES
    pc,        \* where each caller is
    loc,       \* its local variables
    host,      \* the programs that are there
    cache,     \* what _find_binary remembers of each: known, missing or unasked
    weights,   \* of the resolver, in percent
    granted,   \* whether the agent's token is a valid grant now
    root,      \* the state root of the host
    dirs,      \* the callers whose temporary directory exists
    strays,    \* whether a temporary directory was left that nobody will remove
    calls, events

vars == <<pc, loc, host, cache, weights, granted, root, dirs, strays, calls, events>>
world == <<host, cache, weights, granted, root>>
bounds == <<calls, events>>

Steps == {"idle", "evaluate", "resolve", "prepare", "execute", "run", "receipt", "cleanup", "certify", "answer"}

-----------------------------------------------------------------------------
(* Providers.                                                              *)

(* _find_binary, with its lru_cache.                                       *)
Found(p) == cache[p] = "known" \/ (cache[p] = "unasked" /\ p \in host)

Ask(P) ==
    cache' = [p \in Programs |->
                IF p \in P THEN (IF Found(p) THEN "known" ELSE "missing") ELSE cache[p]]

(* The three inspect methods: a format, the programs it needs and the      *)
(* directories it names.                                                   *)
InspectNative(s) ==
    /\ s.format \in {"elf-binary", "nix-closure", "posix-script"}
    /\ \/ s.entry = "path" /\ "entry" \in host
       \/ s.entry = "name" /\ Found("entry")
       \/ s.entry = "skill"

InspectBwrap(s) ==
    /\ s.format \in {"rootfs-dir", "elf-binary", "posix-script"}
    /\ s.format = "rootfs-dir" => s.rootfs
    /\ Found("bwrap")

InspectOci(s) ==
    \/ s.format = "oci-image" /\ Found("engine")
    \/ s.format = "rootfs-dir" /\ Found("runtime") /\ s.rootfs
    \/ s.format = "oci-bundle" /\ Found("runtime") /\ s.bundle = "good"

Inspect(p, s) ==
    CASE p = "native.linux" -> InspectNative(s)
      [] p = "rootfs.bwrap" -> InspectBwrap(s)
      [] p = "oci.crun" -> InspectOci(s)

(* What inspecting looks up, in all three providers.                       *)
Lookups(s) ==
    {p \in Programs :
        \/ p = "entry" /\ s.entry = "name" /\ s.format \in {"elf-binary", "nix-closure", "posix-script"}
        \/ p = "bwrap" /\ (s.format \in {"elf-binary", "posix-script"} \/ (s.format = "rootfs-dir" /\ s.rootfs))
        \/ p = "engine" /\ s.format = "oci-image"
        \/ p = "runtime" /\ s.format \in {"rootfs-dir", "oci-bundle"}}

(* Mutation: the host fits every request for isolation as well as none.    *)
VectorNativeFlat(s) == <<99, 95, 100, 99, 95>>

(* The capability vectors of compatible providers, in percent: policy,     *)
(* isolation, resource, latency, provenance.                               *)
VectorNative(s) ==
    LET fit == CASE s.isolation = "TIER_0_HOST" -> <<99, 95>>
                 [] s.isolation = "TIER_1_SANDBOX" -> <<50, 20>>
                 [] OTHER -> <<20, 5>>
    IN  <<fit[1], fit[2], 100, 99, 95>>

Sandboxed(s) == s.isolation \in {"TIER_1_SANDBOX", "TIER_2_MICROVM"}

VectorBwrap(s) ==
    <<IF s.format = "rootfs-dir" THEN 95 ELSE 85, IF Sandboxed(s) THEN 90 ELSE 70, 90, 85, 90>>

VectorOci(s) ==
    <<IF s.format = "oci-image" THEN 95 ELSE 85, IF Sandboxed(s) THEN 85 ELSE 50, 80, 75,
      IF s.format # "oci-image" \/ s.entry = "none" THEN 95 ELSE IF s.pinned THEN 100 ELSE 90>>

Vector(p, s) ==
    CASE p = "native.linux" -> VectorNative(s)
      [] p = "rootfs.bwrap" -> VectorBwrap(s)
      [] p = "oci.crun" -> VectorOci(s)

(* compute_score, in ten thousandths: no digit is rounded away.            *)
Score(p, s) ==
    IF ~ Inspect(p, s) THEN 0
    ELSE LET v == Vector(p, s)
         IN  weights[1] * v[1] + weights[2] * v[2] + weights[3] * v[3]
                + weights[4] * v[4] + weights[5] * v[5]

Preference == [p \in Providers |-> CASE p = "native.linux" -> 0 [] p = "rootfs.bwrap" -> 1 [] OTHER -> 2]

(* resolve: the best score above zero, ties by preference.                 *)
Best(s) ==
    {p \in Providers :
        /\ Score(p, s) > 0
        /\ \A q \in Providers \ {p} :
              \/ Score(p, s) > Score(q, s)
              \/ Score(p, s) = Score(q, s) /\ Preference[p] < Preference[q]}

-----------------------------------------------------------------------------
(* The engine.                                                             *)

Idle == [sub |-> CHOOSE s \in Submissions : TRUE, current |-> NoRoot,
         provider |-> "native.linux", exit |-> 0, ran |-> NoRoot, after |-> NoRoot,
         entitled |-> FALSE]

Goto(c, step) == pc' = [pc EXCEPT ![c] = step]

(* The call ends without a receipt: it was refused, or it raises.          *)
End(c) == Goto(c, "idle") /\ loc' = [loc EXCEPT ![c] = Idle]

Submit(c, s) ==
    /\ pc[c] = "idle" /\ calls < MaxCalls
    /\ calls' = calls + 1
    /\ loc' = [loc EXCEPT ![c] = [Idle EXCEPT !.sub = s, !.entitled = granted,
                                    !.current = IF s.observed THEN root ELSE NoRoot]]
    /\ Goto(c, IF s.direct THEN "resolve" ELSE "evaluate")
    /\ UNCHANGED <<world, dirs, strays, events>>

(* The invariants an envelope lists.                                       *)
InvariantsHold(s) ==
    /\ s.inv # "malformed"
    /\ s.inv = "INV-SEC-002" => s.isolation # "TIER_3_FORMAL" \/ Kvm
    /\ s.inv = "INV-SEC-014" => ~ s.leak

(* The state root is compared when both sides name one.                    *)
Preflight(l) == ~ l.sub.planned \/ l.current = NoRoot \/ l.current = 0

(* Mutation: the token is not looked up.                                   *)
AuthorizedByToken(s) ==
    s.category = "MUTATE" =>
        \/ s.principal = "AI_AGENT" /\ s.token
        \/ s.principal = "HUMAN" /\ s.tier = "FULL_OPERATOR"

(* Mutations need a human operator, or an agent's valid grant.             *)
Authorized(s) ==
    s.category = "MUTATE" =>
        \/ s.principal = "AI_AGENT" /\ s.token /\ granted
        \/ s.principal = "HUMAN" /\ s.tier = "FULL_OPERATOR"

(* evaluate_envelope; an unknown category, or nothing to execute, raises.  *)
Evaluate(c) ==
    LET s == loc[c].sub
    IN  /\ pc[c] = "evaluate"
        /\ IF InvariantsHold(s) /\ Preflight(loc[c]) /\ s.category # "OTHER" /\ Authorized(s)
                 /\ s.entry # "none"
           THEN Goto(c, "resolve") /\ UNCHANGED loc
           ELSE End(c)
        /\ UNCHANGED <<world, dirs, strays, bounds>>

(* resolve: every provider is inspected, whoever wins.                     *)
Resolve(c) ==
    LET s == loc[c].sub
    IN  /\ pc[c] = "resolve"
        /\ Ask(Lookups(s))
        /\ \/ \E p \in Best(s) :
                 /\ loc' = [loc EXCEPT ![c].provider = p]
                 /\ Goto(c, "prepare")
           \/ Best(s) = {} /\ End(c)
        /\ UNCHANGED <<host, weights, granted, root, dirs, strays, bounds>>

(* prepare: the container providers make a directory, or cannot and raise; *)
(* the OCI provider then copies a bundle or writes a specification into    *)
(* it, which may raise and leave the directory to nobody.                  *)
Prepare(c) ==
    /\ pc[c] = "prepare"
    /\ \/ /\ dirs' = IF loc[c].provider = "native.linux" THEN dirs ELSE dirs \cup {c}
          /\ Goto(c, "execute")
          /\ UNCHANGED <<loc, strays>>
       \/ /\ loc[c].provider # "native.linux"
          /\ End(c)
          /\ UNCHANGED <<dirs, strays>>
       \/ /\ loc[c].provider = "oci.crun" /\ loc[c].sub.format # "oci-image"
          /\ End(c)
          /\ strays' = TRUE
          /\ UNCHANGED dirs
    /\ UNCHANGED <<world, bounds>>

(* The program the chosen provider starts.                                 *)
Needs(l) ==
    CASE l.provider = "rootfs.bwrap" -> {"bwrap"}
      [] l.provider = "oci.crun" -> IF l.sub.format = "oci-image" THEN {"engine"} ELSE {"runtime"}
      [] OTHER -> IF l.sub.entry = "skill" THEN {} ELSE {"entry"}

(* The command starts, or its program has gone since it was looked up.     *)
Execute(c) ==
    /\ pc[c] = "execute"
    /\ IF Needs(loc[c]) \subseteq host
       THEN Goto(c, "run") /\ loc' = [loc EXCEPT ![c].ran = root]
       ELSE Goto(c, "receipt") /\ loc' = [loc EXCEPT ![c].exit = 127]
    /\ UNCHANGED <<world, dirs, strays, bounds>>

(* Mutation: a workload that hangs is waited for.                          *)
FinishUnbounded(c) ==
    /\ pc[c] = "run" /\ loc[c].sub.entry # "path"
    /\ UNCHANGED loc
    /\ root' \in (IF loc[c].sub.category = "MUTATE" /\ root < MaxRoot THEN {root, root + 1} ELSE {root})
    /\ Goto(c, "receipt")
    /\ UNCHANGED <<host, cache, weights, granted, dirs, strays, bounds>>

(* It exits, or fails, or is killed after its timeout, which is 124 here;  *)
(* a mutation may have changed the host in each of the three cases.        *)
Finish(c) ==
    /\ pc[c] = "run"
    /\ \E code \in {0, 124} : loc' = [loc EXCEPT ![c].exit = code]
    /\ root' \in (IF loc[c].sub.category = "MUTATE" /\ root < MaxRoot THEN {root, root + 1} ELSE {root})
    /\ Goto(c, "receipt")
    /\ UNCHANGED <<host, cache, weights, granted, dirs, strays, bounds>>

(* Mutation: a root that cannot be computed is the root there was.         *)
ReceiptOptimistic(c) ==
    /\ pc[c] = "receipt"
    /\ \E after \in {root, loc[c].current} : loc' = [loc EXCEPT ![c].after = after]
    /\ Goto(c, "cleanup")
    /\ UNCHANGED <<world, dirs, strays, bounds>>

(* The receipt: compute_state_root may fail, which leaves UNVERIFIED.      *)
Receipt(c) ==
    /\ pc[c] = "receipt"
    /\ \E after \in {root, NoRoot} : loc' = [loc EXCEPT ![c].after = after]
    /\ Goto(c, "cleanup")
    /\ UNCHANGED <<world, dirs, strays, bounds>>

(* Mutation: cleaning up is for commands that succeeded.                   *)
CleanupOnSuccess(c) ==
    /\ pc[c] = "cleanup"
    /\ dirs' = IF loc[c].exit = 0 THEN dirs \ {c} ELSE dirs
    /\ Goto(c, "certify")
    /\ UNCHANGED <<loc, world, strays, bounds>>

(* cleanup, in a finally clause: every handler runs, none may raise.  A    *)
(* directory that could not be removed would not be noticed.               *)
Cleanup(c) ==
    /\ pc[c] = "cleanup"
    /\ dirs' = dirs \ {c}
    /\ Goto(c, "certify")
    /\ UNCHANGED <<loc, world, strays, bounds>>

(* An envelope's mutation whose root is UNVERIFIED raises, anything else   *)
(* is answered; a direct call has its receipt already.                     *)
Certify(c) ==
    /\ pc[c] = "certify"
    /\ IF loc[c].sub.category = "MUTATE" /\ ~ loc[c].sub.direct /\ loc[c].after = NoRoot
       THEN End(c) ELSE Goto(c, "answer") /\ UNCHANGED loc
    /\ UNCHANGED <<world, dirs, strays, bounds>>

(* The caller has its receipt.                                             *)
Answer(c) ==
    /\ pc[c] = "answer"
    /\ End(c)
    /\ UNCHANGED <<world, dirs, strays, bounds>>

-----------------------------------------------------------------------------
(* Around the engine.                                                      *)

Event == events < MaxEvents /\ events' = events + 1

(* A program is installed or removed.                                      *)
MoveProgram(p) ==
    /\ Event
    /\ host' = IF p \in host THEN host \ {p} ELSE host \cup {p}
    /\ UNCHANGED <<pc, loc, cache, weights, granted, root, dirs, strays, calls>>

(* The human grants the agent's token, or revokes it.                      *)
Delegate ==
    /\ Event
    /\ granted' = ~ granted
    /\ loc' = [c \in Callers |->
                 IF pc[c] # "idle" /\ ~ granted THEN [loc[c] EXCEPT !.entitled = TRUE] ELSE loc[c]]
    /\ UNCHANGED <<pc, host, cache, weights, root, dirs, strays, calls>>

(* Somebody else changes the host.                                         *)
HostChanges ==
    /\ root < MaxRoot
    /\ root' = root + 1
    /\ UNCHANGED <<pc, loc, host, cache, weights, granted, dirs, strays, bounds>>

DefaultWeights == <<25, 25, 20, 20, 10>>

(* set_weights, here to weights that look at the cost only.                *)
SetWeights ==
    /\ Event
    /\ weights' = <<0, 0, 100, 0, 0>>
    /\ UNCHANGED <<pc, loc, host, cache, granted, root, dirs, strays, calls>>

(* The process dies and is started again.                                  *)
Kill ==
    /\ Event
    /\ pc' = [c \in Callers |-> "idle"]
    /\ loc' = [c \in Callers |-> Idle]
    /\ cache' = [p \in Programs |-> "unasked"]
    /\ weights' = DefaultWeights
    /\ dirs' = {}
    /\ strays' = (strays \/ dirs # {})
    /\ UNCHANGED <<host, granted, root, calls>>

Init ==
    /\ pc = [c \in Callers |-> "idle"]
    /\ loc = [c \in Callers |-> Idle]
    /\ host \in {Programs, Programs \ {"bwrap"}}
    /\ cache = [p \in Programs |-> "unasked"]
    /\ weights = DefaultWeights
    /\ granted \in BOOLEAN
    /\ root = 0
    /\ dirs = {} /\ strays = FALSE
    /\ calls = 0 /\ events = 0

Step(c) ==
    \/ Evaluate(c) \/ Resolve(c) \/ Prepare(c) \/ Execute(c)
    \/ Finish(c) \/ Receipt(c) \/ Cleanup(c) \/ Certify(c) \/ Answer(c)

Next ==
    \/ \E c \in Callers : Step(c) \/ \E s \in Submits[c] : Submit(c, s)
    \/ \E p \in Movable : MoveProgram(p)
    \/ Delegate \/ HostChanges \/ SetWeights \/ Kill

(* The threads run; a command ends at its timeout at the latest.           *)
Spec == Init /\ [][Next]_vars /\ \A c \in Callers : WF_vars(Step(c))

-----------------------------------------------------------------------------
(* Properties.                                                             *)

(* The type invariant; receipts and calls name roots the host has had.     *)
TypeOK ==
    /\ pc \in [Callers -> Steps]
    /\ \A c \in Callers :
          /\ loc[c].sub \in Submissions /\ loc[c].provider \in Providers
          /\ loc[c].current \in NoRoot .. root
          /\ loc[c].ran \in NoRoot .. root /\ loc[c].after \in NoRoot .. root
          /\ loc[c].exit \in {0, 124, 127}
    /\ host \subseteq Programs
    /\ cache \in [Programs -> {"unasked", "known", "missing"}]
    /\ granted \in BOOLEAN /\ root \in 0 .. MaxRoot
    /\ dirs \subseteq Callers /\ strays \in BOOLEAN
    /\ calls \in 0 .. MaxCalls /\ events \in 0 .. MaxEvents

(* What a choice owes to a request, by what this process remembers of its  *)
(* programs (a path is looked up each time, and may have come since).      *)
Fits(s, p) ==
    /\ p # "native.linux" => Inspect(p, s)
    /\ s.isolation # "TIER_0_HOST" /\ p = "native.linux" =>
          ~ InspectBwrap(s) /\ ~ InspectOci(s)
    /\ s.isolation = "TIER_0_HOST" /\ p # "native.linux" =>
          ~ InspectNative(s) \/ s.entry = "path"

(* resolve, compute_score and the three evaluate_capabilities: with the    *)
(* default weights the weighted sums never trade a request's isolation for *)
(* anything else.  A workload that asks for isolation runs on the bare     *)
(* host only when no isolating provider takes it: bwrap was missing the    *)
(* one time this process looked for it, or the format is nix-closure,      *)
(* which none of them takes whatever tier was asked for.  A workload that  *)
(* asks for the host leaves it only when the host provider does not take   *)
(* it, and an isolating provider is chosen only when its program was found.*)
ProviderFitsRequest ==
    weights = DefaultWeights =>
        \A c \in Callers : pc[c] \in {"prepare", "execute", "run"} =>
            Fits(loc[c].sub, loc[c].provider)

(* evaluate_envelope: a mutation that runs was submitted by a human        *)
(* operator, or by an agent that held a valid grant at some moment of the  *)
(* call; a grant revoked later does not stop it.                           *)
MutationsAreEntitled ==
    \A c \in Callers :
        LET s == loc[c].sub
        IN  pc[c] = "run" /\ s.category = "MUTATE" /\ ~ s.direct =>
                \/ s.principal = "HUMAN" /\ s.tier = "FULL_OPERATOR"
                \/ s.principal = "AI_AGENT" /\ loc[c].entitled

(* execute and the fail-closed check of execute_envelope: a receipt that   *)
(* says success is about a command that ran, its root is not older than    *)
(* the command, and a mutation's root is verified, whatever other calls    *)
(* and the host did meanwhile.                                             *)
ReceiptsTellTheTruth ==
    \A c \in Callers :
        LET l == loc[c]
        IN  pc[c] = "answer" =>
                /\ l.exit = 0 => l.ran # NoRoot
                /\ l.after # NoRoot => l.after >= l.ran
                /\ l.sub.category = "MUTATE" /\ ~ l.sub.direct => l.after # NoRoot

(* Every call ends, with a receipt or without.                             *)
CallsEnd == \A c \in Callers : pc[c] # "idle" ~> pc[c] = "idle"

(* The refinement: each call implements the contract of ExecutionContract. *)
StageOf ==
    [idle |-> "idle", evaluate |-> "submitted", resolve |-> "submitted", prepare |-> "submitted",
     execute |-> "ready", run |-> "ready", receipt |-> "ran", cleanup |-> "ran",
     certify |-> "settled", answer |-> "settled"]

Contract == INSTANCE ExecutionContract
                WITH stage <- [c \in Callers |-> StageOf[pc[c]]], held <- dirs, litter <- strays

(* execute_envelope refuses before it prepares, runs at most once, and     *)
(* gives its directory back before it answers, however the command fails.  *)
(* A directory is left behind only by a prepare that raises after it made  *)
(* one, and by the death of the process.                                   *)
ImplementsContract == Contract!Spec

=============================================================================
