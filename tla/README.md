# NeuronixOS in TLA+

This directory holds TLA+ models of the parts of NeuronixOS that change the
state of a machine, TLC configurations that check them on small instances, and
TLAPS proofs of the properties that matter most. `PROJECT.json` ties every
definition to the source lines it models, every property to a mutation of the
model that breaks it, and lists the hazards the properties are for.

## 1. The system

NeuronixOS is a NixOS distribution with a Python core (`packages/neuronix-core`),
two servers for agents and terminals (`packages/conductor-runtime`,
`packages/conductor-mcp`), a Rust daemon and a Rust terminal
(`packages/neuronix-daemon`, `packages/conductor`), a shell front end (`src/`),
NixOS modules (`modules/`) and an installer (`installer/`).

| Component | State | Operations | What makes it correct |
| --- | --- | --- | --- |
| Operation lock (`lock.py`) | flock on `/run/neuronix/operation.lock` | acquire (non-blocking), release | one operation at a time, the lock always comes back |
| Transaction journal (`journal.py`) | JSON file of transactions, flock of its own | start, update, commit, abort, mark rolled back, dangling list, recovery, quarantine, chain verification | it explains the profile; recovery settles what was interrupted; terminal records stay |
| Update and staging (`update.py`) | the profile link, through nixos-rebuild | apply, stage, health check, automatic rollback | announced before it moves the link; an unhealthy update is undone |
| Rollback (`rollback.py`, `generation.py`) | the profile link | simulate, execute, verify | committed only if the link is at the target |
| Privileged operations (`operations.py`) | the store | rollback, gc, diet, optimise, trim | as above |
| Boot sentinel (`modules/core/sentinel.nix`) | `last-known-good`, `booting-generation`, the watchdog timer | seed, arm, confirm, fallback, confirmation by hand | the fallback's target did work here; a sick boot does not loop |
| Skill dispatcher (`skills.py`) | grants, pending and resolved proposals | execute, resolve, grant, revoke, consume | a gated skill runs for an agent only under a live grant; an approval is worth one call |
| Broker (`conductor_runtime/server.py`) | its dispatcher, tokens per agent, a second book of proposals | skills.invoke, authority.grant/revoke, proposal.resolve | the two books agree, the kept token is current |
| MCP bridge (`conductor_mcp/server.py`) | a dispatcher of its own | tools/call | as the dispatcher |
| Execution fabric (`uef/`), operational semantics (`osl/`) | a resolver with weights, the cache of program look-ups, scratch directories | evaluate, resolve, prepare, execute, receipt, clean up, certify | fail closed; one run at most, its directory given back before the answer; receipts say what happened |
| Containers (`container.py`) | a directory per name with `pid` and `ws_dir`, workspaces in RAM, image archives | session, stack, build, export, daemonize, stop | what runs has its workspace and can be stopped by name; the ephemeral leaves nothing |
| State engine, domain proofs, boot contract (`state.py`, `hyperion.py`, `boot_trust.py`) | documents they hand out | build, verify, prove, evaluate, advance | TRUSTED means live; an accepted proof is the one that was issued |
| Secrets (`secrets.py`) | a registry per process, one file per name | register, materialise, shred | no half-written plaintext, no key left behind, flags agree with the file |
| Storage planner (`storage_planner.py`) | used nonces, the mount table | plan, sign, the seven factors | what is destroyed was authorised for this device and plan, once |
| Control center (`neuronix_center.py`) | flags, a queue of callbacks, dialogs | upgrade, rollback, diet, check, refresh, close | one operation at a time; the window recovers and catches up |
| Daemon (Rust) | state store shared by connection threads | put, snapshot, branch, ephemeral sessions | no lost session, consistent snapshots |
| Shell front end | `/run/neuronix-operation.lock`, shadow VMs | upgrade, undo, diet, shadow | the same exclusion as the Python core |
| Installer | the target disk | partition, format, install, clean up | clean-up after each failing step |
| Observation, search, release tools | none or read-only | probes and reports | pure functions of their inputs |

How they interact. The shell front end, the broker's skills, neuronix-center and
the sentinel's fallback unit all end in `execute_rollback`,
`apply_system_update` or `stage_system_update`, each in a process of its own;
they meet at the operation lock, at the journal file and at the profile link.
`recover_dangling_transactions` calls `execute_rollback` with the journal's lock
held; `apply_system_update` calls it with the operation lock held. The broker
serves several clients from one event loop; the bridge has its own dispatcher.
`osl/coherence.py` asks that dispatcher's grants whether a mutation may run, and
hands the workload to the fabric's providers. The boot contract and the domain
proofs stand on the state engine. The control center starts the shell front end
as a command and learns of the profile by reading it again.

What is hard: two processes between their lock, journal and link accesses;
nested calls that meet their own lock; power loss or a kill between any two of
these steps; nix commands that outlive the process that ran them; a journal that
becomes unreadable while operations are in flight; recovery beside live
operations; the watchdog timer racing the confirmation; expiry, restart and
replay in the dispatcher; programs and grants that go between a check and its
use; pids that belong to somebody else after a reboot; leaves of a state read one
by one while it changes; a stop that waits for silent clients; worker threads and
timers that meet in unlocked flags. `PROJECT.json` lists each hazard at its line.

## 2. Modules

| Module | Models |
| --- | --- |
| `SystemTransactions`, `SystemTransactionsProofs` | lock, journal, recovery, update, stage, rollback, diet, gc and the upgrade skill; theorems |
| `Delegation`, `DelegationProofs` | dispatcher, broker and MCP bridge; theorems |
| `BootSentinel`, `BootSentinelProofs` | the sentinel's units, the confirmation by hand, operations and restarts around them; theorems |
| `ExecutionContract` | what the execution fabric promises a caller (abstract) |
| `ExecutionFabric`, `ExecutionFabricProofs` | envelope, resolver and the three providers, which implement the contract; theorems |
| `Containers`, `ContainersProofs` | the container engine; theorems |
| `Attestation`, `AttestationProofs` | state engine, domain proofs, boot contract; theorems |
| `SecretFabric` | materialised secrets |
| `StorageFirewall` | plans, signed authorizations and the seven factors |
| `TrustProofs` | theorems about `SecretFabric` and `StorageFirewall` |
| `BrokerSocket` | the broker's process, socket and framing |
| `ControlCenter` | the window, its workers and its queue |
| `SurfacesProofs` | theorems about `BrokerSocket` and `ControlCenter` |
| `MC*` | the sets the TLC configurations use; `MCTrust` and `MCSurfaces` compose components that share nothing |

### SystemTransactions

A process has two call frames: `op`, its operation, and `rb`, an
`execute_rollback` called from inside it. `pc` and `loc` are the frames' control
points and local variables; `active` and `gens` are the profile directory;
`opLock` is the frame that holds the flock (two descriptors of one process
exclude each other, as flock does); `jlock` is the process that holds the
journal's flock (re-entrant); `journal` is the file and `unusable` says that it
cannot be read or written: it does not parse, the directory cannot be made, the
disk is full. One action is one access to shared state:
`UpdateBegin`/`StageBegin` read the previous generation before the lock,
`Simulate` and `ReadActive` are the two reads of a rollback, `AcquireLock`,
`StartTransaction`, `Apply`, `RunCommand`, `HealthCheck`/`VerifyRollback`,
`FinishTransaction` and `ReleaseLock` are the common path;
`RecoverBegin`/`RecoverNext`/`RecoverRollbackReturns`/`RecoverMark`/`RecoverEnd`
are the recovery. A nix command is external: `Outcomes` is what it may leave
behind, a non-zero exit after the link moved included. `Kill`, `OrphanEnds`,
`Reboot`, `JournalFails` and `QuarantineAndReset` are the faults;
`JournalReturns` is the directory or the disk coming back without a quarantine.

`TransactionJournal()` and `start_transaction` run between `acquire` and `try`.
Either may raise: the model leaves the lock held, and `ExitProcess` is the kernel
closing the descriptor when a command-line process ends; a server (`Servers`)
keeps it.

There is one operation lock and one journal, as for privileged callers. Without
privilege `lock.py:37-61` and `journal.py:92-109` fall back to directories of the
user, which exclude nobody else; such callers cannot move the profile and are
left out.

### Delegation

`grants` holds every `DelegationRecord` ever made, `registry` the ids each
process knows, `pending` the dispatchers' open proposals, `srvPending` and
`srvResolved` the broker's second books, `tokens` and `tiers` its tables per
agent. `handled` is history: the handler calls agents obtained and the grant
each rested on. One action is one request: the handlers do not await between
their first and last access to the state. `RestartBroker` and `RestartMcp` lose
what was in memory; the ids of before the restart keep arriving.
Digests and signatures are taken as perfect: an input is its digest.

### BootSentinel

`link`, `gens`, `running` and `sick` are the machine, `lkg` and `booting` the two
files, `timer`, `conf`, `fb` the units. `conf` and `fb` step separately, so the
confirmation and the fallback overlap in every order. `Env` says what else
happens: the operations, operations before the confirmation (`window`), boots
from the menu (`menu`), confirmations by hand (`confirm`), and a
`switch-to-configuration` that leaves the link where it is (`drift`). A rebuild's
switch starts the watchdog timer again (`wantedBy = basic.target`); the confirm
unit, active already, does not run a second time, so nothing stops that timer.
The units have the same text in every generation. A confirmation by hand records
the link whatever the boot has come to, as neither front end asks; `byHand`
remembers what a person vouched for in this way.
`execute_rollback` and the other operations are one step between lock and end:
`SystemTransactions` has their insides, and `LinkMovesUnderLock` is what
justifies treating the move as one step of the lock's holder. Health means that
`graphical.target` is reached; why it is not is left open.

### ExecutionFabric and ExecutionContract

Callers are threads of one process: they share the resolver's `weights` and
`cache`, what `_find_binary` remembers for the life of the process. A call is
`Submit`, `Evaluate` (category, invariants, preflight and authorization of an
envelope), `Resolve` (the three `inspect`, the capability vectors and the
weighted score, in ten thousandths, so no digit is lost), `Prepare`, `Execute`,
`Finish` (the command ends, or its timeout does), `Receipt`, `Cleanup`,
`Certify`, `Answer`; a direct call uses a provider without an envelope. `host` is
the set of programs that exist, `granted` whether the agent's token is valid
now, `root` a number that grows when the host changes. Programs, grants, roots
and weights change between any two of these steps, and the process may be
killed. A killed process, and a `prepare` that raises after it made its directory,
leave that directory to nobody (`strays`). `Fits` is what a choice owes to a
request, stated with what each provider's `inspect` takes: a request for isolation
goes to the bare host only if no isolating provider takes it, which is always so
for the nix-closure format, with bubblewrap there or not.

`ExecutionContract` says what a caller can rely on: a submission is refused before
anything was set up, or is made ready, runs at most once, is cleaned up after and
then answered; the exception is `Abandon`, a preparation that raises and leaves its
directory, which the contract counts as litter. The refinement maps the control
point of a call to the contract's stage (`StageOf`) and `dirs` to the workspaces
held.

### Containers

Each call is a process of its own. `pidFile` and `wsFile` are the two files of a
name, `unit` the systemd user unit of the name, `proc` the process table,
`spaces` the workspaces under `/dev/shm`, `image` an archive being written.
`home`, `lost` and `strays` are history: what each workspace was made for, the
ones whose call died, raised, or gave up waiting for systemd, and the ones in
which something may run on out of the engine's reach: the signals of stop and of
a stack reach bubblewrap, which is started without `--die-with-parent`, so its
command may outlive it, and a `systemctl stop` that fails is not looked at.
`MayRunOn` is that choice. `Env` says what may
happen: systemd is there, it answers late, callers are killed, other programs get
the pids, two calls for one name run at a time. `os.kill` reaches another user's
process of that number or not (`Reached`).

### Attestation, SecretFabric, StorageFirewall

`Attestation` reads a state in eight steps, one per file or service, while `host`
and `clock` go on, so a leaf of several files may be torn; `job` is the call under
way, `saved` and `proof` what somebody kept and may have edited, `answer` the last
result, `seen` the hosts there were during the call. The roots have no key: an
editor may write into any field, the unbound ones included (a proof's top-level
nonce, exit code and tier; the trigger and the parent that `verify_state` copies
from the document), and compute the root again. The pass rate is rounded as Python
does. A digest is the value it was computed from.

`SecretFabric` has processes with a registry each and one file: key file, age,
temporary file, `os.replace`, and the shred's zeroing and unlinking are separate
steps; a process may die, and a write or an unlink may fail, between any two.
`strewn` are the key and temporary files, marked when nobody will remove them;
`history` counts the files put in place and remembers what a shred answered True to
and whose last shred failed. Threads of one process are not modelled: each engine is
used by one.

`StorageFirewall` evaluates the factors in the order of the code, with the mount
table read for factor 2 and again for factor 3. `Arguments` are the sets of things
a caller hands in (mounts, devices of the generation, leave to destroy them,
nonces, time, keys), each of which replaces what the function would have found
out; a file that cannot be read counts as empty. The device to destroy is not
compared with the plan's: the plan is its hash, which a signature binds beside the
device. `consumed` is lost at a restart, `life` tells the incarnations apart.

### BrokerSocket and ControlCenter

`BrokerSocket` cuts each line in two pieces and lets a read take any number of
them; `at` is where a client's handler waits. A broker of the systemd unit
(`Unit`) serves on systemd's socket and leaves the path alone unless its activation
fails; one started by hand, or by that failure, unlinks the path and binds it.
`path` is whose socket it leads to. `python` is the version: from 3.12 on
`wait_closed` waits for the connections, in front of the loop that would close
them, and from 3.13 on a server that closes removes its socket itself, and only
its own. `older`, `overtaken` and `outlived` are history: who ran when another
broker bound the path, and whose elder has stopped since. What a request does is
`Delegation`'s subject.

`ControlCenter` has one Tk thread, one worker for the operation and one for the
telemetry. A message box runs an event loop of its own, so timers and queued
callbacks run under it while buttons do not. A worker that raises ends without
its callback. Closing the window leaves its command behind (`orphans`).

## 3. Runs

| Run | Instance | Shows |
| --- | --- | --- |
| `TxConcurrent` | 2 processes, 3 operations of update/stage/rollback, 3 generations, 1 power loss | `TypeOK`, `JournalExplainsProfile`, `MovesUnderLock`, `MovesAreAnnounced`, `TerminalIsFinal` |
| `TxRecovery` | 2 processes, 2 operations and recoveries, 2 power losses, a journal that fails and comes back, quarantine | `RecoveryLeavesNothingDangling`, `RecoveryRollbackIsReal` |
| `TxFaults` | a server and a command-line process, 2 operations of all kinds but staging, a kill, an orphan, a journal that fails, quarantine; fair | `MutualExclusion`, `LeakNeedsFailure`, `OperationsEnd`, `LockComesBack` |
| `Delegation` | 1 agent, 1 gated skill, 2 inputs, 2 grants, 2 proposals, 2 calls, expiry, restarts | `ApprovalRunsOnce`, `GatedCallsAreDelegated`, `BooksAgree`, `KeptTokensAreCurrent`, `VerdictIsFinal` |
| `Sentinel` | 3 generations, 2 operations whose switch starts the timer again, 2 restarts, confirmations by hand at any time; fair | `FallbackLandsSafely`, `ConfirmsProven`, `Settles` |
| `Containers` | 2 callers, 1 name, 2 pids, 3 calls, 1 reboot; systemd, late answers, refused stops, commands that outlive bubblewrap, kills, reused pids | `NoRugPull`, `ProcsAreRecorded`, `EphemeralLeavesNothing` |
| `Fabric` | 2 threads, 2 calls, 9 kinds of submission over all formats, tiers and categories, 1 event (a program moves, a grant changes, weights change, a kill); fair | `ProviderFitsRequest`, `MutationsAreEntitled`, `ReceiptsTellTheTruth`, `CallsEnd`, `ImplementsContract` |
| `Trust` | attestation: 2 users, 2 calls, 2 changes of the host, 1 edit of any field with the root computed again or not; secrets: 2 processes, 2 versions, 5 steps, 1 fault; storage: 1 disk of 2 partitions, 1 authorization, 2 evaluations with 4 sets of arguments, unreadable files, 2 moves (mounts, restarts) | `TrustedMeansLive`, `TrustedProofsVerify`, `AcceptedProofsAreSound`, `CommitNeedsHealth`, `SecretsStayGated`, `NothingStrewn`, `FlagsTellTruth`, `DestructionIsAuthorized` |
| `Surfaces` | broker: 3 brokers (2 by hand, one of the unit), 3 starts, 1 kill or failed activation, or 2 brokers, 1 client, 2 lines; center: 3 presses, 2 windows, 2 moves of the profile; fair | `LinesAreAnsweredOnce`, `PathLeadsHome`, `StopSticksOnClientsOnly`, `OneOperation`, `WindowRecovers` |
| `TxAutoRollback` | 1 process, 1 update | violates `AutoRollbackRestores` |
| `SentinelDrift` | staging, a switch that leaves the link, 1 restart | violates `LkgIsProven` |
| `ContainersRelaunch` | 1 caller, systemd, 3 calls | violates `StopIsClean` |

Bounds. Two processes make every pair of steps interleave; the nested frame
gives each a second contender for the lock. Three generations let a rollback
skip one and an update follow a rollback. Two operations and two power losses
let a recovery be interrupted and recovered from; a third operation lets a
committed record be followed by two others. In `Delegation` two inputs tell a
bound token from a free one, two grants let one overwrite another, two proposals
and two calls let an approval be replayed; the times to live are all 0 and the
clock goes to 1, so each of them is met on both sides of its edge. Three
generations in `Sentinel` give an installed, a good and a sick one. In
`Containers` three calls launch, launch again and stop one name beside a session
or a stack of the other caller, and two pids let one be reused while the other
runs; one step of a call is one access to a file, so a name's two files are seen
half written. In `Fabric` one event may fall between any two steps of two calls; that is
what a check and its use need to differ, and the theorems hold for any number of
events. In `Trust` the second call judges what the first one handed out, after
at most two changes; 400 assertions with 2 or 3 failed put the pass rate on both
sides of Python's rounding. The four sets of arguments of the storage firewall
have each of the seven things a caller may hand in and each left out. In
`Surfaces` two lines in four pieces can be cut in the middle of either, and three
starts let a broker return after its successor, or let two successors of one
overtake each other.

The components of `Trust`, and of `Surfaces`, share no variable, so a behaviour
of them together is one of each: the run lets one step while the others rest in
their initial state. In `Attestation`, documents, proofs and boots meet through
the host alone; a behaviour makes calls of one of these kinds, and changes only
what these calls read. In `BrokerSocket` a behaviour has either three brokers
on the path, or a broker of each kind and lines of a client.

Deadlock is not checked: once the bounds are used up and nothing is under way the
system rests, as a machine with no request does.

Symmetry is used over processes only in runs without `Servers` and without
liveness, over inputs in `Delegation`, over callers and pids in `Containers` and
over layouts in `Trust`; no property names one of them. The `VIEW` of `Containers`
leaves out the local variables of callers that are idle: the next call sets them,
and no property looks at them.

Fairness. `TxFaults`: every process gets to step (strong fairness per process,
since the step "take the journal's lock" is enabled only now and then and the
kernel wakes every waiter on unlock), and a nix command ends, because the code
waits for it without a timeout. `Sentinel`: systemd runs the units it started and
fires the timer it armed; reaching `graphical.target` is not fair. `Fabric`: each
thread gets to step; a command ends because `subprocess.run` has a timeout and
kills it. `Surfaces`: the event loop serves every handler that can go on, Tk's
timers fire, the telemetry worker runs and the queue is polled. Requests, faults,
what users and clients do, and the commands of the control center (which have no
timeout) are not fair.

## 4. What the violating runs show

- `TxAutoRollback`: `apply_system_update` calls `execute_rollback` while it holds
  the operation lock. The second descriptor finds the lock busy, the rollback
  answers 126, and the transaction is marked ROLLED_BACK with the profile at the
  unhealthy generation.
- `SentinelDrift`: an explicit rollback target is activated through its own
  `switch-to-configuration`. If that script does not move the profile link, the
  fallback gives up, yet the activated generation brings up the desktop, and the
  confirm unit records the link: the sick generation becomes last-known-good.
  Every later boot of it is then "restored" to itself and rebooted.
- `ContainersRelaunch`: a launch, a launch again and a stop, all of which succeed.
  The pid file of a systemd unit holds `SYSTEMD_USER`, which is no number; the
  second launch takes the unit for dead, starts a plain process and overwrites
  `pid` and `ws_dir`. Stop ends that process; the unit runs on in a workspace that
  nothing names. `StopIsClean` leaves out what other paths leave behind: units
  systemd refused to stop, and calls that raised.

Met while modelling, without a run of their own:

- recovery takes every PENDING or APPLYING transaction for interrupted without
  taking the operation lock, so it may mark the transaction of a live update
  (`journal.py:275`); `RecoveryRollbackIsReal` therefore speaks of recoveries
  that no other process's transaction overlaps;
- the upgrade skill runs nixos-rebuild with neither lock nor journal
  (`skills.py:755`); `MovesUnderLock` is checked and proved without it;
- a nixos-rebuild that outlives a killed updater moves the link outside the lock;
- `TransactionJournal()` and `start_transaction` run after `acquire` and before
  `try` (`update.py:298`, `rollback.py:74`): a full disk or a damaged file there
  leaves a server with the operation lock until it ends, and other processes'
  operations are refused as busy; `LockComesBack` excepts these servers;
- the documentation calls the human delegation of an `AI_AGENT` unbypassable
  (`docs/specifications/21_conductor_master_architecture_charter.md:51`,
  `19_neuronix_skill_system_specification.md:135`), and the broker takes
  `sovereign_override` from any client's parameters (`server.py:326`), which the
  dispatcher honours for that principal too (`skills.py:434`).
  `GatedCallsAreDelegated` speaks of the calls that do not set it;
- `authority.grant` for an agent that has a token forgets the older token, which
  stays valid in the registry; `surface.state` counts a pending proposal in both
  books; a proposal of the MCP bridge lives in a dispatcher that no
  `proposal.resolve` reaches;
- the shell's lock file (`/run/neuronix-operation.lock`) is another file than the
  Python core's (`/run/neuronix/operation.lock`);
- `neuronix sentinel confirm` and the MCP tool record the link, which after a
  staged update is not the booted generation, whether or not the desktop came up:
  a sick generation confirmed by hand is last-known-good from then on, and each
  later boot of it falls back to itself and reboots; they stop the timer only
  after writing (`distro.sh:486`), so the fallback may already run and overtake
  the confirmation;
- a switch in a boot that is confirmed starts the watchdog timer again, the
  confirm unit stays active and does not stop it, so a healthy update is rolled
  back a minute later;
- the signals of a container's stop and of a stack reach the bubblewrap process
  only, and the status of `systemctl stop` is not looked at: what runs inside can
  live on in a workspace that is removed under it (`container.py:555`, `:861`); a
  stack whose second service cannot be started raises with the first one running;
- a `prepare` that raises after `mkdtemp` leaves its directory
  (`oci_provider.py:443`); a nix-closure workload that asks for isolation runs on
  the bare host;
- a leaf of the state is read from several files, so a `TRUSTED` document may join
  values of different moments; `TrustedMeansLive` speaks of each value by itself;
- the root of a domain proof has no key, `verify_domain_proof` falls back to the
  proof's own top-level nonce (`hyperion.py:456`) and takes exit code and tier
  from outside the root: whoever can edit a proof and compute its root again has
  it accepted, and `AcceptedProofsAreSound` says what remains;
- a shred whose write or unlink fails leaves a zeroed or truncated file under an
  entry that says materialized, and one that unlinks after another process has
  put a fresh plaintext in place unlinks that without zeroing, where the docstring
  says the file is overwritten before; a key file whose write fails stays
  (`secrets.py:314`);
- the storage firewall takes an unreadable mount table for an empty one
  (`storage_planner.py:220`, `:250`), lets its caller switch the third factor off
  (`:282`), and supply the nonces and the time (`:284`, `:364`), and does not
  compare the plan's device with the one to destroy;
- a broker started by hand beside the unit's takes the path away from it for
  good, and one that stops late removes its successor's socket
  (`server.py:104`, and the end of `stop`);
- two calls for one container name at a time overwrite each other's files: with
  `race` in `Env`, TLC finds `ProcsAreRecorded` and `NoRugPull` violated;
- two writers of one archive path both report success; pids are not checked
  against what runs under them, so stop may signal a stranger;
- a mutation checked under a grant still runs when the grant is revoked before
  the command starts; a program missing at its first look-up stays missing for
  the life of the process;
- from Python 3.12 on a silent client keeps `stop` waiting until systemd's
  `TimeoutStopSec`; a multi-byte character split over two reads is mangled;
- the control center's automatic refresh overwrites an error status, a worker
  that raises leaves the window busy, closing the window orphans the command, and
  the command-line mode goes on after a failed step.

## 5. Theorems

All theorems hold for every set of processes, every bound and every value of the
other constants that the named assumptions allow. Every safety invariant and
action property of the passing runs is stated by one of them. A premise in a
theorem names something the code does that breaks the property; each is a state
of affairs the machine can be in, and TLC's runs contain behaviours within it.

`SystemTransactionsProofs`

- `TypeCorrect`: `TypeOK`, inductive as it stands once it says that the ids the
  frames hold are in the journal's domain.
- `LockCorrect`: `MutualExclusion`. The invariant `LockInv` adds `FramesOK`:
  each frame is at a control point of its operation and the inner frame runs
  only while the outer one waits. Without it an inner frame could be at a
  release while its process runs something else.
- `JournalExplains`: `JournalExplainsProfile`, by `ExplainInv`: nothing bypasses
  the lock (`NoBypass`), the transaction of an operation under way is its own,
  not committed, and the youngest of its kind (`TransactionsOK`), and what is
  about to be committed is where the link is (`VerifiedIsActive`). Premises: no
  process is killed alone and the upgrade skill is not used; section 4 says why.
- `LinkMovesUnderLock`: `MovesUnderLock`, from the same invariant.
- `LeaksNeedFailure`: `LeakNeedsFailure`, by `LeakInv`, which adds that the journal
  is unusable only after a failure: the one way out of `acquire` that does not come
  to `release` is a `TransactionJournal()` or a `start_transaction` that raises. No
  premise.
- `TerminalStaysFinal`: `TerminalIsFinal`, by `OwnInv`: without a recovery only its
  owner writes a transaction, which is dangling until the owner settles it
  (`OwnTransactionsOK`). `update_transaction` itself accepts any change of state.
  Premises: no recovery, which marks the transactions of live operations
  (section 4), and no quarantine, which forgets the old records.
- `MovesAreWrittenAhead`: `MovesAreAnnounced`, from `OwnInv` and `ExplainInv`: the
  record of the frame whose command moves the link is APPLYING. Premises: those of
  the two invariants, that is, no process is killed alone (its command would move
  the link after its death), no upgrade skill, no recovery, no quarantine.
- `RecoverySettlesAll`: `RecoveryLeavesNothingDangling`, by `RecoveryInv`. A
  recovery holds the journal's lock throughout, so every dangling record is
  `Accounted` for: on its list, the one it is settling, the one its nested rollback
  has open, or the journal failed under it, and then the recovery does not end
  well; what operation each record is of is known (`OpsRecorded`), because the property
  excepts the record of a nested rollback when the journal failed under it and came
  back. No premise: processes are killed, machines restart, journals fail.
- `RecoveryTellsTruth`: `RecoveryRollbackIsReal`, by `RealInv`. `RollbackOK` follows
  the goal from the record through the nested rollback's argument, target and
  verification; after that rollback has released the operation lock, another
  process can move the link only from inside a transaction, which it can neither
  open nor leave without the journal's lock (`Restored`). Premises: no process is
  killed alone, no upgrade skill.

`BootSentinelProofs`

- `SentinelTypes`: from `SafeInv`, which adds that nothing has started before the
  sentinel is armed.
- `ConfirmsOnlyProven`: from `AssessInv`: until a boot is confirmed, and unless
  the fallback has touched it, the link is the running generation, and once the
  desktop is up that generation is in `reached`. Premises: no operation before
  the confirmation, no boot from the menu.
- `LkgStaysProven`, `FallbackStaysSafe`: from `ProvenInv`, which follows the vouched
  generation (one that reached the desktop, was seeded at the installation, or was
  confirmed by hand) through the file, the fallback's copy and the link; with it,
  `FallbackLandsSafely` for any number of rebuilds, restarts, confirmations by hand
  and timers a switch starts again. Premises: none of `window`, `menu`, `drift`.

`DelegationProofs` (no premise beyond `DelegationAssumption`)

- `DelegationTypes`, `BooksStayEqual`, `VerdictsAreFinal`: from `BooksInv`, which
  adds that what is pending in the broker has no verdict yet. The approval grant
  of a proposal is made in the request that pops it, so a restart between the
  two cannot happen.
- `TokensStayCurrent`: from `TokensInv`, which adds that no kept token is
  single-use, hence that `execute` never consumes one.
- `ApprovalsRunOnce`: from `ApprovalInv`. A single-use grant is bound to the
  skill and input of a proposal whose verdict is APPROVE (`ApprovalsBound`), no
  two grants come from one proposal (`ApprovalsUnique`, because the proposal was
  open when its grant was made), and a call under a single-use grant has consumed
  it (`CallsFit`, because consumption comes before the handler).
- `GatedCallsStayDelegated`: from `GatedInv`; a grant never changes its tier,
  scope or end, and is revoked only after the calls it has covered.

`ExecutionFabricProofs` (no premise beyond the assumptions on submissions and
bounds)

- `FabricImplementsContract`: the refinement. `Types` is the invariant; the
  initial state maps to the contract's, and every step maps to one of its steps
  (`Submit`, `Refuse`, `Abandon`, `Prepare`, `Run`, `CleanUp`, `Answer`, `Die`) or
  leaves stage, workspaces and litter alone.
- `MutationsStayEntitled`: from `EntitlementInv`: from the end of the evaluation
  to the run, the call of a mutation remembers a clearance it had; and an agent
  whose token is valid now is known to have had it in this call.
- `ReceiptsStayTruthful`: from `TruthfulInv`: roots only grow, so the root of a
  receipt is not older than the run; an exit code 0 comes from a command that
  ran; the fail-closed check stands before every answer to a mutation.
- `ProvidersFit`: from `ChosenInv`. The scores of the three providers are
  compared for every format and tier under the default weights (`BestFits`): the
  weighted sums never trade a request's isolation for anything else, up to formats
  that no isolating provider takes; the choice fits what the cache said, and stays
  fitting because the cache keeps its answers (`Remembers`).

`ContainersProofs` (from `EnvAssumption`: the words the model uses for a session,
a stack, an archive and so on are not names or process ids)

- `TypeCorrect`, `EphemeralCallsClean`: from `EphemeralInv`. Each step of a call fits
  its operation and has a workspace of its own (`CallOK`, `Apart`), and every
  ephemeral workspace, service and half-written archive has somebody who will
  remove it, was lost by a call that died or raised, or is a workspace in which
  something runs on out of the engine's reach (`Held`). No premise: it holds beside
  calls that race for a name.
- `NoWorkspacePulledAway`, `DaemonsCanBeStopped`: from `DaemonInv`, which says what a
  launch or a stop knows of the two files of its name at each of its steps
  (`StepOK`), that a daemon's process has its workspace and a record, or a call
  that is writing it (`DaemonOK`), and the same for units (`UnitOK`), but for a stop
  systemd refused and a call that died, raised or gave up. Premise:
  `"race" \notin Env`, no two calls for one name at a time; the engine has no lock,
  and section 4 says what happens otherwise.

`AttestationProofs` (about `AttestSpec`, from `AttestAssumption`)

- `TrustIsLive`, `AcceptanceIsSound`, `JudgesAgree`, `CommitIsHealthy`: from
  `AttestInv`. A call remembers which hosts it lived through; every value it has
  read, and every boot stage it has passed, was one of theirs (`JobInv`); a proof
  that was kept is the one the host issued but for the fields somebody wrote into,
  its root among them (`ProofInv`). A trusted document needs no trust in who kept
  it, since its values are compared with the host; an accepted proof does, and
  `AcceptanceIsSound` says field by field which edits it survives. The bound of
  half a percent is proved for every number of assertions from the rounding of the
  pass rate.

`TrustProofs` (about `SecretSpec` and `FirewallSpec`)

- `SecretTypeCorrect`, `SecretsAreGated`, `NoFileIsStrewn`, `FlagsAreTrue`: from
  `SecretInv`: a call past the key step has the capability and a recipient's key
  (`Entitled`); files are put in place in the order of their numbers, none of which
  a shred that said it was done leaves behind (`Numbered`); and the file is the one
  a process's entry speaks of until another process touches it or its own shred
  answers False (`OwnFile`). Kills, failed writes and failed unlinks are allowed.
- `FirewallTypeCorrect`, `DestructionNeedsAuthority`: from `FirewallInv`: what an
  evaluation has established when it comes to the authorization, as far as the
  function was left to find it out and could read the files (`AskInv`, `Spared`),
  and that the nonces granted in this life of the process are consumed when it
  keeps them itself (`NoncesKept`). Arguments, remounts, unreadable files, restarts
  and ticks come between any two steps.

`SurfacesProofs` (about `BrokerSpec` and `CenterSpec`)

- `PathIsTheServers`: from `PathInv`: of two running brokers with sockets of their
  own one is older and has been overtaken, so the path is the youngest's until an
  older one stops late; and it is the unit's until a broker binds it.
- `LinesAreFramed`: from `LinesInv`: the lines a client has sent are those that were
  dispatched, then those whose halves are in the handler's buffer or still on the
  wire, piece by piece; only a client that is gone leaves a last half missing
  (`Framed`). Reads may cut the stream anywhere.
- `OneAtATime`: from `CenterInv`: there is one running worker or one queued end of an
  operation, which keeps the window busy, and a question is open only while it is
  not (`Single`).

Only model-checked: the liveness properties `OperationsEnd`, `LockComesBack`,
`Settles`, `CallsEnd`, `StopSticksOnClientsOnly` and `WindowRecovers`, which rest on
fairness and hence on ENABLED, out of the prover's reach. The counterexamples of
section 4 are TLC's.

## 6. Plan

1. `ProfileSwitch`: an abstract specification (the link moves atomically from one
   recorded generation to another) that `SystemTransactions` implements, proved
   with `ExplainInv`.
2. `JournalChain`: the hash chain of the journal, `created_at` taken before the
   lock against a verification that sorts by it.
3. `Daemon`: the state store and ephemeral sessions shared by connection threads.
4. `ShellFrontEnd` and `Installer`: the second lock file, the shadow VM, the
   steps of the install engine and their clean-up.
5. `Terminal`: the conductor's client, proposal cards and virtual terminal.

## 7. Not modelled

- The daemon, the conductor terminal, the shell front end, the installer and the
  daemon's client have state and are in the plan.
- Observation (vital, doctor, topology, telemetry, facter, mesh), search and
  tuning, release tools: read-only probes, text search, one-shot sysctl writes and
  checks of files, without a protocol.
- The automatic update service is a timer around `nixos-rebuild boot`: the move of
  the link it causes is the stage operation of `BootSentinel`.
- In modelled components: network look-ups and dry runs change no state; the
  arithmetic of partitions and layouts, certificates, widgets and wording are left
  out; seccomp profiles and bubblewrap arguments are what a sandbox is made of,
  not steps. Cryptography is taken as perfect where a model uses it.
