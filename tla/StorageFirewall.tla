-------------------------- MODULE StorageFirewall --------------------------
(***************************************************************************)
(* The storage firewall (storage_planner.py): plans, the operator's signed *)
(* authorizations and the seven factors that stand before a destructive    *)
(* operation.                                                              *)
(*                                                                         *)
(* evaluate_7_factors reads the mount table for factor 2, and for factor 3 *)
(* the table again and the kernel's command line; a file it cannot read    *)
(* counts as empty.  Mounts change in between, time passes, and a restart  *)
(* of the process forgets the nonces it has seen.  Its caller may hand in  *)
(* the mounts, the devices, the nonces and the time, and switch factor 3   *)
(* off.  A device is a disk or one of its partitions (part 0 is the whole  *)
(* disk); a volume of the device mapper hides the disk below it.  A plan   *)
(* is its own hash and an Ed25519 signature binds what it signs.           *)
(***************************************************************************)
EXTENDS Naturals, FiniteSets

CONSTANTS Disks, Layouts, Signers,
          Arguments,  \* what callers hand in: sets of the names in Given
          MaxTime, MaxSigned, MaxAsked, MaxMoves

(* The mounts, the devices of the generation, leave to destroy them, the   *)
(* nonces, the time, the operators' keys, and the word that it is empty.   *)
Given == {"mounts", "devices", "generation", "nonces", "time", "keys", "empty"}

ASSUME FirewallAssumption == Arguments \subseteq SUBSET Given

VARIABLES mounts,     \* critical mounts: the devices the mount table names
          root,       \* root= of the kernel's command line
          now,
          signed,     \* the authorizations operators have signed
          consumed,   \* CONSUMED_NONCES
          ask,        \* the evaluation under way
          granted,    \* history: what the firewall has authorized
          life,       \* history: the process's incarnation
          asked, moves

firewallVars == <<mounts, root, now, signed, consumed, ask, granted, life, asked, moves>>

Devices == [disk : Disks, part : 0 .. 2]
Mapper == [disk |-> "mapper", part |-> 0]
Base(dev) == [dev EXCEPT !.part = 0]

(* generate_plan: the layout, its device included, decides the steps, and  *)
(* so the hash.  simulate_execution returns that hash whether or not it    *)
(* finds errors in the plan.                                               *)
Plan(layout) == <<"plan", layout>>

NoAsk == [step |-> "idle"]

(* sign_storage_authorization, by an operator with a key of his own.       *)
Sign(dev, layout, signer) ==
    /\ Cardinality(signed) < MaxSigned
    /\ signed' = signed \cup {[nonce |-> Cardinality(signed) + 1, device |-> dev,
                               plan |-> Plan(layout), clearance |-> signer.clearance,
                               trusted |-> signer.trusted, expiry |-> now + 1]}
    /\ UNCHANGED <<mounts, root, now, consumed, ask, granted, life, asked, moves>>

-----------------------------------------------------------------------------
(* A file that cannot be read is taken for an empty one.                   *)
Unreadable == moves < MaxMoves /\ moves' = moves + 1

(* Factors 1 and 2: the target is not, and does not contain, the device of *)
(* a critical mount.                                                       *)
Mounted(dev) == \E m \in mounts : m = dev \/ (dev.part = 0 /\ m.disk = dev.disk)

(* Factor 3 looks at whole disks: the target's disk carries no critical    *)
(* mount and is not the one the kernel was told to boot from.              *)
ActiveDevices(read) ==
    LET named == (IF "mounts" \in read THEN mounts ELSE {})
                   \cup (IF "root" \in read THEN {root} ELSE {})
    IN  named \cup {Base(m) : m \in named}
HostsGeneration(dev, read) ==
    dev \in ActiveDevices(read) \/ Base(dev) \in ActiveDevices(read)

(* History: no critical mount is on the disk.                              *)
Quiet(dev) == \A m \in mounts : m.disk # dev.disk

(* Nothing holds the plan, a hash to this function, against the device.    *)
Ask(dev, plan, expected, token, auth, given) ==
    /\ ask = NoAsk /\ asked < MaxAsked
    /\ asked' = asked + 1
    /\ \/ /\ "mounts" \notin given /\ Mounted(dev)
          /\ ask' = NoAsk /\ UNCHANGED moves
       \/ /\ IF "mounts" \in given \/ ~ Mounted(dev) THEN UNCHANGED moves ELSE Unreadable
          /\ ask' = [step |-> "generation", device |-> dev, plan |-> plan,
                     expected |-> expected, token |-> token, auth |-> auth, given |-> given,
                     quiet |-> Quiet(dev), read |-> {}]
    /\ UNCHANGED <<mounts, root, now, signed, consumed, granted, life>>

(* Factor 3, unless it is switched off or the devices are handed in.       *)
Generation ==
    /\ ask # NoAsk /\ ask.step = "generation"
    /\ IF ask.given \cap {"generation", "devices"} # {}
       THEN ask' = [ask EXCEPT !.step = "authorize"] /\ UNCHANGED moves
       ELSE \E read \in SUBSET {"mounts", "root"} :
               /\ IF read = {"mounts", "root"} THEN UNCHANGED moves ELSE Unreadable
               /\ ask' = IF HostsGeneration(ask.device, read) THEN NoAsk
                         ELSE [ask EXCEPT !.step = "authorize", !.read = read]
    /\ UNCHANGED <<mounts, root, now, signed, consumed, granted, life, asked>>

(* The token an operator types names the device and the plan.              *)
Token(dev, plan) == <<dev, plan>>

(* Factor 5: the hash that was simulated, and factors 4 and 6: the typed   *)
(* token, unless the disk is said to be empty.                             *)
Confirmed(a) ==
    /\ a.plan = a.expected
    /\ "empty" \notin a.given => a.token = Token(a.device, a.plan)

(* The nonces and the time that count: the process's own and the clock's,  *)
(* or an empty set and an earlier time of the caller's.                    *)
Nonces(a) == IF "nonces" \in a.given THEN {} ELSE consumed
Time(a) == IF "time" \in a.given THEN 0 ELSE now

(* Mutation: the signature is not held against the plan.                   *)
AuthorizationValidUnbound(a) ==
    /\ a.auth.clearance \in {"STORAGE_ADMIN", "DISASTER_RECOVERY_OPERATOR", "ROOT"}
    /\ a.auth.nonce \notin Nonces(a)
    /\ a.auth.expiry > Time(a)
    /\ "keys" \in a.given => a.auth.trusted

(* Factor 7, verify_storage_authorization.                                 *)
AuthorizationValid(a) ==
    /\ a.auth.clearance \in {"STORAGE_ADMIN", "DISASTER_RECOVERY_OPERATOR", "ROOT"}
    /\ a.auth.nonce \notin Nonces(a)
    /\ a.auth.expiry > Time(a)
    /\ "keys" \in a.given => a.auth.trusted
    /\ a.auth.device = a.device /\ a.auth.plan = a.plan

Authorize ==
    /\ ask # NoAsk /\ ask.step = "authorize"
    /\ ask' = NoAsk
    /\ IF Confirmed(ask) /\ AuthorizationValid(ask)
       THEN /\ consumed' = IF "nonces" \in ask.given THEN consumed
                           ELSE consumed \cup {ask.auth.nonce}
            /\ granted' = granted \cup {[ask |-> ask, life |-> life, time |-> now, number |-> asked]}
       ELSE UNCHANGED <<consumed, granted>>
    /\ UNCHANGED <<mounts, root, now, signed, life, asked, moves>>

-----------------------------------------------------------------------------

(* A critical file system is mounted or unmounted.                         *)
Remount ==
    /\ moves < MaxMoves
    /\ moves' = moves + 1
    /\ \E m \in {d \in Devices : d.part > 0} \cup {Mapper} :
          mounts' = IF m \in mounts THEN mounts \ {m} ELSE mounts \cup {m}
    /\ ask' = IF ask = NoAsk THEN NoAsk
              ELSE [ask EXCEPT !.quiet = @ \/ \A m \in mounts' : m.disk # ask.device.disk]
    /\ UNCHANGED <<root, now, signed, consumed, granted, life, asked>>

ClockTicks ==
    /\ now < MaxTime
    /\ now' = now + 1
    /\ UNCHANGED <<mounts, root, signed, consumed, ask, granted, life, asked, moves>>

RestartProcess ==
    /\ moves < MaxMoves
    /\ moves' = moves + 1
    /\ life' = life + 1
    /\ consumed' = {} /\ ask' = NoAsk
    /\ UNCHANGED <<mounts, root, now, signed, granted, asked>>

FirewallInit ==
    /\ mounts \in {{}, {Mapper}} \cup {{[disk |-> d, part |-> 1]} : d \in Disks}
    /\ root \in mounts \cup {Mapper}
    /\ now = 0 /\ signed = {} /\ consumed = {} /\ granted = {}
    /\ ask = NoAsk
    /\ life = 0 /\ asked = 0 /\ moves = 0

FirewallNext ==
    \/ \E dev \in Devices, layout \in Layouts, signer \in Signers : Sign(dev, layout, signer)
    \/ \E dev \in Devices, layout, simulated \in Layouts, auth \in signed,
          given \in Arguments :
          \E token \in {Token(dev, Plan(layout)), Token(auth.device, Plan(simulated))} :
              Ask(dev, Plan(layout), Plan(simulated), token, auth, given)
    \/ Generation \/ Authorize
    \/ Remount \/ ClockTicks \/ RestartProcess

FirewallSpec == FirewallInit /\ [][FirewallNext]_firewallVars

(* evaluate_7_factors: what is authorized was signed by an operator of     *)
(* clearance for this device and this plan's hash, and the operator typed  *)
(* both for a disk that was not said to be empty.  As far as the caller    *)
(* left it to the function: it had not expired; no two authorizations of   *)
(* one process rest on one nonce; and the disk carried no critical mount   *)
(* at some moment of the evaluation, and is not the one of root=, each if  *)
(* factor 3 could read the file that says so.                              *)
DestructionIsAuthorized ==
    \A g \in granted :
        LET a == g.ask
        IN  /\ a.auth \in signed /\ a.auth.clearance # "USER"
            /\ a.auth.device = a.device /\ a.auth.plan = a.plan
            /\ "empty" \notin a.given => a.token = Token(a.device, a.plan)
            /\ "time" \notin a.given => g.time < a.auth.expiry
            /\ \A f \in granted : f.life = g.life /\ f.ask.auth.nonce = a.auth.nonce
                  /\ "nonces" \notin f.ask.given \cup a.given => f = g
            /\ a.given \cap {"generation", "devices"} = {} =>
                  /\ "mounts" \in a.read => a.quiet
                  /\ "root" \in a.read => root.disk # a.device.disk

=============================================================================
