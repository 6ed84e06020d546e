---------------------------- MODULE BootSentinel ----------------------------
(***************************************************************************)
(* The boot sentinel of modules/core/sentinel.nix: the units that assess   *)
(* every boot.  A watchdog timer is armed early; the confirm unit stops it *)
(* once graphical.target is reached and records the generation of the      *)
(* profile link as last-known-good; if the timer elapses first, the        *)
(* fallback unit rolls back to last-known-good and reboots.                *)
(*                                                                         *)
(* The units, the operations on the profile, a person who runs `neuronix   *)
(* sentinel confirm` and power losses interleave.  execute_rollback and    *)
(* the other operations are one step each between their lock and their     *)
(* end: SystemTransactions models their insides, and shows that the link   *)
(* only moves under the operation lock.                                    *)
(***************************************************************************)
EXTENDS Naturals, FiniteSets, FiniteSetsExt

CONSTANTS
    Env,          \* what people and timers do besides booting
    MaxGen,       \* bound: the highest generation
    MaxChanges,   \* bound: operations on the profile
    MaxRestarts   \* bound: reboots and power losses the sentinel did not ask for

(* "window": operations also run before the boot is confirmed; "menu": the *)
(* boot menu is used; "confirm": the command-line and MCP confirmation;    *)
(* "drift": the switch-to-configuration script of a generation activates   *)
(* it and leaves the profile link where it is.                             *)
Operation == {"stage", "update", "rollback", "gc"}

ASSUME SentinelAssumption ==
    /\ Env \subseteq Operation \cup {"window", "menu", "confirm", "drift"}
    /\ MaxGen \in Nat \ {0}
    /\ MaxChanges \in Nat
    /\ MaxRestarts \in Nat

Generation == 1 .. MaxGen

VARIABLES
    link,       \* the generation of /nix/var/nix/profiles/system
    gens,       \* the generations that exist
    sick,       \* the ones that never reach graphical.target
    running,    \* the generation that was booted or switched to
    lkg,        \* /var/lib/neuronix/last-known-good; 0: no file
    booting,    \* /run/neuronix/booting-generation; 0: no file
    phase,      \* how far the boot is
    graphical,  \* graphical.target was reached in this boot
    timer,      \* the watchdog timer is running
    conf,       \* the confirm unit
    fb,         \* the fallback unit
    last,       \* its LAST_GOOD
    emergency,  \* the state of the youngest emergency_sentinel_rollback
    manual,     \* a confirmation by hand is between its two steps
    op,         \* the operation that holds the operation lock
    changes,    \* operations so far
    restarts,   \* restarts so far
    reached,    \* history: generations that reached graphical.target
    seeds,      \* history: generations the activation script recorded
    byHand      \* history: generations a person recorded

vars == <<link, gens, sick, running, lkg, booting, phase, graphical, timer, conf, fb,
          last, emergency, manual, op, changes, restarts, reached, seeds,
          byHand>>

disk == <<link, gens, sick>>
boot == <<running, phase, graphical>>
units == <<timer, conf, fb, last, emergency, manual>>
history == <<changes, restarts, reached, seeds, byHand>>

(* The type invariant; the link and the running generation are never lost. *)
TypeOK ==
    /\ link \in gens
    /\ gens \subseteq Generation
    /\ sick \subseteq Generation
    /\ running \in Generation
    /\ lkg \in {0} \cup Generation
    /\ booting \in {0} \cup Generation
    /\ phase \in {"activate", "basic", "up"}
    /\ graphical \in BOOLEAN
    /\ timer \in BOOLEAN
    /\ conf \in {"wait", "record", "done"}
    /\ fb \in {"idle", "read", "rollback", "verify", "done"}
    /\ last \in {0} \cup Generation
    /\ emergency \in {"none", "PENDING", "COMMITTED", "FAILED"}
    /\ manual \in BOOLEAN
    /\ op \in Operation \cup {"none"}
    /\ changes \in Nat
    /\ restarts \in Nat
    /\ reached \subseteq Generation
    /\ seeds \subseteq Generation
    /\ byHand \subseteq Generation

-----------------------------------------------------------------------------
(* Booting.                                                                *)

(* /run is empty, every unit is new, the lock of a dead process is free.   *)
BootInto(g) ==
    /\ running' = g
    /\ phase' = "activate"
    /\ graphical' = FALSE
    /\ booting' = 0
    /\ timer' = FALSE
    /\ conf' = "wait"
    /\ fb' = "idle"
    /\ last' = 0
    /\ manual' = FALSE
    /\ op' = "none"

(* The boot loader starts the generation of the link unless somebody picks *)
(* another one from its menu.                                              *)
Restart ==
    /\ restarts < MaxRestarts
    /\ restarts' = restarts + 1
    /\ \E g \in gens : (g = link \/ "menu" \in Env) /\ BootInto(g)
    /\ UNCHANGED <<disk, lkg, emergency, changes, reached, seeds, byHand>>

(* neuronixSentinelState, at boot and at every switch.                     *)
Seed ==
    IF lkg = 0 THEN lkg' = link /\ seeds' = seeds \cup {link}
               ELSE UNCHANGED <<lkg, seeds>>

Activate ==
    /\ phase = "activate"
    /\ Seed
    /\ phase' = "basic"
    /\ UNCHANGED <<disk, units, running, graphical, booting, op, changes, restarts, reached,
                   byHand>>

(* neuronix-boot-sentinel; the timer is wanted by basic.target as well.    *)
Arm ==
    /\ phase = "basic"
    /\ booting' = link
    /\ timer' = TRUE
    /\ phase' = "up"
    /\ UNCHANGED <<disk, history, running, graphical, lkg, conf, fb, last, emergency, manual, op>>

(* graphical.target is ordered after the sentinel.                         *)
GraphicalReached ==
    /\ phase = "up"
    /\ ~ graphical
    /\ running \notin sick
    /\ graphical' = TRUE
    /\ reached' = reached \cup {running}
    /\ UNCHANGED <<disk, units, running, phase, lkg, booting, op, changes, restarts, seeds,
                   byHand>>

-----------------------------------------------------------------------------
(* neuronix-boot-confirm.                                                  *)

(* Mutation: the unit is not ordered after graphical.target.               *)
ConfirmStopEarly ==
    /\ phase = "up"
    /\ conf = "wait"
    /\ timer' = FALSE
    /\ conf' = "record"
    /\ UNCHANGED <<disk, boot, history, lkg, booting, fb, last, emergency, manual, op>>

ConfirmStop ==
    /\ graphical
    /\ conf = "wait"
    /\ timer' = FALSE
    /\ conf' = "record"
    /\ UNCHANGED <<disk, boot, history, lkg, booting, fb, last, emergency, manual, op>>

ConfirmRecord ==
    /\ conf = "record"
    /\ lkg' = link
    /\ booting' = 0
    /\ conf' = "done"
    /\ UNCHANGED <<disk, boot, history, timer, fb, last, emergency, manual, op>>

(* neuronix sentinel confirm and the MCP tool: the file is written first   *)
(* and the timer stopped after it; the write may fail for want of rights.  *)
(* Neither asks how far the boot is, nor whether the link's generation is  *)
(* the one that runs.                                                      *)
ManualRecord ==
    /\ "confirm" \in Env
    /\ phase = "up"
    /\ ~ manual
    /\ \/ lkg' = link /\ booting' = 0 /\ byHand' = byHand \cup {link}
       \/ UNCHANGED <<lkg, booting, byHand>>
    /\ manual' = TRUE
    /\ UNCHANGED <<disk, boot, changes, restarts, reached, seeds, timer, conf, fb, last,
                   emergency, op>>

ManualStop ==
    /\ manual
    /\ timer' = FALSE
    /\ manual' = FALSE
    /\ UNCHANGED <<disk, boot, history, lkg, booting, conf, fb, last, emergency, op>>

-----------------------------------------------------------------------------
(* neuronix-boot-fallback.                                                 *)

(* switch-to-configuration starts every active target again, and with      *)
(* basic.target the watchdog timer it wants, however long ago that one was *)
(* stopped.  The confirm unit stays active and does not run again.         *)
Switched(happens, g) ==
    /\ running' = IF happens THEN g ELSE running
    /\ timer' = (timer \/ happens)

(* A timer that elapses while the unit is running starts nothing.          *)
WatchdogFires ==
    /\ timer
    /\ timer' = FALSE
    /\ fb' = IF fb \in {"idle", "done"} THEN "read" ELSE fb
    /\ UNCHANGED <<disk, boot, history, lkg, booting, conf, last, emergency, manual, op>>

(* The timer is stopped, LAST_GOOD is read and the emergency transaction   *)
(* is started; when the journal or the core raises there is no rollback.   *)
(* The file exists: the activation script ran before.                      *)
FallbackRead ==
    /\ fb = "read"
    /\ timer' = FALSE
    /\ last' = lkg
    /\ \/ emergency' = "PENDING" /\ fb' = "rollback"
       \/ UNCHANGED emergency /\ fb' = "verify"
    /\ UNCHANGED <<disk, boot, history, lkg, booting, conf, manual, op>>

(* execute_rollback(LAST_GOOD): refused for a generation that is gone or   *)
(* already active and while another operation holds the lock; the switch   *)
(* may fail, before or after the link moved and the target was activated.  *)
FallbackRollback ==
    LET valid == last \in gens /\ last # link /\ op = "none"
    IN  /\ fb = "rollback"
        /\ fb' = "verify"
        /\ \E moved, switched, rc0 \in BOOLEAN :
              /\ (moved \/ switched \/ rc0) => valid
              /\ switched => moved \/ "drift" \in Env
              /\ link' = IF moved THEN last ELSE link
              /\ Switched(switched, last)
              /\ emergency' = IF rc0 /\ moved THEN "COMMITTED" ELSE "FAILED"
        /\ UNCHANGED <<gens, sick, phase, graphical, history, lkg, booting, conf, last,
                       manual, op>>

(* Mutation: the reboot does not depend on where the link is.              *)
FallbackVerifyNot ==
    /\ fb = "verify"
    /\ BootInto(link)
    /\ UNCHANGED <<disk, history, lkg, emergency>>

(* Whatever the rollback answered, a link at LAST_GOOD means a reboot.     *)
FallbackVerify ==
    /\ fb = "verify"
    /\ IF link = last
       THEN BootInto(link)
       ELSE /\ fb' = "done"
            /\ UNCHANGED <<boot, booting, timer, conf, last, manual, op>>
    /\ UNCHANGED <<disk, history, lkg, emergency>>

-----------------------------------------------------------------------------
(* The operations on the profile.                                          *)

OperationBegin(o) ==
    /\ o \in Env
    /\ phase = "up"
    /\ conf = "done" \/ "window" \in Env
    /\ op = "none"
    /\ changes < MaxChanges
    /\ op' = o
    /\ changes' = changes + 1
    /\ UNCHANGED <<disk, boot, units, lkg, booting, restarts, reached, seeds, byHand>>

(* nixos-rebuild boot or switch makes a generation that may be sick; only  *)
(* a switch runs it, its activation script and the timer.                  *)
RebuildEnds ==
    LET g == Max(gens) + 1
    IN  /\ op \in {"stage", "update"}
        /\ g <= MaxGen
        /\ link' = g
        /\ gens' = gens \cup {g}
        /\ sick' \in {sick, sick \cup {g}}
        /\ Switched(op = "update", g)
        /\ op' = "none"
        /\ IF op = "update" THEN Seed ELSE UNCHANGED <<lkg, seeds>>
        /\ UNCHANGED <<phase, graphical, conf, fb, last, emergency, manual, booting, changes,
                       restarts, reached, byHand>>

RollbackEnds ==
    /\ op = "rollback"
    /\ \E g \in gens, switched \in BOOLEAN : link' = g /\ Switched(switched, g)
    /\ op' = "none"
    /\ UNCHANGED <<gens, sick, phase, graphical, conf, fb, last, emergency, manual, history,
                   lkg, booting>>

CollectEnds ==
    /\ op = "gc"
    /\ \E G \in SUBSET gens : link \in G /\ gens' = G
    /\ op' = "none"
    /\ UNCHANGED <<link, sick, boot, units, history, lkg, booting>>

OperationFails ==
    /\ op # "none"
    /\ op' = "none"
    /\ UNCHANGED <<disk, boot, units, history, lkg, booting>>

-----------------------------------------------------------------------------
(* A fresh installation; its first generation may be sick.                 *)
Init ==
    /\ link = 1 /\ gens = {1} /\ running = 1
    /\ sick \in SUBSET {1}
    /\ lkg = 0 /\ booting = 0 /\ last = 0
    /\ phase = "activate"
    /\ graphical = FALSE /\ timer = FALSE /\ manual = FALSE
    /\ conf = "wait" /\ fb = "idle" /\ op = "none"
    /\ emergency = "none"
    /\ changes = 0 /\ restarts = 0
    /\ reached = {} /\ seeds = {} /\ byHand = {}

(* The steps systemd takes by itself.                                      *)
Unit ==
    \/ Activate
    \/ Arm
    \/ ConfirmStop
    \/ ConfirmRecord
    \/ WatchdogFires
    \/ FallbackRead
    \/ FallbackRollback
    \/ FallbackVerify

Next ==
    \/ Unit
    \/ Restart
    \/ GraphicalReached
    \/ ManualRecord
    \/ ManualStop
    \/ \E o \in Operation : OperationBegin(o)
    \/ RebuildEnds
    \/ RollbackEnds
    \/ CollectEnds
    \/ OperationFails

Spec == Init /\ [][Next]_vars

(* systemd runs the units it has started and fires the timer it has armed. *)
FairSpec == Spec /\ WF_vars(Unit)

-----------------------------------------------------------------------------
(* Properties.                                                             *)

(* What speaks for a generation: it reached graphical.target, it is the    *)
(* one the installation started with, or a person confirmed it.            *)
Vouched == reached \cup seeds \cup byHand

(* The fallback reboots the machine into a vouched generation only, also   *)
(* when it and the confirm unit run side by side, when a rebuild's switch  *)
(* started its timer in a boot long confirmed, and when people stage,      *)
(* switch, roll back and collect generations between its read of           *)
(* last-known-good and its reboot.                                         *)
FallbackLandsSafely ==
    [][FallbackVerify /\ phase' = "activate" => running' \in Vouched]_vars

(* The boot of a sick generation does not hang, and does not loop: if      *)
(* last-known-good is there and healthy, a healthy generation runs in      *)
(* the end, or the fallback has given up after a switch that failed, or a  *)
(* person confirms the boot, who may well confirm the sick generation.     *)
Settles ==
    (phase # "up" /\ running \in sick /\ lkg \in gens \ sick)
        ~> (running \notin sick \/ fb = "done" \/ manual)

(* A boot the fallback did not touch is confirmed for what it showed: the  *)
(* unit records the generation of the link, not the running one, and this  *)
(* generation did reach graphical.target.                                  *)
ConfirmsProven == [][ConfirmRecord /\ fb = "idle" => lkg' \in reached]_vars

(* What last-known-good promises: the fallback's target is a generation    *)
(* that did reach graphical.target, the one the installation started with, *)
(* or one a person confirmed.                                              *)
LkgIsProven == lkg \in {0} \cup Vouched

-----------------------------------------------------------------------------
(* The inductive strengthenings.                                           *)

(* Before the sentinel is armed nothing else has started in this boot.     *)
FreshBoot ==
    phase # "up" => /\ conf = "wait" /\ fb = "idle" /\ op = "none"
                    /\ ~ graphical /\ ~ timer

SafeInv == TypeOK /\ FreshBoot

(* In a boot that is not confirmed and that no fallback has touched, the   *)
(* link stands where it stood when the boot loader read it.                *)
StillLink ==
    /\ conf # "done" => op = "none"
    /\ conf = "record" => graphical
    /\ (conf # "done" /\ fb = "idle") => link = running
    /\ (conf # "done" /\ fb = "idle" /\ graphical) => running \in reached

AssessInv == SafeInv /\ StillLink

(* The file, the copy the fallback holds and the link of an unconfirmed    *)
(* boot are vouched generations, or the boot is still out to prove its own. *)
ProvenInv ==
    /\ AssessInv
    /\ LkgIsProven
    /\ phase # "activate" => lkg # 0
    /\ fb \in {"rollback", "verify"} => last \in Vouched
    /\ conf # "done" => link = running \/ link \in Vouched
    /\ (conf # "done" /\ graphical) => link \in Vouched

=============================================================================
