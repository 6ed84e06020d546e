----------------------------- MODULE Containers -----------------------------
(***************************************************************************)
(* The container engine (container.py): workspaces in RAM, foreground      *)
(* sessions, stacks of services, image archives, and background daemons    *)
(* that a directory per name under ~/.local/share/neuronix/containers      *)
(* remembers.                                                              *)
(*                                                                         *)
(* Every call runs in a process of its own (src/commands/container.sh) and *)
(* takes no lock: one action is one access to the file system, to systemd  *)
(* or to the process table.  What runs inside a container, and the files a *)
(* workspace holds, are left open.                                         *)
(***************************************************************************)
EXTENDS Naturals, Sequences, FiniteSets

CONSTANTS
    Callers,      \* processes that call the engine
    Names,        \* names of background containers
    Pids,         \* the kernel's process ids, reused
    NoPid,        \* no process id
    Env,          \* what happens around the engine, see EnvAssumption
    MaxCalls,     \* bound: calls
    MaxReboots    \* bound: power losses

(* systemd: systemd-run is there and XDG_RUNTIME_DIR is set; timeout: it   *)
(* may answer too late; interrupt: a caller is killed; reuse: other        *)
(* programs get the pids; race: two calls for one name at a time.          *)
ASSUME EnvAssumption ==
    /\ Env \subseteq {"systemd", "timeout", "interrupt", "reuse", "race"}
    /\ NoPid \notin Pids
    /\ {"SYSTEMD_USER", "session", "stack", "archive", "other", "none"} \cap (Pids \cup Names \cup {NoPid}) = {}
    /\ Pids \cap Names = {}
    /\ MaxCalls \in Nat /\ MaxReboots \in Nat

VARIABLES
    pc,       \* where each caller is
    loc,      \* its local variables
    dirs,     \* the names that have a runtime directory
    pidFile,  \* runtime_dir/pid; NoPid is no file
    wsFile,   \* runtime_dir/ws_dir; 0 is no file
    unit,     \* the workspace the user unit of a name runs in; 0: not running
    proc,     \* the process table: what each pid is, and its workspace
    spaces,   \* the workspaces under /dev/shm, by number
    image,    \* the archive at the output path, and the workspace of its last writer
    home,     \* history: what each workspace ever made was made for
    lost,     \* history: the workspaces whose call was interrupted, raised or timed out
    strays,   \* history: the workspaces in which something may run on unseen
    calls, reboots

disk == <<dirs, pidFile, wsFile>>
vars == <<pc, loc, dirs, pidFile, wsFile, unit, proc, spaces, image, home, lost, strays, calls, reboots>>

Ephemeral == {"session", "stack", "archive"}

Op == {"daemonize", "stop"} \cup Ephemeral

Step == {"idle", "check", "unlink", "allocate", "stage", "unit", "launch", "recordPid",
         "recordWs", "read", "kill", "vaporize", "remove", "run", "serve", "terminate",
         "teardown", "open", "write"}

Local == [op : Op, name : Names \cup Ephemeral, ws : Nat,
          val : Pids \cup {NoPid, "SYSTEMD_USER"}, pids : SUBSET Pids]

Free == [what |-> "none", ws |-> 0]

Process == [what : Names \cup {"stack", "other", "none"}, ws : Nat]

(* The type invariant; files and processes name workspaces that were made. *)
TypeOK ==
    /\ pc \in [Callers -> Step]
    /\ loc \in [Callers -> Local]
    /\ dirs \subseteq Names
    /\ pidFile \in [Names -> Pids \cup {NoPid, "SYSTEMD_USER"}]
    /\ wsFile \in [Names -> 0 .. Len(home)]
    /\ unit \in [Names -> 0 .. Len(home)]
    /\ proc \in [Pids -> Process]
    /\ spaces \subseteq 1 .. Len(home)
    /\ image \in [state : {"none", "writing", "torn", "mixed", "whole"}, by : 0 .. Len(home)]
    /\ home \in Seq(Names \cup Ephemeral)
    /\ lost \subseteq 1 .. Len(home) /\ strays \subseteq 1 .. Len(home)
    /\ calls \in 0 .. MaxCalls /\ reboots \in 0 .. MaxReboots

Alive(p) == proc[p] # Free

(* Whether os.kill reaches a process of that number: not if there is none, *)
(* and not if it is another user's.                                        *)
Reached(val) ==
    IF val \notin Pids THEN {FALSE}
    ELSE IF proc[val].what = "other" THEN BOOLEAN ELSE {Alive(val)}

-----------------------------------------------------------------------------
(* Calls.                                                                  *)

(* The commands container, container compose, container build and export,  *)
(* container daemon and container stop.  No lock keeps two calls for one   *)
(* name apart; without "race" their callers do.                            *)
Call(c, op, n) ==
    /\ pc[c] = "idle" /\ calls < MaxCalls
    /\ IF op \in Ephemeral THEN n = op ELSE n \in Names
    /\ n \in Names /\ "race" \notin Env => \A d \in Callers : pc[d] # "idle" => loc[d].name # n
    /\ calls' = calls + 1
    /\ loc' = [loc EXCEPT ![c] = [op |-> op, name |-> n, ws |-> 0, val |-> NoPid, pids |-> {}]]
    /\ pc' = [pc EXCEPT ![c] = CASE op = "daemonize" -> "check"
                                 [] op = "stop" -> "read"
                                 [] OTHER -> "allocate"]
    /\ UNCHANGED <<disk, unit, proc, spaces, home, lost, strays, reboots, image>>

Goto(c, step) == pc' = [pc EXCEPT ![c] = step]

(* The call raises: nothing after the raising line runs.                   *)
Raise(c) ==
    /\ Goto(c, "idle")
    /\ lost' = lost \cup ({loc[c].ws} \ {0})

(* A signal, or an end, reaches the bwrap process or the shell it was      *)
(* meant for.  The command inside bwrap, started without --die-with-parent,*)
(* or what a shell without bwrap left behind, ends as well or runs on.     *)
MayRunOn(w) == strays' \in {strays, strays \cup ({w} \ {0})}

(* rmtree(ignore_errors=True): with somebody still writing, files stay.    *)
Rmtree(w) == spaces' \in {spaces \ {w}} \cup (IF w \in strays THEN {spaces} ELSE {})

-----------------------------------------------------------------------------
(* Workspaces: setup_ram_workspace and teardown_container.                 *)

(* mkdtemp, or no writable tmpfs.                                          *)
Allocate(c) ==
    /\ pc[c] = "allocate"
    /\ \/ /\ spaces' = spaces \cup {Len(home) + 1}
          /\ home' = Append(home, loc[c].name)
          /\ loc' = [loc EXCEPT ![c].ws = Len(home) + 1]
          /\ Goto(c, "stage")
       \/ Goto(c, "idle") /\ UNCHANGED <<spaces, home, loc>>
    /\ UNCHANGED <<disk, unit, proc, lost, strays, calls, reboots, image>>

(* What is staged is ready.                                                *)
Staged(c) ==
    /\ Goto(c, CASE loc[c].op = "session" -> "run"
                 [] loc[c].op = "stack" -> "serve"
                 [] loc[c].op = "archive" -> "open"
                 [] OTHER -> IF "systemd" \in Env THEN "unit" ELSE "launch")
    /\ UNCHANGED spaces

(* Mutation: a target that cannot be staged is left where it is.           *)
StageForgetful(c) ==
    /\ pc[c] = "stage"
    /\ \/ Staged(c)
       \/ Goto(c, "idle") /\ UNCHANGED spaces
    /\ UNCHANGED <<loc, disk, unit, proc, home, lost, strays, calls, reboots, image>>

(* An image is pulled, a repository cloned, a directory copied; a failure  *)
(* of any of the three removes the workspace, but a git that is not there  *)
(* raises.  An archive's layer is put together in a temporary directory    *)
(* that goes in the same way.                                              *)
Stage(c) ==
    /\ pc[c] = "stage"
    /\ \/ Staged(c) /\ UNCHANGED lost
       \/ Goto(c, "idle") /\ spaces' = spaces \ {loc[c].ws} /\ UNCHANGED lost
       \/ loc[c].op \in {"session", "daemonize"} /\ Raise(c) /\ UNCHANGED spaces
    /\ UNCHANGED <<loc, disk, unit, proc, home, strays, calls, reboots, image>>

(* teardown_container: copying the files out may raise (only a session     *)
(* has an export path); the workspace then stays.                          *)
Teardown(c) ==
    /\ pc[c] = "teardown"
    /\ \/ /\ Rmtree(loc[c].ws)
          /\ Goto(c, "idle")
          /\ UNCHANGED lost
       \/ /\ loc[c].op = "session"
          /\ Raise(c)
          /\ UNCHANGED spaces
    /\ UNCHANGED <<loc, disk, unit, proc, home, strays, calls, reboots, image>>

-----------------------------------------------------------------------------
(* Sessions and stacks.                                                    *)

(* run_container_session waits for the command.                            *)
SessionEnds(c) ==
    /\ pc[c] = "run"
    /\ MayRunOn(loc[c].ws)
    /\ Goto(c, "teardown")
    /\ UNCHANGED <<loc, disk, unit, proc, spaces, home, lost, calls, reboots, image>>

(* run_stack_session starts what it can start; a service that cannot start *)
(* is reported as failed.  An entry of the stack file that is no mapping   *)
(* raises, after the services before it have been started.                 *)
Serve(c) ==
    /\ pc[c] = "serve"
    /\ \E S \in SUBSET {p \in Pids : ~ Alive(p)} :
          /\ proc' = [p \in Pids |-> IF p \in S THEN [what |-> "stack", ws |-> loc[c].ws] ELSE proc[p]]
          /\ loc' = [loc EXCEPT ![c].pids = S]
    /\ \/ Goto(c, "terminate") /\ UNCHANGED lost
       \/ Raise(c)
    /\ UNCHANGED <<disk, unit, spaces, home, strays, calls, reboots, image>>

(* terminate, wait a second, kill, each to the child itself; a service     *)
(* that ended by itself is a child that poll has collected.                *)
Terminate(c) ==
    /\ pc[c] = "terminate"
    /\ proc' = [p \in Pids |-> IF p \in loc[c].pids /\ proc[p].ws = loc[c].ws THEN Free ELSE proc[p]]
    /\ MayRunOn(loc[c].ws)
    /\ Goto(c, "teardown")
    /\ UNCHANGED <<loc, disk, unit, spaces, home, lost, calls, reboots, image>>

-----------------------------------------------------------------------------
(* build_container_oci and export_container_oci.                           *)

Writing(c) == pc[c] = "write" /\ loc[c].ws = image.by /\ image.state = "writing"

(* A write that ended early.                                               *)
Torn == [image EXCEPT !.state = "torn"]

(* Only when all the parts are there is the output opened, and truncated;  *)
(* a second writer of the same path finds the first one's bytes in it.     *)
OpenArchive(c) ==
    /\ pc[c] = "open"
    /\ \/ /\ image' = [state |-> IF \E d \in Callers : pc[d] = "write" THEN "mixed" ELSE "writing",
                       by |-> loc[c].ws]
          /\ Goto(c, "write")
       \/ Goto(c, "teardown") /\ UNCHANGED image
    /\ UNCHANGED <<loc, disk, unit, proc, spaces, home, lost, strays, calls, reboots>>

(* The parts are added, or the device is full.                             *)
WriteArchive(c) ==
    /\ pc[c] = "write"
    /\ image' \in (IF Writing(c) THEN {[image EXCEPT !.state = "whole"], Torn} ELSE {image})
    /\ Goto(c, "teardown")
    /\ UNCHANGED <<loc, disk, unit, proc, spaces, home, lost, strays, calls, reboots>>

-----------------------------------------------------------------------------
(* daemonize_container_session.                                            *)

(* The pid file names a process that a signal reaches, its own or another  *)
(* one: the daemon is taken for running.  Anything else in it,             *)
(* SYSTEMD_USER included, is no number of such a process.                  *)
CheckName(c) ==
    LET n == loc[c].name
    IN  /\ pc[c] = "check"
        /\ dirs' = dirs \cup {n}
        /\ \E running \in Reached(pidFile[n]) :
              Goto(c, CASE pidFile[n] = NoPid -> "allocate"
                        [] running -> "idle"
                        [] OTHER -> "unlink")
        /\ UNCHANGED <<loc, pidFile, wsFile, unit, proc, spaces, home, lost, strays, calls, reboots, image>>

UnlinkPid(c) ==
    /\ pc[c] = "unlink"
    /\ pidFile' = [pidFile EXCEPT ![loc[c].name] = NoPid]
    /\ Goto(c, "allocate")
    /\ UNCHANGED <<loc, dirs, wsFile, unit, proc, spaces, home, lost, strays, calls, reboots, image>>

(* systemd-run: a unit of that name must not exist.  If it fails, or does  *)
(* not answer within five seconds, a plain process is started instead.     *)
LaunchUnit(c) ==
    LET n == loc[c].name
    IN  /\ pc[c] = "unit"
        /\ \/ /\ unit[n] = 0
              /\ unit' = [unit EXCEPT ![n] = loc[c].ws]
              /\ \/ /\ loc' = [loc EXCEPT ![c].val = "SYSTEMD_USER"]
                    /\ Goto(c, "recordPid")
                    /\ UNCHANGED lost
                 \/ /\ "timeout" \in Env
                    /\ Goto(c, "launch")
                    /\ lost' = lost \cup {loc[c].ws}
                    /\ UNCHANGED loc
           \/ Goto(c, "launch") /\ UNCHANGED <<unit, loc, lost>>
        /\ UNCHANGED <<disk, proc, spaces, home, strays, calls, reboots, image>>

(* Popen, with its log in the runtime directory.                           *)
Launch(c) ==
    /\ pc[c] = "launch"
    /\ \/ /\ \E p \in Pids :
                /\ ~ Alive(p)
                /\ proc' = [proc EXCEPT ![p] = [what |-> loc[c].name, ws |-> loc[c].ws]]
                /\ loc' = [loc EXCEPT ![c].val = p]
          /\ Goto(c, "recordPid")
          /\ UNCHANGED lost
       \/ Raise(c) /\ UNCHANGED <<proc, loc>>
    /\ UNCHANGED <<disk, unit, spaces, home, strays, calls, reboots, image>>

(* Mutation: the pid is not written.                                       *)
RecordPidNot(c) ==
    /\ pc[c] = "recordPid"
    /\ Goto(c, "recordWs")
    /\ UNCHANGED <<loc, disk, unit, proc, spaces, home, lost, strays, calls, reboots, image>>

(* Two files are written, one after the other.                             *)
RecordPid(c) ==
    /\ pc[c] = "recordPid"
    /\ pidFile' = [pidFile EXCEPT ![loc[c].name] = loc[c].val]
    /\ Goto(c, "recordWs")
    /\ UNCHANGED <<loc, dirs, wsFile, unit, proc, spaces, home, lost, strays, calls, reboots, image>>

RecordWs(c) ==
    /\ pc[c] = "recordWs"
    /\ wsFile' = [wsFile EXCEPT ![loc[c].name] = loc[c].ws]
    /\ Goto(c, "idle")
    /\ UNCHANGED <<loc, dirs, pidFile, unit, proc, spaces, home, lost, strays, calls, reboots, image>>

-----------------------------------------------------------------------------
(* stop_container_daemon.                                                  *)

ReadPid(c) ==
    /\ pc[c] = "read"
    /\ loc' = [loc EXCEPT ![c].val = pidFile[loc[c].name]]
    /\ Goto(c, IF pidFile[loc[c].name] = NoPid THEN "idle" ELSE "kill")
    /\ UNCHANGED <<disk, unit, proc, spaces, home, lost, strays, calls, reboots, image>>

(* Mutation: the workspace goes first.                                     *)
KillDaemonNot(c) ==
    /\ pc[c] = "kill"
    /\ Goto(c, "vaporize")
    /\ UNCHANGED <<loc, disk, unit, proc, spaces, home, lost, strays, calls, reboots, image>>

(* systemctl stop, whose status nobody reads, or SIGTERM and SIGKILL to    *)
(* whatever has that pid now.                                              *)
KillDaemon(c) ==
    LET n == loc[c].name
        v == loc[c].val
    IN  /\ pc[c] = "kill"
        /\ \/ /\ v = "SYSTEMD_USER"
              /\ \/ unit' = [unit EXCEPT ![n] = 0] /\ UNCHANGED strays
                 \/ UNCHANGED unit /\ strays' = strays \cup ({unit[n]} \ {0})
              /\ UNCHANGED proc
           \/ /\ v # "SYSTEMD_USER" /\ TRUE \in Reached(v)
              /\ proc' = [proc EXCEPT ![v] = Free]
              /\ MayRunOn(proc[v].ws)
              /\ UNCHANGED unit
           \/ /\ v # "SYSTEMD_USER" /\ FALSE \in Reached(v)
              /\ UNCHANGED <<unit, proc, strays>>
        /\ Goto(c, "vaporize")
        /\ UNCHANGED <<loc, disk, spaces, home, lost, calls, reboots, image>>

Vaporize(c) ==
    /\ pc[c] = "vaporize"
    /\ Rmtree(wsFile[loc[c].name])
    /\ Goto(c, "remove")
    /\ UNCHANGED <<loc, disk, unit, proc, home, lost, strays, calls, reboots, image>>

RemoveDir(c) ==
    LET n == loc[c].name
    IN  /\ pc[c] = "remove"
        /\ dirs' = dirs \ {n}
        /\ pidFile' = [pidFile EXCEPT ![n] = NoPid]
        /\ wsFile' = [wsFile EXCEPT ![n] = 0]
        /\ Goto(c, "idle")
        /\ UNCHANGED <<loc, unit, proc, spaces, home, lost, strays, calls, reboots, image>>

-----------------------------------------------------------------------------
(* Around the engine.                                                      *)

(* A command ends, or its process is killed by somebody else.              *)
ProcExits(p) ==
    /\ Alive(p)
    /\ proc' = [proc EXCEPT ![p] = Free]
    /\ MayRunOn(proc[p].ws)
    /\ UNCHANGED <<pc, loc, disk, unit, spaces, home, lost, calls, reboots, image>>

UnitExits(n) ==
    /\ unit[n] # 0
    /\ unit' = [unit EXCEPT ![n] = 0]
    /\ UNCHANGED <<pc, loc, disk, proc, spaces, home, lost, strays, calls, reboots, image>>

Reuse(p) ==
    /\ "reuse" \in Env /\ ~ Alive(p)
    /\ proc' = [proc EXCEPT ![p] = [what |-> "other", ws |-> 0]]
    /\ UNCHANGED <<pc, loc, disk, unit, spaces, home, lost, strays, calls, reboots, image>>

(* The caller is killed; no handler of the engine catches that.            *)
Interrupt(c) ==
    /\ "interrupt" \in Env /\ pc[c] # "idle"
    /\ Raise(c)
    /\ image' = IF Writing(c) THEN Torn ELSE image
    /\ UNCHANGED <<loc, disk, unit, proc, spaces, home, strays, calls, reboots>>

(* Memory is gone, the runtime directories are not.                        *)
Reboot ==
    /\ reboots < MaxReboots
    /\ reboots' = reboots + 1
    /\ pc' = [c \in Callers |-> "idle"]
    /\ unit' = [n \in Names |-> 0]
    /\ proc' = [p \in Pids |-> Free]
    /\ spaces' = {}
    /\ image' = IF \E c \in Callers : Writing(c) THEN Torn ELSE image
    /\ UNCHANGED <<loc, disk, home, lost, strays, calls>>

Init ==
    /\ pc = [c \in Callers |-> "idle"]
    /\ loc = [c \in Callers |-> [op |-> "stop", name |-> "session", ws |-> 0, val |-> NoPid, pids |-> {}]]
    /\ dirs = {}
    /\ pidFile = [n \in Names |-> NoPid]
    /\ wsFile = [n \in Names |-> 0]
    /\ unit = [n \in Names |-> 0]
    /\ proc = [p \in Pids |-> Free]
    /\ spaces = {}
    /\ image = [state |-> "none", by |-> 0]
    /\ home = <<>>
    /\ lost = {} /\ strays = {}
    /\ calls = 0 /\ reboots = 0

Next ==
    \/ \E c \in Callers :
          \/ \E op \in Op, n \in Names \cup Ephemeral : Call(c, op, n)
          \/ Allocate(c) \/ Stage(c) \/ Teardown(c)
          \/ SessionEnds(c) \/ Serve(c) \/ Terminate(c)
          \/ OpenArchive(c) \/ WriteArchive(c)
          \/ CheckName(c) \/ UnlinkPid(c) \/ LaunchUnit(c) \/ Launch(c)
          \/ RecordPid(c) \/ RecordWs(c)
          \/ ReadPid(c) \/ KillDaemon(c) \/ Vaporize(c) \/ RemoveDir(c)
          \/ Interrupt(c)
    \/ \E p \in Pids : ProcExits(p) \/ Reuse(p)
    \/ \E n \in Names : UnitExits(n)
    \/ Reboot

Spec == Init /\ [][Next]_vars

-----------------------------------------------------------------------------
(* Properties.                                                             *)

(* stop_container_daemon kills before it removes, and removes what its     *)
(* name's file says: the process or the unit of a daemon still has its     *)
(* workspace.  A process always has; a unit may lose it when the stop      *)
(* that systemd was asked for failed, or when a call for that name died,   *)
(* raised or gave up waiting for systemd.  What outlives its bwrap process *)
(* is in no table of the engine's, and has no such protection.             *)
NoRugPull ==
    /\ \A p \in Pids : proc[p].what \in Names => proc[p].ws \in spaces
    /\ \A n \in Names :
          unit[n] # 0 => unit[n] \in spaces \cup strays \/ \E w \in lost : home[w] = n

(* A call for the name n that has made its container and not recorded it.  *)
Recording(n, w) ==
    \E c \in Callers : pc[c] = "recordPid" /\ loc[c].name = n /\ loc[c].ws = w

(* daemonize_container_session: a detached container that still runs can   *)
(* be stopped by its name, through dead predecessors, reused pids, units   *)
(* of the same name and reboots, unless its caller died on the way.        *)
ProcsAreRecorded ==
    \A p \in Pids :
        LET n == proc[p].what
        IN  n \in Names => \/ pidFile[n] = p
                           \/ proc[p].ws \in lost
                           \/ Recording(n, proc[p].ws)

(* A session, a stack or an archive that ends without having been killed   *)
(* or raised leaves no child process and no archive that nobody writes to  *)
(* any more, whichever of its steps failed; and it leaves no files in RAM  *)
(* unless something it started, out of reach of its signals, runs on there.*)
EphemeralLeavesNothing ==
    LET held == {loc[c].ws : c \in {d \in Callers : pc[d] # "idle"}} \cup lost
    IN  /\ \A w \in spaces : home[w] \in Ephemeral => w \in held \cup strays
        /\ \A p \in Pids : proc[p].what = "stack" => proc[p].ws \in held
        /\ image.state = "writing" => \E c \in Callers : Writing(c)

(* What the manual says of stop, as far as the engine's own signals reach: *)
(* once the directory of a name is gone, no unit of that name runs that    *)
(* systemd did not refuse to stop, and no process of that name but one     *)
(* whose daemonize raised or died.                                         *)
StopIsClean ==
    [][\A n \in dirs \ dirs' :
          /\ unit'[n] # 0 => unit'[n] \in strays' \cup lost'
          /\ \A p \in Pids : proc'[p].what = n => proc'[p].ws \in lost']_vars

=============================================================================
