-------------------------- MODULE ContainersProofs --------------------------
(***************************************************************************)
(* Theorems about Containers, for any callers, names and process ids and   *)
(* any number of calls and power losses.  What is said of ephemeral        *)
(* workspaces holds whatever runs at the same time; what is said of        *)
(* daemons, whose files no lock protects, holds when no two calls for one  *)
(* name overlap.                                                           *)
(***************************************************************************)
EXTENDS Containers, TLAPS, SequenceTheorems

(* The steps at which a call has a workspace of its own.                   *)
Holding == {"stage", "unit", "launch", "recordPid", "recordWs", "run", "serve", "terminate",
            "teardown", "open", "write"}

Made(w, n) == w \in 1 .. Len(home) /\ home[w] = n

(* A caller's step fits its operation, its name and its workspace.         *)
CallOK(c) ==
    /\ pc[c] \in {"check", "unlink", "unit", "launch", "recordPid", "recordWs"} =>
          loc[c].op = "daemonize" /\ loc[c].name \in Names
    /\ pc[c] \in {"read", "kill", "vaporize", "remove"} => loc[c].name \in Names
    /\ pc[c] \in {"allocate", "stage"} =>
          \/ loc[c].op = "daemonize" /\ loc[c].name \in Names
          \/ loc[c].op \in Ephemeral /\ loc[c].name = loc[c].op
    /\ pc[c] = "run" => loc[c].name = "session"
    /\ pc[c] \in {"serve", "terminate"} => loc[c].name = "stack"
    /\ pc[c] \in {"open", "write"} => loc[c].name = "archive"
    /\ pc[c] = "teardown" => loc[c].name \in Ephemeral
    /\ pc[c] \in Holding => Made(loc[c].ws, loc[c].name)
    /\ pc[c] \notin Holding \cup {"idle"} => loc[c].ws = 0

Apart ==
    \A c, d \in Callers :
        pc[c] \in Holding /\ pc[d] \in Holding /\ loc[c].ws = loc[d].ws => c = d

(* What files, units and processes name was made for them.                 *)
Homes ==
    /\ \A n \in Names : /\ wsFile[n] # 0 => Made(wsFile[n], n)
                        /\ unit[n] # 0 => Made(unit[n], n)
    /\ \A p \in Pids : IF proc[p].what \in Names \cup {"stack"}
                       THEN Made(proc[p].ws, proc[p].what) ELSE proc[p].ws = 0

(* The services of a stack that is still there are about to be terminated. *)
Services ==
    \A p \in Pids, c \in Callers :
        proc[p].what = "stack" /\ pc[c] \in Holding /\ proc[p].ws = loc[c].ws =>
            pc[c] = "terminate" /\ p \in loc[c].pids

(* A workspace that somebody still answers for, or that a call lost.       *)
Held(w) == w \in lost \/ \E c \in Callers : pc[c] # "idle" /\ loc[c].ws = w

SpacesHeld == \A w \in spaces : home[w] \in Ephemeral => Held(w) \/ w \in strays
ServicesHeld == \A p \in Pids : proc[p].what = "stack" => Held(proc[p].ws)
ArchiveHeld == image.state = "writing" => \E c \in Callers : Writing(c)

EphemeralInv ==
    /\ TypeOK
    /\ \A c \in Callers : CallOK(c)
    /\ Apart /\ Homes /\ Services
    /\ SpacesHeld /\ ServicesHeld /\ ArchiveHeld

-----------------------------------------------------------------------------

(* No two calls for one name of a daemon overlap.                          *)
Exclusive ==
    \A c, d \in Callers :
        /\ pc[c] # "idle" /\ pc[d] # "idle"
        /\ loc[c].name = loc[d].name /\ loc[c].name \in Names
        => c = d

Kept == \A c \in Callers : pc[c] \in Holding => loc[c].ws \in spaces

LostName(n) == \E w \in lost : home[w] = n

NotRecorded(n) == \A p \in Pids : proc[p].what = n => pidFile[n] # p

(* What a call for a daemon knows of its name at each step.                *)
StepOK(c) ==
    LET n == loc[c].name
        w == loc[c].ws
        Mine(p) == proc[p].what = n /\ proc[p].ws = w
    IN  n \in Names =>
          /\ pc[c] \in {"allocate", "stage", "unit", "launch", "recordPid"} => pidFile[n] = NoPid
          /\ pc[c] \in {"unlink", "vaporize", "remove"} => NotRecorded(n)
          /\ pc[c] \in {"stage", "unit", "launch"} => \A p \in Pids : ~ Mine(p)
          /\ pc[c] \in {"recordPid", "recordWs"} => \A p \in Pids : Mine(p) => p = loc[c].val
          /\ pc[c] \in {"recordWs", "kill"} => pidFile[n] = loc[c].val
          /\ pc[c] = "kill" => loc[c].val # NoPid
          /\ pc[c] = "vaporize" =>
                (unit[n] # 0 /\ unit[n] = wsFile[n] => LostName(n) \/ unit[n] \in strays)
          /\ pc[c] \in {"stage", "unit"} => unit[n] # w
          /\ pc[c] \in {"stage", "unit", "launch", "recordPid"} => wsFile[n] # w
          /\ pc[c] = "launch" => (unit[n] = w => w \in lost)
          /\ pc[c] \in {"recordPid", "recordWs"} =>
                (unit[n] = w => loc[c].val = "SYSTEMD_USER" \/ w \in lost)

(* A daemon's process has its workspace and can be stopped, and the two    *)
(* files of its name go together.                                          *)
DaemonOK(p) ==
    LET n == proc[p].what
        w == proc[p].ws
    IN  n \in Names =>
          /\ w \in spaces
          /\ pidFile[n] = p \/ w \in lost \/ Recording(n, w)
          /\ wsFile[n] = w => pidFile[n] = p

UnitOK(n) ==
    unit[n] # 0 =>
        /\ unit[n] \in spaces \cup strays \/ LostName(n)
        /\ unit[n] = wsFile[n] =>
              \/ pidFile[n] \in {"SYSTEMD_USER", NoPid}
              \/ LostName(n)
              \/ \E c \in Callers : pc[c] = "recordWs" /\ loc[c].name = n

DaemonInv ==
    /\ Exclusive /\ Kept
    /\ \A c \in Callers : StepOK(c)
    /\ \A p \in Pids : DaemonOK(p)
    /\ \A n \in Names : UnitOK(n)

-----------------------------------------------------------------------------
(* What the proofs need of the tags.                                       *)
LEMMA Tags ==
    /\ Names \cap Ephemeral = {} /\ NoPid \notin Pids /\ "SYSTEMD_USER" \notin Pids
    /\ "SYSTEMD_USER" # NoPid /\ "none" \notin Names /\ "other" \notin Names /\ "stack" \notin Names
    /\ MaxCalls \in Nat /\ MaxReboots \in Nat
  BY EnvAssumption DEF Ephemeral

(* mkdtemp makes a workspace nobody has, for the name of the call.         *)
LEMMA Appended ==
    ASSUME TypeOK, NEW x \in Names \cup Ephemeral
    PROVE  /\ Append(home, x) \in Seq(Names \cup Ephemeral)
           /\ Len(Append(home, x)) = Len(home) + 1
           /\ Len(home) \in Nat
           /\ \A w \in 1 .. Len(home) : Append(home, x)[w] = home[w]
           /\ Append(home, x)[Len(home) + 1] = x
  <1>1. home \in Seq(Names \cup Ephemeral)
    BY DEF TypeOK
  <1> QED
    BY <1>1

LEMMA LocalTypes ==
    ASSUME TypeOK, NEW c \in Callers
    PROVE  /\ \A w \in Nat : [loc EXCEPT ![c].ws = w] \in [Callers -> Local]
           /\ \A v \in Pids \cup {NoPid, "SYSTEMD_USER"} :
                 [loc EXCEPT ![c].val = v] \in [Callers -> Local]
           /\ \A S \in SUBSET Pids : [loc EXCEPT ![c].pids = S] \in [Callers -> Local]
  <1>0. loc[c] \in Local
    BY DEF TypeOK
  <1>1. \A w \in Nat : [loc[c] EXCEPT !.ws = w] \in Local
    BY <1>0 DEF Local
  <1>2. \A v \in Pids \cup {NoPid, "SYSTEMD_USER"} : [loc[c] EXCEPT !.val = v] \in Local
    BY <1>0 DEF Local
  <1>3. \A S \in SUBSET Pids : [loc[c] EXCEPT !.pids = S] \in Local
    BY <1>0 DEF Local
  <1> QED
    BY <1>1, <1>2, <1>3 DEF TypeOK

LEMMA ExceptType ==
    ASSUME NEW D, NEW S, NEW f \in [D -> S], NEW d, NEW x \in S
    PROVE  [f EXCEPT ![d] = x] \in [D -> S]
  OBVIOUS

(* A step that records a pid or a list of pids leaves a call what it is.   *)
LEMMA ValKeeps ==
    ASSUME TypeOK, NEW c \in Callers, NEW x,
           \/ loc' = loc
           \/ loc' = [loc EXCEPT ![c].val = x]
           \/ loc' = [loc EXCEPT ![c].pids = x]
    PROVE  /\ \A d \in Callers : /\ loc'[d].op = loc[d].op /\ loc'[d].name = loc[d].name
                                /\ loc'[d].ws = loc[d].ws
           /\ \A d \in Callers \ {c} : loc'[d] = loc[d]
  <1>0. loc \in [Callers -> Local]
    BY DEF TypeOK
  <1>1. CASE loc' = loc
    BY <1>1
  <1>2. CASE loc' = [loc EXCEPT ![c].val = x]
    BY <1>0, <1>2 DEF Local
  <1>3. CASE loc' = [loc EXCEPT ![c].pids = x]
    BY <1>0, <1>3 DEF Local
  <1> QED
    BY <1>1, <1>2, <1>3

(* What the two ways to launch change.                                     *)
LEMMA LaunchUnitEffect ==
    ASSUME TypeOK, NEW c \in Callers, LaunchUnit(c)
    PROVE  /\ \A d \in Callers : /\ loc'[d].op = loc[d].op /\ loc'[d].name = loc[d].name
                                /\ loc'[d].ws = loc[d].ws
           /\ \A d \in Callers \ {c} : loc'[d] = loc[d] /\ pc'[d] = pc[d]
           /\ pc[c] = "unit" /\ pc'[c] \in {"recordPid", "launch"}
           /\ UNCHANGED <<dirs, pidFile, wsFile, proc, spaces, home, calls, reboots, image>>
           /\ \/ /\ unit[loc[c].name] = 0 /\ unit' = [unit EXCEPT ![loc[c].name] = loc[c].ws]
                 /\ \/ pc'[c] = "recordPid" /\ loc'[c].val = "SYSTEMD_USER" /\ lost' = lost
                    \/ pc'[c] = "launch" /\ lost' = lost \cup {loc[c].ws}
              \/ pc'[c] = "launch" /\ unit' = unit /\ lost' = lost
  <1>1. /\ \A d \in Callers : /\ loc'[d].op = loc[d].op /\ loc'[d].name = loc[d].name
                             /\ loc'[d].ws = loc[d].ws
        /\ \A d \in Callers \ {c} : loc'[d] = loc[d]
    <2>1. loc' = loc \/ loc' = [loc EXCEPT ![c].val = "SYSTEMD_USER"]
      BY DEF LaunchUnit
    <2> QED
      BY <2>1, ValKeeps
  <1>2. /\ \A d \in Callers \ {c} : pc'[d] = pc[d]
        /\ pc[c] = "unit" /\ pc'[c] \in {"recordPid", "launch"}
    BY DEF LaunchUnit, Goto, TypeOK
  <1>3. UNCHANGED <<dirs, pidFile, wsFile, proc, spaces, home, calls, reboots, image>>
    BY DEF LaunchUnit, disk
  <1>4. \/ /\ unit[loc[c].name] = 0 /\ unit' = [unit EXCEPT ![loc[c].name] = loc[c].ws]
           /\ \/ pc'[c] = "recordPid" /\ loc'[c].val = "SYSTEMD_USER" /\ lost' = lost
              \/ pc'[c] = "launch" /\ lost' = lost \cup {loc[c].ws}
        \/ pc'[c] = "launch" /\ unit' = unit /\ lost' = lost
    BY DEF LaunchUnit, Goto, TypeOK, Local
  <1> QED
    BY <1>1, <1>2, <1>3, <1>4

LEMMA LaunchEffect ==
    ASSUME TypeOK, NEW c \in Callers, Launch(c)
    PROVE  /\ \A d \in Callers : /\ loc'[d].op = loc[d].op /\ loc'[d].name = loc[d].name
                                /\ loc'[d].ws = loc[d].ws
           /\ \A d \in Callers \ {c} : loc'[d] = loc[d] /\ pc'[d] = pc[d]
           /\ pc[c] = "launch"
           /\ UNCHANGED <<dirs, pidFile, wsFile, unit, spaces, home, calls, reboots, image>>
           /\ \/ /\ pc'[c] = "recordPid" /\ lost' = lost
                 /\ \E p \in Pids :
                       /\ ~ Alive(p) /\ loc'[c].val = p
                       /\ proc' = [proc EXCEPT ![p] = [what |-> loc[c].name, ws |-> loc[c].ws]]
              \/ /\ pc'[c] = "idle" /\ proc' = proc
                 /\ lost' = lost \cup ({loc[c].ws} \ {0})
  <1>1. /\ \A d \in Callers : /\ loc'[d].op = loc[d].op /\ loc'[d].name = loc[d].name
                             /\ loc'[d].ws = loc[d].ws
        /\ \A d \in Callers \ {c} : loc'[d] = loc[d]
    <2>1. loc' = loc \/ \E p \in Pids : loc' = [loc EXCEPT ![c].val = p]
      BY DEF Launch
    <2> QED
      BY <2>1, ValKeeps
  <1>2. /\ \A d \in Callers \ {c} : pc'[d] = pc[d]
        /\ pc[c] = "launch"
    BY DEF Launch, Raise, Goto, TypeOK
  <1>3. UNCHANGED <<dirs, pidFile, wsFile, unit, spaces, home, calls, reboots, image>>
    BY DEF Launch, disk
  <1>4. \/ /\ pc'[c] = "recordPid" /\ lost' = lost
           /\ \E p \in Pids :
                 /\ ~ Alive(p) /\ loc'[c].val = p
                 /\ proc' = [proc EXCEPT ![p] = [what |-> loc[c].name, ws |-> loc[c].ws]]
        \/ /\ pc'[c] = "idle" /\ proc' = proc
           /\ lost' = lost \cup ({loc[c].ws} \ {0})
    <2>1. CASE Raise(c) /\ UNCHANGED <<proc, loc>>
      BY <2>1 DEF Raise, Goto, TypeOK
    <2>2. ASSUME NEW p \in Pids, ~ Alive(p),
                 proc' = [proc EXCEPT ![p] = [what |-> loc[c].name, ws |-> loc[c].ws]],
                 loc' = [loc EXCEPT ![c].val = p], Goto(c, "recordPid"), lost' = lost
          PROVE  /\ pc'[c] = "recordPid" /\ loc'[c].val = p
      BY <2>2 DEF Goto, TypeOK, Local
    <2> QED
      BY <2>1, <2>2 DEF Launch
  <1> QED
    BY <1>1, <1>2, <1>3, <1>4

(* A workspace is made, or no call changes but the one that gives up.      *)
LEMMA AllocateEffect ==
    ASSUME TypeOK, NEW c \in Callers, Allocate(c)
    PROVE  /\ UNCHANGED <<dirs, pidFile, wsFile, unit, proc, lost, calls, reboots, image>>
           /\ pc[c] = "allocate"
           /\ \A d \in Callers \ {c} : loc'[d] = loc[d] /\ pc'[d] = pc[d]
           /\ \A d \in Callers : loc'[d].op = loc[d].op /\ loc'[d].name = loc[d].name
           /\ \/ pc'[c] = "idle" /\ UNCHANGED <<spaces, home>> /\ loc'[c] = loc[c]
              \/ /\ pc'[c] = "stage" /\ loc'[c].ws = Len(home) + 1
                 /\ Len(home') = Len(home) + 1 /\ Len(home) \in Nat
                 /\ home'[Len(home) + 1] = loc[c].name
                 /\ spaces' = spaces \cup {Len(home) + 1}
           /\ \A w \in 1 .. Len(home) : w \in 1 .. Len(home') /\ home'[w] = home[w]
  <1>1. /\ UNCHANGED <<dirs, pidFile, wsFile, unit, proc, lost, calls, reboots, image>>
        /\ pc[c] = "allocate"
    BY DEF Allocate, disk
  <1>2. CASE Goto(c, "idle") /\ UNCHANGED <<spaces, home, loc>>
    BY <1>1, <1>2 DEF Goto, TypeOK
  <1>3. CASE /\ spaces' = spaces \cup {Len(home) + 1}
             /\ home' = Append(home, loc[c].name)
             /\ loc' = [loc EXCEPT ![c].ws = Len(home) + 1]
             /\ Goto(c, "stage")
    <2>1. loc[c].name \in Names \cup Ephemeral
      BY DEF TypeOK, Local
    <2>2. /\ Len(home') = Len(home) + 1 /\ Len(home) \in Nat
          /\ home'[Len(home) + 1] = loc[c].name
          /\ \A w \in 1 .. Len(home) : home'[w] = home[w]
      BY <1>3, <2>1, Appended
    <2>3. \A w \in 1 .. Len(home) : w \in 1 .. Len(home')
      BY <2>2
    <2>4. /\ \A d \in Callers \ {c} : loc'[d] = loc[d] /\ pc'[d] = pc[d]
          /\ \A d \in Callers : loc'[d].op = loc[d].op /\ loc'[d].name = loc[d].name
          /\ pc'[c] = "stage" /\ loc'[c].ws = Len(home) + 1
      BY <1>3 DEF Goto, TypeOK, Local
    <2> QED
      BY <1>1, <1>3, <2>2, <2>3, <2>4
  <1> QED
    BY <1>2, <1>3 DEF Allocate

(* Who answers for a workspace, and who drops one.                         *)
LEMMA HeldKept ==
    ASSUME NEW c \in Callers, NEW w, Held(w), lost \subseteq lost',
           \A d \in Callers \ {c} : pc'[d] = pc[d] /\ loc'[d].ws = loc[d].ws,
           \/ loc[c].ws # w
           \/ pc'[c] # "idle" /\ loc'[c].ws = loc[c].ws
           \/ w \in lost'
    PROVE  Held(w)'
  <1>1. CASE w \in lost'
    BY <1>1 DEF Held
  <1>2. CASE w \notin lost'
    <2>1. PICK d \in Callers : pc[d] # "idle" /\ loc[d].ws = w
      BY <1>2 DEF Held
    <2>2. pc'[d] # "idle" /\ loc'[d].ws = w
      BY <1>2, <2>1
    <2> QED
      BY <2>2 DEF Held
  <1> QED
    BY <1>1, <1>2

LEMMA GotoType ==
    ASSUME TypeOK, NEW c \in Callers, NEW step \in Step, Goto(c, step)
    PROVE  pc' \in [Callers -> Step]
  BY DEF TypeOK, Goto

LEMMA LenNat == ASSUME TypeOK PROVE Len(home) \in Nat
  BY DEF TypeOK

(* The workspaces in which something may run on were made, and stay known. *)
LEMMA StraysStep ==
    ASSUME EphemeralInv, Next PROVE strays \subseteq strays' /\ strays' \subseteq 1 .. Len(home')
  <1>0. TypeOK /\ (\A c \in Callers : CallOK(c)) /\ Homes /\ Len(home) \in Nat
    BY LenNat DEF EphemeralInv
  <1>1. strays \subseteq 1 .. Len(home)
    BY <1>0 DEF TypeOK
  <1>2. ASSUME NEW c \in Callers, Allocate(c)
        PROVE  strays' = strays /\ 1 .. Len(home) \subseteq 1 .. Len(home')
    BY <1>0, <1>2, AllocateEffect DEF Allocate
  <1>3. ASSUME NEW w \in 0 .. Len(home), MayRunOn(w), home' = home
        PROVE  strays \subseteq strays' /\ strays' \subseteq 1 .. Len(home')
    BY <1>0, <1>1, <1>3 DEF MayRunOn
  <1>4. \A p \in Pids : proc[p].ws \in 0 .. Len(home)
    BY <1>0 DEF Homes, Made
  <1>5. ASSUME NEW c \in Callers, SessionEnds(c) \/ Terminate(c)
        PROVE  strays \subseteq strays' /\ strays' \subseteq 1 .. Len(home')
    <2>1. loc[c].ws \in 0 .. Len(home) /\ MayRunOn(loc[c].ws) /\ home' = home
      BY <1>0, <1>5 DEF SessionEnds, Terminate, CallOK, Holding, Made
    <2> QED
      BY <1>3, <2>1
  <1>6. ASSUME NEW c \in Callers, KillDaemon(c)
        PROVE  strays \subseteq strays' /\ strays' \subseteq 1 .. Len(home')
    <2>1. loc[c].name \in Names /\ home' = home
      BY <1>0, <1>6 DEF KillDaemon, CallOK
    <2>2. CASE strays' = strays \cup ({unit[loc[c].name]} \ {0})
      <3>1. unit[loc[c].name] \in 0 .. Len(home)
        BY <1>0, <2>1 DEF TypeOK
      <3> QED
        <4>1. \A w \in 0 .. Len(home) : w = 0 \/ w \in 1 .. Len(home)
          BY <1>0
        <4> QED
          BY <1>1, <2>1, <2>2, <3>1, <4>1
    <2>3. CASE TRUE \in Reached(loc[c].val) /\ MayRunOn(proc[loc[c].val].ws)
      <3>1. loc[c].val \in Pids
        BY <2>3 DEF Reached
      <3> QED
        BY <1>3, <1>4, <2>1, <2>3, <3>1
    <2>4. CASE strays' = strays
      BY <1>1, <2>1, <2>4
    <2> QED
      BY <1>6, <2>2, <2>3, <2>4 DEF KillDaemon
  <1>7. ASSUME NEW p \in Pids, ProcExits(p)
        PROVE  strays \subseteq strays' /\ strays' \subseteq 1 .. Len(home')
    BY <1>3, <1>4, <1>7 DEF ProcExits
  <1>8. ASSUME NEW c \in Callers,
               \/ \E op \in Op, n \in Names \cup Ephemeral : Call(c, op, n)
               \/ Stage(c) \/ Teardown(c) \/ Serve(c) \/ OpenArchive(c) \/ WriteArchive(c)
               \/ CheckName(c) \/ UnlinkPid(c) \/ LaunchUnit(c) \/ Launch(c)
               \/ RecordPid(c) \/ RecordWs(c) \/ ReadPid(c) \/ Vaporize(c)
               \/ RemoveDir(c) \/ Interrupt(c)
        PROVE  strays' = strays /\ home' = home
    BY <1>8 DEF Call, Stage, Teardown, Serve, OpenArchive, WriteArchive, CheckName, UnlinkPid,
       LaunchUnit, Launch, RecordPid, RecordWs, ReadPid, Vaporize, RemoveDir, Interrupt
  <1>9. ASSUME \/ \E p \in Pids : Reuse(p)
               \/ \E n \in Names : UnitExits(n)
               \/ Reboot
        PROVE  strays' = strays /\ home' = home
    BY <1>9 DEF Reuse, UnitExits, Reboot
  <1> QED
    BY <1>1, <1>2, <1>5, <1>6, <1>7, <1>8, <1>9 DEF Next

(* The types.                                                              *)
LEMMA TypeStep ==
    ASSUME EphemeralInv, Next PROVE TypeOK'
  <1>0. TypeOK /\ (\A c \in Callers : CallOK(c)) /\ Len(home) \in Nat
    BY LenNat DEF EphemeralInv
  <1>s. strays' \subseteq 1 .. Len(home')
    BY StraysStep
  <1>1. ASSUME NEW c \in Callers, NEW op \in Op, NEW n \in Names \cup Ephemeral, Call(c, op, n)
        PROVE  TypeOK'
    <2>1. [op |-> op, name |-> n, ws |-> 0, val |-> NoPid, pids |-> {}] \in Local
      BY DEF Local
    <2>2. {"check", "read", "allocate"} \subseteq Step
      BY DEF Step
    <2>3. calls' \in 0 .. MaxCalls
      BY <1>0, <1>s, <1>1, Tags DEF Call, TypeOK
    <2> QED
      BY <1>0, <1>s, <1>1, <2>1, <2>2, <2>3 DEF Call, TypeOK, disk
  <1>2. ASSUME NEW c \in Callers, Allocate(c) PROVE TypeOK'
    <2>1. CASE UNCHANGED <<spaces, home, loc>>
      BY <1>0, <1>s, <1>2, <2>1 DEF Allocate, Goto, TypeOK, Step, disk
    <2>2. CASE /\ spaces' = spaces \cup {Len(home) + 1}
               /\ home' = Append(home, loc[c].name)
               /\ loc' = [loc EXCEPT ![c].ws = Len(home) + 1]
               /\ Goto(c, "stage")
      <3>1. loc[c].name \in Names \cup Ephemeral
        BY <1>0 DEF TypeOK, Local
      <3>2. /\ home' \in Seq(Names \cup Ephemeral) /\ Len(home') = Len(home) + 1
            /\ Len(home) \in Nat
        BY <1>0, <1>s, <2>2, <3>1, Appended
      <3>3. loc' \in [Callers -> Local]
        <4>1. Len(home) + 1 \in Nat
          BY <3>2
        <4> QED
          BY <1>0, <1>s, <2>2, <4>1, LocalTypes
      <3>4. 0 .. Len(home) \subseteq 0 .. Len(home') /\ 1 .. Len(home) \subseteq 1 .. Len(home')
        BY <3>2
      <3>5. Len(home) + 1 \in 1 .. Len(home')
        BY <3>2
      <3>6. spaces' \subseteq 1 .. Len(home') /\ lost' \subseteq 1 .. Len(home')
        BY <1>0, <1>s, <1>2, <2>2, <3>4, <3>5 DEF Allocate, TypeOK
      <3>7. /\ wsFile' \in [Names -> 0 .. Len(home')] /\ unit' \in [Names -> 0 .. Len(home')]
            /\ image' \in [state : {"none", "writing", "torn", "mixed", "whole"},
                           by : 0 .. Len(home')]
        BY <1>0, <1>s, <1>2, <3>4 DEF Allocate, TypeOK, disk
      <3>8. pc' \in [Callers -> Step]
        BY <1>0, <1>s, <2>2 DEF TypeOK, Goto, Step
      <3> QED
        BY <1>0, <1>s, <1>2, <3>2, <3>3, <3>6, <3>7, <3>8 DEF Allocate, TypeOK, disk
    <2> QED
      BY <1>2, <2>1, <2>2 DEF Allocate
  <1>3. ASSUME NEW c \in Callers, Stage(c) PROVE TypeOK'
    <2>1. pc' \in [Callers -> Step]
      BY <1>0, <1>3, GotoType DEF Stage, Staged, Raise, Step
    <2>2. spaces' \subseteq spaces /\ lost' \subseteq 1 .. Len(home)
      BY <1>0, <1>3 DEF Stage, Staged, Raise, CallOK, Made, Holding, TypeOK
    <2> QED
      BY <1>0, <1>s, <1>3, <2>1, <2>2 DEF Stage, TypeOK, disk
  <1>4. ASSUME NEW c \in Callers, Teardown(c) PROVE TypeOK'
    <2>1. pc' \in [Callers -> Step]
      BY <1>0, <1>4, GotoType DEF Teardown, Raise, Step
    <2>2. spaces' \subseteq spaces /\ lost' \subseteq 1 .. Len(home)
      BY <1>0, <1>4 DEF Teardown, Rmtree, Raise, CallOK, Made, Holding, TypeOK
    <2> QED
      BY <1>0, <1>s, <1>4, <2>1, <2>2 DEF Teardown, TypeOK, disk
  <1>5. ASSUME NEW c \in Callers, SessionEnds(c) PROVE TypeOK'
    BY <1>0, <1>s, <1>5 DEF SessionEnds, Goto, disk, TypeOK, Step, Local, Process
  <1>6. ASSUME NEW c \in Callers, Serve(c) PROVE TypeOK'
    <2>0. loc[c].ws \in 1 .. Len(home) /\ loc[c].name \in Names \cup Ephemeral
      BY <1>0, <1>s, <1>6 DEF Serve, CallOK, Holding, Made, TypeOK, Local
    <2>1. pc' \in [Callers -> Step]
      BY <1>0, <1>s, <1>6, GotoType DEF Serve, Raise, Step
    <2>2. PICK S \in SUBSET Pids :
            /\ proc' = [p \in Pids |-> IF p \in S THEN [what |-> "stack", ws |-> loc[c].ws]
                                      ELSE proc[p]]
            /\ loc' = [loc EXCEPT ![c].pids = S]
      BY <1>6 DEF Serve
    <2>3. proc' \in [Pids -> Process]
      BY <1>0, <1>s, <2>0, <2>2 DEF TypeOK, Process
    <2>4. loc' \in [Callers -> Local]
      BY <1>0, <1>s, <2>2, LocalTypes
    <2>5. lost' \subseteq 1 .. Len(home)
      BY <1>0, <1>s, <1>6, <2>0 DEF Serve, Raise, TypeOK
    <2> QED
      BY <1>0, <1>s, <1>6, <2>1, <2>3, <2>4, <2>5 DEF Serve, TypeOK, disk
  <1>7. ASSUME NEW c \in Callers, Terminate(c) PROVE TypeOK'
    BY <1>0, <1>s, <1>7 DEF Terminate, Goto, disk, Free, TypeOK, Step, Local, Process
  <1>8. ASSUME NEW c \in Callers, OpenArchive(c) PROVE TypeOK'
    <2>0. loc[c].ws \in 1 .. Len(home) /\ loc[c].name \in Names \cup Ephemeral
      BY <1>0, <1>s, <1>8 DEF OpenArchive, CallOK, Holding, Made, TypeOK, Local
    <2>1. pc' \in [Callers -> Step]
      BY <1>0, <1>s, <1>8, GotoType DEF OpenArchive, Step
    <2>2. image' \in [state : {"none", "writing", "torn", "mixed", "whole"}, by : 0 .. Len(home)]
      BY <1>0, <1>s, <1>8, <2>0 DEF OpenArchive, TypeOK
    <2> QED
      BY <1>0, <1>s, <1>8, <2>1, <2>2 DEF OpenArchive, TypeOK, disk
  <1>9. ASSUME NEW c \in Callers, WriteArchive(c) PROVE TypeOK'
    BY <1>0, <1>s, <1>9 DEF WriteArchive, Goto, disk, Torn, TypeOK, Step, Local, Process
  <1>10. ASSUME NEW c \in Callers, CheckName(c) PROVE TypeOK'
    <2>1. loc[c].name \in Names
      BY <1>0, <1>s, <1>10 DEF CheckName, CallOK
    <2>2. pc' \in [Callers -> Step]
      BY <1>0, <1>s, <1>10, GotoType DEF CheckName, Step
    <2> QED
      BY <1>0, <1>s, <1>10, <2>1, <2>2 DEF CheckName, TypeOK
  <1>11. ASSUME NEW c \in Callers, UnlinkPid(c) PROVE TypeOK'
    BY <1>0, <1>s, <1>11 DEF UnlinkPid, Goto, TypeOK, Step, Local, Process
  <1>12. ASSUME NEW c \in Callers, LaunchUnit(c) PROVE TypeOK'
    <2>0. loc[c].ws \in 1 .. Len(home) /\ loc[c].name \in Names \cup Ephemeral
      BY <1>0, <1>s, <1>12 DEF LaunchUnit, CallOK, Holding, Made, TypeOK, Local
    <2>1. pc' \in [Callers -> Step]
      BY <1>0, <1>s, <1>12, GotoType DEF LaunchUnit, Step
    <2>2. loc' \in [Callers -> Local]
      <3>1. "SYSTEMD_USER" \in Pids \cup {NoPid, "SYSTEMD_USER"}
        OBVIOUS
      <3>2. loc' = loc \/ loc' = [loc EXCEPT ![c].val = "SYSTEMD_USER"]
        BY <1>12 DEF LaunchUnit
      <3>3. loc \in [Callers -> Local]
        BY <1>0 DEF TypeOK
      <3>4. [loc EXCEPT ![c].val = "SYSTEMD_USER"] \in [Callers -> Local]
        BY <1>0, <1>s, <3>1, LocalTypes
      <3> QED
        BY <3>2, <3>3, <3>4
    <2>3. unit' \in [Names -> 0 .. Len(home)]
      <3>1. unit' = unit \/ unit' = [unit EXCEPT ![loc[c].name] = loc[c].ws]
        BY <1>12 DEF LaunchUnit
      <3>2. unit \in [Names -> 0 .. Len(home)] /\ loc[c].ws \in 0 .. Len(home)
        BY <1>0, <1>s, <2>0 DEF TypeOK
      <3> QED
        BY <3>1, <3>2, ExceptType
    <2>4. lost' \subseteq 1 .. Len(home)
      BY <1>0, <1>s, <1>12, <2>0 DEF LaunchUnit, TypeOK
    <2> QED
      BY <1>0, <1>s, <1>12, <2>1, <2>2, <2>3, <2>4 DEF LaunchUnit, TypeOK, disk
  <1>13. ASSUME NEW c \in Callers, Launch(c) PROVE TypeOK'
    <2>0. loc[c].ws \in 1 .. Len(home) /\ loc[c].name \in Names \cup Ephemeral
      BY <1>0, <1>s, <1>13 DEF Launch, CallOK, Holding, Made, TypeOK, Local
    <2>1. pc' \in [Callers -> Step]
      BY <1>0, <1>s, <1>13, GotoType DEF Launch, Raise, Step
    <2>2. loc' \in [Callers -> Local]
      <3>1. loc' = loc \/ \E p \in Pids : loc' = [loc EXCEPT ![c].val = p]
        BY <1>13 DEF Launch
      <3>2. loc \in [Callers -> Local]
        BY <1>0 DEF TypeOK
      <3> QED
        BY <1>0, <1>s, <3>1, <3>2, LocalTypes
    <2>3. [what |-> loc[c].name, ws |-> loc[c].ws] \in Process
      BY <1>0, <1>s, <1>13, <2>0 DEF Launch, CallOK, Process
    <2>4. proc' \in [Pids -> Process]
      BY <1>0, <1>s, <1>13, <2>3 DEF Launch, TypeOK
    <2>5. lost' \subseteq 1 .. Len(home)
      BY <1>0, <1>s, <1>13, <2>0 DEF Launch, Raise, TypeOK
    <2> QED
      BY <1>0, <1>s, <1>13, <2>1, <2>2, <2>4, <2>5 DEF Launch, TypeOK, disk
  <1>14. ASSUME NEW c \in Callers, RecordPid(c) PROVE TypeOK'
    BY <1>0, <1>s, <1>14 DEF RecordPid, Goto, TypeOK, Step, Local, Process
  <1>15. ASSUME NEW c \in Callers, RecordWs(c) PROVE TypeOK'
    BY <1>0, <1>s, <1>15 DEF RecordWs, Goto, CallOK, Made, Holding, TypeOK, Step, Local, Process
  <1>16. ASSUME NEW c \in Callers, ReadPid(c) PROVE TypeOK'
    <2>1. pidFile[loc[c].name] \in Pids \cup {NoPid, "SYSTEMD_USER"}
      BY <1>0, <1>s, <1>16 DEF ReadPid, CallOK, TypeOK
    <2>2. loc' \in [Callers -> Local]
      BY <1>0, <1>s, <1>16, <2>1, LocalTypes DEF ReadPid
    <2>3. pc' \in [Callers -> Step]
      BY <1>0, <1>s, <1>16, GotoType DEF ReadPid, Step
    <2> QED
      BY <1>0, <1>s, <1>16, <2>2, <2>3 DEF ReadPid, TypeOK, disk
  <1>17. ASSUME NEW c \in Callers, KillDaemon(c) PROVE TypeOK'
    <2>1. pc' \in [Callers -> Step]
      BY <1>0, <1>s, <1>17, GotoType DEF KillDaemon, Step
    <2>2. unit' \in [Names -> 0 .. Len(home)]
      <3>1. unit' = unit \/ unit' = [unit EXCEPT ![loc[c].name] = 0]
        BY <1>17 DEF KillDaemon
      <3>2. unit \in [Names -> 0 .. Len(home)] /\ 0 \in 0 .. Len(home)
        BY <1>0 DEF TypeOK
      <3> QED
        BY <3>1, <3>2, ExceptType
    <2>3. Free \in Process
      BY DEF Free, Process
    <2>4. proc' \in [Pids -> Process]
      BY <1>0, <1>s, <1>17, <2>3 DEF KillDaemon, TypeOK
    <2> QED
      BY <1>0, <1>s, <1>17, <2>1, <2>2, <2>4 DEF KillDaemon, TypeOK, disk
  <1>18. ASSUME NEW c \in Callers, Vaporize(c) PROVE TypeOK'
    BY <1>0, <1>s, <1>18 DEF Vaporize, Rmtree, Goto, disk, TypeOK, Step, Local, Process
  <1>19. ASSUME NEW c \in Callers, RemoveDir(c) PROVE TypeOK'
    <2>1. pc' \in [Callers -> Step]
      BY <1>0, <1>s, <1>19, GotoType DEF RemoveDir, Step
    <2>2. /\ dirs' \subseteq Names /\ wsFile' \in [Names -> 0 .. Len(home)]
          /\ pidFile' \in [Names -> Pids \cup {NoPid, "SYSTEMD_USER"}]
      <3>1. /\ dirs \subseteq Names /\ wsFile \in [Names -> 0 .. Len(home)] /\ 0 \in 0 .. Len(home)
            /\ pidFile \in [Names -> Pids \cup {NoPid, "SYSTEMD_USER"}]
        BY <1>0 DEF TypeOK
      <3> QED
        BY <1>19, <3>1, ExceptType DEF RemoveDir
    <2> QED
      BY <1>0, <1>s, <1>19, <2>1, <2>2 DEF RemoveDir, TypeOK
  <1>20. ASSUME NEW c \in Callers, Interrupt(c) PROVE TypeOK'
    BY <1>0, <1>s, <1>20
       DEF Interrupt, Raise, Goto, disk, CallOK, Made, Holding, Torn, TypeOK, Step, Local,
           Process
  <1>21. ASSUME NEW p \in Pids, ProcExits(p) PROVE TypeOK'
    BY <1>0, <1>s, <1>21 DEF ProcExits, disk, Free, TypeOK, Step, Local, Process
  <1>22. ASSUME NEW p \in Pids, Reuse(p) PROVE TypeOK'
    BY <1>0, <1>s, <1>22 DEF Reuse, disk, TypeOK, Step, Local, Process
  <1>23. ASSUME NEW n \in Names, UnitExits(n) PROVE TypeOK'
    BY <1>0, <1>s, <1>23 DEF UnitExits, disk, TypeOK, Step, Local, Process
  <1>24. ASSUME Reboot PROVE TypeOK'
    <2>1. /\ pc' \in [Callers -> Step] /\ unit' \in [Names -> 0 .. Len(home)]
          /\ proc' \in [Pids -> Process]
      BY <1>0, <1>s, <1>24 DEF Reboot, Step, Free, Process
    <2>2. image' \in [state : {"none", "writing", "torn", "mixed", "whole"}, by : 0 .. Len(home)]
      BY <1>0, <1>s, <1>24 DEF Reboot, Torn, TypeOK
    <2>3. reboots' \in 0 .. MaxReboots
      BY <1>0, <1>s, <1>24, Tags DEF Reboot, TypeOK
    <2> QED
      BY <1>0, <1>s, <1>24, <2>1, <2>2, <2>3 DEF Reboot, TypeOK, disk
  <1> QED
    BY <1>1, <1>2, <1>3, <1>4, <1>5, <1>6, <1>7, <1>8, <1>9, <1>10, <1>11, <1>12, <1>13, <1>14,
       <1>15, <1>16, <1>17, <1>18, <1>19, <1>20, <1>21, <1>22, <1>23, <1>24 DEF Next

(* Steps and workspaces of the callers.                                    *)
LEMMA CallStep ==
    ASSUME EphemeralInv, Next PROVE \A d \in Callers : CallOK(d)'
  <1>0. /\ TypeOK /\ (\A d \in Callers : CallOK(d)) /\ Apart /\ Homes /\ Services
        /\ SpacesHeld /\ ServicesHeld /\ ArchiveHeld /\ Len(home) \in Nat
    BY LenNat DEF EphemeralInv
  <1>1. ASSUME NEW c \in Callers, NEW op \in Op, NEW n \in Names \cup Ephemeral, Call(c, op, n)
        PROVE  \A d \in Callers : CallOK(d)'
    <2>1. /\ \A d \in Callers \ {c} : loc'[d] = loc[d] /\ pc'[d] = pc[d]
          /\ loc'[c].op = op /\ loc'[c].name = n /\ loc'[c].ws = 0 /\ home' = home
      BY <1>0, <1>1 DEF Call, TypeOK
    <2>2. /\ op \in Ephemeral => pc'[c] = "allocate" /\ n = op
          /\ op = "daemonize" => pc'[c] = "check" /\ n \in Names
          /\ op = "stop" => pc'[c] = "read" /\ n \in Names
      BY <1>0, <1>1 DEF Call, TypeOK, Ephemeral
    <2>3. CallOK(c)'
      BY <2>1, <2>2 DEF Op, CallOK, Holding
    <2>4. \A d \in Callers \ {c} : CallOK(d)'
      BY <1>0, <2>1 DEF CallOK, Made
    <2> QED
      BY <2>3, <2>4
  <1>2. ASSUME NEW c \in Callers, Allocate(c) PROVE \A d \in Callers : CallOK(d)'
    <2>1. \A d \in Callers \ {c} : CallOK(d)'
      BY <1>0, <1>2, AllocateEffect DEF CallOK, Made
    <2>2. CallOK(c)'
      BY <1>0, <1>2, AllocateEffect DEF CallOK, Made, Holding
    <2> QED
      BY <2>1, <2>2
  <1>3. ASSUME NEW c \in Callers, Stage(c) PROVE \A d \in Callers : CallOK(d)'
    BY <1>0, Tags, <1>3
       DEF Stage, Staged, Raise, Goto, disk, TypeOK, Local, Ephemeral, CallOK, Holding, Made
  <1>4. ASSUME NEW c \in Callers, Teardown(c) PROVE \A d \in Callers : CallOK(d)'
    BY <1>0, Tags, <1>4
       DEF Teardown, Rmtree, Raise, Goto, disk, TypeOK, Local, Ephemeral, CallOK, Holding, Made
  <1>5. ASSUME NEW c \in Callers, SessionEnds(c) PROVE \A d \in Callers : CallOK(d)'
    BY <1>0, Tags, <1>5
       DEF SessionEnds, Goto, disk, TypeOK, Local, Ephemeral, CallOK, Holding, Made
  <1>6. ASSUME NEW c \in Callers, Serve(c) PROVE \A d \in Callers : CallOK(d)'
    BY <1>0, Tags, <1>6
       DEF Serve, Raise, Goto, disk, TypeOK, Local, Ephemeral, CallOK, Holding, Made
  <1>7. ASSUME NEW c \in Callers, Terminate(c) PROVE \A d \in Callers : CallOK(d)'
    BY <1>0, Tags, <1>7
       DEF Terminate, Goto, disk, TypeOK, Local, Ephemeral, CallOK, Holding, Made
  <1>8. ASSUME NEW c \in Callers, OpenArchive(c) PROVE \A d \in Callers : CallOK(d)'
    BY <1>0, Tags, <1>8
       DEF OpenArchive, Goto, disk, TypeOK, Local, Ephemeral, CallOK, Holding, Made
  <1>9. ASSUME NEW c \in Callers, WriteArchive(c) PROVE \A d \in Callers : CallOK(d)'
    BY <1>0, Tags, <1>9
       DEF WriteArchive, Goto, disk, TypeOK, Local, Ephemeral, CallOK, Holding, Made
  <1>10. ASSUME NEW c \in Callers, CheckName(c) PROVE \A d \in Callers : CallOK(d)'
    BY <1>0, Tags, <1>10 DEF CheckName, Goto, TypeOK, Local, Ephemeral, CallOK, Holding, Made
  <1>11. ASSUME NEW c \in Callers, UnlinkPid(c) PROVE \A d \in Callers : CallOK(d)'
    BY <1>0, Tags, <1>11 DEF UnlinkPid, Goto, TypeOK, Local, Ephemeral, CallOK, Holding, Made
  <1>12. ASSUME NEW c \in Callers, LaunchUnit(c) PROVE \A d \in Callers : CallOK(d)'
    BY <1>0, <1>12, LaunchUnitEffect DEF CallOK, Made, Holding
  <1>13. ASSUME NEW c \in Callers, Launch(c) PROVE \A d \in Callers : CallOK(d)'
    BY <1>0, <1>13, LaunchEffect DEF CallOK, Made, Holding
  <1>14. ASSUME NEW c \in Callers, RecordPid(c) PROVE \A d \in Callers : CallOK(d)'
    BY <1>0, Tags, <1>14 DEF RecordPid, Goto, TypeOK, Local, Ephemeral, CallOK, Holding, Made
  <1>15. ASSUME NEW c \in Callers, RecordWs(c) PROVE \A d \in Callers : CallOK(d)'
    BY <1>0, Tags, <1>15 DEF RecordWs, Goto, TypeOK, Local, Ephemeral, CallOK, Holding, Made
  <1>16. ASSUME NEW c \in Callers, ReadPid(c) PROVE \A d \in Callers : CallOK(d)'
    BY <1>0, Tags, <1>16
       DEF ReadPid, Goto, disk, TypeOK, Local, Ephemeral, CallOK, Holding, Made
  <1>17. ASSUME NEW c \in Callers, KillDaemon(c) PROVE \A d \in Callers : CallOK(d)'
    BY <1>0, Tags, <1>17
       DEF KillDaemon, Goto, disk, TypeOK, Local, Ephemeral, CallOK, Holding, Made
  <1>18. ASSUME NEW c \in Callers, Vaporize(c) PROVE \A d \in Callers : CallOK(d)'
    BY <1>0, Tags, <1>18
       DEF Vaporize, Rmtree, Goto, disk, TypeOK, Local, Ephemeral, CallOK, Holding, Made
  <1>19. ASSUME NEW c \in Callers, RemoveDir(c) PROVE \A d \in Callers : CallOK(d)'
    BY <1>0, Tags, <1>19 DEF RemoveDir, Goto, TypeOK, Local, Ephemeral, CallOK, Holding, Made
  <1>20. ASSUME NEW c \in Callers, Interrupt(c) PROVE \A d \in Callers : CallOK(d)'
    BY <1>0, Tags, <1>20
       DEF Interrupt, Raise, Goto, disk, TypeOK, Local, Ephemeral, CallOK, Holding, Made
  <1>21. ASSUME NEW p \in Pids, ProcExits(p) PROVE \A d \in Callers : CallOK(d)'
    BY <1>0, Tags, <1>21 DEF ProcExits, disk, TypeOK, Local, Ephemeral, CallOK, Holding, Made
  <1>22. ASSUME NEW p \in Pids, Reuse(p) PROVE \A d \in Callers : CallOK(d)'
    BY <1>0, Tags, <1>22 DEF Reuse, disk, TypeOK, Local, Ephemeral, CallOK, Holding, Made
  <1>23. ASSUME NEW n \in Names, UnitExits(n) PROVE \A d \in Callers : CallOK(d)'
    BY <1>0, Tags, <1>23 DEF UnitExits, disk, TypeOK, Local, Ephemeral, CallOK, Holding, Made
  <1>24. ASSUME Reboot PROVE \A d \in Callers : CallOK(d)'
    BY <1>0, Tags, <1>24 DEF Reboot, disk, TypeOK, Local, Ephemeral, CallOK, Holding, Made
  <1> QED
    BY <1>1, <1>2, <1>3, <1>4, <1>5, <1>6, <1>7, <1>8, <1>9, <1>10, <1>11, <1>12, <1>13, <1>14,
       <1>15, <1>16, <1>17, <1>18, <1>19, <1>20, <1>21, <1>22, <1>23, <1>24 DEF Next

(* No two calls have one workspace.                                        *)
LEMMA ApartStep ==
    ASSUME EphemeralInv, Next PROVE Apart'
  <1>0. /\ TypeOK /\ (\A d \in Callers : CallOK(d)) /\ Apart /\ Homes /\ Services
        /\ SpacesHeld /\ ServicesHeld /\ ArchiveHeld /\ Len(home) \in Nat
    BY LenNat DEF EphemeralInv
  <1>1. ASSUME NEW c \in Callers, NEW op \in Op, NEW n \in Names \cup Ephemeral, Call(c, op, n)
        PROVE  Apart'
    BY <1>0, <1>1 DEF Call, disk, TypeOK, Local, Apart, CallOK, Holding, Made
  <1>2. ASSUME NEW c \in Callers, Allocate(c) PROVE Apart'
    <2>1. ASSUME NEW d \in Callers \ {c}, pc[d] \in Holding PROVE loc[d].ws # Len(home) + 1
      BY <1>0, <2>1 DEF CallOK, Made
    <2> QED
      BY <1>0, <1>2, <2>1, AllocateEffect DEF Apart, Holding
  <1>3. ASSUME NEW c \in Callers, Stage(c) PROVE Apart'
    BY <1>0, <1>3 DEF Stage, Staged, Raise, Goto, disk, TypeOK, Local, Apart, CallOK, Holding, Made
  <1>4. ASSUME NEW c \in Callers, Teardown(c) PROVE Apart'
    <2>1. loc' = loc /\ \A d \in Callers : pc'[d] \in Holding => pc[d] \in Holding
      BY <1>0, <1>4 DEF Teardown, Rmtree, Raise, Goto, TypeOK, Holding
    <2> QED
      BY <1>0, <2>1 DEF Apart
  <1>5. ASSUME NEW c \in Callers, SessionEnds(c) PROVE Apart'
    BY <1>0, <1>5 DEF SessionEnds, Goto, disk, TypeOK, Local, Apart, CallOK, Holding, Made
  <1>6. ASSUME NEW c \in Callers, Serve(c) PROVE Apart'
    BY <1>0, <1>6 DEF Serve, Raise, Goto, disk, TypeOK, Local, Apart, CallOK, Holding, Made
  <1>7. ASSUME NEW c \in Callers, Terminate(c) PROVE Apart'
    BY <1>0, <1>7 DEF Terminate, Goto, disk, TypeOK, Local, Apart, CallOK, Holding, Made
  <1>8. ASSUME NEW c \in Callers, OpenArchive(c) PROVE Apart'
    <2>1. loc' = loc /\ \A d \in Callers : pc'[d] \in Holding => pc[d] \in Holding
      BY <1>0, <1>8 DEF OpenArchive, Goto, TypeOK, Holding
    <2> QED
      BY <1>0, <2>1 DEF Apart
  <1>9. ASSUME NEW c \in Callers, WriteArchive(c) PROVE Apart'
    BY <1>0, <1>9 DEF WriteArchive, Goto, disk, TypeOK, Local, Apart, CallOK, Holding, Made
  <1>10. ASSUME NEW c \in Callers, CheckName(c) PROVE Apart'
    BY <1>0, <1>10 DEF CheckName, Goto, TypeOK, Local, Apart, CallOK, Holding, Made
  <1>11. ASSUME NEW c \in Callers, UnlinkPid(c) PROVE Apart'
    BY <1>0, <1>11 DEF UnlinkPid, Goto, TypeOK, Local, Apart, CallOK, Holding, Made
  <1>12. ASSUME NEW c \in Callers, LaunchUnit(c) PROVE Apart'
    BY <1>0, <1>12, LaunchUnitEffect DEF Apart, Holding
  <1>13. ASSUME NEW c \in Callers, Launch(c) PROVE Apart'
    BY <1>0, <1>13, LaunchEffect DEF Apart, Holding
  <1>14. ASSUME NEW c \in Callers, RecordPid(c) PROVE Apart'
    BY <1>0, <1>14 DEF RecordPid, Goto, TypeOK, Local, Apart, CallOK, Holding, Made
  <1>15. ASSUME NEW c \in Callers, RecordWs(c) PROVE Apart'
    BY <1>0, <1>15 DEF RecordWs, Goto, TypeOK, Local, Apart, CallOK, Holding, Made
  <1>16. ASSUME NEW c \in Callers, ReadPid(c) PROVE Apart'
    BY <1>0, <1>16 DEF ReadPid, Goto, disk, TypeOK, Local, Apart, CallOK, Holding, Made
  <1>17. ASSUME NEW c \in Callers, KillDaemon(c) PROVE Apart'
    BY <1>0, <1>17 DEF KillDaemon, Goto, disk, TypeOK, Local, Apart, CallOK, Holding, Made
  <1>18. ASSUME NEW c \in Callers, Vaporize(c) PROVE Apart'
    BY <1>0, <1>18 DEF Vaporize, Rmtree, Goto, disk, TypeOK, Local, Apart, CallOK, Holding, Made
  <1>19. ASSUME NEW c \in Callers, RemoveDir(c) PROVE Apart'
    BY <1>0, <1>19 DEF RemoveDir, Goto, TypeOK, Local, Apart, CallOK, Holding, Made
  <1>20. ASSUME NEW c \in Callers, Interrupt(c) PROVE Apart'
    BY <1>0, <1>20 DEF Interrupt, Raise, Goto, disk, TypeOK, Local, Apart, CallOK, Holding, Made
  <1>21. ASSUME NEW p \in Pids, ProcExits(p) PROVE Apart'
    BY <1>0, <1>21 DEF ProcExits, disk, TypeOK, Local, Apart, CallOK, Holding, Made
  <1>22. ASSUME NEW p \in Pids, Reuse(p) PROVE Apart'
    BY <1>0, <1>22 DEF Reuse, disk, TypeOK, Local, Apart, CallOK, Holding, Made
  <1>23. ASSUME NEW n \in Names, UnitExits(n) PROVE Apart'
    BY <1>0, <1>23 DEF UnitExits, disk, TypeOK, Local, Apart, CallOK, Holding, Made
  <1>24. ASSUME Reboot PROVE Apart'
    BY <1>0, <1>24 DEF Reboot, disk, TypeOK, Local, Apart, CallOK, Holding, Made
  <1> QED
    BY <1>1, <1>2, <1>3, <1>4, <1>5, <1>6, <1>7, <1>8, <1>9, <1>10, <1>11, <1>12, <1>13, <1>14,
       <1>15, <1>16, <1>17, <1>18, <1>19, <1>20, <1>21, <1>22, <1>23, <1>24 DEF Next

(* What is named was made.                                                 *)
LEMMA HomesStep ==
    ASSUME EphemeralInv, Next PROVE Homes'
  <1>0. /\ TypeOK /\ (\A d \in Callers : CallOK(d)) /\ Apart /\ Homes /\ Services
        /\ SpacesHeld /\ ServicesHeld /\ ArchiveHeld /\ Len(home) \in Nat
    BY LenNat DEF EphemeralInv
  <1>1. ASSUME NEW c \in Callers, NEW op \in Op, NEW n \in Names \cup Ephemeral, Call(c, op, n)
        PROVE  Homes'
    BY <1>0, Tags, <1>1 DEF Call, disk, TypeOK, Homes, Free, CallOK, Holding, Made
  <1>2. ASSUME NEW c \in Callers, Allocate(c) PROVE Homes'
    BY <1>0, <1>2, AllocateEffect DEF Homes, Made
  <1>3. ASSUME NEW c \in Callers, Stage(c) PROVE Homes'
    BY <1>0, Tags, <1>3
       DEF Stage, Staged, Raise, Goto, disk, TypeOK, Homes, Free, CallOK, Holding, Made
  <1>4. ASSUME NEW c \in Callers, Teardown(c) PROVE Homes'
    BY <1>0, Tags, <1>4
       DEF Teardown, Rmtree, Raise, Goto, disk, TypeOK, Homes, Free, CallOK, Holding, Made
  <1>5. ASSUME NEW c \in Callers, SessionEnds(c) PROVE Homes'
    BY <1>0, Tags, <1>5 DEF SessionEnds, Goto, disk, TypeOK, Homes, Free, CallOK, Holding, Made
  <1>6. ASSUME NEW c \in Callers, Serve(c) PROVE Homes'
    <2>1. Made(loc[c].ws, "stack") /\ UNCHANGED <<wsFile, unit, home>>
      BY <1>0, <1>6 DEF Serve, CallOK, Holding, disk
    <2>2. \A p \in Pids : \/ proc'[p] = proc[p]
                          \/ proc'[p].what = "stack" /\ proc'[p].ws = loc[c].ws
      BY <1>6 DEF Serve
    <2> QED
      BY <1>0, <2>1, <2>2 DEF Homes, Made
  <1>7. ASSUME NEW c \in Callers, Terminate(c) PROVE Homes'
    BY <1>0, Tags, <1>7 DEF Terminate, Goto, disk, TypeOK, Homes, Free, CallOK, Holding, Made
  <1>8. ASSUME NEW c \in Callers, OpenArchive(c) PROVE Homes'
    BY <1>0, Tags, <1>8 DEF OpenArchive, Goto, disk, TypeOK, Homes, Free, CallOK, Holding, Made
  <1>9. ASSUME NEW c \in Callers, WriteArchive(c) PROVE Homes'
    BY <1>0, Tags, <1>9 DEF WriteArchive, Goto, disk, TypeOK, Homes, Free, CallOK, Holding, Made
  <1>10. ASSUME NEW c \in Callers, CheckName(c) PROVE Homes'
    BY <1>0, Tags, <1>10 DEF CheckName, Goto, TypeOK, Homes, Free, CallOK, Holding, Made
  <1>11. ASSUME NEW c \in Callers, UnlinkPid(c) PROVE Homes'
    BY <1>0, Tags, <1>11 DEF UnlinkPid, Goto, TypeOK, Homes, Free, CallOK, Holding, Made
  <1>12. ASSUME NEW c \in Callers, LaunchUnit(c) PROVE Homes'
    <2>1. loc[c].name \in Names /\ Made(loc[c].ws, loc[c].name)
      BY <1>0, <1>12 DEF LaunchUnit, CallOK, Holding
    <2> QED
      <3>1. unit' = unit \/ unit' = [unit EXCEPT ![loc[c].name] = loc[c].ws]
        BY <1>12 DEF LaunchUnit
      <3>2. \A n \in Names : unit'[n] # 0 => Made(unit'[n], n)
        BY <1>0, <2>1, <3>1 DEF Homes, TypeOK
      <3>3. UNCHANGED <<wsFile, proc, home>>
        BY <1>12 DEF LaunchUnit, disk
      <3> QED
        BY <1>0, <3>2, <3>3 DEF Homes, Made
  <1>13. ASSUME NEW c \in Callers, Launch(c) PROVE Homes'
    <2>1. loc[c].name \in Names /\ Made(loc[c].ws, loc[c].name)
      BY <1>0, <1>13 DEF Launch, CallOK, Holding
    <2> QED
      <3>1. \/ proc' = proc
            \/ \E p \in Pids :
                  proc' = [proc EXCEPT ![p] = [what |-> loc[c].name, ws |-> loc[c].ws]]
        BY <1>13 DEF Launch
      <3>2. \A p \in Pids : IF proc'[p].what \in Names \cup {"stack"}
                             THEN Made(proc'[p].ws, proc'[p].what) ELSE proc'[p].ws = 0
        <4>1. CASE proc' = proc
          BY <1>0, <4>1 DEF Homes
        <4>2. ASSUME NEW q \in Pids,
                     proc' = [proc EXCEPT ![q] = [what |-> loc[c].name, ws |-> loc[c].ws]]
              PROVE  \A p \in Pids : proc'[p] = proc[p]
                        \/ (proc'[p].what = loc[c].name /\ proc'[p].ws = loc[c].ws)
          <5>1. proc \in [Pids -> Process]
            BY <1>0 DEF TypeOK
          <5>2. \A p \in Pids : \/ proc'[p] = proc[p]
                               \/ proc'[p] = [what |-> loc[c].name, ws |-> loc[c].ws]
            BY <4>2, <5>1
          <5>3. ASSUME NEW p \in Pids PROVE proc'[p] = proc[p]
                        \/ (proc'[p].what = loc[c].name /\ proc'[p].ws = loc[c].ws)
            BY <5>2, <5>3
          <5> QED
            BY <5>3
        <4> QED
          BY <1>0, <2>1, <3>1, <4>1, <4>2 DEF Homes
      <3>3. UNCHANGED <<wsFile, unit, home>>
        BY <1>13 DEF Launch, disk
      <3> QED
        BY <1>0, <3>2, <3>3 DEF Homes, Made
  <1>14. ASSUME NEW c \in Callers, RecordPid(c) PROVE Homes'
    BY <1>0, Tags, <1>14 DEF RecordPid, Goto, TypeOK, Homes, Free, CallOK, Holding, Made
  <1>15. ASSUME NEW c \in Callers, RecordWs(c) PROVE Homes'
    BY <1>0, Tags, <1>15 DEF RecordWs, Goto, TypeOK, Homes, Free, CallOK, Holding, Made
  <1>16. ASSUME NEW c \in Callers, ReadPid(c) PROVE Homes'
    BY <1>0, Tags, <1>16 DEF ReadPid, Goto, disk, TypeOK, Homes, Free, CallOK, Holding, Made
  <1>17. ASSUME NEW c \in Callers, KillDaemon(c) PROVE Homes'
    <2>1. \A n \in Names : unit'[n] = unit[n] \/ unit'[n] = 0
      BY <1>0, <1>17 DEF KillDaemon, TypeOK
    <2>2. \A p \in Pids : proc'[p] = proc[p] \/ proc'[p] = Free
      BY <1>0, <1>17 DEF KillDaemon, TypeOK
    <2>3. Free.what \notin Names \cup {"stack"} /\ Free.ws = 0
      BY Tags DEF Free
    <2>4. UNCHANGED <<wsFile, home>>
      BY <1>17 DEF KillDaemon, disk
    <2> QED
      BY <1>0, <2>1, <2>2, <2>3, <2>4 DEF Homes, Made
  <1>18. ASSUME NEW c \in Callers, Vaporize(c) PROVE Homes'
    BY <1>0, Tags, <1>18 DEF Vaporize, Rmtree, Goto, disk, TypeOK, Homes, Free, CallOK, Holding, Made
  <1>19. ASSUME NEW c \in Callers, RemoveDir(c) PROVE Homes'
    BY <1>0, Tags, <1>19 DEF RemoveDir, Goto, TypeOK, Homes, Free, CallOK, Holding, Made
  <1>20. ASSUME NEW c \in Callers, Interrupt(c) PROVE Homes'
    BY <1>0, Tags, <1>20
       DEF Interrupt, Raise, Goto, disk, TypeOK, Homes, Free, CallOK, Holding, Made
  <1>21. ASSUME NEW p \in Pids, ProcExits(p) PROVE Homes'
    BY <1>0, Tags, <1>21 DEF ProcExits, disk, TypeOK, Homes, Free, CallOK, Holding, Made
  <1>22. ASSUME NEW p \in Pids, Reuse(p) PROVE Homes'
    BY <1>0, Tags, <1>22 DEF Reuse, disk, TypeOK, Homes, Free, CallOK, Holding, Made
  <1>23. ASSUME NEW n \in Names, UnitExits(n) PROVE Homes'
    BY <1>0, Tags, <1>23 DEF UnitExits, disk, TypeOK, Homes, Free, CallOK, Holding, Made
  <1>24. ASSUME Reboot PROVE Homes'
    BY <1>0, Tags, <1>24 DEF Reboot, disk, TypeOK, Homes, Free, CallOK, Holding, Made
  <1> QED
    BY <1>1, <1>2, <1>3, <1>4, <1>5, <1>6, <1>7, <1>8, <1>9, <1>10, <1>11, <1>12, <1>13, <1>14,
       <1>15, <1>16, <1>17, <1>18, <1>19, <1>20, <1>21, <1>22, <1>23, <1>24 DEF Next

(* The services of a stack.                                                *)
LEMMA ServicesStep ==
    ASSUME EphemeralInv, Next PROVE Services'
  <1>0. /\ TypeOK /\ (\A d \in Callers : CallOK(d)) /\ Apart /\ Homes /\ Services
        /\ SpacesHeld /\ ServicesHeld /\ ArchiveHeld /\ Len(home) \in Nat
    BY LenNat DEF EphemeralInv
  <1>1. ASSUME NEW c \in Callers, NEW op \in Op, NEW n \in Names \cup Ephemeral, Call(c, op, n)
        PROVE  Services'
    BY <1>0, Tags, <1>1
       DEF Call, disk, TypeOK, Services, Free, CallOK, Holding, Made, Local, Apart
  <1>2. ASSUME NEW c \in Callers, Allocate(c) PROVE Services'
    <2>1. ASSUME NEW p \in Pids, proc[p].what = "stack" PROVE proc[p].ws # Len(home) + 1
      BY <1>0, <2>1 DEF Homes, Made
    <2> QED
      BY <1>0, <1>2, <2>1, AllocateEffect DEF Services, Holding
  <1>3. ASSUME NEW c \in Callers, Stage(c) PROVE Services'
    BY <1>0, Tags, <1>3
       DEF Stage, Staged, Raise, Goto, disk, TypeOK, Services, Free, CallOK, Holding, Made, Local,
           Apart
  <1>4. ASSUME NEW c \in Callers, Teardown(c) PROVE Services'
    BY <1>0, Tags, <1>4
       DEF Teardown, Rmtree, Raise, Goto, disk, TypeOK, Services, Free, CallOK, Holding, Made, Local,
           Apart
  <1>5. ASSUME NEW c \in Callers, SessionEnds(c) PROVE Services'
    BY <1>0, Tags, <1>5
       DEF SessionEnds, Goto, disk, TypeOK, Services, Free, CallOK, Holding, Made, Local, Apart
  <1>6. ASSUME NEW c \in Callers, Serve(c) PROVE Services'
    BY <1>0, Tags, <1>6
       DEF Serve, Raise, Goto, disk, TypeOK, Services, Free, CallOK, Holding, Made, Local,
           Apart
  <1>7. ASSUME NEW c \in Callers, Terminate(c) PROVE Services'
    BY <1>0, Tags, <1>7
       DEF Terminate, Goto, disk, TypeOK, Services, Free, CallOK, Holding, Made, Local, Apart
  <1>8. ASSUME NEW c \in Callers, OpenArchive(c) PROVE Services'
    BY <1>0, Tags, <1>8
       DEF OpenArchive, Goto, disk, TypeOK, Services, Free, CallOK, Holding, Made, Local, Apart
  <1>9. ASSUME NEW c \in Callers, WriteArchive(c) PROVE Services'
    BY <1>0, Tags, <1>9
       DEF WriteArchive, Goto, disk, TypeOK, Services, Free, CallOK, Holding, Made, Local,
           Apart
  <1>10. ASSUME NEW c \in Callers, CheckName(c) PROVE Services'
    BY <1>0, Tags, <1>10
       DEF CheckName, Goto, TypeOK, Services, Free, CallOK, Holding, Made, Local, Apart
  <1>11. ASSUME NEW c \in Callers, UnlinkPid(c) PROVE Services'
    BY <1>0, Tags, <1>11
       DEF UnlinkPid, Goto, TypeOK, Services, Free, CallOK, Holding, Made, Local, Apart
  <1>12. ASSUME NEW c \in Callers, LaunchUnit(c) PROVE Services'
    BY <1>0, <1>12, LaunchUnitEffect DEF Services, Holding
  <1>13. ASSUME NEW c \in Callers, Launch(c) PROVE Services'
    <2>1. \A p \in Pids : proc'[p].what = "stack" => proc'[p] = proc[p]
      <3>1. loc[c].name \in Names
        BY <1>0, <1>13 DEF Launch, CallOK
      <3>2. \/ proc' = proc
            \/ \E p \in Pids :
                  proc' = [proc EXCEPT ![p] = [what |-> loc[c].name, ws |-> loc[c].ws]]
        BY <1>13 DEF Launch
      <3>3. ASSUME NEW q \in Pids,
                   proc' = [proc EXCEPT ![q] = [what |-> loc[c].name, ws |-> loc[c].ws]]
            PROVE  \A p \in Pids : proc'[p] = proc[p] \/ proc'[p].what = loc[c].name
        BY <1>0, <3>3 DEF TypeOK
      <3> QED
        BY <3>1, <3>2, <3>3, Tags
    <2> QED
      BY <1>0, <1>13, <2>1, LaunchEffect DEF Services, Holding
  <1>14. ASSUME NEW c \in Callers, RecordPid(c) PROVE Services'
    BY <1>0, Tags, <1>14
       DEF RecordPid, Goto, TypeOK, Services, Free, CallOK, Holding, Made, Local, Apart
  <1>15. ASSUME NEW c \in Callers, RecordWs(c) PROVE Services'
    BY <1>0, Tags, <1>15
       DEF RecordWs, Goto, TypeOK, Services, Free, CallOK, Holding, Made, Local, Apart
  <1>16. ASSUME NEW c \in Callers, ReadPid(c) PROVE Services'
    BY <1>0, Tags, <1>16
       DEF ReadPid, Goto, disk, TypeOK, Services, Free, CallOK, Holding, Made, Local, Apart
  <1>17. ASSUME NEW c \in Callers, KillDaemon(c) PROVE Services'
    <2>1. \A p \in Pids : proc'[p] = proc[p] \/ proc'[p] = Free
      BY <1>0, <1>17 DEF KillDaemon, TypeOK
    <2>2. Free.what # "stack"
      BY DEF Free
    <2>3. loc' = loc /\ \A d \in Callers : pc'[d] = pc[d] \/ pc'[d] = "vaporize"
      BY <1>0, <1>17 DEF KillDaemon, Goto, TypeOK
    <2> QED
      BY <1>0, <2>1, <2>2, <2>3 DEF Services, Holding
  <1>18. ASSUME NEW c \in Callers, Vaporize(c) PROVE Services'
    BY <1>0, Tags, <1>18
       DEF Vaporize, Rmtree, Goto, disk, TypeOK, Services, Free, CallOK, Holding, Made, Local, Apart
  <1>19. ASSUME NEW c \in Callers, RemoveDir(c) PROVE Services'
    BY <1>0, Tags, <1>19
       DEF RemoveDir, Goto, TypeOK, Services, Free, CallOK, Holding, Made, Local, Apart
  <1>20. ASSUME NEW c \in Callers, Interrupt(c) PROVE Services'
    BY <1>0, Tags, <1>20
       DEF Interrupt, Raise, Goto, disk, TypeOK, Services, Free, CallOK, Holding, Made, Local,
           Apart
  <1>21. ASSUME NEW p \in Pids, ProcExits(p) PROVE Services'
    BY <1>0, Tags, <1>21
       DEF ProcExits, disk, TypeOK, Services, Free, CallOK, Holding, Made, Local, Apart
  <1>22. ASSUME NEW p \in Pids, Reuse(p) PROVE Services'
    BY <1>0, Tags, <1>22
       DEF Reuse, disk, TypeOK, Services, Free, CallOK, Holding, Made, Local, Apart
  <1>23. ASSUME NEW n \in Names, UnitExits(n) PROVE Services'
    BY <1>0, Tags, <1>23
       DEF UnitExits, disk, TypeOK, Services, Free, CallOK, Holding, Made, Local, Apart
  <1>24. ASSUME Reboot PROVE Services'
    BY <1>0, Tags, <1>24
       DEF Reboot, disk, TypeOK, Services, Free, CallOK, Holding, Made, Local, Apart
  <1> QED
    BY <1>1, <1>2, <1>3, <1>4, <1>5, <1>6, <1>7, <1>8, <1>9, <1>10, <1>11, <1>12, <1>13, <1>14,
       <1>15, <1>16, <1>17, <1>18, <1>19, <1>20, <1>21, <1>22, <1>23, <1>24 DEF Next

(* A workspace nobody answers for any more.                                *)
Dropped(w) == Held(w) /\ ~ Held(w)'
Gone(w) == w \notin spaces \ strays /\ \A p \in Pids : proc[p].what = "stack" => proc[p].ws # w

(* A call that drops an ephemeral workspace has removed it before.         *)
LEMMA HeldStep ==
    ASSUME EphemeralInv, Next
    PROVE  \A w \in 1 .. Len(home) : Dropped(w) => home[w] \notin Ephemeral \/ Gone(w)'
  <1>0. /\ TypeOK /\ (\A d \in Callers : CallOK(d)) /\ Apart /\ Homes /\ Services
        /\ SpacesHeld /\ ServicesHeld /\ ArchiveHeld /\ Len(home) \in Nat
    BY LenNat DEF EphemeralInv
  <1>1. ASSUME NEW c \in Callers, NEW op \in Op, NEW n \in Names \cup Ephemeral, Call(c, op, n)
        PROVE  \A w \in 1 .. Len(home) : Dropped(w) => home[w] \notin Ephemeral \/ Gone(w)'
    <2>1. /\ \A d \in Callers \ {c} : pc'[d] = pc[d] /\ loc'[d].ws = loc[d].ws
          /\ lost' = lost /\ pc[c] = "idle"
      BY <1>0, <1>1 DEF Call, TypeOK
    <2>2. \A w : Held(w) => Held(w)'
      BY <2>1 DEF Held
    <2> QED
      BY <2>2 DEF Dropped
  <1>2. ASSUME NEW c \in Callers, Allocate(c)
        PROVE  \A w \in 1 .. Len(home) : Dropped(w) => home[w] \notin Ephemeral \/ Gone(w)'
    <2>1. /\ \A d \in Callers \ {c} : pc'[d] = pc[d] /\ loc'[d].ws = loc[d].ws
          /\ lost \subseteq lost'
      BY <1>0, <1>2, AllocateEffect
    <2>2. loc[c].ws = 0
      BY <1>0, <1>2 DEF Allocate, CallOK, Holding
    <2> QED
      BY <1>0, <1>2, <2>1, <2>2, HeldKept DEF Dropped
  <1>3. ASSUME NEW c \in Callers, Stage(c)
        PROVE  \A w \in 1 .. Len(home) : Dropped(w) => home[w] \notin Ephemeral \/ Gone(w)'
    <2>1. /\ \A d \in Callers \ {c} : pc'[d] = pc[d] /\ loc'[d].ws = loc[d].ws
          /\ lost \subseteq lost' /\ proc' = proc
      BY <1>0, <1>3 DEF Stage, Staged, Raise, Goto, TypeOK
    <2>2. \/ pc'[c] # "idle" /\ loc'[c].ws = loc[c].ws
          \/ loc[c].ws = 0 \/ loc[c].ws \in lost'
          \/ loc[c].ws \notin spaces' \ strays'
      BY <1>0, <1>3 DEF Stage, Staged, Raise, Goto, TypeOK
    <2>3. \A p \in Pids : proc[p].what = "stack" => proc[p].ws # loc[c].ws
      BY <1>0, <1>3 DEF Stage, Services, Holding
    <2> QED
      BY <1>0, <1>3, <2>1, <2>2, <2>3, HeldKept DEF Dropped, Gone
  <1>4. ASSUME NEW c \in Callers, Teardown(c)
        PROVE  \A w \in 1 .. Len(home) : Dropped(w) => home[w] \notin Ephemeral \/ Gone(w)'
    <2>1. /\ \A d \in Callers \ {c} : pc'[d] = pc[d] /\ loc'[d].ws = loc[d].ws
          /\ lost \subseteq lost' /\ proc' = proc
      BY <1>0, <1>4 DEF Teardown, Rmtree, Raise, Goto, TypeOK
    <2>2. \/ pc'[c] # "idle" /\ loc'[c].ws = loc[c].ws
          \/ loc[c].ws = 0 \/ loc[c].ws \in lost'
          \/ loc[c].ws \notin spaces' \ strays'
      BY <1>0, <1>4 DEF Teardown, Rmtree, Raise, Goto, TypeOK
    <2>3. \A p \in Pids : proc[p].what = "stack" => proc[p].ws # loc[c].ws
      BY <1>0, <1>4 DEF Teardown, Rmtree, Services, Holding
    <2> QED
      BY <1>0, <1>4, <2>1, <2>2, <2>3, HeldKept DEF Dropped, Gone
  <1>5. ASSUME NEW c \in Callers, SessionEnds(c)
        PROVE  \A w \in 1 .. Len(home) : Dropped(w) => home[w] \notin Ephemeral \/ Gone(w)'
    <2>1. /\ \A d \in Callers \ {c} : pc'[d] = pc[d] /\ loc'[d].ws = loc[d].ws
          /\ lost \subseteq lost'
      BY <1>0, <1>5 DEF SessionEnds, Goto, TypeOK
    <2>2. pc'[c] # "idle" /\ loc'[c].ws = loc[c].ws
      BY <1>0, <1>5 DEF SessionEnds, Goto, TypeOK
    <2> QED
      BY <1>0, <1>5, <2>1, <2>2, HeldKept DEF Dropped
  <1>6. ASSUME NEW c \in Callers, Serve(c)
        PROVE  \A w \in 1 .. Len(home) : Dropped(w) => home[w] \notin Ephemeral \/ Gone(w)'
    <2>0. PICK S \in SUBSET Pids : loc' = [loc EXCEPT ![c].pids = S]
      BY <1>6 DEF Serve
    <2>1. /\ \A d \in Callers : loc'[d].ws = loc[d].ws
          /\ \A d \in Callers \ {c} : pc'[d] = pc[d]
      BY <1>0, <1>6, <2>0, ValKeeps DEF Serve, Raise, Goto, TypeOK
    <2>2. /\ lost \subseteq lost'
          /\ pc'[c] # "idle" \/ loc[c].ws = 0 \/ loc[c].ws \in lost'
      BY <1>0, <1>6 DEF Serve, Raise, Goto, TypeOK
    <2> QED
      BY <1>0, <1>6, <2>1, <2>2, HeldKept DEF Dropped
  <1>7. ASSUME NEW c \in Callers, Terminate(c)
        PROVE  \A w \in 1 .. Len(home) : Dropped(w) => home[w] \notin Ephemeral \/ Gone(w)'
    <2>1. /\ \A d \in Callers \ {c} : pc'[d] = pc[d] /\ loc'[d].ws = loc[d].ws
          /\ lost \subseteq lost'
      BY <1>0, <1>7 DEF Terminate, Goto, TypeOK
    <2>2. pc'[c] # "idle" /\ loc'[c].ws = loc[c].ws
      BY <1>0, <1>7 DEF Terminate, Goto, TypeOK
    <2> QED
      BY <1>0, <1>7, <2>1, <2>2, HeldKept DEF Dropped
  <1>8. ASSUME NEW c \in Callers, OpenArchive(c)
        PROVE  \A w \in 1 .. Len(home) : Dropped(w) => home[w] \notin Ephemeral \/ Gone(w)'
    <2>1. /\ \A d \in Callers \ {c} : pc'[d] = pc[d] /\ loc'[d].ws = loc[d].ws
          /\ lost \subseteq lost'
      BY <1>0, <1>8 DEF OpenArchive, Goto, TypeOK
    <2>2. pc'[c] # "idle" /\ loc'[c].ws = loc[c].ws
      BY <1>0, <1>8 DEF OpenArchive, Goto, TypeOK
    <2> QED
      BY <1>0, <1>8, <2>1, <2>2, HeldKept DEF Dropped
  <1>9. ASSUME NEW c \in Callers, WriteArchive(c)
        PROVE  \A w \in 1 .. Len(home) : Dropped(w) => home[w] \notin Ephemeral \/ Gone(w)'
    <2>1. /\ \A d \in Callers \ {c} : pc'[d] = pc[d] /\ loc'[d].ws = loc[d].ws
          /\ lost \subseteq lost'
      BY <1>0, <1>9 DEF WriteArchive, Goto, TypeOK
    <2>2. pc'[c] # "idle" /\ loc'[c].ws = loc[c].ws
      BY <1>0, <1>9 DEF WriteArchive, Goto, TypeOK
    <2> QED
      BY <1>0, <1>9, <2>1, <2>2, HeldKept DEF Dropped
  <1>10. ASSUME NEW c \in Callers, CheckName(c)
        PROVE  \A w \in 1 .. Len(home) : Dropped(w) => home[w] \notin Ephemeral \/ Gone(w)'
    <2>1. /\ \A d \in Callers \ {c} : pc'[d] = pc[d] /\ loc'[d].ws = loc[d].ws
          /\ lost \subseteq lost'
      BY <1>0, <1>10 DEF CheckName, Goto, TypeOK, Local
    <2>2. loc[c].ws = 0
      BY <1>0, <1>10 DEF CheckName, CallOK, Holding
    <2> QED
      BY <1>0, <1>10, <2>1, <2>2, HeldKept DEF Dropped
  <1>11. ASSUME NEW c \in Callers, UnlinkPid(c)
        PROVE  \A w \in 1 .. Len(home) : Dropped(w) => home[w] \notin Ephemeral \/ Gone(w)'
    <2>1. /\ \A d \in Callers \ {c} : pc'[d] = pc[d] /\ loc'[d].ws = loc[d].ws
          /\ lost \subseteq lost'
      BY <1>0, <1>11 DEF UnlinkPid, Goto, TypeOK
    <2>2. pc'[c] # "idle" /\ loc'[c].ws = loc[c].ws
      BY <1>0, <1>11 DEF UnlinkPid, Goto, TypeOK
    <2> QED
      BY <1>0, <1>11, <2>1, <2>2, HeldKept DEF Dropped
  <1>12. ASSUME NEW c \in Callers, LaunchUnit(c)
        PROVE  \A w \in 1 .. Len(home) : Dropped(w) => home[w] \notin Ephemeral \/ Gone(w)'
    <2>1. /\ \A d \in Callers \ {c} : pc'[d] = pc[d] /\ loc'[d].ws = loc[d].ws
          /\ lost \subseteq lost' /\ loc'[c].ws = loc[c].ws
          /\ pc'[c] # "idle" \/ loc[c].ws = 0 \/ loc[c].ws \in lost'
      BY <1>0, <1>12, LaunchUnitEffect
    <2> QED
      BY <1>0, <1>12, <2>1, HeldKept DEF Dropped
  <1>13. ASSUME NEW c \in Callers, Launch(c)
        PROVE  \A w \in 1 .. Len(home) : Dropped(w) => home[w] \notin Ephemeral \/ Gone(w)'
    <2>1. /\ \A d \in Callers \ {c} : pc'[d] = pc[d] /\ loc'[d].ws = loc[d].ws
          /\ lost \subseteq lost' /\ loc'[c].ws = loc[c].ws
          /\ pc'[c] # "idle" \/ loc[c].ws = 0 \/ loc[c].ws \in lost'
      BY <1>0, <1>13, LaunchEffect
    <2> QED
      BY <1>0, <1>13, <2>1, HeldKept DEF Dropped
  <1>14. ASSUME NEW c \in Callers, RecordPid(c)
        PROVE  \A w \in 1 .. Len(home) : Dropped(w) => home[w] \notin Ephemeral \/ Gone(w)'
    <2>1. /\ \A d \in Callers \ {c} : pc'[d] = pc[d] /\ loc'[d].ws = loc[d].ws
          /\ lost \subseteq lost'
      BY <1>0, <1>14 DEF RecordPid, Goto, TypeOK
    <2>2. pc'[c] # "idle" /\ loc'[c].ws = loc[c].ws
      BY <1>0, <1>14 DEF RecordPid, Goto, TypeOK
    <2> QED
      BY <1>0, <1>14, <2>1, <2>2, HeldKept DEF Dropped
  <1>15. ASSUME NEW c \in Callers, RecordWs(c)
        PROVE  \A w \in 1 .. Len(home) : Dropped(w) => home[w] \notin Ephemeral \/ Gone(w)'
    <2>1. /\ \A d \in Callers \ {c} : pc'[d] = pc[d] /\ loc'[d].ws = loc[d].ws
          /\ lost' = lost
      BY <1>0, <1>15 DEF RecordWs, Goto, TypeOK
    <2>2. home[loc[c].ws] \notin Ephemeral
      BY <1>0, <1>15, Tags DEF RecordWs, CallOK, Holding, Made
    <2> QED
      BY <1>0, <1>15, <2>1, <2>2, HeldKept DEF Dropped
  <1>16. ASSUME NEW c \in Callers, ReadPid(c)
        PROVE  \A w \in 1 .. Len(home) : Dropped(w) => home[w] \notin Ephemeral \/ Gone(w)'
    <2>1. /\ \A d \in Callers \ {c} : pc'[d] = pc[d] /\ loc'[d].ws = loc[d].ws
          /\ lost \subseteq lost'
      BY <1>0, <1>16 DEF ReadPid, Goto, TypeOK, Local
    <2>2. loc[c].ws = 0
      BY <1>0, <1>16 DEF ReadPid, CallOK, Holding
    <2> QED
      BY <1>0, <1>16, <2>1, <2>2, HeldKept DEF Dropped
  <1>17. ASSUME NEW c \in Callers, KillDaemon(c)
        PROVE  \A w \in 1 .. Len(home) : Dropped(w) => home[w] \notin Ephemeral \/ Gone(w)'
    <2>1. /\ \A d \in Callers \ {c} : pc'[d] = pc[d] /\ loc'[d].ws = loc[d].ws
          /\ lost \subseteq lost'
      BY <1>0, <1>17 DEF KillDaemon, Goto, TypeOK
    <2>2. pc'[c] # "idle" /\ loc'[c].ws = loc[c].ws
      BY <1>0, <1>17 DEF KillDaemon, Goto, TypeOK
    <2> QED
      BY <1>0, <1>17, <2>1, <2>2, HeldKept DEF Dropped
  <1>18. ASSUME NEW c \in Callers, Vaporize(c)
        PROVE  \A w \in 1 .. Len(home) : Dropped(w) => home[w] \notin Ephemeral \/ Gone(w)'
    <2>1. /\ \A d \in Callers \ {c} : pc'[d] = pc[d] /\ loc'[d].ws = loc[d].ws
          /\ lost \subseteq lost'
      BY <1>0, <1>18 DEF Vaporize, Rmtree, Goto, TypeOK
    <2>2. pc'[c] # "idle" /\ loc'[c].ws = loc[c].ws
      BY <1>0, <1>18 DEF Vaporize, Rmtree, Goto, TypeOK
    <2> QED
      BY <1>0, <1>18, <2>1, <2>2, HeldKept DEF Dropped
  <1>19. ASSUME NEW c \in Callers, RemoveDir(c)
        PROVE  \A w \in 1 .. Len(home) : Dropped(w) => home[w] \notin Ephemeral \/ Gone(w)'
    <2>1. /\ \A d \in Callers \ {c} : pc'[d] = pc[d] /\ loc'[d].ws = loc[d].ws
          /\ lost \subseteq lost'
      BY <1>0, <1>19 DEF RemoveDir, Goto, TypeOK, Local
    <2>2. loc[c].ws = 0
      BY <1>0, <1>19 DEF RemoveDir, CallOK, Holding
    <2> QED
      BY <1>0, <1>19, <2>1, <2>2, HeldKept DEF Dropped
  <1>20. ASSUME NEW c \in Callers, Interrupt(c)
        PROVE  \A w \in 1 .. Len(home) : Dropped(w) => home[w] \notin Ephemeral \/ Gone(w)'
    <2>1. /\ \A d \in Callers \ {c} : pc'[d] = pc[d] /\ loc'[d].ws = loc[d].ws
          /\ lost \subseteq lost'
      BY <1>0, <1>20 DEF Interrupt, Raise, Goto, TypeOK
    <2>2. loc[c].ws = 0 \/ loc[c].ws \in lost'
      BY <1>0, <1>20 DEF Interrupt, Raise, Goto, TypeOK
    <2> QED
      BY <1>0, <1>20, <2>1, <2>2, HeldKept DEF Dropped
  <1>21. ASSUME NEW p \in Pids, ProcExits(p)
        PROVE  \A w \in 1 .. Len(home) : Dropped(w) => home[w] \notin Ephemeral \/ Gone(w)'
    BY <1>21 DEF ProcExits, Dropped, Held
  <1>22. ASSUME NEW p \in Pids, Reuse(p)
        PROVE  \A w \in 1 .. Len(home) : Dropped(w) => home[w] \notin Ephemeral \/ Gone(w)'
    BY <1>22 DEF Reuse, Dropped, Held
  <1>23. ASSUME NEW n \in Names, UnitExits(n)
        PROVE  \A w \in 1 .. Len(home) : Dropped(w) => home[w] \notin Ephemeral \/ Gone(w)'
    BY <1>23 DEF UnitExits, Dropped, Held
  <1>24. ASSUME Reboot
        PROVE  \A w \in 1 .. Len(home) : Dropped(w) => home[w] \notin Ephemeral \/ Gone(w)'
    BY <1>24 DEF Reboot, Gone, Free
  <1> QED
    BY <1>1, <1>2, <1>3, <1>4, <1>5, <1>6, <1>7, <1>8, <1>9, <1>10, <1>11, <1>12, <1>13, <1>14,
       <1>15, <1>16, <1>17, <1>18, <1>19, <1>20, <1>21, <1>22, <1>23, <1>24 DEF Next

(* The workspaces.                                                         *)
LEMMA SpacesStep ==
    ASSUME EphemeralInv, Next PROVE SpacesHeld'
  <1>0. /\ TypeOK /\ (\A d \in Callers : CallOK(d)) /\ Apart /\ Homes /\ Services
        /\ SpacesHeld /\ ServicesHeld /\ ArchiveHeld /\ Len(home) \in Nat
    BY LenNat DEF EphemeralInv
  <1>h. \A w \in 1 .. Len(home) : Dropped(w) => home[w] \notin Ephemeral \/ Gone(w)'
    BY HeldStep
  <1>g. strays \subseteq strays'
    BY StraysStep
  <1>s. spaces \subseteq 1 .. Len(home)
    BY <1>0 DEF TypeOK
  <1>1. ASSUME NEW c \in Callers, NEW op \in Op, NEW n \in Names \cup Ephemeral, Call(c, op, n)
        PROVE  SpacesHeld'
    <2>1. spaces' \subseteq spaces /\ home' = home
      BY <1>1 DEF Call
    <2> QED
      BY <1>0, <1>g, <1>h, <1>s, <2>1 DEF SpacesHeld, Dropped, Gone
  <1>2. ASSUME NEW c \in Callers, Allocate(c) PROVE SpacesHeld'
    <2>1. ASSUME NEW w \in spaces, home'[w] \in Ephemeral PROVE Held(w)' \/ w \in strays'
      <3>1. w \in 1 .. Len(home) /\ home'[w] = home[w]
        BY <1>0, <1>2, AllocateEffect DEF TypeOK
      <3> QED
        BY <1>0, <1>g, <1>h, <1>2, <2>1, <3>1, AllocateEffect DEF SpacesHeld, Dropped, Gone
    <2>2. \A w : loc'[c].ws = w /\ pc'[c] = "stage" => Held(w)'
      BY DEF Held
    <2> QED
      BY <1>0, <1>2, <2>1, <2>2, AllocateEffect DEF SpacesHeld
  <1>3. ASSUME NEW c \in Callers, Stage(c) PROVE SpacesHeld'
    <2>1. spaces' \subseteq spaces /\ home' = home
      BY <1>3 DEF Stage, Staged
    <2> QED
      BY <1>0, <1>g, <1>h, <1>s, <2>1 DEF SpacesHeld, Dropped, Gone
  <1>4. ASSUME NEW c \in Callers, Teardown(c) PROVE SpacesHeld'
    <2>1. spaces' \subseteq spaces /\ home' = home
      BY <1>4 DEF Teardown, Rmtree
    <2> QED
      BY <1>0, <1>g, <1>h, <1>s, <2>1 DEF SpacesHeld, Dropped, Gone
  <1>5. ASSUME NEW c \in Callers, SessionEnds(c) PROVE SpacesHeld'
    <2>1. spaces' \subseteq spaces /\ home' = home
      BY <1>5 DEF SessionEnds
    <2> QED
      BY <1>0, <1>g, <1>h, <1>s, <2>1 DEF SpacesHeld, Dropped, Gone
  <1>6. ASSUME NEW c \in Callers, Serve(c) PROVE SpacesHeld'
    <2>1. spaces' \subseteq spaces /\ home' = home
      BY <1>6 DEF Serve
    <2> QED
      BY <1>0, <1>g, <1>h, <1>s, <2>1 DEF SpacesHeld, Dropped, Gone
  <1>7. ASSUME NEW c \in Callers, Terminate(c) PROVE SpacesHeld'
    <2>1. spaces' \subseteq spaces /\ home' = home
      BY <1>7 DEF Terminate
    <2> QED
      BY <1>0, <1>g, <1>h, <1>s, <2>1 DEF SpacesHeld, Dropped, Gone
  <1>8. ASSUME NEW c \in Callers, OpenArchive(c) PROVE SpacesHeld'
    <2>1. spaces' \subseteq spaces /\ home' = home
      BY <1>8 DEF OpenArchive
    <2> QED
      BY <1>0, <1>g, <1>h, <1>s, <2>1 DEF SpacesHeld, Dropped, Gone
  <1>9. ASSUME NEW c \in Callers, WriteArchive(c) PROVE SpacesHeld'
    <2>1. spaces' \subseteq spaces /\ home' = home
      BY <1>9 DEF WriteArchive
    <2> QED
      BY <1>0, <1>g, <1>h, <1>s, <2>1 DEF SpacesHeld, Dropped, Gone
  <1>10. ASSUME NEW c \in Callers, CheckName(c) PROVE SpacesHeld'
    <2>1. spaces' \subseteq spaces /\ home' = home
      BY <1>10 DEF CheckName
    <2> QED
      BY <1>0, <1>g, <1>h, <1>s, <2>1 DEF SpacesHeld, Dropped, Gone
  <1>11. ASSUME NEW c \in Callers, UnlinkPid(c) PROVE SpacesHeld'
    <2>1. spaces' \subseteq spaces /\ home' = home
      BY <1>11 DEF UnlinkPid
    <2> QED
      BY <1>0, <1>g, <1>h, <1>s, <2>1 DEF SpacesHeld, Dropped, Gone
  <1>12. ASSUME NEW c \in Callers, LaunchUnit(c) PROVE SpacesHeld'
    <2>1. spaces' \subseteq spaces /\ home' = home
      BY <1>12 DEF LaunchUnit
    <2> QED
      BY <1>0, <1>g, <1>h, <1>s, <2>1 DEF SpacesHeld, Dropped, Gone
  <1>13. ASSUME NEW c \in Callers, Launch(c) PROVE SpacesHeld'
    <2>1. spaces' \subseteq spaces /\ home' = home
      BY <1>13 DEF Launch
    <2> QED
      BY <1>0, <1>g, <1>h, <1>s, <2>1 DEF SpacesHeld, Dropped, Gone
  <1>14. ASSUME NEW c \in Callers, RecordPid(c) PROVE SpacesHeld'
    <2>1. spaces' \subseteq spaces /\ home' = home
      BY <1>14 DEF RecordPid
    <2> QED
      BY <1>0, <1>g, <1>h, <1>s, <2>1 DEF SpacesHeld, Dropped, Gone
  <1>15. ASSUME NEW c \in Callers, RecordWs(c) PROVE SpacesHeld'
    <2>1. spaces' \subseteq spaces /\ home' = home
      BY <1>15 DEF RecordWs
    <2> QED
      BY <1>0, <1>g, <1>h, <1>s, <2>1 DEF SpacesHeld, Dropped, Gone
  <1>16. ASSUME NEW c \in Callers, ReadPid(c) PROVE SpacesHeld'
    <2>1. spaces' \subseteq spaces /\ home' = home
      BY <1>16 DEF ReadPid
    <2> QED
      BY <1>0, <1>g, <1>h, <1>s, <2>1 DEF SpacesHeld, Dropped, Gone
  <1>17. ASSUME NEW c \in Callers, KillDaemon(c) PROVE SpacesHeld'
    <2>1. spaces' \subseteq spaces /\ home' = home
      BY <1>17 DEF KillDaemon
    <2> QED
      BY <1>0, <1>g, <1>h, <1>s, <2>1 DEF SpacesHeld, Dropped, Gone
  <1>18. ASSUME NEW c \in Callers, Vaporize(c) PROVE SpacesHeld'
    <2>1. spaces' \subseteq spaces /\ home' = home
      BY <1>18 DEF Vaporize, Rmtree
    <2> QED
      BY <1>0, <1>g, <1>h, <1>s, <2>1 DEF SpacesHeld, Dropped, Gone
  <1>19. ASSUME NEW c \in Callers, RemoveDir(c) PROVE SpacesHeld'
    <2>1. spaces' \subseteq spaces /\ home' = home
      BY <1>19 DEF RemoveDir
    <2> QED
      BY <1>0, <1>g, <1>h, <1>s, <2>1 DEF SpacesHeld, Dropped, Gone
  <1>20. ASSUME NEW c \in Callers, Interrupt(c) PROVE SpacesHeld'
    <2>1. spaces' \subseteq spaces /\ home' = home
      BY <1>20 DEF Interrupt
    <2> QED
      BY <1>0, <1>g, <1>h, <1>s, <2>1 DEF SpacesHeld, Dropped, Gone
  <1>21. ASSUME NEW p \in Pids, ProcExits(p) PROVE SpacesHeld'
    <2>1. spaces' \subseteq spaces /\ home' = home
      BY <1>21 DEF ProcExits
    <2> QED
      BY <1>0, <1>g, <1>h, <1>s, <2>1 DEF SpacesHeld, Dropped, Gone
  <1>22. ASSUME NEW p \in Pids, Reuse(p) PROVE SpacesHeld'
    <2>1. spaces' \subseteq spaces /\ home' = home
      BY <1>22 DEF Reuse
    <2> QED
      BY <1>0, <1>g, <1>h, <1>s, <2>1 DEF SpacesHeld, Dropped, Gone
  <1>23. ASSUME NEW n \in Names, UnitExits(n) PROVE SpacesHeld'
    <2>1. spaces' \subseteq spaces /\ home' = home
      BY <1>23 DEF UnitExits
    <2> QED
      BY <1>0, <1>g, <1>h, <1>s, <2>1 DEF SpacesHeld, Dropped, Gone
  <1>24. ASSUME Reboot PROVE SpacesHeld'
    <2>1. spaces' \subseteq spaces /\ home' = home
      BY <1>24 DEF Reboot
    <2> QED
      BY <1>0, <1>g, <1>h, <1>s, <2>1 DEF SpacesHeld, Dropped, Gone
  <1> QED
    BY <1>1, <1>2, <1>3, <1>4, <1>5, <1>6, <1>7, <1>8, <1>9, <1>10, <1>11, <1>12, <1>13, <1>14,
       <1>15, <1>16, <1>17, <1>18, <1>19, <1>20, <1>21, <1>22, <1>23, <1>24 DEF Next

(* The services.                                                           *)
LEMMA ServicesHeldStep ==
    ASSUME EphemeralInv, Next PROVE ServicesHeld'
  <1>0. /\ TypeOK /\ (\A d \in Callers : CallOK(d)) /\ Apart /\ Homes /\ Services
        /\ SpacesHeld /\ ServicesHeld /\ ArchiveHeld /\ Len(home) \in Nat
    BY LenNat DEF EphemeralInv
  <1>h. \A w \in 1 .. Len(home) : Dropped(w) => home[w] \notin Ephemeral \/ Gone(w)'
    BY HeldStep
  <1>t. \A q \in Pids : proc[q].what = "stack" =>
            proc[q].ws \in 1 .. Len(home) /\ home[proc[q].ws] = "stack"
    BY <1>0 DEF Homes, Made
  <1>1. ASSUME NEW c \in Callers, NEW op \in Op, NEW n \in Names \cup Ephemeral, Call(c, op, n)
        PROVE  ServicesHeld'
    <2>1. \A q \in Pids : proc'[q].what = "stack" => proc'[q] = proc[q]
      BY <1>1 DEF Call
    <2> QED
      BY <1>0, <1>h, <1>t, <2>1 DEF ServicesHeld, Dropped, Gone, Ephemeral
  <1>2. ASSUME NEW c \in Callers, Allocate(c) PROVE ServicesHeld'
    <2>1. \A q \in Pids : proc'[q].what = "stack" => proc'[q] = proc[q]
      BY <1>2 DEF Allocate
    <2> QED
      BY <1>0, <1>h, <1>t, <2>1 DEF ServicesHeld, Dropped, Gone, Ephemeral
  <1>3. ASSUME NEW c \in Callers, Stage(c) PROVE ServicesHeld'
    <2>1. \A q \in Pids : proc'[q].what = "stack" => proc'[q] = proc[q]
      BY <1>3 DEF Stage, Staged
    <2> QED
      BY <1>0, <1>h, <1>t, <2>1 DEF ServicesHeld, Dropped, Gone, Ephemeral
  <1>4. ASSUME NEW c \in Callers, Teardown(c) PROVE ServicesHeld'
    <2>1. \A q \in Pids : proc'[q].what = "stack" => proc'[q] = proc[q]
      BY <1>4 DEF Teardown, Rmtree
    <2> QED
      BY <1>0, <1>h, <1>t, <2>1 DEF ServicesHeld, Dropped, Gone, Ephemeral
  <1>5. ASSUME NEW c \in Callers, SessionEnds(c) PROVE ServicesHeld'
    <2>1. \A q \in Pids : proc'[q].what = "stack" => proc'[q] = proc[q]
      BY <1>5 DEF SessionEnds
    <2> QED
      BY <1>0, <1>h, <1>t, <2>1 DEF ServicesHeld, Dropped, Gone, Ephemeral
  <1>6. ASSUME NEW c \in Callers, Serve(c) PROVE ServicesHeld'
    <2>1. PICK S \in SUBSET Pids :
            /\ proc' = [p \in Pids |-> IF p \in S THEN [what |-> "stack", ws |-> loc[c].ws]
                                      ELSE proc[p]]
            /\ loc' = [loc EXCEPT ![c].pids = S]
      BY <1>6 DEF Serve
    <2>2. ASSUME NEW p \in Pids, p \notin S, proc'[p].what = "stack",
                 NEW w, w = proc'[p].ws
          PROVE  Held(w)'
      <3>1. proc'[p] = proc[p]
        BY <2>1, <2>2
      <3> QED
        BY <1>0, <1>h, <1>t, <2>2, <3>1 DEF ServicesHeld, Dropped, Gone, Ephemeral
    <2>3. loc'[c].ws = loc[c].ws /\ loc[c].ws \in 1 .. Len(home)
      BY <1>0, <1>6, <2>1, ValKeeps DEF Serve, CallOK, Holding, Made
    <2>4. ASSUME NEW w, w = loc[c].ws PROVE Held(w)'
      BY <1>0, <1>6, <2>3, <2>4 DEF Serve, Raise, Goto, Held, TypeOK
    <2>5. ASSUME NEW p \in S PROVE proc'[p].ws = loc[c].ws
      BY <2>1, <2>5
    <2> QED
      BY <2>2, <2>4, <2>5 DEF ServicesHeld
  <1>7. ASSUME NEW c \in Callers, Terminate(c) PROVE ServicesHeld'
    <2>1. \A q \in Pids : proc'[q].what = "stack" => proc'[q] = proc[q]
      BY <1>0, <1>7, Tags DEF Terminate, TypeOK, Free, CallOK
    <2> QED
      BY <1>0, <1>h, <1>t, <2>1 DEF ServicesHeld, Dropped, Gone, Ephemeral
  <1>8. ASSUME NEW c \in Callers, OpenArchive(c) PROVE ServicesHeld'
    <2>1. \A q \in Pids : proc'[q].what = "stack" => proc'[q] = proc[q]
      BY <1>8 DEF OpenArchive
    <2> QED
      BY <1>0, <1>h, <1>t, <2>1 DEF ServicesHeld, Dropped, Gone, Ephemeral
  <1>9. ASSUME NEW c \in Callers, WriteArchive(c) PROVE ServicesHeld'
    <2>1. \A q \in Pids : proc'[q].what = "stack" => proc'[q] = proc[q]
      BY <1>9 DEF WriteArchive
    <2> QED
      BY <1>0, <1>h, <1>t, <2>1 DEF ServicesHeld, Dropped, Gone, Ephemeral
  <1>10. ASSUME NEW c \in Callers, CheckName(c) PROVE ServicesHeld'
    <2>1. \A q \in Pids : proc'[q].what = "stack" => proc'[q] = proc[q]
      BY <1>10 DEF CheckName
    <2> QED
      BY <1>0, <1>h, <1>t, <2>1 DEF ServicesHeld, Dropped, Gone, Ephemeral
  <1>11. ASSUME NEW c \in Callers, UnlinkPid(c) PROVE ServicesHeld'
    <2>1. \A q \in Pids : proc'[q].what = "stack" => proc'[q] = proc[q]
      BY <1>11 DEF UnlinkPid
    <2> QED
      BY <1>0, <1>h, <1>t, <2>1 DEF ServicesHeld, Dropped, Gone, Ephemeral
  <1>12. ASSUME NEW c \in Callers, LaunchUnit(c) PROVE ServicesHeld'
    <2>1. \A q \in Pids : proc'[q].what = "stack" => proc'[q] = proc[q]
      BY <1>12 DEF LaunchUnit
    <2> QED
      BY <1>0, <1>h, <1>t, <2>1 DEF ServicesHeld, Dropped, Gone, Ephemeral
  <1>13. ASSUME NEW c \in Callers, Launch(c) PROVE ServicesHeld'
    <2>1. \A p \in Pids : proc'[p].what = "stack" => proc'[p] = proc[p]
      <3>1. loc[c].name \in Names
        BY <1>0, <1>13 DEF Launch, CallOK
      <3>2. \/ proc' = proc
            \/ \E p \in Pids :
                  proc' = [proc EXCEPT ![p] = [what |-> loc[c].name, ws |-> loc[c].ws]]
        BY <1>13 DEF Launch
      <3>3. ASSUME NEW q \in Pids,
                   proc' = [proc EXCEPT ![q] = [what |-> loc[c].name, ws |-> loc[c].ws]]
            PROVE  \A p \in Pids : proc'[p] = proc[p] \/ proc'[p].what = loc[c].name
        BY <1>0, <3>3 DEF TypeOK
      <3> QED
        BY <3>1, <3>2, <3>3, Tags
    <2> QED
      BY <1>0, <1>h, <1>t, <2>1 DEF ServicesHeld, Dropped, Gone, Ephemeral
  <1>14. ASSUME NEW c \in Callers, RecordPid(c) PROVE ServicesHeld'
    <2>1. \A q \in Pids : proc'[q].what = "stack" => proc'[q] = proc[q]
      BY <1>14 DEF RecordPid
    <2> QED
      BY <1>0, <1>h, <1>t, <2>1 DEF ServicesHeld, Dropped, Gone, Ephemeral
  <1>15. ASSUME NEW c \in Callers, RecordWs(c) PROVE ServicesHeld'
    <2>1. \A q \in Pids : proc'[q].what = "stack" => proc'[q] = proc[q]
      BY <1>15 DEF RecordWs
    <2> QED
      BY <1>0, <1>h, <1>t, <2>1 DEF ServicesHeld, Dropped, Gone, Ephemeral
  <1>16. ASSUME NEW c \in Callers, ReadPid(c) PROVE ServicesHeld'
    <2>1. \A q \in Pids : proc'[q].what = "stack" => proc'[q] = proc[q]
      BY <1>16 DEF ReadPid
    <2> QED
      BY <1>0, <1>h, <1>t, <2>1 DEF ServicesHeld, Dropped, Gone, Ephemeral
  <1>17. ASSUME NEW c \in Callers, KillDaemon(c) PROVE ServicesHeld'
    <2>1. \A q \in Pids : proc'[q].what = "stack" => proc'[q] = proc[q]
      <3>1. \A q \in Pids : proc'[q] = proc[q] \/ proc'[q] = Free
        BY <1>0, <1>17 DEF KillDaemon, TypeOK
      <3> QED
        BY <3>1 DEF Free
    <2> QED
      BY <1>0, <1>h, <1>t, <2>1 DEF ServicesHeld, Dropped, Gone, Ephemeral
  <1>18. ASSUME NEW c \in Callers, Vaporize(c) PROVE ServicesHeld'
    <2>1. \A q \in Pids : proc'[q].what = "stack" => proc'[q] = proc[q]
      BY <1>18 DEF Vaporize, Rmtree
    <2> QED
      BY <1>0, <1>h, <1>t, <2>1 DEF ServicesHeld, Dropped, Gone, Ephemeral
  <1>19. ASSUME NEW c \in Callers, RemoveDir(c) PROVE ServicesHeld'
    <2>1. \A q \in Pids : proc'[q].what = "stack" => proc'[q] = proc[q]
      BY <1>19 DEF RemoveDir
    <2> QED
      BY <1>0, <1>h, <1>t, <2>1 DEF ServicesHeld, Dropped, Gone, Ephemeral
  <1>20. ASSUME NEW c \in Callers, Interrupt(c) PROVE ServicesHeld'
    <2>1. \A q \in Pids : proc'[q].what = "stack" => proc'[q] = proc[q]
      BY <1>20 DEF Interrupt
    <2> QED
      BY <1>0, <1>h, <1>t, <2>1 DEF ServicesHeld, Dropped, Gone, Ephemeral
  <1>21. ASSUME NEW p \in Pids, ProcExits(p) PROVE ServicesHeld'
    <2>1. \A q \in Pids : proc'[q].what = "stack" => proc'[q] = proc[q]
      BY <1>0, <1>21, Tags DEF ProcExits, TypeOK, Free, CallOK
    <2> QED
      BY <1>0, <1>h, <1>t, <2>1 DEF ServicesHeld, Dropped, Gone, Ephemeral
  <1>22. ASSUME NEW p \in Pids, Reuse(p) PROVE ServicesHeld'
    <2>1. \A q \in Pids : proc'[q].what = "stack" => proc'[q] = proc[q]
      BY <1>0, <1>22, Tags DEF Reuse, TypeOK, Free, CallOK
    <2> QED
      BY <1>0, <1>h, <1>t, <2>1 DEF ServicesHeld, Dropped, Gone, Ephemeral
  <1>23. ASSUME NEW n \in Names, UnitExits(n) PROVE ServicesHeld'
    <2>1. \A q \in Pids : proc'[q].what = "stack" => proc'[q] = proc[q]
      BY <1>23 DEF UnitExits
    <2> QED
      BY <1>0, <1>h, <1>t, <2>1 DEF ServicesHeld, Dropped, Gone, Ephemeral
  <1>24. ASSUME Reboot PROVE ServicesHeld'
    <2>1. \A q \in Pids : proc'[q].what = "stack" => proc'[q] = proc[q]
      BY <1>0, <1>24, Tags DEF Reboot, TypeOK, Free, CallOK
    <2> QED
      BY <1>0, <1>h, <1>t, <2>1 DEF ServicesHeld, Dropped, Gone, Ephemeral
  <1> QED
    BY <1>1, <1>2, <1>3, <1>4, <1>5, <1>6, <1>7, <1>8, <1>9, <1>10, <1>11, <1>12, <1>13, <1>14,
       <1>15, <1>16, <1>17, <1>18, <1>19, <1>20, <1>21, <1>22, <1>23, <1>24 DEF Next

(* The archive.                                                            *)
LEMMA ArchiveStep ==
    ASSUME EphemeralInv, Next PROVE ArchiveHeld'
  <1>0. /\ TypeOK /\ (\A d \in Callers : CallOK(d)) /\ Apart /\ Homes /\ Services
        /\ SpacesHeld /\ ServicesHeld /\ ArchiveHeld /\ Len(home) \in Nat
    BY LenNat DEF EphemeralInv
  <1>1. ASSUME NEW c \in Callers, NEW op \in Op, NEW n \in Names \cup Ephemeral, Call(c, op, n)
        PROVE  ArchiveHeld'
    BY <1>0, <1>1 DEF Call, disk, TypeOK, ArchiveHeld, Writing, Torn
  <1>2. ASSUME NEW c \in Callers, Allocate(c) PROVE ArchiveHeld'
    BY <1>0, <1>2 DEF Allocate, Goto, disk, TypeOK, ArchiveHeld, Writing, Torn
  <1>3. ASSUME NEW c \in Callers, Stage(c) PROVE ArchiveHeld'
    BY <1>0, <1>3 DEF Stage, Staged, Raise, Goto, disk, TypeOK, ArchiveHeld, Writing, Torn
  <1>4. ASSUME NEW c \in Callers, Teardown(c) PROVE ArchiveHeld'
    BY <1>0, <1>4 DEF Teardown, Rmtree, Raise, Goto, disk, TypeOK, ArchiveHeld, Writing, Torn
  <1>5. ASSUME NEW c \in Callers, SessionEnds(c) PROVE ArchiveHeld'
    BY <1>0, <1>5 DEF SessionEnds, Goto, disk, TypeOK, ArchiveHeld, Writing, Torn
  <1>6. ASSUME NEW c \in Callers, Serve(c) PROVE ArchiveHeld'
    BY <1>0, <1>6 DEF Serve, Raise, Goto, disk, TypeOK, ArchiveHeld, Writing, Torn
  <1>7. ASSUME NEW c \in Callers, Terminate(c) PROVE ArchiveHeld'
    BY <1>0, <1>7 DEF Terminate, Goto, disk, TypeOK, ArchiveHeld, Writing, Torn
  <1>8. ASSUME NEW c \in Callers, OpenArchive(c) PROVE ArchiveHeld'
    BY <1>0, <1>8 DEF OpenArchive, Goto, disk, TypeOK, ArchiveHeld, Writing, Torn
  <1>9. ASSUME NEW c \in Callers, WriteArchive(c) PROVE ArchiveHeld'
    BY <1>0, <1>9 DEF WriteArchive, Goto, disk, TypeOK, ArchiveHeld, Writing, Torn
  <1>10. ASSUME NEW c \in Callers, CheckName(c) PROVE ArchiveHeld'
    BY <1>0, <1>10 DEF CheckName, Goto, TypeOK, ArchiveHeld, Writing, Torn
  <1>11. ASSUME NEW c \in Callers, UnlinkPid(c) PROVE ArchiveHeld'
    BY <1>0, <1>11 DEF UnlinkPid, Goto, TypeOK, ArchiveHeld, Writing, Torn
  <1>12. ASSUME NEW c \in Callers, LaunchUnit(c) PROVE ArchiveHeld'
    BY <1>0, <1>12 DEF LaunchUnit, Goto, disk, TypeOK, ArchiveHeld, Writing, Torn
  <1>13. ASSUME NEW c \in Callers, Launch(c) PROVE ArchiveHeld'
    BY <1>0, <1>13 DEF Launch, Raise, Goto, disk, TypeOK, ArchiveHeld, Writing, Torn
  <1>14. ASSUME NEW c \in Callers, RecordPid(c) PROVE ArchiveHeld'
    BY <1>0, <1>14 DEF RecordPid, Goto, TypeOK, ArchiveHeld, Writing, Torn
  <1>15. ASSUME NEW c \in Callers, RecordWs(c) PROVE ArchiveHeld'
    BY <1>0, <1>15 DEF RecordWs, Goto, TypeOK, ArchiveHeld, Writing, Torn
  <1>16. ASSUME NEW c \in Callers, ReadPid(c) PROVE ArchiveHeld'
    BY <1>0, <1>16 DEF ReadPid, Goto, disk, TypeOK, ArchiveHeld, Writing, Torn
  <1>17. ASSUME NEW c \in Callers, KillDaemon(c) PROVE ArchiveHeld'
    BY <1>0, <1>17 DEF KillDaemon, Goto, disk, TypeOK, ArchiveHeld, Writing, Torn
  <1>18. ASSUME NEW c \in Callers, Vaporize(c) PROVE ArchiveHeld'
    BY <1>0, <1>18 DEF Vaporize, Rmtree, Goto, disk, TypeOK, ArchiveHeld, Writing, Torn
  <1>19. ASSUME NEW c \in Callers, RemoveDir(c) PROVE ArchiveHeld'
    BY <1>0, <1>19 DEF RemoveDir, Goto, TypeOK, ArchiveHeld, Writing, Torn
  <1>20. ASSUME NEW c \in Callers, Interrupt(c) PROVE ArchiveHeld'
    BY <1>0, <1>20 DEF Interrupt, Raise, Goto, disk, TypeOK, ArchiveHeld, Writing, Torn
  <1>21. ASSUME NEW p \in Pids, ProcExits(p) PROVE ArchiveHeld'
    BY <1>0, <1>21 DEF ProcExits, disk, TypeOK, ArchiveHeld, Writing, Torn
  <1>22. ASSUME NEW p \in Pids, Reuse(p) PROVE ArchiveHeld'
    BY <1>0, <1>22 DEF Reuse, disk, TypeOK, ArchiveHeld, Writing, Torn
  <1>23. ASSUME NEW n \in Names, UnitExits(n) PROVE ArchiveHeld'
    BY <1>0, <1>23 DEF UnitExits, disk, TypeOK, ArchiveHeld, Writing, Torn
  <1>24. ASSUME Reboot PROVE ArchiveHeld'
    BY <1>0, <1>24 DEF Reboot, disk, TypeOK, ArchiveHeld, Writing, Torn
  <1> QED
    BY <1>1, <1>2, <1>3, <1>4, <1>5, <1>6, <1>7, <1>8, <1>9, <1>10, <1>11, <1>12, <1>13, <1>14,
       <1>15, <1>16, <1>17, <1>18, <1>19, <1>20, <1>21, <1>22, <1>23, <1>24 DEF Next

LEMMA HeldIsNothingLeft ==
    EphemeralLeavesNothing <=> SpacesHeld /\ ServicesHeld /\ ArchiveHeld
  BY DEF EphemeralLeavesNothing, SpacesHeld, ServicesHeld, ArchiveHeld, Held

LEMMA EphemeralInitInv == Init => EphemeralInv
  <1> SUFFICES ASSUME Init PROVE EphemeralInv
    OBVIOUS
  <1>1. /\ home \in Seq(Names \cup Ephemeral) /\ Len(home) = 0
    BY DEF Init
  <1>2. [op |-> "stop", name |-> "session", ws |-> 0, val |-> NoPid, pids |-> {}] \in Local
    BY DEF Local, Op, Ephemeral
  <1>3. Free \in Process
    BY DEF Free, Process
  <1>4. TypeOK
    BY <1>1, <1>2, <1>3, Tags DEF Init, TypeOK, Step
  <1>5. /\ \A c \in Callers : CallOK(c)
        /\ Apart /\ Services
    BY DEF Init, CallOK, Apart, Services, Holding
  <1>6. Homes /\ SpacesHeld /\ ServicesHeld /\ ArchiveHeld
    BY Tags DEF Init, Homes, SpacesHeld, ServicesHeld, ArchiveHeld, Free
  <1> QED
    BY <1>4, <1>5, <1>6 DEF EphemeralInv

LEMMA EphemeralInvStep == EphemeralInv /\ [Next]_vars => EphemeralInv'
  <1>1. ASSUME EphemeralInv, Next PROVE EphemeralInv'
    BY <1>1, TypeStep, CallStep, ApartStep, HomesStep, ServicesStep, SpacesStep,
       ServicesHeldStep, ArchiveStep DEF EphemeralInv
  <1>2. ASSUME EphemeralInv, UNCHANGED vars PROVE EphemeralInv'
    BY <1>2 DEF vars, EphemeralInv, TypeOK, CallOK, Made, Apart, Homes, Services, SpacesHeld,
                ServicesHeld, ArchiveHeld, Held, Writing
  <1> QED
    BY <1>1, <1>2

LEMMA EphemeralInvHolds == Spec => []EphemeralInv
  BY EphemeralInitInv, EphemeralInvStep, PTL DEF Spec

(* container.py: files, units and processes only ever name workspaces that *)
(* were made.                                                              *)
THEOREM TypeCorrect == Spec => []TypeOK
  <1>1. EphemeralInv => TypeOK
    BY DEF EphemeralInv
  <1> QED
    BY <1>1, EphemeralInvHolds, PTL

(* run_container_session, run_stack_session, build_container_oci and       *)
(* export_container_oci: whichever of their steps failed and whatever else *)
(* runs, two calls for one name included, unless they were killed or       *)
(* raised they leave no child process and no archive half written, and no  *)
(* workspace but one in which something out of their reach runs on.        *)
THEOREM EphemeralCallsClean == Spec => []EphemeralLeavesNothing
  <1>1. EphemeralInv => EphemeralLeavesNothing
    BY HeldIsNothingLeft DEF EphemeralInv
  <1> QED
    BY <1>1, EphemeralInvHolds, PTL

-----------------------------------------------------------------------------
(* Daemons.  The histories only grow, and a step leaves a name alone when  *)
(* it writes none of its files and starts none of its containers.          *)
Grows ==
    /\ lost \subseteq lost' /\ strays \subseteq strays' /\ Len(home') \in Nat /\ Len(home) <= Len(home')
    /\ \A w \in 1 .. Len(home) : home'[w] = home[w]

Untouched(n) ==
    /\ pidFile'[n] = pidFile[n] /\ wsFile'[n] = wsFile[n] /\ unit'[n] \in {unit[n], 0}
    /\ \A p \in Pids : proc'[p].what = n => proc'[p] = proc[p]

Others(c) == \A d \in Callers \ {c} : pc'[d] = pc[d] /\ loc'[d] = loc[d]

LEMMA LostNameGrows ==
    ASSUME TypeOK, Grows, NEW n, LostName(n) PROVE LostName(n)'
  <1>1. lost \subseteq 1 .. Len(home)
    BY DEF TypeOK
  <1> QED
    BY <1>1 DEF LostName, Grows

LEMMA GrowsNot ==
    ASSUME TypeOK, lost \subseteq lost', strays \subseteq strays', home' = home PROVE Grows
  BY LenNat DEF Grows

(* What a call knows of its name stays true while nobody touches the name. *)
LEMMA StepKept ==
    ASSUME TypeOK, Grows, NEW d \in Callers, CallOK(d), StepOK(d),
           pc'[d] = pc[d], loc'[d] = loc[d],
           pc[d] # "idle" /\ loc[d].name \in Names => Untouched(loc[d].name)
    PROVE  StepOK(d)'
  <1>1. CASE pc[d] = "idle" \/ loc[d].name \notin Names
    BY <1>1 DEF StepOK
  <1>2. CASE pc[d] # "idle" /\ loc[d].name \in Names
    <2> DEFINE n == loc[d].name
    <2>1. Untouched(n) /\ n \in Names /\ (LostName(n) => LostName(n)')
      BY <1>2, LostNameGrows
    <2>2. /\ pc[d] \in {"stage", "unit", "launch", "recordPid", "recordWs"} => loc[d].ws # 0
      BY DEF CallOK, Holding, Made
    <2> QED
      BY <2>1, <2>2 DEF StepOK, Untouched, NotRecorded, Grows
  <1> QED
    BY <1>1, <1>2

LEMMA OthersKept ==
    ASSUME EphemeralInv, DaemonInv, Grows, NEW c \in Callers, Others(c),
           \A n \in Names : pc[c] = "idle" \/ n # loc[c].name => Untouched(n)
    PROVE  \A d \in Callers \ {c} : StepOK(d)'
  <1> SUFFICES ASSUME NEW d \in Callers \ {c} PROVE StepOK(d)'
    OBVIOUS
  <1>1. /\ TypeOK /\ CallOK(d) /\ StepOK(d) /\ Exclusive
    BY DEF EphemeralInv, DaemonInv
  <1>2. pc'[d] = pc[d] /\ loc'[d] = loc[d]
    BY DEF Others
  <1>3. pc[d] # "idle" /\ loc[d].name \in Names => Untouched(loc[d].name)
    BY <1>1 DEF Exclusive
  <1> QED
    BY <1>1, <1>2, <1>3, StepKept

(* Daemons are left as they are.                                           *)
LEMMA DaemonsKept ==
    ASSUME EphemeralInv, DaemonInv, Grows,
           \A n \in Names : Untouched(n),
           \A p \in Pids : proc[p].what \in Names /\ proc'[p] = proc[p] => proc[p].ws \in spaces',
           \A n \in Names : unit[n] \in spaces => unit[n] \in spaces' \cup strays \/ LostName(n),
           \A d \in Callers : pc[d] \in {"recordPid", "recordWs"} =>
               \/ /\ pc'[d] = pc[d]
                  /\ loc'[d].name = loc[d].name /\ loc'[d].ws = loc[d].ws
               \/ loc[d].ws \in lost'
    PROVE  (\A p \in Pids : DaemonOK(p)') /\ (\A n \in Names : UnitOK(n)')
  <1>0. /\ TypeOK /\ (\A d \in Callers : CallOK(d)) /\ Apart /\ Homes /\ Len(home) \in Nat
        /\ Exclusive /\ Kept /\ (\A d \in Callers : StepOK(d))
        /\ (\A p \in Pids : DaemonOK(p)) /\ (\A n \in Names : UnitOK(n))
    BY LenNat DEF EphemeralInv, DaemonInv
  <1>1. ASSUME NEW p \in Pids, proc'[p].what \in Names PROVE DaemonOK(p)'
    <2>1. proc'[p] = proc[p] /\ proc[p].what \in Names /\ Untouched(proc[p].what)
      BY <1>1 DEF Untouched
    <2>2. proc[p].ws \in spaces'
      BY <2>1
    <2>3. DaemonOK(p)
      BY <1>0
    <2>4. Recording(proc[p].what, proc[p].ws) =>
              Recording(proc[p].what, proc[p].ws)' \/ proc[p].ws \in lost'
      <3> SUFFICES ASSUME NEW d \in Callers, pc[d] = "recordPid", loc[d].name = proc[p].what,
                          loc[d].ws = proc[p].ws, proc[p].ws \notin lost'
                   PROVE  \E e \in Callers : /\ pc'[e] = "recordPid"
                                             /\ loc'[e].name = proc'[p].what
                                             /\ loc'[e].ws = proc'[p].ws
        BY <2>1 DEF Recording
      <3> QED
        BY <2>1
    <2> QED
      BY <2>1, <2>2, <2>3, <2>4 DEF DaemonOK, Untouched, Grows, Recording
  <1>2. ASSUME NEW n \in Names, unit'[n] # 0 PROVE UnitOK(n)'
    <2>1. Untouched(n) /\ unit'[n] = unit[n] /\ unit[n] # 0 /\ UnitOK(n)
      BY <1>0, <1>2 DEF Untouched
    <2>2. LostName(n) => LostName(n)'
      BY <1>0, LostNameGrows
    <2>3. ASSUME NEW d \in Callers, pc[d] = "recordWs", loc[d].name = n
          PROVE  (pc'[d] = "recordWs" /\ loc'[d].name = n) \/ LostName(n)'
      <3>1. Made(loc[d].ws, n)
        BY <1>0, <2>3 DEF CallOK, Holding
      <3> QED
        BY <2>3, <3>1 DEF Made, Grows, LostName
    <2> QED
      BY <2>1, <2>2, <2>3 DEF UnitOK, Untouched, Grows
  <1>3. \A p \in Pids : proc'[p].what \notin Names => DaemonOK(p)'
    BY DEF DaemonOK
  <1>4. \A n \in Names : unit'[n] = 0 => UnitOK(n)'
    BY DEF UnitOK
  <1> QED
    BY <1>1, <1>2, <1>3, <1>4

LEMMA IdleKnowsNothing ==
    ASSUME NEW c \in Callers, pc'[c] = "idle" \/ loc'[c].name \notin Names PROVE StepOK(c)'
  BY DEF StepOK

(* Calls for one name stay apart.                                          *)
LEMMA ExclusiveStep ==
    ASSUME "race" \notin Env, EphemeralInv, DaemonInv, Next PROVE Exclusive'
  <1>0. /\ TypeOK /\ (\A d \in Callers : CallOK(d)) /\ Apart /\ Homes /\ Len(home) \in Nat
        /\ Exclusive /\ Kept /\ (\A d \in Callers : StepOK(d))
        /\ (\A p \in Pids : DaemonOK(p)) /\ (\A n \in Names : UnitOK(n))
    BY LenNat DEF EphemeralInv, DaemonInv
  <1>1. ASSUME NEW c \in Callers, NEW op \in Op, NEW n \in Names \cup Ephemeral, Call(c, op, n)
        PROVE  Exclusive'
    <2>1. /\ Others(c) /\ loc'[c].name = n /\ pc[c] = "idle"
      BY <1>0, <1>1 DEF Call, TypeOK, Others
    <2> QED
      BY <1>0, <1>1, <2>1 DEF Exclusive, Others, Call
  <1>2. ASSUME NEW c \in Callers, Allocate(c) PROVE Exclusive'
    BY <1>0, <1>2, AllocateEffect DEF Exclusive
  <1>3. ASSUME NEW c \in Callers, Stage(c) PROVE Exclusive'
    <2>1. loc' = loc /\ \A d \in Callers : pc'[d] # "idle" => pc[d] # "idle"
      BY <1>0, <1>3 DEF Stage, Staged, Raise, Goto, TypeOK
    <2> QED
      BY <1>0, <2>1 DEF Exclusive
  <1>4. ASSUME NEW c \in Callers, Teardown(c) PROVE Exclusive'
    <2>1. loc' = loc /\ \A d \in Callers : pc'[d] # "idle" => pc[d] # "idle"
      BY <1>0, <1>4 DEF Teardown, Rmtree, Raise, Goto, TypeOK
    <2> QED
      BY <1>0, <2>1 DEF Exclusive
  <1>5. ASSUME NEW c \in Callers, SessionEnds(c) PROVE Exclusive'
    BY <1>0, <1>5 DEF SessionEnds, Goto, disk, TypeOK, Exclusive
  <1>6. ASSUME NEW c \in Callers, Serve(c) PROVE Exclusive'
    <2>0. PICK x : loc' = [loc EXCEPT ![c].pids = x]
      BY <1>6 DEF Serve
    <2>1. \A d \in Callers : loc'[d].name = loc[d].name /\ loc'[d].ws = loc[d].ws
      BY <1>0, <1>6, <2>0, ValKeeps
    <2> QED
      BY <1>0, <1>6, <2>1 DEF Serve, Raise, Goto, TypeOK, Exclusive
  <1>7. ASSUME NEW c \in Callers, Terminate(c) PROVE Exclusive'
    BY <1>0, <1>7 DEF Terminate, Goto, disk, TypeOK, Exclusive
  <1>8. ASSUME NEW c \in Callers, OpenArchive(c) PROVE Exclusive'
    BY <1>0, <1>8 DEF OpenArchive, Goto, disk, TypeOK, Exclusive
  <1>9. ASSUME NEW c \in Callers, WriteArchive(c) PROVE Exclusive'
    BY <1>0, <1>9 DEF WriteArchive, Goto, disk, TypeOK, Exclusive
  <1>10. ASSUME NEW c \in Callers, CheckName(c) PROVE Exclusive'
    BY <1>0, <1>10 DEF CheckName, Goto, TypeOK, Exclusive
  <1>11. ASSUME NEW c \in Callers, UnlinkPid(c) PROVE Exclusive'
    BY <1>0, <1>11 DEF UnlinkPid, Goto, TypeOK, Exclusive
  <1>12. ASSUME NEW c \in Callers, LaunchUnit(c) PROVE Exclusive'
    BY <1>0, <1>12, LaunchUnitEffect DEF Exclusive
  <1>13. ASSUME NEW c \in Callers, Launch(c) PROVE Exclusive'
    BY <1>0, <1>13, LaunchEffect DEF Exclusive
  <1>14. ASSUME NEW c \in Callers, RecordPid(c) PROVE Exclusive'
    BY <1>0, <1>14 DEF RecordPid, Goto, TypeOK, Exclusive
  <1>15. ASSUME NEW c \in Callers, RecordWs(c) PROVE Exclusive'
    BY <1>0, <1>15 DEF RecordWs, Goto, TypeOK, Exclusive
  <1>16. ASSUME NEW c \in Callers, ReadPid(c) PROVE Exclusive'
    <2>0. PICK x : loc' = [loc EXCEPT ![c].val = x]
      BY <1>16 DEF ReadPid
    <2>1. \A d \in Callers : loc'[d].name = loc[d].name /\ loc'[d].ws = loc[d].ws
      BY <1>0, <1>16, <2>0, ValKeeps
    <2> QED
      BY <1>0, <1>16, <2>1 DEF ReadPid, Goto, TypeOK, Exclusive
  <1>17. ASSUME NEW c \in Callers, KillDaemon(c) PROVE Exclusive'
    BY <1>0, <1>17 DEF KillDaemon, Goto, disk, TypeOK, Exclusive
  <1>18. ASSUME NEW c \in Callers, Vaporize(c) PROVE Exclusive'
    BY <1>0, <1>18 DEF Vaporize, Rmtree, Goto, disk, TypeOK, Exclusive
  <1>19. ASSUME NEW c \in Callers, RemoveDir(c) PROVE Exclusive'
    BY <1>0, <1>19 DEF RemoveDir, Goto, TypeOK, Exclusive
  <1>20. ASSUME NEW c \in Callers, Interrupt(c) PROVE Exclusive'
    BY <1>0, <1>20 DEF Interrupt, Raise, Goto, disk, TypeOK, Exclusive
  <1>21. ASSUME NEW p \in Pids, ProcExits(p) PROVE Exclusive'
    BY <1>0, <1>21 DEF ProcExits, disk, TypeOK, Exclusive
  <1>22. ASSUME NEW p \in Pids, Reuse(p) PROVE Exclusive'
    BY <1>0, <1>22 DEF Reuse, disk, TypeOK, Exclusive
  <1>23. ASSUME NEW n \in Names, UnitExits(n) PROVE Exclusive'
    BY <1>0, <1>23 DEF UnitExits, disk, TypeOK, Exclusive
  <1>24. ASSUME Reboot PROVE Exclusive'
    BY <1>0, <1>24 DEF Reboot, disk, TypeOK, Exclusive
  <1> QED
    BY <1>1, <1>2, <1>3, <1>4, <1>5, <1>6, <1>7, <1>8, <1>9, <1>10, <1>11, <1>12, <1>13, <1>14,
       <1>15, <1>16, <1>17, <1>18, <1>19, <1>20, <1>21, <1>22, <1>23, <1>24 DEF Next

(* A call keeps its workspace until it is done with it.                    *)
LEMMA KeptStep ==
    ASSUME "race" \notin Env, EphemeralInv, DaemonInv, Next PROVE Kept'
  <1>0. /\ TypeOK /\ (\A d \in Callers : CallOK(d)) /\ Apart /\ Homes /\ Len(home) \in Nat
        /\ Exclusive /\ Kept /\ (\A d \in Callers : StepOK(d))
        /\ (\A p \in Pids : DaemonOK(p)) /\ (\A n \in Names : UnitOK(n))
    BY LenNat DEF EphemeralInv, DaemonInv
  <1>1. ASSUME NEW c \in Callers, NEW op \in Op, NEW n \in Names \cup Ephemeral, Call(c, op, n)
        PROVE  Kept'
    <2>1. /\ Others(c) /\ pc'[c] \notin Holding /\ spaces' = spaces
      BY <1>0, <1>1 DEF Call, TypeOK, Others, Holding
    <2> QED
      BY <1>0, <2>1 DEF Kept, Others
  <1>2. ASSUME NEW c \in Callers, Allocate(c) PROVE Kept'
    BY <1>0, <1>2, AllocateEffect DEF Kept, Holding
  <1>3. ASSUME NEW c \in Callers, Stage(c) PROVE Kept'
    <2>1. /\ pc[c] \in Holding /\ loc' = loc
          /\ \A d \in Callers : pc'[d] \in Holding => pc[d] \in Holding
      BY <1>0, <1>3 DEF Stage, Staged, Raise, Goto, TypeOK, Holding
    <2>2. spaces' = spaces \/ (spaces' = spaces \ {loc[c].ws} /\ pc'[c] = "idle")
      BY <1>0, <1>3 DEF Stage, Staged, Raise, Goto, TypeOK
    <2> QED
      BY <1>0, <2>1, <2>2 DEF Kept, Apart, Holding
  <1>4. ASSUME NEW c \in Callers, Teardown(c) PROVE Kept'
    <2>1. /\ pc[c] \in Holding /\ loc' = loc /\ pc'[c] = "idle"
          /\ \A d \in Callers : pc'[d] \in Holding => pc[d] \in Holding
      BY <1>0, <1>4 DEF Teardown, Rmtree, Raise, Goto, TypeOK, Holding
    <2>2. spaces' = spaces \/ spaces' = spaces \ {loc[c].ws}
      BY <1>4 DEF Teardown, Rmtree
    <2> QED
      BY <1>0, <2>1, <2>2 DEF Kept, Apart, Holding
  <1>5. ASSUME NEW c \in Callers, SessionEnds(c) PROVE Kept'
    BY <1>0, <1>5 DEF SessionEnds, Goto, disk, TypeOK, Kept, Holding
  <1>6. ASSUME NEW c \in Callers, Serve(c) PROVE Kept'
    <2>0. PICK x : loc' = [loc EXCEPT ![c].pids = x]
      BY <1>6 DEF Serve
    <2>1. \A d \in Callers : loc'[d].name = loc[d].name /\ loc'[d].ws = loc[d].ws
      BY <1>0, <1>6, <2>0, ValKeeps
    <2> QED
      BY <1>0, <1>6, <2>1 DEF Serve, Raise, Goto, TypeOK, Kept, Holding
  <1>7. ASSUME NEW c \in Callers, Terminate(c) PROVE Kept'
    BY <1>0, <1>7 DEF Terminate, Goto, disk, TypeOK, Kept, Holding
  <1>8. ASSUME NEW c \in Callers, OpenArchive(c) PROVE Kept'
    BY <1>0, <1>8 DEF OpenArchive, Goto, disk, TypeOK, Kept, Holding
  <1>9. ASSUME NEW c \in Callers, WriteArchive(c) PROVE Kept'
    BY <1>0, <1>9 DEF WriteArchive, Goto, disk, TypeOK, Kept, Holding
  <1>10. ASSUME NEW c \in Callers, CheckName(c) PROVE Kept'
    BY <1>0, <1>10 DEF CheckName, Goto, TypeOK, Kept, Holding
  <1>11. ASSUME NEW c \in Callers, UnlinkPid(c) PROVE Kept'
    BY <1>0, <1>11 DEF UnlinkPid, Goto, TypeOK, Kept, Holding
  <1>12. ASSUME NEW c \in Callers, LaunchUnit(c) PROVE Kept'
    BY <1>0, <1>12, LaunchUnitEffect DEF Kept, Holding
  <1>13. ASSUME NEW c \in Callers, Launch(c) PROVE Kept'
    BY <1>0, <1>13, LaunchEffect DEF Kept, Holding
  <1>14. ASSUME NEW c \in Callers, RecordPid(c) PROVE Kept'
    BY <1>0, <1>14 DEF RecordPid, Goto, TypeOK, Kept, Holding
  <1>15. ASSUME NEW c \in Callers, RecordWs(c) PROVE Kept'
    BY <1>0, <1>15 DEF RecordWs, Goto, TypeOK, Kept, Holding
  <1>16. ASSUME NEW c \in Callers, ReadPid(c) PROVE Kept'
    <2>0. PICK x : loc' = [loc EXCEPT ![c].val = x]
      BY <1>16 DEF ReadPid
    <2>1. \A d \in Callers : loc'[d].name = loc[d].name /\ loc'[d].ws = loc[d].ws
      BY <1>0, <1>16, <2>0, ValKeeps
    <2> QED
      BY <1>0, <1>16, <2>1 DEF ReadPid, Goto, TypeOK, Kept, Holding
  <1>17. ASSUME NEW c \in Callers, KillDaemon(c) PROVE Kept'
    BY <1>0, <1>17 DEF KillDaemon, Goto, disk, TypeOK, Kept, Holding
  <1>18. ASSUME NEW c \in Callers, Vaporize(c) PROVE Kept'
    <2>1. /\ pc[c] = "vaporize" /\ loc' = loc /\ loc[c].name \in Names
          /\ \A d \in Callers : pc'[d] \in Holding => pc[d] \in Holding /\ d # c
          /\ spaces \ {wsFile[loc[c].name]} \subseteq spaces'
      BY <1>0, <1>18 DEF Vaporize, Rmtree, Goto, TypeOK, Holding, CallOK
    <2>2. ASSUME NEW d \in Callers, pc[d] \in Holding, d # c
          PROVE  loc[d].ws # wsFile[loc[c].name]
      <3>1. Made(loc[d].ws, loc[d].name) /\ pc[d] # "idle" /\ pc[c] # "idle"
        BY <1>0, <2>1, <2>2 DEF CallOK, Holding
      <3>2. wsFile[loc[c].name] # 0 => Made(wsFile[loc[c].name], loc[c].name)
        BY <1>0, <2>1 DEF Homes
      <3>3. loc[d].name # loc[c].name
        BY <1>0, <2>1, <2>2, <3>1 DEF Exclusive
      <3> QED
        BY <3>1, <3>2, <3>3 DEF Made
    <2> QED
      BY <1>0, <2>1, <2>2 DEF Kept
  <1>19. ASSUME NEW c \in Callers, RemoveDir(c) PROVE Kept'
    BY <1>0, <1>19 DEF RemoveDir, Goto, TypeOK, Kept, Holding
  <1>20. ASSUME NEW c \in Callers, Interrupt(c) PROVE Kept'
    BY <1>0, <1>20 DEF Interrupt, Raise, Goto, disk, TypeOK, Kept, Holding
  <1>21. ASSUME NEW p \in Pids, ProcExits(p) PROVE Kept'
    BY <1>0, <1>21 DEF ProcExits, disk, TypeOK, Kept, Holding
  <1>22. ASSUME NEW p \in Pids, Reuse(p) PROVE Kept'
    BY <1>0, <1>22 DEF Reuse, disk, TypeOK, Kept, Holding
  <1>23. ASSUME NEW n \in Names, UnitExits(n) PROVE Kept'
    BY <1>0, <1>23 DEF UnitExits, disk, TypeOK, Kept, Holding
  <1>24. ASSUME Reboot PROVE Kept'
    BY <1>0, <1>24 DEF Reboot, disk, TypeOK, Kept, Holding
  <1> QED
    BY <1>1, <1>2, <1>3, <1>4, <1>5, <1>6, <1>7, <1>8, <1>9, <1>10, <1>11, <1>12, <1>13, <1>14,
       <1>15, <1>16, <1>17, <1>18, <1>19, <1>20, <1>21, <1>22, <1>23, <1>24 DEF Next

(* A signal to a daemon that runs reaches it.                              *)
LEMMA NamedReached ==
    ASSUME NEW p \in Pids, proc[p].what \in Names PROVE Reached(p) = {TRUE}
  <1>1. proc[p] # Free /\ proc[p].what # "other"
    BY Tags DEF Free
  <1>2. Alive(p) = TRUE
    BY <1>1 DEF Alive
  <1> QED
    BY <1>1, <1>2 DEF Reached

(* The step of the invariant about daemons.                                *)
LEMMA DaemonStep ==
    ASSUME "race" \notin Env, EphemeralInv, DaemonInv, Next PROVE DaemonInv'
  <1>0. /\ TypeOK /\ (\A d \in Callers : CallOK(d)) /\ Apart /\ Homes /\ Len(home) \in Nat
        /\ Exclusive /\ Kept /\ (\A d \in Callers : StepOK(d))
        /\ (\A p \in Pids : DaemonOK(p)) /\ (\A n \in Names : UnitOK(n))
    BY LenNat DEF EphemeralInv, DaemonInv
  <1>g. strays \subseteq strays'
    BY StraysStep
  <1>k. Exclusive' /\ Kept'
    BY ExclusiveStep, KeptStep
  <1>1. ASSUME NEW c \in Callers, NEW op \in Op, NEW n \in Names \cup Ephemeral, Call(c, op, n)
        PROVE  DaemonInv'
    <2>1. Others(c) /\ loc'[c].name = n /\ loc'[c].ws = 0
          /\ (pc'[c] \in {"check", "read"} \/ n \notin Names)
      BY <1>0, <1>1, Tags DEF Call, TypeOK, Others, Op, Ephemeral
    <2>2. Grows
      BY <1>0, <1>1, <1>g, GrowsNot DEF Call, disk
    <2>3. \A m \in Names : Untouched(m)
      BY <1>0, <1>1, Tags DEF Call, TypeOK, Untouched, disk
    <2>4. spaces' = spaces
      BY <1>1 DEF Call
    <2>5. /\ \A p \in Pids : proc[p].what \in Names => proc[p].ws \in spaces'
          /\ \A m \in Names : unit[m] \in spaces => unit[m] \in spaces'
      BY <1>0, <2>4 DEF DaemonOK
    <2>6. pc[c] \notin {"recordPid", "recordWs"}
      BY <1>1 DEF Call
    <2>7. \A d \in Callers : pc[d] \in {"recordPid", "recordWs"} =>
              pc'[d] = pc[d] /\ loc'[d].name = loc[d].name /\ loc'[d].ws = loc[d].ws
      BY <2>1, <2>6 DEF Others
    <2>8. StepOK(c)'
      BY <2>1 DEF StepOK
    <2>9. \A d \in Callers \ {c} : StepOK(d)'
      BY <2>1, <2>2, <2>3, OthersKept
    <2>10. (\A p \in Pids : DaemonOK(p)') /\ (\A m \in Names : UnitOK(m)')
      BY <2>2, <2>3, <2>5, <2>7, DaemonsKept
    <2> QED
      BY <1>k, <2>8, <2>9, <2>10 DEF DaemonInv
  <1>2. ASSUME NEW c \in Callers, Allocate(c) PROVE DaemonInv'
    <2>1. /\ Others(c) /\ pc[c] = "allocate"
          /\ UNCHANGED <<pidFile, wsFile, unit, proc, lost>>
          /\ spaces \subseteq spaces'
      BY <1>0, <1>2, AllocateEffect DEF Others
    <2>2. Grows
      <3>1. home' = home \/ home' = Append(home, loc[c].name)
        BY <1>2 DEF Allocate
      <3>2. loc[c].name \in Names \cup Ephemeral
        BY <1>0 DEF TypeOK, Local
      <3> QED
        BY <1>0, <1>g, <2>1, <3>1, <3>2, Appended DEF Grows
    <2>3. \A n \in Names : Untouched(n)
      BY <2>1 DEF Untouched
    <2>5. /\ \A p \in Pids : proc[p].what \in Names => proc[p].ws \in spaces'
          /\ \A n \in Names : unit[n] \in spaces => unit[n] \in spaces'
      BY <1>0, <2>1 DEF DaemonOK
    <2>7. \A d \in Callers : pc[d] \in {"recordPid", "recordWs"} =>
              pc'[d] = pc[d] /\ loc'[d].name = loc[d].name /\ loc'[d].ws = loc[d].ws
      BY <2>1 DEF Others
    <2>8. StepOK(c)'
      <3>1. CASE pc'[c] = "idle"
        BY <3>1, IdleKnowsNothing
      <3>2. CASE pc'[c] # "idle" /\ loc[c].name \in Names
        <4>1. /\ pc'[c] = "stage" /\ loc'[c].ws = Len(home) + 1 /\ loc'[c].name = loc[c].name
          BY <1>0, <1>2, <3>2, AllocateEffect
        <4>2. pidFile[loc[c].name] = NoPid
          BY <1>0, <2>1, <3>2 DEF StepOK
        <4>3. /\ unit[loc[c].name] # Len(home) + 1 /\ wsFile[loc[c].name] # Len(home) + 1
              /\ \A p \in Pids : proc[p].what = loc[c].name => proc[p].ws # Len(home) + 1
          BY <1>0, <3>2 DEF TypeOK, Homes, Made
        <4> QED
          BY <2>1, <4>1, <4>2, <4>3 DEF StepOK
      <3>3. CASE loc[c].name \notin Names
        BY <1>0, <1>2, <3>3, AllocateEffect, IdleKnowsNothing
      <3> QED
        BY <3>1, <3>2, <3>3
    <2>9. \A d \in Callers \ {c} : StepOK(d)'
      BY <2>1, <2>2, <2>3, OthersKept
    <2>10. (\A p \in Pids : DaemonOK(p)') /\ (\A n \in Names : UnitOK(n)')
      BY <2>2, <2>3, <2>5, <2>7, DaemonsKept
    <2> QED
      BY <1>k, <2>8, <2>9, <2>10 DEF DaemonInv
  <1>3. ASSUME NEW c \in Callers, Stage(c) PROVE DaemonInv'
    <2>1. Others(c) /\ loc' = loc
          /\ \/ pc'[c] = "idle" \/ loc[c].name \notin Names
             \/ pc'[c] \in {"unit", "launch"}
      BY <1>0, <1>3, Tags DEF Stage, Staged, Raise, Goto, TypeOK, Others, CallOK, Ephemeral
    <2>2. Grows
      BY <1>0, <1>3, <1>g, GrowsNot DEF Stage, Staged, Raise, disk
    <2>3. \A n \in Names : Untouched(n)
      BY <1>0, <1>3, Tags DEF Stage, Staged, TypeOK, Untouched, disk
    <2>4. spaces' = spaces \/ spaces' = spaces \ {loc[c].ws}
      BY <1>3 DEF Stage, Staged
    <2>a. Made(loc[c].ws, loc[c].name)
      BY <1>0, <1>3 DEF Stage, CallOK, Holding
    <2>b. \A p \in Pids : proc[p].what \in Names => proc[p].ws # loc[c].ws
      BY <1>0, <1>3, <2>a, Tags DEF Stage, Homes, Made, StepOK, CallOK
    <2>c. \A n \in Names : unit[n] # 0 => unit[n] # loc[c].ws
      BY <1>0, <1>3, <2>a, Tags DEF Stage, Homes, Made, StepOK, CallOK
    <2>5. /\ \A p \in Pids : proc[p].what \in Names => proc[p].ws \in spaces'
          /\ \A n \in Names : unit[n] \in spaces => unit[n] \in spaces'
      BY <1>0, <2>4, <2>a, <2>b, <2>c DEF DaemonOK, Made
    <2>6. pc[c] \notin {"recordPid", "recordWs"}
      BY <1>3 DEF Stage, Staged
    <2>7. \A d \in Callers : pc[d] \in {"recordPid", "recordWs"} =>
              pc'[d] = pc[d] /\ loc'[d].name = loc[d].name /\ loc'[d].ws = loc[d].ws
      BY <2>1, <2>6 DEF Others
    <2>8. StepOK(c)'
      BY <1>0, <1>3, <2>1 DEF Stage, StepOK, disk
    <2>9. \A d \in Callers \ {c} : StepOK(d)'
      BY <2>1, <2>2, <2>3, OthersKept
    <2>10. (\A p \in Pids : DaemonOK(p)') /\ (\A n \in Names : UnitOK(n)')
      BY <2>2, <2>3, <2>5, <2>7, DaemonsKept
    <2> QED
      BY <1>k, <2>8, <2>9, <2>10 DEF DaemonInv
  <1>4. ASSUME NEW c \in Callers, Teardown(c) PROVE DaemonInv'
    <2>1. Others(c) /\ loc' = loc /\ pc'[c] = "idle"
      BY <1>0, <1>4 DEF Teardown, Rmtree, Raise, Goto, TypeOK, Others, CallOK
    <2>2. Grows
      BY <1>0, <1>4, <1>g, GrowsNot DEF Teardown, Rmtree, Raise, disk
    <2>3. \A n \in Names : Untouched(n)
      BY <1>0, <1>4, Tags DEF Teardown, Rmtree, Raise, TypeOK, Untouched, disk
    <2>4. spaces' = spaces \/ spaces' = spaces \ {loc[c].ws}
      BY <1>4 DEF Teardown, Rmtree
    <2>a. Made(loc[c].ws, loc[c].name)
      BY <1>0, <1>4 DEF Teardown, Rmtree, CallOK, Holding
    <2>b. \A p \in Pids : proc[p].what \in Names => proc[p].ws # loc[c].ws
      BY <1>0, <1>4, <2>a, Tags DEF Teardown, Rmtree, Homes, Made, StepOK, CallOK
    <2>c. \A n \in Names : unit[n] # 0 => unit[n] # loc[c].ws
      BY <1>0, <1>4, <2>a, Tags DEF Teardown, Rmtree, Homes, Made, StepOK, CallOK
    <2>5. /\ \A p \in Pids : proc[p].what \in Names => proc[p].ws \in spaces'
          /\ \A n \in Names : unit[n] \in spaces => unit[n] \in spaces'
      BY <1>0, <2>4, <2>a, <2>b, <2>c DEF DaemonOK, Made
    <2>6. pc[c] \notin {"recordPid", "recordWs"}
      BY <1>4 DEF Teardown, Rmtree, Raise
    <2>7. \A d \in Callers : pc[d] \in {"recordPid", "recordWs"} =>
              pc'[d] = pc[d] /\ loc'[d].name = loc[d].name /\ loc'[d].ws = loc[d].ws
      BY <2>1, <2>6 DEF Others
    <2>8. StepOK(c)'
      BY <2>1, IdleKnowsNothing
    <2>9. \A d \in Callers \ {c} : StepOK(d)'
      BY <2>1, <2>2, <2>3, OthersKept
    <2>10. (\A p \in Pids : DaemonOK(p)') /\ (\A n \in Names : UnitOK(n)')
      BY <2>2, <2>3, <2>5, <2>7, DaemonsKept
    <2> QED
      BY <1>k, <2>8, <2>9, <2>10 DEF DaemonInv
  <1>5. ASSUME NEW c \in Callers, SessionEnds(c) PROVE DaemonInv'
    <2>1. Others(c) /\ loc' = loc /\ loc'[c].name \notin Names
      BY <1>0, <1>5, Tags DEF SessionEnds, Goto, TypeOK, Others, CallOK, Ephemeral
    <2>2. Grows
      BY <1>0, <1>5, <1>g, GrowsNot DEF SessionEnds, disk
    <2>3. \A n \in Names : Untouched(n)
      BY <1>0, <1>5, Tags DEF SessionEnds, TypeOK, Untouched, disk
    <2>4. spaces' = spaces
      BY <1>5 DEF SessionEnds
    <2>5. /\ \A p \in Pids : proc[p].what \in Names => proc[p].ws \in spaces'
          /\ \A n \in Names : unit[n] \in spaces => unit[n] \in spaces'
      BY <1>0, <2>4 DEF DaemonOK
    <2>6. pc[c] \notin {"recordPid", "recordWs"}
      BY <1>5 DEF SessionEnds
    <2>7. \A d \in Callers : pc[d] \in {"recordPid", "recordWs"} =>
              pc'[d] = pc[d] /\ loc'[d].name = loc[d].name /\ loc'[d].ws = loc[d].ws
      BY <2>1, <2>6 DEF Others
    <2>8. StepOK(c)'
      BY <2>1, IdleKnowsNothing
    <2>9. \A d \in Callers \ {c} : StepOK(d)'
      BY <2>1, <2>2, <2>3, OthersKept
    <2>10. (\A p \in Pids : DaemonOK(p)') /\ (\A n \in Names : UnitOK(n)')
      BY <2>2, <2>3, <2>5, <2>7, DaemonsKept
    <2> QED
      BY <1>k, <2>8, <2>9, <2>10 DEF DaemonInv
  <1>6. ASSUME NEW c \in Callers, Serve(c) PROVE DaemonInv'
    <2>0. PICK x : loc' = [loc EXCEPT ![c].pids = x]
      BY <1>6 DEF Serve
    <2>1. Others(c) /\ loc'[c].name \notin Names
      BY <1>0, <1>6, Tags, <2>0, ValKeeps DEF Serve, Raise, Goto, TypeOK, Others, CallOK,
         Ephemeral
    <2>2. Grows
      BY <1>0, <1>6, <1>g, GrowsNot DEF Serve, Raise, disk
    <2>3. \A n \in Names : Untouched(n)
      BY <1>0, <1>6, Tags DEF Serve, Raise, TypeOK, Untouched, disk
    <2>4. spaces' = spaces
      BY <1>6 DEF Serve, Raise
    <2>5. /\ \A p \in Pids : proc[p].what \in Names => proc[p].ws \in spaces'
          /\ \A n \in Names : unit[n] \in spaces => unit[n] \in spaces'
      BY <1>0, <2>4 DEF DaemonOK
    <2>6. pc[c] \notin {"recordPid", "recordWs"}
      BY <1>6 DEF Serve, Raise
    <2>7. \A d \in Callers : pc[d] \in {"recordPid", "recordWs"} =>
              pc'[d] = pc[d] /\ loc'[d].name = loc[d].name /\ loc'[d].ws = loc[d].ws
      BY <2>1, <2>6 DEF Others
    <2>8. StepOK(c)'
      BY <2>1, IdleKnowsNothing
    <2>9. \A d \in Callers \ {c} : StepOK(d)'
      BY <2>1, <2>2, <2>3, OthersKept
    <2>10. (\A p \in Pids : DaemonOK(p)') /\ (\A n \in Names : UnitOK(n)')
      BY <2>2, <2>3, <2>5, <2>7, DaemonsKept
    <2> QED
      BY <1>k, <2>8, <2>9, <2>10 DEF DaemonInv
  <1>7. ASSUME NEW c \in Callers, Terminate(c) PROVE DaemonInv'
    <2>1. Others(c) /\ loc' = loc /\ loc'[c].name \notin Names
      BY <1>0, <1>7, Tags DEF Terminate, Goto, TypeOK, Others, CallOK, Ephemeral
    <2>2. Grows
      BY <1>0, <1>7, <1>g, GrowsNot DEF Terminate, disk
    <2>3. \A n \in Names : Untouched(n)
      BY <1>0, <1>7, Tags DEF Terminate, TypeOK, Untouched, disk, Free
    <2>4. spaces' = spaces
      BY <1>7 DEF Terminate
    <2>5. /\ \A p \in Pids : proc[p].what \in Names => proc[p].ws \in spaces'
          /\ \A n \in Names : unit[n] \in spaces => unit[n] \in spaces'
      BY <1>0, <2>4 DEF DaemonOK
    <2>6. pc[c] \notin {"recordPid", "recordWs"}
      BY <1>7 DEF Terminate
    <2>7. \A d \in Callers : pc[d] \in {"recordPid", "recordWs"} =>
              pc'[d] = pc[d] /\ loc'[d].name = loc[d].name /\ loc'[d].ws = loc[d].ws
      BY <2>1, <2>6 DEF Others
    <2>8. StepOK(c)'
      BY <2>1, IdleKnowsNothing
    <2>9. \A d \in Callers \ {c} : StepOK(d)'
      BY <2>1, <2>2, <2>3, OthersKept
    <2>10. (\A p \in Pids : DaemonOK(p)') /\ (\A n \in Names : UnitOK(n)')
      BY <2>2, <2>3, <2>5, <2>7, DaemonsKept
    <2> QED
      BY <1>k, <2>8, <2>9, <2>10 DEF DaemonInv
  <1>8. ASSUME NEW c \in Callers, OpenArchive(c) PROVE DaemonInv'
    <2>1. Others(c) /\ loc' = loc /\ loc'[c].name \notin Names
      BY <1>0, <1>8, Tags DEF OpenArchive, Goto, TypeOK, Others, CallOK, Ephemeral
    <2>2. Grows
      BY <1>0, <1>8, <1>g, GrowsNot DEF OpenArchive, disk
    <2>3. \A n \in Names : Untouched(n)
      BY <1>0, <1>8, Tags DEF OpenArchive, TypeOK, Untouched, disk
    <2>4. spaces' = spaces
      BY <1>8 DEF OpenArchive
    <2>5. /\ \A p \in Pids : proc[p].what \in Names => proc[p].ws \in spaces'
          /\ \A n \in Names : unit[n] \in spaces => unit[n] \in spaces'
      BY <1>0, <2>4 DEF DaemonOK
    <2>6. pc[c] \notin {"recordPid", "recordWs"}
      BY <1>8 DEF OpenArchive
    <2>7. \A d \in Callers : pc[d] \in {"recordPid", "recordWs"} =>
              pc'[d] = pc[d] /\ loc'[d].name = loc[d].name /\ loc'[d].ws = loc[d].ws
      BY <2>1, <2>6 DEF Others
    <2>8. StepOK(c)'
      BY <2>1, IdleKnowsNothing
    <2>9. \A d \in Callers \ {c} : StepOK(d)'
      BY <2>1, <2>2, <2>3, OthersKept
    <2>10. (\A p \in Pids : DaemonOK(p)') /\ (\A n \in Names : UnitOK(n)')
      BY <2>2, <2>3, <2>5, <2>7, DaemonsKept
    <2> QED
      BY <1>k, <2>8, <2>9, <2>10 DEF DaemonInv
  <1>9. ASSUME NEW c \in Callers, WriteArchive(c) PROVE DaemonInv'
    <2>1. Others(c) /\ loc' = loc /\ loc'[c].name \notin Names
      BY <1>0, <1>9, Tags DEF WriteArchive, Goto, TypeOK, Others, CallOK, Ephemeral
    <2>2. Grows
      BY <1>0, <1>9, <1>g, GrowsNot DEF WriteArchive, disk
    <2>3. \A n \in Names : Untouched(n)
      BY <1>0, <1>9, Tags DEF WriteArchive, TypeOK, Untouched, disk
    <2>4. spaces' = spaces
      BY <1>9 DEF WriteArchive
    <2>5. /\ \A p \in Pids : proc[p].what \in Names => proc[p].ws \in spaces'
          /\ \A n \in Names : unit[n] \in spaces => unit[n] \in spaces'
      BY <1>0, <2>4 DEF DaemonOK
    <2>6. pc[c] \notin {"recordPid", "recordWs"}
      BY <1>9 DEF WriteArchive
    <2>7. \A d \in Callers : pc[d] \in {"recordPid", "recordWs"} =>
              pc'[d] = pc[d] /\ loc'[d].name = loc[d].name /\ loc'[d].ws = loc[d].ws
      BY <2>1, <2>6 DEF Others
    <2>8. StepOK(c)'
      BY <2>1, IdleKnowsNothing
    <2>9. \A d \in Callers \ {c} : StepOK(d)'
      BY <2>1, <2>2, <2>3, OthersKept
    <2>10. (\A p \in Pids : DaemonOK(p)') /\ (\A n \in Names : UnitOK(n)')
      BY <2>2, <2>3, <2>5, <2>7, DaemonsKept
    <2> QED
      BY <1>k, <2>8, <2>9, <2>10 DEF DaemonInv
  <1>10. ASSUME NEW c \in Callers, CheckName(c) PROVE DaemonInv'
    <2>1. Others(c) /\ loc' = loc /\ loc[c].name \in Names
      BY <1>0, <1>10 DEF CheckName, Goto, TypeOK, Others, CallOK
    <2>2. Grows
      BY <1>0, <1>10, <1>g, GrowsNot DEF CheckName, disk
    <2>3. \A n \in Names : Untouched(n)
      BY <1>0, <1>10, Tags DEF CheckName, TypeOK, Untouched, disk
    <2>4. spaces' = spaces
      BY <1>10 DEF CheckName
    <2>5. /\ \A p \in Pids : proc[p].what \in Names => proc[p].ws \in spaces'
          /\ \A n \in Names : unit[n] \in spaces => unit[n] \in spaces'
      BY <1>0, <2>4 DEF DaemonOK
    <2>6. pc[c] \notin {"recordPid", "recordWs"}
      BY <1>10 DEF CheckName
    <2>7. \A d \in Callers : pc[d] \in {"recordPid", "recordWs"} =>
              pc'[d] = pc[d] /\ loc'[d].name = loc[d].name /\ loc'[d].ws = loc[d].ws
      BY <2>1, <2>6 DEF Others
    <2>8. StepOK(c)'
      <3>1. /\ UNCHANGED <<pidFile, wsFile, unit, proc>> /\ pc[c] = "check"
            /\ \E running \in Reached(pidFile[loc[c].name]) :
                  \/ pc'[c] = "idle"
                  \/ pc'[c] = "allocate" /\ pidFile[loc[c].name] = NoPid
                  \/ pc'[c] = "unlink" /\ running = FALSE
        <4>1. PICK running \in Reached(pidFile[loc[c].name]) :
                  Goto(c, CASE pidFile[loc[c].name] = NoPid -> "allocate"
                            [] running -> "idle"
                            [] OTHER -> "unlink")
          BY <1>10 DEF CheckName
        <4>2. running \in BOOLEAN
          BY <4>1 DEF Reached, Alive
        <4>3. \/ pc'[c] = "idle"
              \/ pc'[c] = "allocate" /\ pidFile[loc[c].name] = NoPid
              \/ pc'[c] = "unlink" /\ running = FALSE
          BY <1>0, <4>1, <4>2 DEF Goto, TypeOK
        <4> QED
          BY <1>10, <4>1, <4>3 DEF CheckName
      <3>2. CASE pc'[c] = "unlink"
        <4>1. FALSE \in Reached(pidFile[loc[c].name])
          BY <3>1, <3>2
        <4>2. ASSUME NEW p \in Pids, proc[p].what = loc[c].name PROVE pidFile[loc[c].name] # p
          <5>1. Reached(p) = {TRUE}
            BY <2>1, <4>2, NamedReached
          <5> QED
            BY <4>1, <5>1
        <4> QED
          BY <2>1, <3>1, <3>2, <4>2 DEF StepOK, NotRecorded
      <3> QED
        BY <2>1, <3>1, <3>2 DEF StepOK
    <2>9. \A d \in Callers \ {c} : StepOK(d)'
      BY <2>1, <2>2, <2>3, OthersKept
    <2>10. (\A p \in Pids : DaemonOK(p)') /\ (\A n \in Names : UnitOK(n)')
      BY <2>2, <2>3, <2>5, <2>7, DaemonsKept
    <2> QED
      BY <1>k, <2>8, <2>9, <2>10 DEF DaemonInv
  <1>11. ASSUME NEW c \in Callers, UnlinkPid(c) PROVE DaemonInv'
    <2>1. Others(c) /\ loc' = loc /\ pc[c] = "unlink" /\ pc'[c] = "allocate"
          /\ pidFile'[loc[c].name] = NoPid /\ loc[c].name \in Names
          /\ UNCHANGED <<wsFile, unit, proc, spaces, home, lost>>
      BY <1>0, <1>11 DEF UnlinkPid, Goto, TypeOK, Others, CallOK, disk
    <2>2. Grows
      BY <1>0, <2>1, <1>g, GrowsNot
    <2>3. \A n \in Names : n # loc[c].name => Untouched(n)
      BY <1>0, <1>11, <2>1 DEF UnlinkPid, TypeOK, Untouched, disk
    <2>n. loc[c].name \in Names /\ (LostName(loc[c].name) => LostName(loc[c].name)')
      BY <1>0, <2>1, <2>2, LostNameGrows
    <2>8. StepOK(c)'
      BY <1>0, <2>1 DEF StepOK
    <2>a. NotRecorded(loc[c].name)
      BY <1>0, <2>1 DEF StepOK
    <2>9. \A d \in Callers \ {c} : StepOK(d)'
      BY <2>1, <2>2, <2>3, OthersKept
    <2>10. ASSUME NEW p \in Pids PROVE DaemonOK(p)'
      <3> SUFFICES ASSUME proc[p].what \in Names PROVE DaemonOK(p)'
        BY <2>1 DEF DaemonOK
      <3>1. DaemonOK(p) /\ proc'[p] = proc[p] /\ proc[p].ws \in spaces'
        BY <1>0, <2>1 DEF DaemonOK
      <3>2. CASE proc[p].what # loc[c].name
        <4>1. Recording(proc[p].what, proc[p].ws) => Recording(proc[p].what, proc[p].ws)'
          BY <2>1, <3>1, <3>2 DEF Recording, Others
        <4> QED
          BY <2>1, <2>2, <2>3, <3>1, <3>2, <4>1 DEF DaemonOK, Untouched, Grows
      <3>3. CASE proc[p].what = loc[c].name
        <4>1. pidFile[proc[p].what] # p
          BY <2>a, <3>3 DEF NotRecorded
        <4>2. Recording(proc[p].what, proc[p].ws) => Recording(proc[p].what, proc[p].ws)'
          BY <2>1, <3>1 DEF Recording, Others
        <4> QED
          BY <2>1, <3>1, <3>3, <4>1, <4>2 DEF DaemonOK
      <3> QED
        BY <3>2, <3>3
    <2>11. ASSUME NEW n \in Names PROVE UnitOK(n)'
      <3>1. CASE n # loc[c].name
        <4>1. UnitOK(n) /\ Untouched(n) /\ (LostName(n) => LostName(n)')
          BY <1>0, <2>2, <2>3, <3>1, LostNameGrows
        <4>2. ASSUME NEW d \in Callers, pc[d] = "recordWs", loc[d].name = n
              PROVE  pc'[d] = "recordWs" /\ loc'[d].name = n
          BY <2>1, <3>1, <4>2 DEF Others
        <4> QED
          BY <1>g, <2>1, <4>1, <4>2 DEF UnitOK, Untouched
      <3>2. CASE n = loc[c].name
        BY <1>0, <1>g, <2>1, <2>n, <3>2 DEF UnitOK
      <3> QED
        BY <3>1, <3>2
    <2> QED
      BY <1>k, <2>8, <2>9, <2>10, <2>11 DEF DaemonInv
  <1>12. ASSUME NEW c \in Callers, LaunchUnit(c) PROVE DaemonInv'
    <2>1. Others(c) /\ pc[c] = "unit" /\ loc[c].name \in Names
          /\ loc'[c].name = loc[c].name /\ loc'[c].ws = loc[c].ws
          /\ UNCHANGED <<pidFile, wsFile, proc, spaces, home>> /\ lost \subseteq lost'
      BY <1>0, <1>12, LaunchUnitEffect DEF LaunchUnit, Goto, TypeOK, Others, CallOK, disk
    <2>2. Grows
      BY <1>0, <2>1, <1>g, GrowsNot
    <2>3. \A n \in Names : n # loc[c].name => Untouched(n)
      BY <1>0, <1>12, <2>1 DEF LaunchUnit, TypeOK, Untouched, disk
    <2>n. loc[c].name \in Names /\ (LostName(loc[c].name) => LostName(loc[c].name)')
      BY <1>0, <2>1, <2>2, LostNameGrows
    <2>a. \/ /\ unit'[loc[c].name] = loc[c].ws
             /\ \/ pc'[c] = "recordPid" /\ loc'[c].val = "SYSTEMD_USER"
                \/ pc'[c] = "launch" /\ loc[c].ws \in lost'
          \/ unit' = unit /\ pc'[c] = "launch"
      BY <1>0, <1>12, <2>1, LaunchUnitEffect DEF TypeOK
    <2>8. StepOK(c)'
      BY <1>0, <2>1, <2>a DEF StepOK
    <2>9. \A d \in Callers \ {c} : StepOK(d)'
      BY <2>1, <2>2, <2>3, OthersKept
    <2>10. ASSUME NEW p \in Pids PROVE DaemonOK(p)'
      <3> SUFFICES ASSUME proc[p].what \in Names PROVE DaemonOK(p)'
        BY <2>1 DEF DaemonOK
      <3>1. DaemonOK(p) /\ proc'[p] = proc[p] /\ proc[p].ws \in spaces'
        BY <1>0, <2>1 DEF DaemonOK
      <3>2. CASE proc[p].what # loc[c].name
        <4>1. Recording(proc[p].what, proc[p].ws) => Recording(proc[p].what, proc[p].ws)'
          BY <2>1, <3>1, <3>2 DEF Recording, Others
        <4> QED
          BY <2>1, <2>2, <2>3, <3>1, <3>2, <4>1 DEF DaemonOK, Untouched, Grows
      <3>3. CASE proc[p].what = loc[c].name
        <4>2. Recording(proc[p].what, proc[p].ws) => Recording(proc[p].what, proc[p].ws)'
          BY <2>1, <3>1 DEF Recording, Others
        <4> QED
          BY <2>1, <3>1, <3>3, <4>2 DEF DaemonOK
      <3> QED
        BY <3>2, <3>3
    <2>11. ASSUME NEW n \in Names PROVE UnitOK(n)'
      <3>1. CASE n # loc[c].name
        <4>1. UnitOK(n) /\ Untouched(n) /\ (LostName(n) => LostName(n)')
          BY <1>0, <2>2, <2>3, <3>1, LostNameGrows
        <4>2. ASSUME NEW d \in Callers, pc[d] = "recordWs", loc[d].name = n
              PROVE  pc'[d] = "recordWs" /\ loc'[d].name = n
          BY <2>1, <3>1, <4>2 DEF Others
        <4> QED
          BY <1>g, <2>1, <4>1, <4>2 DEF UnitOK, Untouched
      <3>2. CASE n = loc[c].name
        <4>1. loc[c].ws \in spaces /\ pidFile[n] = NoPid /\ UnitOK(n)
          BY <1>0, <2>1, <3>2 DEF Kept, Holding, StepOK
        <4> QED
          BY <1>g, <2>1, <2>a, <2>n, <3>2, <4>1 DEF UnitOK
      <3> QED
        BY <3>1, <3>2
    <2> QED
      BY <1>k, <2>8, <2>9, <2>10, <2>11 DEF DaemonInv
  <1>13. ASSUME NEW c \in Callers, Launch(c) PROVE DaemonInv'
    <2>1. Others(c) /\ pc[c] = "launch" /\ loc[c].name \in Names
          /\ loc'[c].name = loc[c].name /\ loc'[c].ws = loc[c].ws
          /\ UNCHANGED <<pidFile, wsFile, unit, spaces, home>> /\ lost \subseteq lost'
      BY <1>0, <1>13, LaunchEffect DEF Launch, Raise, Goto, TypeOK, Others, CallOK, disk
    <2>2. Grows
      BY <1>0, <2>1, <1>g, GrowsNot
    <2>3. \A n \in Names : n # loc[c].name => Untouched(n)
      BY <1>0, <1>13, <2>1 DEF Launch, Raise, TypeOK, Untouched, disk
    <2>n. loc[c].name \in Names /\ (LostName(loc[c].name) => LostName(loc[c].name)')
      BY <1>0, <2>1, <2>2, LostNameGrows
    <2>a. /\ loc[c].ws \in spaces /\ pidFile[loc[c].name] = NoPid
          /\ wsFile[loc[c].name] # loc[c].ws
          /\ \A p \in Pids : ~ (proc[p].what = loc[c].name /\ proc[p].ws = loc[c].ws)
          /\ unit[loc[c].name] = loc[c].ws => loc[c].ws \in lost
      BY <1>0, <2>1 DEF Kept, Holding, StepOK
    <2>b. \/ pc'[c] = "idle" /\ proc' = proc
          \/ /\ pc'[c] = "recordPid"
             /\ \E q \in Pids :
                   /\ loc'[c].val = q
                   /\ proc'[q].what = loc[c].name /\ proc'[q].ws = loc[c].ws
                   /\ \A p \in Pids \ {q} : proc'[p] = proc[p]
      BY <1>0, <1>13, LaunchEffect DEF TypeOK
    <2>8. StepOK(c)'
      BY <2>1, <2>a, <2>b DEF StepOK
    <2>9. \A d \in Callers \ {c} : StepOK(d)'
      BY <2>1, <2>2, <2>3, OthersKept
    <2>10. ASSUME NEW p \in Pids PROVE DaemonOK(p)'
      <3>1. CASE proc'[p] = proc[p]
        <4>1. DaemonOK(p)
          BY <1>0
        <4>2. Recording(proc[p].what, proc[p].ws) => Recording(proc[p].what, proc[p].ws)'
          BY <2>1, <3>1 DEF Recording, Others
        <4> QED
          BY <2>1, <3>1, <4>1, <4>2 DEF DaemonOK
      <3>2. CASE proc'[p] # proc[p]
        <4>1. /\ proc'[p].what = loc[c].name /\ proc'[p].ws = loc[c].ws /\ pc'[c] = "recordPid"
          BY <2>b, <3>2
        <4> QED
          BY <2>1, <2>a, <4>1 DEF DaemonOK, Recording
      <3> QED
        BY <3>1, <3>2
    <2>11. ASSUME NEW n \in Names PROVE UnitOK(n)'
      <3>1. UnitOK(n) /\ (LostName(n) => LostName(n)')
        BY <1>0, <2>2, LostNameGrows
      <3>2. ASSUME NEW d \in Callers, pc[d] = "recordWs", loc[d].name = n
            PROVE  pc'[d] = "recordWs" /\ loc'[d].name = n
        BY <2>1, <3>2 DEF Others
      <3> QED
        BY <1>g, <2>1, <3>1, <3>2 DEF UnitOK
    <2> QED
      BY <1>k, <2>8, <2>9, <2>10, <2>11 DEF DaemonInv
  <1>14. ASSUME NEW c \in Callers, RecordPid(c) PROVE DaemonInv'
    <2>1. Others(c) /\ loc' = loc /\ pc[c] = "recordPid" /\ pc'[c] = "recordWs"
          /\ pidFile'[loc[c].name] = loc[c].val /\ loc[c].name \in Names
          /\ UNCHANGED <<wsFile, unit, proc, spaces, home, lost>>
      BY <1>0, <1>14 DEF RecordPid, Goto, TypeOK, Others, CallOK, disk
    <2>2. Grows
      BY <1>0, <2>1, <1>g, GrowsNot
    <2>3. \A n \in Names : n # loc[c].name => Untouched(n)
      BY <1>0, <1>14, <2>1 DEF RecordPid, TypeOK, Untouched, disk
    <2>n. loc[c].name \in Names /\ (LostName(loc[c].name) => LostName(loc[c].name)')
      BY <1>0, <2>1, <2>2, LostNameGrows
    <2>8. StepOK(c)'
      BY <1>0, <2>1 DEF StepOK
    <2>a. /\ pidFile[loc[c].name] = NoPid
          /\ \A p \in Pids : proc[p].what = loc[c].name /\ proc[p].ws = loc[c].ws => p = loc[c].val
      BY <1>0, <2>1 DEF StepOK
    <2>9. \A d \in Callers \ {c} : StepOK(d)'
      BY <2>1, <2>2, <2>3, OthersKept
    <2>10. ASSUME NEW p \in Pids PROVE DaemonOK(p)'
      <3> SUFFICES ASSUME proc[p].what \in Names PROVE DaemonOK(p)'
        BY <2>1 DEF DaemonOK
      <3>1. DaemonOK(p) /\ proc'[p] = proc[p] /\ proc[p].ws \in spaces'
        BY <1>0, <2>1 DEF DaemonOK
      <3>2. CASE proc[p].what # loc[c].name
        <4>1. Recording(proc[p].what, proc[p].ws) => Recording(proc[p].what, proc[p].ws)'
          BY <2>1, <3>1, <3>2 DEF Recording, Others
        <4> QED
          BY <2>1, <2>2, <2>3, <3>1, <3>2, <4>1 DEF DaemonOK, Untouched, Grows
      <3>3. CASE proc[p].what = loc[c].name
        <4>1. pidFile[proc[p].what] # p
          BY <2>a, <3>3, Tags
        <4>2. Recording(proc[p].what, proc[p].ws) => proc[p].ws = loc[c].ws
          BY <1>0, <2>1, <3>3 DEF Recording, Exclusive
        <4> QED
          BY <2>1, <2>a, <3>1, <3>3, <4>1, <4>2 DEF DaemonOK
      <3> QED
        BY <3>2, <3>3
    <2>11. ASSUME NEW n \in Names PROVE UnitOK(n)'
      <3>1. CASE n # loc[c].name
        <4>1. UnitOK(n) /\ Untouched(n) /\ (LostName(n) => LostName(n)')
          BY <1>0, <2>2, <2>3, <3>1, LostNameGrows
        <4>2. ASSUME NEW d \in Callers, pc[d] = "recordWs", loc[d].name = n
              PROVE  pc'[d] = "recordWs" /\ loc'[d].name = n
          BY <2>1, <3>1, <4>2 DEF Others
        <4> QED
          BY <1>g, <2>1, <4>1, <4>2 DEF UnitOK, Untouched
      <3>2. CASE n = loc[c].name
        BY <1>0, <1>g, <2>1, <2>n, <3>2 DEF UnitOK
      <3> QED
        BY <3>1, <3>2
    <2> QED
      BY <1>k, <2>8, <2>9, <2>10, <2>11 DEF DaemonInv
  <1>15. ASSUME NEW c \in Callers, RecordWs(c) PROVE DaemonInv'
    <2>1. Others(c) /\ loc' = loc /\ pc[c] = "recordWs" /\ pc'[c] = "idle"
          /\ wsFile'[loc[c].name] = loc[c].ws /\ loc[c].name \in Names
          /\ UNCHANGED <<pidFile, unit, proc, spaces, home, lost>>
      BY <1>0, <1>15 DEF RecordWs, Goto, TypeOK, Others, CallOK, disk
    <2>2. Grows
      BY <1>0, <2>1, <1>g, GrowsNot
    <2>3. \A n \in Names : n # loc[c].name => Untouched(n)
      BY <1>0, <1>15, <2>1 DEF RecordWs, TypeOK, Untouched, disk
    <2>n. loc[c].name \in Names /\ (LostName(loc[c].name) => LostName(loc[c].name)')
      BY <1>0, <2>1, <2>2, LostNameGrows
    <2>8. StepOK(c)'
      BY <2>1, IdleKnowsNothing
    <2>a. /\ pidFile[loc[c].name] = loc[c].val
          /\ \A p \in Pids : proc[p].what = loc[c].name /\ proc[p].ws = loc[c].ws => p = loc[c].val
          /\ unit[loc[c].name] = loc[c].ws =>
                loc[c].val = "SYSTEMD_USER" \/ loc[c].ws \in lost
      BY <1>0, <2>1 DEF StepOK
    <2>b. home[loc[c].ws] = loc[c].name
      BY <1>0, <2>1 DEF CallOK, Holding, Made
    <2>9. \A d \in Callers \ {c} : StepOK(d)'
      BY <2>1, <2>2, <2>3, OthersKept
    <2>10. ASSUME NEW p \in Pids PROVE DaemonOK(p)'
      <3> SUFFICES ASSUME proc[p].what \in Names PROVE DaemonOK(p)'
        BY <2>1 DEF DaemonOK
      <3>1. DaemonOK(p) /\ proc'[p] = proc[p] /\ proc[p].ws \in spaces'
        BY <1>0, <2>1 DEF DaemonOK
      <3>2. CASE proc[p].what # loc[c].name
        <4>1. Recording(proc[p].what, proc[p].ws) => Recording(proc[p].what, proc[p].ws)'
          BY <2>1, <3>1, <3>2 DEF Recording, Others
        <4> QED
          BY <2>1, <2>2, <2>3, <3>1, <3>2, <4>1 DEF DaemonOK, Untouched, Grows
      <3>3. CASE proc[p].what = loc[c].name
        <4>2. Recording(proc[p].what, proc[p].ws) => Recording(proc[p].what, proc[p].ws)'
          BY <2>1, <3>1 DEF Recording, Others
        <4> QED
          BY <2>1, <2>a, <3>1, <3>3, <4>2 DEF DaemonOK
      <3> QED
        BY <3>2, <3>3
    <2>11. ASSUME NEW n \in Names PROVE UnitOK(n)'
      <3>1. CASE n # loc[c].name
        <4>1. UnitOK(n) /\ Untouched(n) /\ (LostName(n) => LostName(n)')
          BY <1>0, <2>2, <2>3, <3>1, LostNameGrows
        <4>2. ASSUME NEW d \in Callers, pc[d] = "recordWs", loc[d].name = n
              PROVE  pc'[d] = "recordWs" /\ loc'[d].name = n
          BY <2>1, <3>1, <4>2 DEF Others
        <4> QED
          BY <1>g, <2>1, <4>1, <4>2 DEF UnitOK, Untouched
      <3>2. CASE n = loc[c].name
        BY <1>0, <1>g, <2>1, <2>a, <2>b, <2>n, <3>2 DEF UnitOK, LostName
      <3> QED
        BY <3>1, <3>2
    <2> QED
      BY <1>k, <2>8, <2>9, <2>10, <2>11 DEF DaemonInv
  <1>16. ASSUME NEW c \in Callers, ReadPid(c) PROVE DaemonInv'
    <2>1. Others(c) /\ loc'[c].name = loc[c].name /\ loc[c].name \in Names
          /\ loc'[c].val = pidFile[loc[c].name]
          /\ \/ pc'[c] = "idle"
             \/ pc'[c] = "kill" /\ pidFile[loc[c].name] # NoPid
      BY <1>0, <1>16 DEF ReadPid, Goto, TypeOK, Others, CallOK, Local
    <2>2. Grows
      BY <1>0, <1>16, <1>g, GrowsNot DEF ReadPid, disk
    <2>3. \A n \in Names : Untouched(n)
      BY <1>0, <1>16, Tags DEF ReadPid, TypeOK, Untouched, disk
    <2>4. spaces' = spaces
      BY <1>16 DEF ReadPid
    <2>5. /\ \A p \in Pids : proc[p].what \in Names => proc[p].ws \in spaces'
          /\ \A n \in Names : unit[n] \in spaces => unit[n] \in spaces'
      BY <1>0, <2>4 DEF DaemonOK
    <2>6. pc[c] \notin {"recordPid", "recordWs"}
      BY <1>16 DEF ReadPid
    <2>7. \A d \in Callers : pc[d] \in {"recordPid", "recordWs"} =>
              pc'[d] = pc[d] /\ loc'[d].name = loc[d].name /\ loc'[d].ws = loc[d].ws
      BY <2>1, <2>6 DEF Others
    <2>8. StepOK(c)'
      BY <1>16, <2>1 DEF ReadPid, StepOK, disk
    <2>9. \A d \in Callers \ {c} : StepOK(d)'
      BY <2>1, <2>2, <2>3, OthersKept
    <2>10. (\A p \in Pids : DaemonOK(p)') /\ (\A n \in Names : UnitOK(n)')
      BY <2>2, <2>3, <2>5, <2>7, DaemonsKept
    <2> QED
      BY <1>k, <2>8, <2>9, <2>10 DEF DaemonInv
  <1>17. ASSUME NEW c \in Callers, KillDaemon(c) PROVE DaemonInv'
    <2>1. Others(c) /\ loc' = loc /\ loc[c].name \in Names /\ pc'[c] = "vaporize"
          /\ pc[c] = "kill" /\ pidFile' = pidFile /\ wsFile' = wsFile
      BY <1>0, <1>17 DEF KillDaemon, Goto, TypeOK, Others, CallOK, disk
    <2>2. Grows
      BY <1>0, <1>17, <1>g, GrowsNot DEF KillDaemon, disk
    <2>3. \A n \in Names : Untouched(n)
      <3>1. \A n \in Names : unit'[n] \in {unit[n], 0}
        BY <1>0, <1>17 DEF KillDaemon, TypeOK
      <3>2. \A p \in Pids : proc'[p] = proc[p] \/ proc'[p] = Free
        BY <1>0, <1>17 DEF KillDaemon, TypeOK
      <3> QED
        BY <2>1, <3>1, <3>2, Tags DEF Untouched, Free
    <2>4. spaces' = spaces
      BY <1>17 DEF KillDaemon
    <2>5. /\ \A p \in Pids : proc[p].what \in Names => proc[p].ws \in spaces'
          /\ \A n \in Names : unit[n] \in spaces => unit[n] \in spaces'
      BY <1>0, <2>4 DEF DaemonOK
    <2>6. pc[c] \notin {"recordPid", "recordWs"}
      BY <1>17 DEF KillDaemon
    <2>7. \A d \in Callers : pc[d] \in {"recordPid", "recordWs"} =>
              pc'[d] = pc[d] /\ loc'[d].name = loc[d].name /\ loc'[d].ws = loc[d].ws
      BY <2>1, <2>6 DEF Others
    <2>a. pidFile[loc[c].name] = loc[c].val /\ loc[c].val # NoPid
      BY <1>0, <2>1 DEF StepOK
    <2>b. NotRecorded(loc[c].name)'
      <3>1. CASE loc[c].val \notin Pids
        BY <2>1, <2>a, <3>1 DEF NotRecorded
      <3>2. CASE loc[c].val \in Pids /\ proc[loc[c].val].what # loc[c].name
        BY <1>0, <2>1, <2>a, <3>2, <2>3 DEF NotRecorded, Untouched
      <3>3. CASE loc[c].val \in Pids /\ proc[loc[c].val].what = loc[c].name
        <4>1. Reached(loc[c].val) = {TRUE} /\ loc[c].val # "SYSTEMD_USER"
          BY <2>1, <3>3, Tags, NamedReached
        <4>2. proc' = [proc EXCEPT ![loc[c].val] = Free]
          BY <1>17, <4>1 DEF KillDaemon
        <4>3. proc'[loc[c].val] = Free
          BY <1>0, <3>3, <4>2 DEF TypeOK
        <4>4. \A p \in Pids : proc'[p].what = loc[c].name => p # loc[c].val
          BY <2>1, <4>3, Tags DEF Free
        <4> QED
          BY <2>1, <2>a, <4>4 DEF NotRecorded
      <3> QED
        BY <3>1, <3>2, <3>3
    <2>c. unit'[loc[c].name] # 0 /\ unit'[loc[c].name] = wsFile'[loc[c].name] =>
              LostName(loc[c].name) \/ unit'[loc[c].name] \in strays'
      <3>1. CASE loc[c].val = "SYSTEMD_USER"
        BY <1>0, <1>17, <2>1, <3>1 DEF KillDaemon, TypeOK
      <3>2. CASE loc[c].val # "SYSTEMD_USER"
        <4>1. unit' = unit /\ UnitOK(loc[c].name)
          BY <1>0, <1>17, <2>1, <3>2 DEF KillDaemon
        <4>2. ~ \E d \in Callers : pc[d] = "recordWs" /\ loc[d].name = loc[c].name
          BY <1>0, <2>1 DEF Exclusive
        <4> QED
          BY <2>1, <2>a, <3>2, <4>1, <4>2 DEF UnitOK
      <3> QED
        BY <3>1, <3>2
    <2>d. LostName(loc[c].name) => LostName(loc[c].name)'
      BY <1>0, <2>1, <2>2, LostNameGrows
    <2>8. StepOK(c)'
      BY <2>1, <2>b, <2>c, <2>d DEF StepOK
    <2>9. \A d \in Callers \ {c} : StepOK(d)'
      BY <2>1, <2>2, <2>3, OthersKept
    <2>10. (\A p \in Pids : DaemonOK(p)') /\ (\A n \in Names : UnitOK(n)')
      BY <2>2, <2>3, <2>5, <2>7, DaemonsKept
    <2> QED
      BY <1>k, <2>8, <2>9, <2>10 DEF DaemonInv
  <1>18. ASSUME NEW c \in Callers, Vaporize(c) PROVE DaemonInv'
    <2>1. Others(c) /\ loc' = loc /\ loc[c].name \in Names /\ pc'[c] = "remove"
          /\ pc[c] = "vaporize"
      BY <1>0, <1>18 DEF Vaporize, Rmtree, Goto, TypeOK, Others, CallOK, disk
    <2>2. Grows
      BY <1>0, <1>18, <1>g, GrowsNot DEF Vaporize, Rmtree, disk
    <2>3. \A n \in Names : Untouched(n)
      BY <1>0, <1>18, Tags DEF Vaporize, Rmtree, TypeOK, Untouched, disk
    <2>4. spaces \ {wsFile[loc[c].name]} \subseteq spaces'
      BY <1>18 DEF Vaporize, Rmtree
    <2>a. wsFile[loc[c].name] # 0 => Made(wsFile[loc[c].name], loc[c].name)
      BY <1>0, <2>1 DEF Homes
    <2>b. ASSUME NEW p \in Pids, proc[p].what \in Names PROVE proc[p].ws \in spaces'
      <3>1. proc[p].ws \in spaces /\ Made(proc[p].ws, proc[p].what)
        BY <1>0, <2>b DEF DaemonOK, Homes
      <3>2. ASSUME proc[p].ws = wsFile[loc[c].name] PROVE FALSE
        <4>1. proc[p].what = loc[c].name
          BY <2>a, <3>1, <3>2 DEF Made
        <4>2. pidFile[loc[c].name] = p
          BY <1>0, <2>b, <3>2, <4>1 DEF DaemonOK
        <4> QED
          BY <1>0, <2>1, <4>1, <4>2 DEF StepOK, NotRecorded
      <3> QED
        BY <2>4, <3>1, <3>2
    <2>c. ASSUME NEW n \in Names, unit[n] \in spaces, unit[n] \notin spaces'
          PROVE  LostName(n) \/ unit[n] \in strays
      <3>1. unit[n] = wsFile[loc[c].name] /\ unit[n] # 0
        BY <1>0, <2>4, <2>c DEF TypeOK
      <3>2. Made(unit[n], n)
        BY <1>0, <3>1 DEF Homes
      <3>3. n = loc[c].name
        BY <2>a, <3>1, <3>2 DEF Made
      <3> QED
        BY <1>0, <2>1, <3>1, <3>3 DEF StepOK
    <2>5. /\ \A p \in Pids : proc[p].what \in Names => proc[p].ws \in spaces'
          /\ \A n \in Names : unit[n] \in spaces => unit[n] \in spaces' \cup strays \/ LostName(n)
      BY <2>b, <2>c
    <2>6. pc[c] \notin {"recordPid", "recordWs"}
      BY <1>18 DEF Vaporize, Rmtree
    <2>7. \A d \in Callers : pc[d] \in {"recordPid", "recordWs"} =>
              pc'[d] = pc[d] /\ loc'[d].name = loc[d].name /\ loc'[d].ws = loc[d].ws
      BY <2>1, <2>6 DEF Others
    <2>8. StepOK(c)'
      BY <1>0, <1>18, <2>1 DEF Vaporize, Rmtree, StepOK, NotRecorded, disk
    <2>9. \A d \in Callers \ {c} : StepOK(d)'
      BY <2>1, <2>2, <2>3, OthersKept
    <2>10. (\A p \in Pids : DaemonOK(p)') /\ (\A n \in Names : UnitOK(n)')
      BY <2>2, <2>3, <2>5, <2>7, DaemonsKept
    <2> QED
      BY <1>k, <2>8, <2>9, <2>10 DEF DaemonInv
  <1>19. ASSUME NEW c \in Callers, RemoveDir(c) PROVE DaemonInv'
    <2>1. Others(c) /\ loc' = loc /\ pc[c] = "remove" /\ pc'[c] = "idle"
          /\ pidFile'[loc[c].name] = NoPid /\ wsFile'[loc[c].name] = 0 /\ loc[c].name \in Names
          /\ UNCHANGED <<unit, proc, spaces, home, lost>>
      BY <1>0, <1>19 DEF RemoveDir, Goto, TypeOK, Others, CallOK, disk
    <2>2. Grows
      BY <1>0, <2>1, <1>g, GrowsNot
    <2>3. \A n \in Names : n # loc[c].name => Untouched(n)
      BY <1>0, <1>19, <2>1 DEF RemoveDir, TypeOK, Untouched, disk
    <2>n. loc[c].name \in Names /\ (LostName(loc[c].name) => LostName(loc[c].name)')
      BY <1>0, <2>1, <2>2, LostNameGrows
    <2>8. StepOK(c)'
      BY <2>1, IdleKnowsNothing
    <2>a. NotRecorded(loc[c].name)
      BY <1>0, <2>1 DEF StepOK
    <2>9. \A d \in Callers \ {c} : StepOK(d)'
      BY <2>1, <2>2, <2>3, OthersKept
    <2>10. ASSUME NEW p \in Pids PROVE DaemonOK(p)'
      <3> SUFFICES ASSUME proc[p].what \in Names PROVE DaemonOK(p)'
        BY <2>1 DEF DaemonOK
      <3>1. DaemonOK(p) /\ proc'[p] = proc[p] /\ proc[p].ws \in spaces'
        BY <1>0, <2>1 DEF DaemonOK
      <3>2. CASE proc[p].what # loc[c].name
        <4>1. Recording(proc[p].what, proc[p].ws) => Recording(proc[p].what, proc[p].ws)'
          BY <2>1, <3>1, <3>2 DEF Recording, Others
        <4> QED
          BY <2>1, <2>2, <2>3, <3>1, <3>2, <4>1 DEF DaemonOK, Untouched, Grows
      <3>3. CASE proc[p].what = loc[c].name
        <4>1. pidFile[proc[p].what] # p /\ proc[p].ws # 0
          BY <1>0, <2>1, <2>a, <3>1, <3>3 DEF NotRecorded, TypeOK
        <4>2. Recording(proc[p].what, proc[p].ws) => Recording(proc[p].what, proc[p].ws)'
          BY <2>1, <3>1 DEF Recording, Others
        <4> QED
          BY <2>1, <3>1, <3>3, <4>1, <4>2 DEF DaemonOK
      <3> QED
        BY <3>2, <3>3
    <2>11. ASSUME NEW n \in Names PROVE UnitOK(n)'
      <3>1. CASE n # loc[c].name
        <4>1. UnitOK(n) /\ Untouched(n) /\ (LostName(n) => LostName(n)')
          BY <1>0, <2>2, <2>3, <3>1, LostNameGrows
        <4>2. ASSUME NEW d \in Callers, pc[d] = "recordWs", loc[d].name = n
              PROVE  pc'[d] = "recordWs" /\ loc'[d].name = n
          BY <2>1, <3>1, <4>2 DEF Others
        <4> QED
          BY <1>g, <2>1, <4>1, <4>2 DEF UnitOK, Untouched
      <3>2. CASE n = loc[c].name
        BY <1>0, <1>g, <2>1, <2>n, <3>2 DEF UnitOK
      <3> QED
        BY <3>1, <3>2
    <2> QED
      BY <1>k, <2>8, <2>9, <2>10, <2>11 DEF DaemonInv
  <1>20. ASSUME NEW c \in Callers, Interrupt(c) PROVE DaemonInv'
    <2>1. Others(c) /\ loc' = loc /\ pc'[c] = "idle"
      BY <1>0, <1>20 DEF Interrupt, Raise, Goto, TypeOK, Others
    <2>2. Grows
      BY <1>0, <1>20, <1>g, GrowsNot DEF Interrupt, Raise, disk
    <2>3. \A n \in Names : Untouched(n)
      BY <1>0, <1>20, Tags DEF Interrupt, Raise, TypeOK, Untouched, disk
    <2>4. spaces' = spaces
      BY <1>20 DEF Interrupt, Raise
    <2>5. /\ \A p \in Pids : proc[p].what \in Names => proc[p].ws \in spaces'
          /\ \A n \in Names : unit[n] \in spaces => unit[n] \in spaces'
      BY <1>0, <2>4 DEF DaemonOK
    <2>6. pc[c] \in {"recordPid", "recordWs"} => loc[c].ws \in lost'
      BY <1>0, <1>20 DEF Interrupt, Raise, CallOK, Holding, Made
    <2>7. \A d \in Callers : pc[d] \in {"recordPid", "recordWs"} =>
              \/ pc'[d] = pc[d] /\ loc'[d].name = loc[d].name /\ loc'[d].ws = loc[d].ws
              \/ loc[d].ws \in lost'
      BY <2>1, <2>6 DEF Others
    <2>8. StepOK(c)'
      BY <2>1, IdleKnowsNothing
    <2>9. \A d \in Callers \ {c} : StepOK(d)'
      BY <2>1, <2>2, <2>3, OthersKept
    <2>10. (\A p \in Pids : DaemonOK(p)') /\ (\A n \in Names : UnitOK(n)')
      BY <2>2, <2>3, <2>5, <2>7, DaemonsKept
    <2> QED
      BY <1>k, <2>8, <2>9, <2>10 DEF DaemonInv
  <1>21. ASSUME NEW p \in Pids, ProcExits(p) PROVE DaemonInv'
    <2>1. pc' = pc /\ loc' = loc /\ spaces' = spaces /\ lost' = lost /\ home' = home
      BY <1>21 DEF ProcExits
    <2>2. Grows
      BY <1>0, <2>1, <1>g, GrowsNot
    <2>3. \A m \in Names : Untouched(m)
      BY <1>0, <1>21, Tags DEF ProcExits, TypeOK, Untouched, Free, disk
    <2>4. \A d \in Callers : StepOK(d)'
      BY <1>0, <2>1, <2>2, <2>3, StepKept
    <2>5. /\ \A q \in Pids : proc[q].what \in Names => proc[q].ws \in spaces'
          /\ \A m \in Names : unit[m] \in spaces => unit[m] \in spaces'
      BY <1>0, <2>1 DEF DaemonOK
    <2>6. (\A q \in Pids : DaemonOK(q)') /\ (\A m \in Names : UnitOK(m)')
      BY <2>1, <2>2, <2>3, <2>5, DaemonsKept
    <2> QED
      BY <1>k, <2>4, <2>6 DEF DaemonInv
  <1>22. ASSUME NEW p \in Pids, Reuse(p) PROVE DaemonInv'
    <2>1. pc' = pc /\ loc' = loc /\ spaces' = spaces /\ lost' = lost /\ home' = home
      BY <1>22 DEF Reuse
    <2>2. Grows
      BY <1>0, <2>1, <1>g, GrowsNot
    <2>3. \A m \in Names : Untouched(m)
      BY <1>0, <1>22, Tags DEF Reuse, TypeOK, Untouched, Free, disk
    <2>4. \A d \in Callers : StepOK(d)'
      BY <1>0, <2>1, <2>2, <2>3, StepKept
    <2>5. /\ \A q \in Pids : proc[q].what \in Names => proc[q].ws \in spaces'
          /\ \A m \in Names : unit[m] \in spaces => unit[m] \in spaces'
      BY <1>0, <2>1 DEF DaemonOK
    <2>6. (\A q \in Pids : DaemonOK(q)') /\ (\A m \in Names : UnitOK(m)')
      BY <2>1, <2>2, <2>3, <2>5, DaemonsKept
    <2> QED
      BY <1>k, <2>4, <2>6 DEF DaemonInv
  <1>23. ASSUME NEW n \in Names, UnitExits(n) PROVE DaemonInv'
    <2>1. pc' = pc /\ loc' = loc /\ spaces' = spaces /\ lost' = lost /\ home' = home
      BY <1>23 DEF UnitExits
    <2>2. Grows
      BY <1>0, <2>1, <1>g, GrowsNot
    <2>3. \A m \in Names : Untouched(m)
      BY <1>0, <1>23, Tags DEF UnitExits, TypeOK, Untouched, Free, disk
    <2>4. \A d \in Callers : StepOK(d)'
      BY <1>0, <2>1, <2>2, <2>3, StepKept
    <2>5. /\ \A q \in Pids : proc[q].what \in Names => proc[q].ws \in spaces'
          /\ \A m \in Names : unit[m] \in spaces => unit[m] \in spaces'
      BY <1>0, <2>1 DEF DaemonOK
    <2>6. (\A q \in Pids : DaemonOK(q)') /\ (\A m \in Names : UnitOK(m)')
      BY <2>1, <2>2, <2>3, <2>5, DaemonsKept
    <2> QED
      BY <1>k, <2>4, <2>6 DEF DaemonInv
  <1>24. ASSUME Reboot PROVE DaemonInv'
    <2>1. /\ \A c \in Callers : pc'[c] = "idle"
          /\ \A p \in Pids : proc'[p].what \notin Names
          /\ \A n \in Names : unit'[n] = 0
      BY <1>24, Tags DEF Reboot, Free
    <2> QED
      BY <1>k, <2>1 DEF DaemonInv, StepOK, DaemonOK, UnitOK
  <1> QED
    BY <1>1, <1>2, <1>3, <1>4, <1>5, <1>6, <1>7, <1>8, <1>9, <1>10, <1>11, <1>12, <1>13, <1>14,
       <1>15, <1>16, <1>17, <1>18, <1>19, <1>20, <1>21, <1>22, <1>23, <1>24 DEF Next

LEMMA DaemonInitInv == Init => DaemonInv
  BY Tags DEF Init, DaemonInv, Exclusive, Kept, StepOK, DaemonOK, UnitOK, Holding, Free

LEMMA DaemonInvStep ==
    "race" \notin Env /\ EphemeralInv /\ DaemonInv /\ [Next]_vars => DaemonInv'
  <1>1. ASSUME "race" \notin Env, EphemeralInv, DaemonInv, Next PROVE DaemonInv'
    BY <1>1, DaemonStep
  <1>2. ASSUME DaemonInv, UNCHANGED vars PROVE DaemonInv'
    BY <1>2 DEF vars, DaemonInv, Exclusive, Kept, StepOK, DaemonOK, UnitOK, NotRecorded,
                LostName, Recording
  <1> QED
    BY <1>1, <1>2

LEMMA DaemonInvHolds == ASSUME "race" \notin Env PROVE Spec => []DaemonInv
  <1>1. EphemeralInv /\ DaemonInv /\ [Next]_vars => DaemonInv'
    BY DaemonInvStep
  <1> QED
    BY <1>1, DaemonInitInv, EphemeralInvHolds, PTL DEF Spec

(* stop_container_daemon: when no two calls for one name overlap, a        *)
(* daemon's process has its workspace, whatever died, timed out or was     *)
(* restarted, and whichever process ids other programs got; and so has its *)
(* unit, but for a stop that systemd refused and a call for its name that  *)
(* died, raised or gave up.                                                *)
THEOREM NoWorkspacePulledAway == ASSUME "race" \notin Env PROVE Spec => []NoRugPull
  <1>1. DaemonInv => NoRugPull
    BY DEF DaemonInv, DaemonOK, UnitOK, NoRugPull, LostName
  <1> QED
    BY <1>1, DaemonInvHolds, PTL

(* daemonize_container_session: a container that runs can be stopped by    *)
(* its name, unless the call that started it died before it wrote that     *)
(* down.                                                                   *)
THEOREM DaemonsCanBeStopped == ASSUME "race" \notin Env PROVE Spec => []ProcsAreRecorded
  <1>1. DaemonInv => ProcsAreRecorded
    BY DEF DaemonInv, DaemonOK, ProcsAreRecorded
  <1> QED
    BY <1>1, DaemonInvHolds, PTL

=============================================================================
