--------------------------- MODULE ControlCenter ---------------------------
(***************************************************************************)
(* The control center (neuronix_center.py): one Tk thread, a worker thread *)
(* for the operation under way and one for the telemetry, and the queue    *)
(* through which workers hand callbacks to the Tk thread.                  *)
(*                                                                         *)
(* A message box runs an event loop of its own: timers still fire, but the *)
(* window's buttons and shortcuts are out of reach.  Of the system only    *)
(* the profile is told apart, by the number of times it has changed.       *)
(***************************************************************************)
EXTENDS Naturals, Sequences, FiniteSets

CONSTANTS MaxMoves, MaxPresses, MaxWindows      \* bounds

VARIABLES
    window,       \* the number of the window; closed: there is none
    closed,
    dialogs,      \* message boxes, the innermost last
    scheduled,    \* whether _process_queue has been handed to root.after
    busy,         \* is_busy
    refreshing,   \* is_refreshing
    uiQueue,      \* ui_queue
    status,       \* the indicator in the header
    shown,        \* the generation and the list of generations on display
    probe,        \* the telemetry worker: what it has read
    workers,      \* the operations whose worker thread lives
    orphans,      \* commands of windows that were closed
    raised,       \* history: a worker thread of this window has ended by an exception
    cli,          \* what a run in the terminal has still to do
    profile,      \* changes of the system profile
    presses

guts == <<dialogs, scheduled, busy, refreshing, uiQueue, status, shown, probe, workers, raised>>
centerVars == <<window, closed, guts, orphans, cli, profile, presses>>

Operations == {"upgrade", "rollback", "diet", "check-update"}
Confirmed == {"upgrade", "rollback"}          \* askyesno first
Announced == Operations \ {"check-update"}    \* a message box at the end
Reread == {"rollback", "diet"}                \* refresh_telemetry after success

NoProbe == <<>>
Top == IF dialogs = <<>> THEN "none" ELSE dialogs[Len(dialogs)].kind
Box(kind, op) == Append(dialogs, [kind |-> kind, op |-> op])
CloseBox == dialogs' = SubSeq(dialogs, 1, Len(dialogs) - 1)

(* What a command that changes the system may have done when it ends, well *)
(* or not.                                                                 *)
MayMove == profile' \in (IF profile < MaxMoves THEN {profile, profile + 1} ELSE {profile})

-----------------------------------------------------------------------------
(* Telemetry.                                                              *)

(* refresh_telemetry: one probe at a time.                                 *)
Refreshed(now) ==
    IF now THEN /\ UNCHANGED <<refreshing, probe>>
    ELSE /\ refreshing' = TRUE
         /\ probe' = <<"reading">>

(* F5 or Ctrl+R; the button too, while no operation is under way.          *)
Refresh ==
    /\ ~ closed /\ dialogs = <<>> /\ ~ refreshing
    /\ Refreshed(refreshing) /\ status' = "working"
    /\ UNCHANGED <<window, closed, dialogs, scheduled, busy, uiQueue, shown, workers, raised,
                   orphans, cli, profile, presses>>

(* Every 45 seconds, message boxes or not.                                 *)
AutoRefresh ==
    /\ ~ closed
    /\ Refreshed(refreshing) /\ status' = IF refreshing THEN status ELSE "working"
    /\ UNCHANGED <<window, closed, dialogs, scheduled, busy, uiQueue, shown, workers, raised,
                   orphans, cli, profile, presses>>

(* get_system_telemetry reads the generation, list_generations the list.   *)
ReadTelemetry ==
    /\ probe = <<"reading">>
    /\ \/ probe' = <<"listing", profile>> /\ UNCHANGED raised
       \/ probe' = NoProbe /\ raised' = TRUE
    /\ UNCHANGED <<window, closed, dialogs, scheduled, busy, refreshing, uiQueue, status, shown,
                   workers, orphans, cli, profile, presses>>

ListGenerations ==
    /\ Len(probe) = 2
    /\ uiQueue' = Append(uiQueue, [what |-> "telemetry", read |-> <<probe[2], profile>>])
    /\ probe' = NoProbe
    /\ UNCHANGED <<window, closed, dialogs, scheduled, busy, refreshing, status, shown, workers,
                   raised, orphans, cli, profile, presses>>

-----------------------------------------------------------------------------
(* Operations.                                                             *)

Launch(op) ==
    /\ busy' = TRUE
    /\ status' = "working"
    /\ workers' = workers \cup {op}

(* Mutation: the flag is not looked at.                                    *)
PressAnyway(op) ==
    /\ ~ closed /\ dialogs = <<>> /\ presses < MaxPresses
    /\ presses' = presses + 1
    /\ IF op \in Confirmed THEN dialogs' = Box("ask", op) /\ UNCHANGED <<busy, status, workers>>
       ELSE Launch(op) /\ UNCHANGED dialogs
    /\ UNCHANGED <<window, closed, scheduled, refreshing, uiQueue, shown, probe, raised, orphans,
                   cli, profile>>

(* on_upgrade, on_rollback, on_diet, on_check_update.                      *)
Press(op) ==
    /\ ~ closed /\ dialogs = <<>> /\ ~ busy /\ presses < MaxPresses
    /\ presses' = presses + 1
    /\ IF op \in Confirmed THEN dialogs' = Box("ask", op) /\ UNCHANGED <<busy, status, workers>>
       ELSE Launch(op) /\ UNCHANGED dialogs
    /\ UNCHANGED <<window, closed, scheduled, refreshing, uiQueue, shown, probe, raised, orphans,
                   cli, profile>>

(* askyesno returns; the flag is not looked at again.                      *)
Confirm ==
    /\ Top = "ask"
    /\ CloseBox
    /\ \/ Launch(dialogs[Len(dialogs)].op)
       \/ UNCHANGED <<busy, status, workers>>
    /\ UNCHANGED <<window, closed, scheduled, refreshing, uiQueue, shown, probe, raised, orphans,
                   cli, profile, presses>>

(* The command ends; its worker queues the callback.                       *)
CommandEnds(op) ==
    /\ op \in workers
    /\ workers' = workers \ {op}
    /\ MayMove
    /\ \E ok \in BOOLEAN : uiQueue' = Append(uiQueue, [what |-> "done", op |-> op, ok |-> ok])
    /\ UNCHANGED <<window, closed, dialogs, scheduled, busy, refreshing, status, shown, probe,
                   raised, orphans, cli, presses>>

(* There is no such program: subprocess.run raises and the thread is gone. *)
CommandMissing(op) ==
    /\ op \in workers
    /\ workers' = workers \ {op}
    /\ raised' = TRUE
    /\ UNCHANGED <<window, closed, dialogs, scheduled, busy, refreshing, uiQueue, status, shown,
                   probe, orphans, cli, profile, presses>>

-----------------------------------------------------------------------------
(* _process_queue: callbacks run one after the other; a message box in one *)
(* of them holds up the others, and the next turn of the timer.            *)

Poll == ~ closed /\ scheduled /\ uiQueue # <<>>

(* Mutation: results of a probe are not applied over a failure.            *)
ApplyTelemetryShy ==
    /\ Poll /\ Head(uiQueue).what = "telemetry"
    /\ uiQueue' = Tail(uiQueue)
    /\ IF status = "error" THEN UNCHANGED <<shown, refreshing, status>>
       ELSE shown' = Head(uiQueue).read /\ refreshing' = FALSE /\ status' = "healthy"
    /\ UNCHANGED <<window, closed, dialogs, scheduled, busy, probe, workers, raised, orphans, cli,
                   profile, presses>>

(* _apply_telemetry_results: healthy, whatever the last operation said.    *)
ApplyTelemetry ==
    /\ Poll /\ Head(uiQueue).what = "telemetry"
    /\ uiQueue' = Tail(uiQueue)
    /\ shown' = Head(uiQueue).read
    /\ refreshing' = FALSE
    /\ status' = "healthy"
    /\ UNCHANGED <<window, closed, dialogs, scheduled, busy, probe, workers, raised, orphans, cli,
                   profile, presses>>

(* _done: the flag, the indicator, the message box.                        *)
Done ==
    LET call == Head(uiQueue)
    IN  /\ Poll /\ call.what = "done"
        /\ uiQueue' = Tail(uiQueue)
        /\ busy' = FALSE
        /\ status' = IF call.ok \/ call.op = "check-update" THEN "healthy" ELSE "error"
        /\ IF call.op \in Announced
           THEN /\ dialogs' = Box(IF call.ok /\ call.op \in Reread THEN "reread" ELSE "told", call.op)
                /\ scheduled' = FALSE
           ELSE UNCHANGED <<dialogs, scheduled>>
        /\ UNCHANGED <<window, closed, refreshing, shown, probe, workers, raised, orphans, cli,
                       profile, presses>>

(* The message box is closed; the telemetry is read again, unless a probe  *)
(* from before the operation's end is still under way.                     *)
Dismiss ==
    /\ Top \in {"told", "reread"}
    /\ CloseBox
    /\ scheduled' = TRUE
    /\ IF Top = "reread"
       THEN Refreshed(refreshing) /\ status' = IF refreshing THEN status ELSE "working"
       ELSE UNCHANGED <<refreshing, probe, status>>
    /\ UNCHANGED <<window, closed, busy, uiQueue, shown, workers, raised, orphans, cli, profile,
                   presses>>

-----------------------------------------------------------------------------
(* The window and the terminal.                                            *)

(* Escape or Ctrl+Q: the threads are daemons, the commands are not.        *)
CloseWindow ==
    /\ ~ closed /\ dialogs = <<>>
    /\ closed' = TRUE
    /\ orphans' = orphans \cup workers
    /\ workers' = {} /\ probe' = NoProbe
    /\ UNCHANGED <<window, dialogs, scheduled, busy, refreshing, uiQueue, status, shown, raised,
                   cli, profile, presses>>

(* The application starts: flags down, the queue's timer and a first probe. *)
OpenWindow ==
    /\ closed /\ window < MaxWindows
    /\ window' = window + 1
    /\ closed' = FALSE
    /\ dialogs' = <<>> /\ scheduled' = TRUE /\ busy' = FALSE /\ uiQueue' = <<>>
    /\ refreshing' = TRUE /\ probe' = <<"reading">> /\ status' = "working"
    /\ shown' = <<>>
    /\ workers' = {} /\ raised' = FALSE
    /\ UNCHANGED <<orphans, cli, profile, presses>>

OrphanEnds(op) ==
    /\ op \in orphans
    /\ orphans' = orphans \ {op}
    /\ MayMove
    /\ UNCHANGED <<window, closed, guts, cli, presses>>

(* run_cli_mode: the flags in the order of the code, whatever came of the  *)
(* one before.                                                             *)
CliStart ==
    /\ cli = <<>> /\ presses < MaxPresses
    /\ presses' = presses + 1
    /\ cli' \in {<<"diet">>, <<"upgrade", "check-update">>, <<"diet", "upgrade", "rollback">>}
    /\ UNCHANGED <<window, closed, guts, orphans, profile>>

(* A command that does not exist ends the run.                             *)
CliStep ==
    /\ cli # <<>>
    /\ \/ MayMove /\ cli' = Tail(cli)
       \/ cli' = <<>> /\ UNCHANGED profile
    /\ UNCHANGED <<window, closed, guts, orphans, presses>>

CenterInit ==
    /\ window = 0 /\ closed = TRUE
    /\ dialogs = <<>> /\ scheduled = FALSE /\ busy = FALSE /\ uiQueue = <<>>
    /\ refreshing = FALSE /\ probe = NoProbe /\ status = "working"
    /\ shown = <<>>
    /\ workers = {} /\ orphans = {} /\ raised = FALSE
    /\ cli = <<>> /\ profile = 0 /\ presses = 0

CenterNext ==
    \/ Refresh \/ AutoRefresh \/ ReadTelemetry \/ ListGenerations
    \/ \E op \in Operations : Press(op) \/ CommandEnds(op) \/ CommandMissing(op) \/ OrphanEnds(op)
    \/ Confirm \/ ApplyTelemetry \/ Done \/ Dismiss
    \/ CloseWindow \/ OpenWindow \/ CliStart \/ CliStep

(* Threads run and timers fire.  A user need not press or close anything,  *)
(* and a command need not end: subprocess.run has no timeout here.         *)
CenterFairness ==
    /\ WF_centerVars(AutoRefresh) /\ WF_centerVars(ReadTelemetry) /\ WF_centerVars(ListGenerations)
    /\ WF_centerVars(ApplyTelemetry \/ Done)

CenterSpec == CenterInit /\ [][CenterNext]_centerVars /\ CenterFairness

-----------------------------------------------------------------------------
(* Properties.                                                             *)

(* is_busy and its check before askyesno: one operation of a window at a   *)
(* time, and while its command runs or its callback waits the window says  *)
(* busy, with message boxes, timers and reopened windows in between.       *)
OneOperation ==
    LET waiting == {i \in DOMAIN uiQueue : uiQueue[i].what = "done"}
    IN  ~ closed => /\ Cardinality(workers) + Cardinality(waiting) <= 1
                    /\ workers # {} \/ waiting # {} => busy

(* refresh_telemetry, _process_queue and the callbacks: the window does    *)
(* not stay busy after its operation, and what it shows catches up with    *)
(* the system (a probe that began too early is followed by another),       *)
(* unless a worker raised, or the user leaves a message box open.          *)
WindowRecovers ==
    LET excused == closed \/ raised \/ ~ scheduled
    IN  /\ []<>(excused \/ ~ busy \/ workers # {})
        /\ []<>(excused \/ shown = <<profile, profile>>)

=============================================================================
