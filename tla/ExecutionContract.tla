-------------------------- MODULE ExecutionContract --------------------------
(***************************************************************************)
(* What the execution fabric promises to whoever submits a workload        *)
(* (uef/provider.py, osl/coherence.py), without saying how: a submission   *)
(* is refused before anything was set up, or it gets a workspace, runs at  *)
(* most once in it, gives the workspace back and is answered.  Refusing    *)
(* and raising are answers too.  A workspace is left behind in two ways    *)
(* only: setting it up raises half way, or the process dies.               *)
(***************************************************************************)
CONSTANT Callers

VARIABLES
    stage,      \* how far the submission of each caller is
    held,       \* the callers that hold a workspace
    litter      \* whether a workspace was left behind

vars == <<stage, held, litter>>

Init ==
    /\ stage = [c \in Callers |-> "idle"]
    /\ held = {} /\ litter = FALSE

Move(c, from, to) == stage[c] = from /\ stage' = [stage EXCEPT ![c] = to]

Submit(c) == Move(c, "idle", "submitted") /\ UNCHANGED <<held, litter>>

Refuse(c) == Move(c, "submitted", "idle") /\ UNCHANGED <<held, litter>>

(* Setting up raises after the workspace was made.                         *)
Abandon(c) == Move(c, "submitted", "idle") /\ litter' = TRUE /\ UNCHANGED held

(* Not every provider needs a workspace.                                   *)
Prepare(c) ==
    /\ Move(c, "submitted", "ready")
    /\ held' \in {held, held \cup {c}}
    /\ UNCHANGED litter

Run(c) == Move(c, "ready", "ran") /\ UNCHANGED <<held, litter>>

CleanUp(c) == Move(c, "ran", "settled") /\ held' = held \ {c} /\ UNCHANGED litter

Answer(c) == Move(c, "settled", "idle") /\ UNCHANGED <<held, litter>>

(* The process of the callers dies; the next one knows nothing, and what   *)
(* the workspaces hold stays behind.                                       *)
Die ==
    /\ stage' = [c \in Callers |-> "idle"]
    /\ held' = {}
    /\ litter' = (litter \/ held # {})

Next ==
    \/ \E c \in Callers : \/ Submit(c) \/ Refuse(c) \/ Abandon(c) \/ Prepare(c)
                          \/ Run(c) \/ CleanUp(c) \/ Answer(c)
    \/ Die

Spec == Init /\ [][Next]_vars

=============================================================================
