------------------------------ MODULE MCSession ------------------------------
(***************************************************************************)
(* What is kept between processes, checked in one run: in each behaviour   *)
(* one of three models is at work, part says which.  Instances is about    *)
(* which workspaces a file names, SavedPanes about what a file says of one *)
(* workspace, SaveQueue about when a process writes it.                    *)
(***************************************************************************)
EXTENDS Instances, SavedPanes, SaveQueue

VARIABLE part

MCInit ==
    /\ part \in {"instances", "panes", "queue"}
    /\ Init /\ PanesInit /\ QueueInit
    /\ part # "panes" => ws.mode = "classic"
    /\ part # "queue" => ~restoring

MCNext ==
    \/ part = "instances" /\ Next /\ UNCHANGED <<panesVars, queueVars, part>>
    \/ part = "panes" /\ PanesNext /\ UNCHANGED <<vars, queueVars, part>>
    \/ part = "queue" /\ QueueNext /\ UNCHANGED <<vars, panesVars, part>>

MCSpec ==
    /\ MCInit /\ [][MCNext]_<<vars, panesVars, queueVars, part>>
    /\ Fairness /\ QueueFairness

=============================================================================
