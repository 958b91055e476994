-------------------------- MODULE MCWorkspaceList --------------------------
(***************************************************************************)
(* WorkspaceList and Tabs for TLC, in one run: in a behaviour either the   *)
(* list of workspaces is at work, or the tabs with one of what the code    *)
(* remembers about a tab; part says which.  The tabs of a second workspace *)
(* stay as they are, it is only shown and hidden.                          *)
(***************************************************************************)
EXTENDS WorkspaceList, TabPlaces

CONSTANT Across

VARIABLE part

tabVars == <<panes, hung, pages, cur, own, current, editing, flagged, flash,
             ticking, asking, picker, idles, past>>

Notebooks == INSTANCE Tabs

Other == CHOOSE w \in Ws : TRUE

MCInit ==
    /\ part \in {"list", "dialog", "picker", "flash", "rename"}
    /\ Init /\ (part # "list" => Len(app.list) = 1)
    /\ Notebooks!Init
    /\ part = "list" => current = Other

TabStep ==
    /\ Notebooks!Next
    /\ part # "dialog" => asking' = asking
    /\ part # "picker" => picker' = picker
    /\ part # "flash" => ticking' = ticking
    /\ part # "rename" => editing' = editing
    /\ part \notin {"flash", "picker"} => current' = current
    /\ own'[Other] = own[Other]

MCNext ==
    \/ part = "list" /\ Next /\ UNCHANGED <<tabVars, part>>
    \/ part # "list" /\ TabStep /\ UNCHANGED <<vars, part>>

MCSpec == MCInit /\ [][MCNext]_<<vars, tabVars, part>>

WorkspaceSymmetry == Permutations(Workspaces)

=============================================================================
