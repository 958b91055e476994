----------------------------- MODULE TabPlaces -----------------------------
(***************************************************************************)
(* Where the tabs of classic workspaces lie, which workspace a terminal    *)
(* belongs to, and what is remembered about a tab from one event to a      *)
(* later one; and what must hold of them.  Tabs has the handlers.          *)
(*                                                                         *)
(* A tab is its terminal; the notebook page that stands for it is a place  *)
(* in pages.  A workspace's terminals are also the children of its         *)
(* overlay, which is where they are drawn.                                 *)
(***************************************************************************)
EXTENDS Naturals, Sequences, FiniteSets, SequencesExt

CONSTANTS
    Ws, Panes, Tabs,
    None    \* no tab

\* There are widgets for the first tab of each workspace.
ASSUME WidgetsAssumption ==
    /\ None \notin Tabs
    /\ \E f \in [Ws -> Panes] : IsInjective(f)
    /\ \E f \in [Ws -> Tabs] : IsInjective(f)

VARIABLES
    panes,      \* of each workspace, pane_notebooks
    hung,       \* the notebooks that hang in a workspace's tree
    pages,      \* of each pane, the tabs of its notebook
    cur,        \* of each pane, the tab its notebook shows
    own,        \* of each workspace, terminals
    current,    \* current_workspace
    editing,    \* the tab whose label is being edited
    flagged,    \* the notebooks with "tab-rename-in-progress"
    flash,      \* the tabs with "notification-flash"
    ticking,    \* notification_flash_timer_id is set
    asking,     \* the open "Close this tab?" dialog
    picker,     \* the open pane picker
    idles,      \* notebooks with a queued close_pane_idle_cb
    past        \* what has happened, of Events

Listed(w) == ToSet(panes[w])
Home(p) == CHOOSE w \in Ws : p \in Listed(w)    \* "workspace-ptr"
Open == hung \cap UNION {Listed(w) : w \in Ws}
Shown(w) == UNION {ToSet(pages[p]) : p \in Listed(w)}
Pane(t) == CHOOSE p \in Open : t \in ToSet(pages[p])    \* terminal_parent_notebook
OnPage == UNION {ToSet(pages[p]) : p \in Open}
Owned == UNION {own[w] : w \in Ws}

-----------------------------------------------------------------------------
(* What must hold *)

\* A workspace's terminals are those of its tabs: "prettymux-open --move-tab
\* --from-w 0 .. --to-w 1" and "Track tabs being dragged in/out for workspace
\* terminal arrays".
TabsTracked == \A w \in Ws : own[w] = Shown(w)

\* As long as tabs stay in their workspace and no close overtakes a queued one,
\* tabs and panes that move, are dragged and close, by whatever dialog, key or
\* command in whatever order, leave every workspace its terminals and at least one
\* tab, and a pane that lost its last tab has its close queued: no path forgets it.
\* (workspace.c, move_terminal_to_notebook and workspace_close_tab_at.)
PanesFilled ==
    past \cap {"crossed", "hasty"} = {} =>
        /\ TabsTracked
        /\ \A w \in Ws : Shown(w) # {}
        /\ {p \in Open : pages[p] = <<>>} \subseteq idles

\* The close button's dialog closes the tab it was asked about or none, whatever
\* happened to the tabs while it was up.
ButtonClosesAsked ==
    [][asking.kind = "tab" /\ asking'.kind = "none"
         => OnPage \ OnPage' \subseteq {asking.tab}]_<<panes, hung, pages, asking>>

\* A tab that should blink does.
FlashTicks == flash \cap OnPage # {} => ticking

\* A pane takes clicks and tab switches as in an edit only in an edit, unless
\* the edited tab left it.
FlagFits == "strayed" \notin past => flagged \subseteq {p \in Open : editing \in ToSet(pages[p])}

=============================================================================
