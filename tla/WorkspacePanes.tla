--------------------------- MODULE WorkspacePanes ---------------------------
(***************************************************************************)
(* The panes of one workspace, in both layouts: the registry               *)
(* pane_notebooks, the columns of the strip, the widgets really on the     *)
(* screen, and the handlers that must keep the three in step.  Everything  *)
(* runs on the GTK main loop, so a handler is one action; what interleaves *)
(* is the order of key bindings, socket commands, answered dialogs, queued *)
(* idles, drags, and the movements of the keyboard focus.                  *)
(*                                                                         *)
(* Indices are TLA+'s: 1 is the code's 0, and 0 the code's -1.             *)
(***************************************************************************)
EXTENDS Naturals, Sequences, FiniteSets, SequencesExt, PanedTree

CONSTANTS
    MaxPanes,   \* bound: panes ever created
    MaxTabs,    \* bound: tabs in one pane
    Modes,      \* the layouts a run uses: "classic", "strip"
    Inputs      \* what a run's users do beyond the rest: the socket commands
                \* "pane.split" and "pane.close", the close "dialog", "zoom"

ASSUME PanesAssumption == MaxPanes \in Nat \ {0}
ASSUME TabsAssumption  == MaxTabs \in Nat \ {0}
ASSUME ModesAssumption == Modes # {} /\ Modes \subseteq {"classic", "strip"}
ASSUME InputsAssumption == Inputs \subseteq {"pane.split", "pane.close", "dialog", "zoom"}

VARIABLES
    ws,        \* the Workspace struct, its strip_state and its widgets
    tabs,      \* pages of each pane
    focus,     \* the pane that has the GTK keyboard focus, or NoPane
    asked,     \* the pane of the open "Close this pane?" dialog, or NoPane
    idle,      \* panes with a queued close_pane_idle_cb
    nextPane   \* next_pane_serial

vars == <<ws, tabs, focus, asked, idle, nextPane>>

Pane    == 1 .. MaxPanes
NoPane  == 0
Overlay == 0     \* the root of the classic tree: the child of ws->overlay

(***************************************************************************)
(* ws.panes      pane_notebooks                                            *)
(* ws.columns    strip_state->columns; a column's root is named after the  *)
(*               pane it was created for                                   *)
(* ws.focusedCol strip_state->focused_col                                  *)
(* ws.box        the roots on the screen, left to right: the children of   *)
(*               column_box, or the one child of the overlay               *)
(* ws.place      where each pane on the screen hangs                       *)
(* ws.hidden     notebooks whose own "visible" flag is off                 *)
(* ws.wrecked    panes stripped of their terminals by a close that failed  *)
(***************************************************************************)
Column == [root : Pane, panes : Seq(Pane), focused : Nat,
           maximized : BOOLEAN, half : BOOLEAN]

Workspace(S) ==
    [mode : {"classic", "strip"}, panes : Seq(Pane), active : Pane \cup {NoPane},
     primary : Pane \cup {NoPane}, columns : Seq(Column), focusedCol : Nat,
     box : Seq(Pane \cup {Overlay}),
     place : [S -> Place(Pane \cup {Overlay})],
     zoomed : BOOLEAN, hidden : SUBSET Pane, wrecked : SUBSET Pane]

TypeOK ==
    /\ DOMAIN ws.place \subseteq Pane
    /\ ws \in Workspace(DOMAIN ws.place)
    /\ tabs \in [Pane -> 0 .. MaxTabs]
    /\ focus \in Pane \cup {NoPane}
    /\ asked \in Pane \cup {NoPane}
    /\ idle \in SUBSET Pane
    /\ nextPane \in 1 .. MaxPanes + 1

-----------------------------------------------------------------------------
(* Lookups *)

Registered(w) == ToSet(w.panes)
OnScreen(w)   == DOMAIN w.place
Listed(w)     == UNION {ToSet(w.columns[c].panes) : c \in DOMAIN w.columns}

IndexOf(s, x) == IF x \in ToSet(s) THEN CHOOSE i \in DOMAIN s : s[i] = x ELSE 0

\* g_ptr_array_remove, gtk_box_remove
Without(s, x) == IF x \in ToSet(s) THEN RemoveAt(s, IndexOf(s, x)) ELSE s

ColumnOf(w, p) ==
    IF p \in Listed(w)
    THEN CHOOSE c \in DOMAIN w.columns : p \in ToSet(w.columns[c].panes)
    ELSE 0

NewColumn(p) == [root |-> p, panes |-> <<p>>, focused |-> 1,
                 maximized |-> FALSE, half |-> FALSE]

Clamp(n, lo, hi) == IF n < lo THEN lo ELSE IF n > hi THEN hi ELSE n

\* workspace_strip_column_focused_notebook
FocusedOf(col) == col.panes[Clamp(col.focused, 1, Len(col.panes))]

ColumnInRange(w) == w.focusedCol \in DOMAIN w.columns

\* workspace_strip_resolve_focused_col
ResolveCol(w) ==
    IF ColumnInRange(w) THEN w.focusedCol
    ELSE IF ColumnOf(w, w.active) # 0 THEN ColumnOf(w, w.active)
    ELSE IF w.columns = <<>> THEN 0 ELSE 1

-----------------------------------------------------------------------------
(* Focus *)

\* Mutant of SetActive: the strip's own indices are left behind.
SetActiveOnly(w, p) ==
    IF p \notin Registered(w) THEN w ELSE [w EXCEPT !.active = p]

SetActive(w, p) ==
    IF p \notin Registered(w) THEN w
    ELSE LET c == ColumnOf(w, p) IN
         IF w.mode = "strip" /\ c # 0
         THEN [w EXCEPT !.active = p, !.focusedCol = c,
                        !.columns[c].focused = IndexOf(w.columns[c].panes, p)]
         ELSE [w EXCEPT !.active = p]

FocusColumn(w, c) ==
    IF c \notin DOMAIN w.columns THEN w
    ELSE [w EXCEPT !.focusedCol = c, !.active = FocusedOf(w.columns[c])]

\* workspace_get_focused_pane: the pane it answers, and what it writes while
\* it looks.  f is the pane that has the keyboard focus.
FocusedPane(w, f) ==
    IF f \in Registered(w) THEN f
    ELSE IF w.mode = "strip" /\ ColumnInRange(w)
         THEN FocusedOf(w.columns[w.focusedCol])
    ELSE IF w.active \in Registered(w) THEN w.active
    ELSE w.panes[1]

AfterLookup(w, f) ==
    IF f \in Registered(w) THEN SetActive(w, f)
    ELSE IF w.mode = "strip" /\ ColumnInRange(w)
         THEN [w EXCEPT !.active = FocusedOf(w.columns[w.focusedCol])]
    ELSE IF w.active \in Registered(w) THEN w
    ELSE [w EXCEPT !.active = NoPane]

\* The keyboard focus after focus_terminal_page on p's current page.
Grab(p, f) == IF p # NoPane /\ tabs[p] > 0 THEN p ELSE f

-----------------------------------------------------------------------------
(* Zoom *)

IsZoomed(w) ==
    IF w.mode = "strip"
    THEN ColumnInRange(w) /\ w.columns[w.focusedCol].maximized
    ELSE w.zoomed

ToggleMaximize(w) ==
    IF ~ColumnInRange(w) THEN w
    ELSE LET col == w.columns[w.focusedCol] IN
         [w EXCEPT !.columns[w.focusedCol] =
            [col EXCEPT !.maximized = ~col.maximized, !.half = FALSE]]

ToggleHalf(w) ==
    IF w.mode = "classic" \/ ~ColumnInRange(w) THEN w
    ELSE LET col == w.columns[w.focusedCol] IN
         [w EXCEPT !.columns[w.focusedCol] =
            [col EXCEPT !.half = ~col.half, !.maximized = FALSE]]

ShowAll(w) == [w EXCEPT !.zoomed = FALSE, !.hidden = {}]

\* A zoom hides the sibling of every node on the way up from the focused
\* pane; a sibling GtkPaned is dropped on a rebuild and shown again on the
\* way out, so only notebooks are kept.
ZoomOnto(w, p) ==
    LET path == w.place[p].path
        sibs == {x \in OnScreen(w) :
                   \E n \in 1 .. Len(path) :
                      w.place[x].path = SiblingPath(SubSeq(path, 1, n))}
    IN  [w EXCEPT !.zoomed = TRUE, !.hidden = (@ \cup sibs) \ {p}]

ToggleZoom(w, f) ==
    IF w.mode = "strip" THEN ToggleMaximize(w)
    ELSE IF w.zoomed THEN ShowAll(w)
    ELSE IF Len(w.panes) <= 1 THEN w
    ELSE ZoomOnto(AfterLookup(w, f), FocusedPane(w, f))

\* What a split and a close do first.
Unzoom(w) ==
    IF ~IsZoomed(w) THEN w
    ELSE IF w.mode = "strip" THEN ToggleMaximize(w) ELSE ShowAll(w)

-----------------------------------------------------------------------------
(* The strip: columns, and the chains of panes under them *)

\* workspace_strip_insert_column_after_active
InsertColumn(w, q) ==
    LET at == ResolveCol(w)
        after == IF at = 0 THEN 0 ELSE IndexOf(w.box, w.columns[at].root)
    IN  FocusColumn([w EXCEPT !.columns = InsertAt(@, at + 1, NewColumn(q)),
                              !.box = InsertAt(@, after + 1, q),
                              !.place = Chain(@, q, <<q>>)],
                    at + 1)

\* The column's widgets are rebuilt from its list; the new root goes to the
\* end of column_box, and panes that are not in the list are destroyed.
Rechain(w, c, list, focused) ==
    LET root == w.columns[c].root
    IN  [w EXCEPT !.columns[c] = [@ EXCEPT !.panes = list, !.focused = focused],
                  !.box = Append(Without(@, root), root),
                  !.place = Chain(@, root, list)]

\* workspace_strip_split_vertical_in_column
SplitInColumn(w, q) ==
    LET c   == ResolveCol(w)
        col == w.columns[c]
        i   == Clamp(col.focused + 1, 1, Len(col.panes) + 1)
    IN  Rechain(w, c, InsertAt(col.panes, i, q), i)

\* workspace_strip_remove_pane_from_column, on a column of several panes.
RemoveFromColumn(w, p) ==
    LET c    == ColumnOf(w, p)
        col  == w.columns[c]
        list == RemoveAt(col.panes, IndexOf(col.panes, p))
        f    == IF col.focused > Len(list) THEN Len(list) ELSE col.focused
        w2   == Rechain(w, c, list, f)
    IN  [w2 EXCEPT !.active = FocusedOf(w2.columns[c])]

\* workspace_strip_remove_active_column, when there are several columns.
\* Everything under the column's root goes with it.
RemoveActiveColumn(w) ==
    LET c    == ResolveCol(w)
        root == w.columns[c].root
        cols == RemoveAt(w.columns, c)
        f    == IF c > Len(cols) THEN Len(cols) ELSE c
    IN  [w EXCEPT !.columns = cols,
                  !.focusedCol = f,
                  !.active = FocusedOf(cols[f]),
                  !.box = Without(@, root),
                  !.place = Restrict(@, DOMAIN @ \ InRoot(@, root))]

-----------------------------------------------------------------------------
(* Splits *)

\* Mutant of SplitStrip: a vertical split falls through to the column.
SplitStripBoth(w, f, o, q) ==
    LET p  == FocusedPane(w, f)
        k  == IndexOf(w.panes, p)
        w1 == [AfterLookup(w, f) EXCEPT
                 !.panes = InsertAt(@, IF k = 0 THEN Len(@) + 1 ELSE k + 1, q)]
        w2 == IF o = "vertical" THEN SplitInColumn(w1, q) ELSE w1
    IN  SetActive(InsertColumn(w2, q), q)

\* workspace_split_current_for_layout in a strip: the new pane goes after the
\* focused one in the registry, and into a column or a chain.
SplitStrip(w, f, o, q) ==
    LET p  == FocusedPane(w, f)
        k  == IndexOf(w.panes, p)
        w1 == [AfterLookup(w, f) EXCEPT
                 !.panes = InsertAt(@, IF k = 0 THEN Len(@) + 1 ELSE k + 1, q)]
    IN  SetActive(IF o = "horizontal" THEN InsertColumn(w1, q)
                                      ELSE SplitInColumn(w1, q), q)

\* workspace_split_pane_target: p's place is taken by a GtkPaned over p and
\* q.  A pane that hangs in column_box itself cannot be split this way: q is
\* taken out of the registry again, but active_pane is left on it.
CanSplitAt(w, p) ==
    p \in OnScreen(w) /\ (w.mode = "strip" => w.place[p].path # <<>>)

SplitTarget(w, p, q) ==
    LET w1 == SetActive([Unzoom(w) EXCEPT !.panes = Append(@, q)], q)
    IN  IF CanSplitAt(w, p)
        THEN SetActive([w1 EXCEPT !.place = SplitLeaf(@, p, q)], q)
        ELSE [w1 EXCEPT !.panes = Without(@, q)]

-----------------------------------------------------------------------------
(* Closes *)

\* workspace_close_pane, which knows only the tree of GtkPaneds: p goes when
\* its parent is a GtkPaned whose own parent is one, or is the overlay.
CanClose(w, p) ==
    /\ p \in OnScreen(w)
    /\ w.place[p].path # <<>>
    /\ Len(w.place[p].path) = 1 => w.place[p].root = Overlay

\* The notebook beside p in its GtkPaned, if that is what is beside it.
Heir(w, p) ==
    LET sib == SiblingPanes(w.place, p)
    IN  IF sib = {} THEN NoPane ELSE CHOOSE x \in sib : TRUE

\* Mutant of ClosePane: the registry forgets the pane before it is known that
\* the tree lets go of it.
ClosePaneEarly(w, p) ==
    IF Len(w.panes) <= 1 THEN w
    ELSE IF ~CanClose(w, p) THEN [Unzoom(w) EXCEPT !.panes = Without(@, p)]
    ELSE [Unzoom(w) EXCEPT !.place = CloseLeaf(@, p), !.panes = Without(@, p)]

\* Mutant of ClosePane: a zoomed workspace stays zoomed.
ClosePaneZoomed(w, p) ==
    IF Len(w.panes) <= 1 \/ ~CanClose(w, p) THEN w
    ELSE [w EXCEPT !.place = CloseLeaf(@, p), !.zoomed = FALSE,
                   !.panes = Without(@, p)]

ClosePane(w, p) ==
    IF Len(w.panes) <= 1 THEN w
    ELSE IF ~CanClose(w, p) THEN Unzoom(w)
    ELSE LET w1   == Unzoom(w)
             heir == Heir(w, p)
             left == Without(w.panes, p)
             prim == IF Len(w.place[p].path) = 1 /\ heir # NoPane THEN heir
                     ELSE w.primary
         IN  [w1 EXCEPT !.place = CloseLeaf(@, p),
                        !.panes = left,
                        !.primary = IF prim = p THEN left[1] ELSE prim,
                        !.active = IF @ = p THEN heir ELSE @,
                        !.hidden = @ \ {p}]

\* Mutant of Unregister: the primary notebook is not moved off a closed pane.
UnregisterStalePrimary(w, p, k) ==
    LET left == RemoveAt(w.panes, k)
        act  == IF w.active \in ToSet(left) THEN w.active
                ELSE left[Clamp(k, 1, Len(left))]
    IN  SetActive([w EXCEPT !.panes = left, !.active = act], act)

\* workspace_close_current_for_layout in a strip.  A pane that is in no
\* column takes the focused column with it; when that is the only column the
\* close fails after the pane's terminals are gone.
Unregister(w, p, k) ==
    LET left == RemoveAt(w.panes, k)
        act  == IF w.active \in ToSet(left) THEN w.active
                ELSE left[Clamp(k, 1, Len(left))]
    IN  SetActive([w EXCEPT !.panes = left, !.active = act,
                            !.primary = IF @ = p THEN left[1] ELSE @,
                            !.hidden = @ \ {p}], act)

CloseCurrent(w, f) ==
    LET p  == FocusedPane(w, f)
        w1 == AfterLookup(w, f)
        c  == ColumnOf(w1, p)
        k  == IndexOf(w1.panes, p)
        w2 == [w1 EXCEPT !.focusedCol = IF c # 0 THEN c ELSE @]
    IN  IF Len(w.panes) <= 1 THEN w
        ELSE IF k = 0 THEN w1
        ELSE IF c # 0 /\ Len(w1.columns[c].panes) > 1
             THEN Unregister(RemoveFromColumn(w2, p), p, k)
        ELSE IF Len(w1.columns) > 1
             THEN Unregister(RemoveActiveColumn(w2), p, k)
        ELSE [w2 EXCEPT !.wrecked = @ \cup {p}]

-----------------------------------------------------------------------------
(* Switching the layout: workspace_rebuild_for_layout_mode *)

\* A walk of the widgets meets x before y.
Precedes(w, x, y) ==
    LET i == IndexOf(w.box, w.place[x].root)
        j == IndexOf(w.box, w.place[y].root)
    IN  i < j \/ (i = j /\ Before(w.place[x].path, w.place[y].path))

\* The notebooks on the screen in that order.
Walk(w) ==
    CHOOSE s \in [1 .. Cardinality(OnScreen(w)) -> OnScreen(w)] :
        \A i, j \in DOMAIN s : i < j => Precedes(w, s[i], s[j])

\* Mutant of PrimaryFirst: the primary is written over the first notebook.
PrimaryOver(list, p) == [list EXCEPT ![1] = p]

\* The primary notebook trades places with the first one.
PrimaryFirst(list, p) ==
    LET i == IndexOf(list, p)
    IN  IF i = 0 THEN Append(list, p)
        ELSE [list EXCEPT ![1] = p, ![i] = list[1]]

Rebuild(w, mode) ==
    LET saved == PrimaryFirst(Walk(w), w.primary)
        first == saved[1]
        kept  == IF w.active \in ToSet(saved) THEN w.active ELSE first
        w1    == [w EXCEPT !.mode = mode, !.panes = saved, !.primary = first,
                           !.active = kept]
    IN  IF mode = "strip"
        THEN SetActive(FocusColumn(
                [w1 EXCEPT !.columns = [i \in DOMAIN saved |-> NewColumn(saved[i])],
                           !.box = saved,
                           !.place = [x \in ToSet(saved) |-> At(x, <<>>)]],
                1), first)
        ELSE [w1 EXCEPT !.columns = <<>>, !.focusedCol = 0, !.box = <<Overlay>>,
                        !.place = Chain([x \in {} |-> At(Overlay, <<>>)], Overlay, saved)]

-----------------------------------------------------------------------------
(* A pointer to a destroyed notebook: nothing said of the program holds    *)
(* after one is followed, so a state that has one is the last of its       *)
(* behaviour.  So is one with a pane whose terminals were torn out.        *)

Stale(w)   == ~(Registered(w) \subseteq OnScreen(w) /\ Listed(w) \subseteq OnScreen(w))
Running(w) == ~Stale(w) /\ w.wrecked = {}

Init ==
    /\ \E mode \in Modes :
          LET root == IF mode = "strip" THEN 1 ELSE Overlay IN
          ws = [mode |-> mode, panes |-> <<1>>, active |-> 1, primary |-> 1,
                columns |-> IF mode = "strip" THEN <<NewColumn(1)>> ELSE <<>>,
                focusedCol |-> IF mode = "strip" THEN 1 ELSE 0,
                box |-> <<root>>, place |-> [x \in {1} |-> At(root, <<>>)],
                zoomed |-> FALSE, hidden |-> {}, wrecked |-> {}]
    /\ tabs = [p \in Pane |-> IF p = 1 THEN 1 ELSE 0]
    /\ focus = 1
    /\ asked = NoPane
    /\ idle = {}
    /\ nextPane = 2

\* The handler left the workspace as w, with t tabs and the focus on f: what
\* belonged to a pane that is gone from the screen is gone too.
Became(w, t, f) ==
    /\ ws' = w
    /\ tabs' = [x \in Pane |-> IF x \in OnScreen(w) THEN t[x] ELSE 0]
    /\ focus' = IF f \in OnScreen(w) THEN f ELSE NoPane

\* The notebooks that a change from ws to w disposes of with pages still in
\* them: "page-removed" queues close_pane_idle_cb.  A notebook the dialog
\* still holds is disposed of when the dialog goes.
Disposed(w) == {x \in OnScreen(ws) \ OnScreen(w) : tabs[x] > 0} \ {asked}

\* The pane of the dialog, once the dialog lets go of it: disposed of then if
\* it is off the screen, which may queue its idle.
Released(w) == IF asked \in OnScreen(w) THEN {} ELSE {asked}

\* The focus after a close: on the heir's terminal.  (The idle and the 50 ms
\* that focus_terminal_page_later waits are MoveFocus's to spend.)
HeirFocus(p, f) ==
    IF Len(ws.panes) > 1 /\ CanClose(ws, p) THEN Grab(Heir(ws, p), f) ELSE f

\* The tab counts after one page leaves p, or reaches it.
Less(t, p) == [t EXCEPT ![p] = @ - 1]
More(t, p) == [t EXCEPT ![p] = @ + 1]

\* on_notebook_page_removed: an idle is queued for a notebook left empty.
Emptied(w, t, p) == IF t[p] = 0 /\ Len(w.panes) > 1 THEN {p} ELSE {}

-----------------------------------------------------------------------------
(* Splits *)

SplitCurrent(o) ==
    /\ Running(ws)
    /\ nextPane \in Pane
    /\ LET q == nextPane
           w == IF ws.mode = "strip" THEN SplitStrip(ws, focus, o, q)
                ELSE SplitTarget(AfterLookup(ws, focus), FocusedPane(ws, focus), q)
       IN  Became(w, More(tabs, q), q)
    /\ nextPane' = nextPane + 1
    /\ UNCHANGED <<asked, idle>>

\* The socket command pane.split names its pane and does not ask the layout.
SplitPane(p) ==
    /\ Running(ws)
    /\ "pane.split" \in Inputs
    /\ nextPane \in Pane
    /\ p \in Registered(ws)
    /\ LET q == nextPane
           w == SplitTarget(ws, p, q)
       IN  Became(w, More(tabs, q), IF CanSplitAt(ws, p) THEN q ELSE focus)
    /\ nextPane' = nextPane + 1
    /\ UNCHANGED <<asked, idle>>

-----------------------------------------------------------------------------
(* Closes *)

\* request_close_current_pane: the dialog keeps the pane it was opened for.
RequestClose ==
    /\ Running(ws)
    /\ "dialog" \in Inputs
    /\ asked = NoPane
    /\ Len(ws.panes) > 1
    /\ asked' = FocusedPane(ws, focus)
    /\ ws' = AfterLookup(ws, focus)
    /\ UNCHANGED <<tabs, focus, idle, nextPane>>

\* Mutant of ConfirmClose: the pane is looked up again when the answer comes.
ConfirmCloseFocused ==
    /\ asked # NoPane
    /\ asked' = NoPane
    /\ LET p == FocusedPane(ws, focus)
           w == ClosePane(AfterLookup(ws, focus), p)
       IN  /\ Became(w, tabs, HeirFocus(p, focus))
           /\ idle' = idle \cup Disposed(w)
    /\ UNCHANGED nextPane

\* on_pane_close_confirmed
ConfirmClose ==
    /\ Running(ws)
    /\ asked # NoPane
    /\ asked' = NoPane
    /\ IF ws.mode = "classic"
       THEN LET w == ClosePane(ws, asked)
            IN  /\ Became(w, tabs, HeirFocus(asked, focus))
                /\ \E late \in SUBSET Released(w) : idle' = idle \cup late
       ELSE LET w1 == SetActive(ws, asked)
                f1 == IF asked \in Registered(ws) THEN Grab(asked, focus) ELSE focus
                w  == CloseCurrent(w1, f1)
            IN  /\ Became(w, tabs, Grab(w.active, f1))
                /\ \E late \in SUBSET Released(ws) :
                      idle' = (idle \ (Registered(ws) \ Registered(w))) \cup late
    /\ UNCHANGED nextPane

CancelClose ==
    /\ Running(ws)
    /\ asked # NoPane
    /\ asked' = NoPane
    /\ \E late \in SUBSET Released(ws) : idle' = idle \cup late
    /\ UNCHANGED <<ws, tabs, focus, nextPane>>

\* The action pane.close sent over the socket with nonInteractive.
CloseCurrentNow ==
    /\ Running(ws)
    /\ ws.mode = "strip"
    /\ LET w == CloseCurrent(ws, focus)
       IN  /\ Became(w, tabs, Grab(w.active, focus))
           /\ idle' = idle \ (Registered(ws) \ Registered(w))
    /\ UNCHANGED <<asked, nextPane>>

\* The socket command pane.close closes the pane it names the classic way,
\* in a strip too.
ClosePaneCommand(p) ==
    /\ Running(ws)
    /\ "pane.close" \in Inputs
    /\ p \in Registered(ws)
    /\ LET w == ClosePane(ws, p)
       IN  /\ Became(w, tabs, HeirFocus(p, focus))
           /\ idle' = idle \cup Disposed(w)
    /\ UNCHANGED <<asked, nextPane>>

\* workspace_close_tab_at: refused on the last tab of the last pane.  Closing
\* the current page of several switches to another one, and to its pane.
CloseTab(p) ==
    /\ Running(ws)
    /\ p \in Registered(ws) /\ tabs[p] > 0
    /\ tabs[p] > 1 \/ Len(ws.panes) > 1
    /\ LET t == Less(tabs, p)
       IN  \/ /\ t[p] = 0
              /\ Became(ClosePane(ws, p), t, HeirFocus(p, NoPane))
           \/ /\ t[p] > 0
              /\ \/ Became(ws, t, focus)
                 \/ Became(SetActive(ws, p), t, p)
    /\ idle' = idle \cup Emptied(ws, Less(tabs, p), p)
    /\ UNCHANGED <<asked, nextPane>>

\* Mutant of IdleClose: the primary notebook is spared.
IdleCloseButPrimary(p) ==
    /\ p \in idle
    /\ Running(ws)
    /\ idle' = idle \ {p}
    /\ IF tabs[p] = 0 /\ p # ws.primary
       THEN Became(ClosePane(ws, p), tabs, HeirFocus(p, focus))
       ELSE UNCHANGED <<ws, tabs, focus>>
    /\ UNCHANGED <<asked, nextPane>>

\* close_pane_idle_cb
IdleClose(p) ==
    /\ p \in idle
    /\ Running(ws)
    /\ idle' = idle \ {p}
    /\ IF tabs[p] = 0 THEN Became(ClosePane(ws, p), tabs, HeirFocus(p, focus))
       ELSE UNCHANGED <<ws, tabs, focus>>
    /\ UNCHANGED <<asked, nextPane>>

-----------------------------------------------------------------------------
(* Tabs *)

\* A page was added to q: on_notebook_page_added, switch-page, focus.
AddTab(q) ==
    /\ Running(ws)
    /\ q \in Registered(ws) /\ tabs[q] < MaxTabs
    /\ Became(SetActive(ws, q), More(tabs, q), q)
    /\ UNCHANGED <<asked, idle, nextPane>>

\* move_terminal_to_notebook, between two panes of this workspace.
MoveTab(p, q) ==
    /\ Running(ws)
    /\ {p, q} \subseteq Registered(ws) /\ p # q
    /\ tabs[p] > 0 /\ tabs[q] < MaxTabs
    /\ LET t == Less(tabs, p)
           w == IF t[p] = 0 THEN ClosePane(ws, p) ELSE ws
       IN  /\ Became(SetActive(w, q), More(t, q), q)
           /\ idle' = idle \cup Emptied(ws, t, p)
    /\ UNCHANGED <<asked, nextPane>>

\* The same with a pane of another workspace as destination: here the source
\* may be the last tab of the only pane.
MoveTabOut(p) ==
    /\ Running(ws)
    /\ p \in Registered(ws) /\ tabs[p] > 0
    /\ LET t == Less(tabs, p)
           w == IF t[p] = 0 THEN ClosePane(ws, p) ELSE ws
       IN  /\ Became(w, t, NoPane)
           /\ idle' = idle \cup Emptied(ws, t, p)
    /\ UNCHANGED <<asked, nextPane>>

\* GTK's own tab drag: pages leave and arrive, and only the idle closes.
DragTab(p, q) ==
    /\ Running(ws)
    /\ {p, q} \subseteq Registered(ws) /\ p # q
    /\ tabs[p] > 0 /\ tabs[q] < MaxTabs
    /\ Became(SetActive(ws, q), More(Less(tabs, p), q), q)
    /\ idle' = idle \cup Emptied(ws, Less(tabs, p), p)
    /\ UNCHANGED <<asked, nextPane>>

\* tab.select, and a click on a tab: switch-page.
SelectTab(p) ==
    /\ Running(ws)
    /\ p \in Registered(ws) /\ tabs[p] > 0
    /\ Became(SetActive(ws, p), tabs, p)
    /\ UNCHANGED <<asked, idle, nextPane>>

-----------------------------------------------------------------------------
(* Focus, zoom and layout *)

\* pane.focus: workspace_focus_pane on a pane of the registry.
FocusPane(p) ==
    /\ Running(ws)
    /\ p \in Registered(ws)
    /\ Became(SetActive(ws, p), tabs, Grab(p, focus))
    /\ UNCHANGED <<asked, idle, nextPane>>

\* The pointer enters a notebook, or presses on it.
PointAt(p) ==
    /\ Running(ws)
    /\ p \in OnScreen(ws)
    /\ ws' = SetActive(ws, p)
    /\ UNCHANGED <<tabs, focus, asked, idle, nextPane>>

\* on_column_notebook_focus_enter: the focus reaches a notebook's own widgets.
FocusEnter(p) ==
    /\ Running(ws)
    /\ ws.mode = "strip" /\ p \in OnScreen(ws)
    /\ LET c == ColumnOf(ws, p)
       IN  ws' = IF c = 0 THEN ws
                 ELSE FocusColumn([ws EXCEPT !.columns[c].focused =
                                     IndexOf(ws.columns[c].panes, p)], c)
    /\ focus' = p
    /\ UNCHANGED <<tabs, asked, idle, nextPane>>

\* A terminal takes the focus without a word to the workspace (a click on its
\* surface, a late focus_terminal_page_later), or something outside does.
MoveFocus(p) ==
    /\ Running(ws)
    /\ p = NoPane \/ (p \in OnScreen(ws) /\ tabs[p] > 0)
    /\ focus' = p
    /\ UNCHANGED <<ws, tabs, asked, idle, nextPane>>

\* workspace_focus_adjacent_strip_column and workspace_strip_focus_pane_up
\* and _down: columns wrap around, panes of a column do not.
Columns   == Len(ws.columns)
NextColumn == IF ws.focusedCol = Columns THEN 1 ELSE ws.focusedCol + 1
PrevColumn == IF ws.focusedCol = 1 THEN Columns ELSE ws.focusedCol - 1

FocusedCol(c) ==
    LET w == FocusColumn(ws, c) IN Became(SetActive(w, w.active), tabs, Grab(w.active, focus))

StepColumn(c) ==
    /\ Running(ws)
    /\ ws.mode = "strip" /\ ColumnInRange(ws)
    /\ Columns = 1 => Len(ws.columns[1].panes) = 1
    /\ FocusedCol(c)
    /\ UNCHANGED <<asked, idle, nextPane>>

StepPane ==
    /\ Running(ws)
    /\ ws.mode = "strip" /\ ColumnInRange(ws)
    /\ LET col == ws.columns[ws.focusedCol]
       IN  \E i \in DOMAIN col.panes :
             /\ i = col.focused + 1 \/ i + 1 = col.focused
             /\ Became(SetActive([ws EXCEPT !.columns[ws.focusedCol].focused = i],
                                 col.panes[i]),
                       tabs, Grab(col.panes[i], focus))
    /\ UNCHANGED <<asked, idle, nextPane>>

\* workspace_navigate_pane: which pane lies in a direction is geometry, so any
\* other one may be it.
Navigate(q) ==
    /\ Running(ws)
    /\ ws.mode = "classic" /\ Len(ws.panes) > 1
    /\ q \in Registered(ws) \ {FocusedPane(ws, focus)}
    /\ Became(SetActive(AfterLookup(ws, focus), q), tabs, Grab(q, focus))
    /\ UNCHANGED <<asked, idle, nextPane>>

Zoom ==
    /\ Running(ws)
    /\ "zoom" \in Inputs
    /\ ws' = ToggleZoom(ws, focus)
    /\ UNCHANGED <<tabs, focus, asked, idle, nextPane>>

HalfZoom ==
    /\ Running(ws)
    /\ "zoom" \in Inputs
    /\ ws.mode = "strip"
    /\ ws' = ToggleHalf(ws)
    /\ UNCHANGED <<tabs, focus, asked, idle, nextPane>>

SetLayout(mode) ==
    /\ Running(ws)
    /\ mode # ws.mode /\ ws.primary # NoPane
    /\ LET w == Rebuild(ws, mode) IN Became(w, tabs, Grab(w.active, focus))
    /\ UNCHANGED <<asked, idle, nextPane>>

-----------------------------------------------------------------------------
StepFocus == StepColumn(NextColumn) \/ StepColumn(PrevColumn)

PaneStep(p) ==
    \/ SplitPane(p) \/ ClosePaneCommand(p) \/ CloseTab(p) \/ IdleClose(p)
    \/ AddTab(p) \/ MoveTabOut(p) \/ SelectTab(p)
    \/ FocusPane(p) \/ PointAt(p) \/ FocusEnter(p) \/ Navigate(p)

Next ==
    \/ \E o \in {"horizontal", "vertical"} : SplitCurrent(o)
    \/ RequestClose \/ ConfirmClose \/ CancelClose \/ CloseCurrentNow
    \/ StepFocus \/ StepPane \/ Zoom \/ HalfZoom
    \/ \E mode \in Modes : SetLayout(mode)
    \/ \E p \in Pane : PaneStep(p)
    \/ \E p, q \in Pane : MoveTab(p, q) \/ DragTab(p, q)
    \/ \E p \in Pane \cup {NoPane} : MoveFocus(p)

Spec == Init /\ [][Next]_vars

-----------------------------------------------------------------------------
(* What must hold *)

\* No pane is in two columns, or twice in one: SetActive and the lookups take
\* the first match and go on.  (workspace_strip.c, the lists `panes`.)
ColumnsDisjoint ==
    \A c, d \in DOMAIN ws.columns :
        \A i \in DOMAIN ws.columns[c].panes, j \in DOMAIN ws.columns[d].panes :
            ws.columns[c].panes[i] = ws.columns[d].panes[j] => c = d /\ i = j

\* The strip's indices name a column and a pane of it, and no column is empty:
\* the handlers index both arrays with them.  (workspace_strip.c, all of it.)
StripIndices ==
    ws.mode = "strip" =>
        /\ ws.focusedCol \in DOMAIN ws.columns
        /\ \A c \in DOMAIN ws.columns :
              /\ ws.columns[c].focused \in DOMAIN ws.columns[c].panes
              /\ ~(ws.columns[c].maximized /\ ws.columns[c].half)

\* Whatever is inserted, removed and moved, the columns of a strip can be looked
\* up: a pane is found in one place, and every index kept names one.
\* (workspace_strip.c, `focused_col`, `focused_pane` and the lists.)
ColumnsSound == ColumnsDisjoint /\ StripIndices

\* The pane the strip highlights is the pane commands act on: when active_pane
\* is in a column, it is the focused pane of the focused column.
\* (workspace.c, set_active_pane and its callers.)
ActiveIsFocused ==
    (ws.mode = "strip" /\ Running(ws) /\ ws.active \in Listed(ws))
        => ws.active = FocusedOf(ws.columns[ws.focusedCol])

\* Registry, columns and screen agree: every pane on the screen is registered,
\* and a column's panes hang under that column's own root, in list order.
\* (workspace.c and workspace_strip.c, every insert and remove.)
ScreenAgrees ==
    Running(ws) =>
        /\ OnScreen(ws) = Registered(ws)
        /\ Cardinality(Registered(ws)) = Len(ws.panes)
        /\ Listed(ws) \subseteq Registered(ws)
        /\ {ws.place[x].root : x \in OnScreen(ws)} = ToSet(ws.box)
        /\ \A c \in DOMAIN ws.columns :
              LET list == ws.columns[c].panes IN
              /\ \A i \in DOMAIN list : ws.place[list[i]].root = ws.columns[c].root
              /\ \A i, j \in DOMAIN list :
                    i < j => Before(ws.place[list[i]].path, ws.place[list[j]].path)

\* Splits, closes and rebuilds leave whole trees of GtkPaneds: none with one
\* child, no pane over another.  (workspace.c, split_pane_target, close_pane.)
TreesWhole == WellFormed(ws.place)

\* workspace.h: `notebook` is "the *first* terminal tab notebook (... same as
\* pane_notebooks[0])", which the branch shown in the sidebar relies on.
PrimaryIsFirst == Running(ws) => ws.primary = ws.panes[1]

\* In the classic layout a pane is hidden only by a zoom that can be undone,
\* and not the pane that was zoomed onto alone.  (workspace.c, toggle_zoom.)
HiddenByZoom ==
    ws.mode = "classic" =>
        /\ ws.hidden # {} => ws.zoomed
        /\ ws.hidden # OnScreen(ws)

\* In the classic layout a confirmed close takes the pane the dialog was about,
\* if any: "The current pane and its tabs will be closed."  (close_confirm.c,
\* app_actions.c.)
ConfirmClosesAsked ==
    [][asked # NoPane /\ asked' = NoPane /\ ws.mode = "classic"
         => OnScreen(ws) \ OnScreen(ws)' \subseteq {asked}]_vars

\* workspace_strip.h: a column's list is "All GtkNotebook* in this column".
ColumnsListScreen ==
    ws.mode = "strip" => Listed(ws) = OnScreen(ws)

\* workspace.c: "If notebook is now empty and there are other panes, close the
\* pane".  A pane whose last tab left is gone, or gets a tab again, or is the
\* last one, once its idle has run.
EmptyPaneGoes ==
    \A p \in Pane :
        p \in idle ~> (p \notin OnScreen(ws) \/ tabs[p] > 0 \/ Len(ws.panes) = 1)

\* The idle callbacks GTK will run.
Fairness == \A p \in Pane : WF_vars(IdleClose(p))

FairSpec == Spec /\ Fairness

=============================================================================
