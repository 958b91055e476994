-------------------------------- MODULE Tabs --------------------------------
(***************************************************************************)
(* What moves the tabs of classic workspaces and the panes they are in     *)
(* (workspace.c, pane_move_overlay.c, app_actions.c): keys, buttons,       *)
(* drags, commands, dialogs that were opened before, and the idle that     *)
(* closes an emptied pane.                                                 *)
(***************************************************************************)
EXTENDS TabPlaces

CONSTANT Across    \* BOOLEAN: are tabs moved from one workspace to another?

layout  == <<panes, hung, pages, cur, own>>
edits   == <<editing, flagged>>
flashes == <<flash, ticking>>
asked   == <<asking, picker>>
vars    == <<layout, current, edits, flashes, asked, idles, past>>

\* "crossed": a tab went to another workspace; "strayed": a tab left its pane
\* while its label was edited; "hasty": a tab or a pane was closed while the
\* close of an emptied pane was queued.
Events == {"crossed", "strayed", "hasty"}

NoDialog == [kind |-> "none"]
NoPicker == [ws |-> None, pane |-> 0, tab |-> 0]

TypeOK ==
    /\ panes \in [Ws -> Seq(Panes)] /\ pages \in [Panes -> Seq(Tabs)]
    /\ hung \in SUBSET Panes /\ cur \in [Panes -> Tabs \cup {None}]
    /\ own \in [Ws -> SUBSET Tabs] /\ current \in Ws
    /\ editing \in OnPage \cup {None} /\ flagged \in SUBSET Panes
    /\ flash \in SUBSET Owned /\ ticking \in BOOLEAN
    /\ idles \in SUBSET Panes /\ past \in SUBSET Events
    /\ \A p, q \in Panes : p # q => ToSet(pages[p]) \cap ToSet(pages[q]) = {}
    /\ \A p \in Panes :
          /\ IsInjective(pages[p])
          /\ IF pages[p] = <<>> THEN cur[p] = None ELSE cur[p] \in ToSet(pages[p])
          /\ p \notin Open => pages[p] = <<>>
    /\ \A w \in Ws : IsInjective(panes[w]) /\ ("crossed" \notin past => Listed(w) \subseteq hung)
    /\ \A w, v \in Ws : w # v => Listed(w) \cap Listed(v) = {} /\ own[w] \cap own[v] = {}

Index(s, x) == CHOOSE i \in DOMAIN s : s[i] = x
Without(s, x) == IF x \in ToSet(s) THEN RemoveAt(s, Index(s, x)) ELSE s

\* Which widget is new is all one: some choice is made here and below.
Init ==
    /\ LET p == CHOOSE f \in [Ws -> Panes] : IsInjective(f)
           t == CHOOSE f \in [Ws -> Tabs] : IsInjective(f)
       IN  /\ panes = [w \in Ws |-> <<p[w]>>]
           /\ hung = {p[w] : w \in Ws}
           /\ pages = [x \in Panes |-> IF \E w \in Ws : p[w] = x
                                       THEN <<t[CHOOSE w \in Ws : p[w] = x]>> ELSE <<>>]
           /\ own = [w \in Ws |-> {t[w]}]
    /\ cur = [x \in Panes |-> IF pages[x] = <<>> THEN None ELSE pages[x][1]]
    /\ current \in Ws
    /\ editing = None /\ flagged = {} /\ flash = {} /\ ticking = FALSE
    /\ asking = NoDialog /\ picker = NoPicker /\ idles = {} /\ past = {}

-----------------------------------------------------------------------------
(* Notebooks.  A layout is a record of the variables a step rearranges.    *)

Now == [panes |-> panes, hung |-> hung, pages |-> pages, cur |-> cur, own |-> own]

\* GtkNotebook, when the page of t goes: the next one comes up, or the last.
NextUp(s, t) ==
    LET rest == Without(s, t)
        i == Index(s, t)
    IN  IF rest = <<>> THEN None ELSE IF i <= Len(rest) THEN rest[i] ELSE rest[Len(rest)]

Removed(x, p, t) ==
    [x EXCEPT !.pages[p] = Without(@, t),
              !.cur[p] = IF @ = t THEN NextUp(x.pages[p], t) ELSE @]

\* gtk_notebook_append_page or a drop, and gtk_notebook_set_current_page.
Added(x, p, i, t) == [x EXCEPT !.pages[p] = InsertAt(@, i, t), !.cur[p] = t]

Appended(x, p, t) == Added(x, p, Len(x.pages[p]) + 1, t)

\* A notebook hangs in a GtkPaned if its workspace's tree has another one.
InPaned(x, p) ==
    \E w \in Ws : p \in ToSet(x.panes[w]) \cap x.hung /\ ToSet(x.panes[w]) \cap x.hung # {p}

\* workspace_close_pane(w, p), which does not ask whether p is a pane of w.
ClosedPane(x, w, p) ==
    IF Len(x.panes[w]) > 1 /\ InPaned(x, p)
    THEN [x EXCEPT !.own[w] = @ \ ToSet(x.pages[p]),
                   !.panes[w] = Without(@, p), !.hung = @ \ {p},
                   !.pages[p] = <<>>, !.cur[p] = None]
    ELSE x

\* Mutant of Emptied: nothing is queued.
EmptiedQuietly(x, p) == idles

\* on_notebook_page_removed: an empty notebook with siblings is closed later.
Emptied(x, p) ==
    IF x.pages[p] = <<>> /\ Len(x.panes[Home(p)]) > 1 THEN idles \cup {p} ELSE idles

\* The tabs that come up in a step, by switch-page; on_notebook_switch_page
\* clears them unless a label is being edited in the notebook.
CameUp(x) == {x.cur[p] : p \in {q \in x.hung \ flagged : x.cur[q] # cur[q]}}

Strays(x) == editing # None /\ editing \notin ToSet(x.pages[Pane(editing)])

\* The layout becomes x.  Notebooks that went lose their flag, labels their
\* entry, terminals their flash.  events is what the step is remembered for,
\* seen the tabs whose flash a switch of workspaces clears.
Settles(x, events, seen) ==
    /\ panes' = x.panes /\ hung' = x.hung /\ pages' = x.pages
    /\ cur' = x.cur /\ own' = x.own
    /\ flash' = (flash \ (CameUp(x) \cup seen)) \cap UNION {x.own[w] : w \in Ws}
    /\ editing' = IF \E p \in x.hung : editing \in ToSet(x.pages[p]) THEN editing ELSE None
    /\ flagged' = flagged \cap x.hung
    /\ past' = past \cup events \cup (IF Strays(x) THEN {"strayed"} ELSE {})
    /\ UNCHANGED ticking

Hastes == IF idles \cap Open # {} THEN {"hasty"} ELSE {}

-----------------------------------------------------------------------------
(* Tabs and panes come and go *)

\* The user sees w, with no dialog or picker over it.
Hands(w) == w = current /\ asking = NoDialog /\ picker = NoPicker

\* Widgets that nobody holds.
FreshTabs  == Tabs \ (Owned \cup OnPage \cup (IF asking.kind = "tab" THEN {asking.tab} ELSE {}))
FreshPanes == Panes \ (idles \cup (UNION {Listed(w) : w \in Ws})
                        \cup (IF asking.kind = "page" THEN {asking.pane} ELSE {}))

\* create_terminal_tab, by key, button or the command tab.new.
NewTab(w, p) ==
    /\ FreshTabs # {}
    /\ LET t == CHOOSE t \in FreshTabs : TRUE
           x == [Appended(Now, p, t) EXCEPT !.own[w] = @ \cup {t}]
       IN  Settles(x, {}, {})
    /\ UNCHANGED <<current, asked, idles>>

\* workspace_split_pane_target: a new pane with a new tab.
NewPane(w) ==
    /\ FreshPanes # {} /\ FreshTabs # {}
    /\ LET p == CHOOSE p \in FreshPanes : TRUE
           t == CHOOSE t \in FreshTabs : TRUE
           x == [Appended(Now, p, t) EXCEPT !.own[w] = @ \cup {t},
                                            !.panes[w] = Append(@, p), !.hung = @ \cup {p}]
       IN  Settles(x, {}, {})
    /\ UNCHANGED <<current, asked, idles>>

\* The guard of workspace_close_tab_at.
OnlyTab(w, p) == Len(pages[p]) <= 1 /\ Len(panes[w]) <= 1

\* workspace_close_tab_at(w, p, the page of t)
CloseTabAt(w, p, t) ==
    LET y == [Removed(Now, p, t) EXCEPT !.own[w] = @ \ {t}]
        x == IF y.pages[p] = <<>> THEN ClosedPane(y, w, p) ELSE y
    IN  /\ ~OnlyTab(w, p)
        /\ Settles(x, Hastes, {})
        /\ idles' = Emptied(y, p)

\* pane.close
ClosePane(w, p) ==
    /\ Len(panes[w]) > 1
    /\ Settles(ClosedPane(Now, w, p), Hastes, {})
    /\ UNCHANGED <<current, asked, idles>>

\* close_pane_idle_cb
ClosePaneIdle(p) ==
    /\ p \in idles
    /\ idles' = idles \ {p}
    /\ LET x == IF p \in Open /\ pages[p] = <<>> THEN ClosedPane(Now, Home(p), p) ELSE Now
       IN  Settles(x, {}, {})
    /\ UNCHANGED <<current, asked>>

-----------------------------------------------------------------------------
(* The close dialog *)

\* on_tab_close_clicked keeps the terminal and the workspace that made it.
AskButton(t) ==
    /\ t \in OnPage /\ Hands(Home(Pane(t)))
    /\ \E w \in Ws : t \in own[w] /\ asking' = [kind |-> "tab", ws |-> w, tab |-> t]
    /\ UNCHANGED <<layout, current, edits, flashes, picker, idles, past>>

\* request_close_current_tab keeps the notebook and the number of its page.
AskKey(p) ==
    /\ Hands(Home(p)) /\ pages[p] # <<>> /\ ~OnlyTab(Home(p), p)
    /\ asking' = [kind |-> "page", ws |-> Home(p), pane |-> p, page |-> Index(pages[p], cur[p])]
    /\ UNCHANGED <<layout, current, edits, flashes, picker, idles, past>>

\* Mutant of Meant: the tab its pane shows by now.
MeantShown == {<<Pane(t), cur[Pane(t)]>> : t \in {u \in {asking.tab} : u \in OnPage}}

\* workspace_close_terminal looks for the notebook the terminal is in by now.
Meant == {<<Pane(t), t>> : t \in {u \in {asking.tab} : u \in OnPage}}

\* The page of that number by now.
MeantPage == {<<p, pages[p][asking.page]>> :
                  p \in {q \in {asking.pane} \cap Open : asking.page \in DOMAIN pages[q]}}

\* on_tab_close_confirmed, of workspace.c and of app_actions.c.
Confirm ==
    /\ asking # NoDialog
    /\ asking' = NoDialog
    /\ LET found == IF asking.kind = "tab" THEN Meant ELSE MeantPage
       IN  \/ \E pt \in found : CloseTabAt(asking.ws, pt[1], pt[2])
           \/ /\ \A pt \in found : OnlyTab(asking.ws, pt[1])
              /\ UNCHANGED <<layout, edits, flashes, idles, past>>
    /\ UNCHANGED <<current, picker>>

Cancel ==
    /\ asking # NoDialog /\ asking' = NoDialog
    /\ UNCHANGED <<layout, current, edits, flashes, picker, idles, past>>

-----------------------------------------------------------------------------
(* Tabs move *)

Crosses(p, q) == IF Home(p) = Home(q) THEN {} ELSE {"crossed"}

\* move_terminal_to_notebook: the page goes over, the terminal stays in the
\* array and the overlay of the workspace that made it.
Moved(p, t, q) ==
    LET y == Removed(Now, p, t)
        z == IF y.pages[p] = <<>> THEN ClosedPane(y, Home(p), p) ELSE y
    IN  Appended(z, q, t)

Moves(p, t, q, seen) ==
    /\ p # q /\ q \in Open /\ (Across \/ Home(p) = Home(q))
    /\ Settles(Moved(p, t, q), Crosses(p, q), seen)
    /\ idles' = Emptied(Removed(Now, p, t), p)

\* workspace_focus_first_terminal, on a switch to w: the tab that the active pane
\* shows loses its flash.
Seen(w) == {cur[p] : p \in Listed(w) \cap hung}

\* tab.move
MoveTab(p, q) ==
    /\ \E t \in ToSet(pages[p]) : Moves(p, t, q, {})
    /\ UNCHANGED <<current, asked>>

\* on_ws_sidebar_drop: a tab dropped on the row of w goes to its first pane, and
\* w is shown.
DropOnRow(p, w) ==
    /\ Hands(Home(p)) /\ panes[w][1] \in Open
    /\ Home(p) = w => Len(panes[w]) > 1
    /\ \E t \in ToSet(pages[p]), s \in Seen(w) : Moves(p, t, panes[w][1], {s})
    /\ current' = w
    /\ UNCHANGED asked

\* GtkNotebook's own drag, between the panes that are shown, of the tab that was
\* pressed: only signals tell the program.
DragTab(p, q) ==
    /\ Hands(Home(p)) /\ p # q /\ Home(q) = Home(p) /\ pages[p] # <<>>
    /\ LET y == Removed(Now, p, cur[p])
       IN  /\ \E i \in 1..Len(pages[q]) + 1 :
                 Settles(Added(y, q, i, cur[p]), {}, {})
           /\ idles' = Emptied(y, p)
    /\ UNCHANGED <<current, asked>>

\* on_notebook_page_reordered
Reorder(p) ==
    /\ Hands(Home(p)) /\ Len(pages[p]) > 1
    /\ \E i \in DOMAIN pages[p] :
          pages' = [pages EXCEPT ![p] = InsertAt(Without(@, cur[p]), i, cur[p])]
    /\ UNCHANGED <<panes, hung, cur, own, current, edits, flashes, asked, idles, past>>

\* pane_move_overlay_toggle: the picker keeps the numbers of the tab and lists
\* those of the other panes.
OpenPicker(p) ==
    /\ Hands(Home(p)) /\ pages[p] # <<>>
    /\ picker' = [ws |-> current, pane |-> Index(panes[current], p), tab |-> Index(pages[p], cur[p]),
                  rows |-> [w \in Ws |-> Len(panes[w])]]
    /\ UNCHANGED <<layout, current, edits, flashes, asking, idles, past>>

\* The pane and the tab that the picker's numbers stand for by now.
Source == panes[picker.ws][picker.pane]
PickedTab == pages[Source][picker.tab]

\* activate_row, on a row of the list, if workspace_move_tab can: the workspace
\* the tab went to is shown.
Pick(q) ==
    /\ picker # NoPicker
    /\ picker.pane \in DOMAIN panes[picker.ws] /\ Source \in Open
    /\ picker.tab \in DOMAIN pages[Source]
    /\ Index(panes[Home(q)], q) \in 1..picker.rows[Home(q)]
    /\ Moves(Source, PickedTab, q, {PickedTab})
    /\ current' = Home(q) /\ picker' = NoPicker
    /\ UNCHANGED asking

ClosePicker ==
    /\ picker # NoPicker /\ picker' = NoPicker
    /\ UNCHANGED <<layout, current, edits, flashes, asking, idles, past>>

-----------------------------------------------------------------------------
(* What is seen *)

\* A click on a tab or a key.
SelectTab(p) ==
    /\ \E t \in ToSet(pages[p]) \ {cur[p]} : Settles([Now EXCEPT !.cur[p] = t], {}, {})
    /\ UNCHANGED <<current, asked, idles>>

\* tab.select, of a workspace that is not shown.
SelectElsewhere(p) ==
    /\ Home(p) # current /\ current' = Home(p)
    /\ \E t \in ToSet(pages[p]), s \in Seen(Home(p)) :
          Settles([Now EXCEPT !.cur[p] = t], {}, {s})
    /\ UNCHANGED <<asked, idles>>

\* workspace_switch
SwitchWorkspace(w) ==
    /\ w # current /\ current' = w
    /\ \E s \in Seen(w) : flash' = flash \ {s}
    /\ UNCHANGED <<layout, edits, ticking, asked, idles, past>>

\* workspace_mark_tab_notification, for what a terminal of w does: w's own panes
\* are searched (terminal_routing_find_for_surface).
Notify(w, t) ==
    /\ t \in own[w]
    /\ \E p \in Listed(w) \cap hung :
          t \in ToSet(pages[p]) /\ ~(w = current /\ cur[p] = t)
    /\ flash' = flash \cup {t} /\ ticking' = TRUE
    /\ UNCHANGED <<layout, current, edits, asked, idles, past>>

\* Mutant of Blinks: the timer looks at the shown tabs.
BlinksShown == \E p \in Open : cur[p] \in flash

\* workspace_has_notification_flash
Blinks == flash \cap OnPage # {}

\* notification_flash_tick_cb
Tick ==
    /\ ticking /\ ticking' = Blinks
    /\ UNCHANGED <<layout, current, edits, flash, asked, idles, past>>

\* start_rename, one at a time here.
StartRename(t) ==
    /\ t \in OnPage /\ Hands(Home(Pane(t))) /\ editing = None
    /\ editing' = t /\ flagged' = flagged \cup {Pane(t)}
    /\ UNCHANGED <<layout, current, flashes, asked, idles, past>>

\* Mutant of FinishRename: the flag stays.
FinishRenameOnly ==
    /\ editing # None /\ editing' = None
    /\ UNCHANGED <<layout, current, flagged, flashes, asked, idles, past>>

\* finish_rename, on Enter or Escape: the notebook is the one the tab is in by
\* then.
FinishRename ==
    /\ editing # None
    /\ editing' = None /\ flagged' = flagged \ {Pane(editing)}
    /\ UNCHANGED <<layout, current, flashes, asked, idles, past>>

-----------------------------------------------------------------------------

Next ==
    \/ \E p \in Open :
          \/ NewTab(Home(p), p) \/ ClosePane(Home(p), p)
          \/ AskKey(p) \/ Reorder(p) \/ OpenPicker(p) \/ SelectTab(p) \/ SelectElsewhere(p) \/ Pick(p)
          \/ \E q \in Open : MoveTab(p, q) \/ DragTab(p, q)
          \/ \E w \in Ws : DropOnRow(p, w)
    \/ \E p \in Panes : ClosePaneIdle(p)
    \/ \E w \in Ws :
          NewPane(w) \/ SwitchWorkspace(w) \/ \E t \in Tabs : Notify(w, t)
    \/ \E t \in Tabs : AskButton(t) \/ StartRename(t)
    \/ Confirm \/ Cancel \/ ClosePicker \/ Tick \/ FinishRename

Spec == Init /\ [][Next]_vars

=============================================================================
