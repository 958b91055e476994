# A formal model of prettymux

prettymux is a GTK 4 terminal multiplexer built on ghostty (C, `src/src/gtk/`).
Almost everything runs on the GTK main loop, one handler at a time; ghostty's
threads reach it only through a wakeup callback. What is hard is therefore not
data races but *order*: key bindings, socket commands, answered dialogs, queued
idles, finished reads and timeouts come in any order, and each was written with
one order in mind. This directory models that order in TLA+, checks it with TLC
on small instances, and proves the central invariants with TLAPS for all of them.

## 1. The system

| part | state it keeps | operations | what makes it correct |
|---|---|---|---|
| panes of a workspace (`workspace.c`, `workspace_layout.c`) | registry `pane_notebooks`, `notebook` (primary), `active_pane`, `zoomed`, the tree of `GtkPaned`s, pages | split, close, zoom, navigate, tab add/close/move/select, focus, layout switch | registry and widgets agree; trees are whole; nothing stays hidden; an emptied pane goes |
| strip layout (`workspace_strip.c`) | `columns`, `focused_col`, `focused_pane`, maximize flags | insert and remove columns, stack panes in a column, focus, maximize | indices in range, lists disjoint, columns agree with widgets, the highlighted pane is the one commands act on |
| close confirmation (`close_confirm.c`, `app_actions.c`) | what each open dialog was asked for | request, confirm, cancel | the answer closes what was asked about |
| clipboard (`main.c`, `ghostty_terminal.c`, `app_actions.c`) | one request per terminal, reads in flight, dialogs | read, confirm, complete, deny, write, paste, abort on dispose | each request settled exactly once; nothing reaches freed memory |
| wakeup (`main.c`) | `g_wakeup_pending`, one idle | `wakeup_cb` on any thread, `wakeup_idle` | one idle at most, no message left behind |
| workspace list (`workspace.c`, `sidebar_ui.c`, `notifications.c`) | `workspaces`, `current_workspace`, indices kept by idles, dialogs and notifications | add, remove, reorder, import, detach, deferred activation | an index names the workspace it named when it was taken, or nothing |
| tabs (`workspace.c`, `pane_move_overlay.c`, `app_actions.c`) | pages of each notebook, `terminals`, the rename flag, the flash timer, dialogs, the picker | new, close, move, drag, drop on the sidebar, reorder, select, rename, notify | terminals follow their tabs; no empty pane or workspace stays; an answer hits the tab it was asked about |
| git branch detection (`workspace.c`) | two generations, two cancellables, a serial | start, cancel, answer | an old answer never overwrites a new one |
| project icon cache (`project_icon_cache.c`, `workspace.c`) | answers, one pending search per root with its listeners, queued answers | request, search, look up, file gone | one search at a time, every listener called, no icon of a directory that was left |
| instances (`app_state.c`, `socket_server.c`, `workspace.c`) | ids, derived from the live sockets and the saved sessions; socket files | launch, bind, take a stale socket over, route, move a workspace, quit, crash | a moved workspace is in one place and never lost; a move ends |
| session (`session.c`) | a queued save, restoring and shutdown flags; the file | queue, save, restore, quit; write and rebuild the panes | a save comes neither too early nor too late; what is written comes back |
| tmux commands of claude-teams (`prettymux_agent_cli.c`, `socket_commands.c`) | a state file nothing locks, retries | launch, split-window, select-layout, kill-pane, send-keys, capture-pane | teammates stack in one column; text reaches the pane it was for; commands end |
| hover focus, sidebar, settings, themes, palettes, overlays, other CLI tools | small or none | | see `PROJECT.json`, `components` |

How they interact: the main loop calls handlers; a handler may queue an idle
(`close_pane_idle_cb`, `destroy_dialog_idle`, `focus_terminal_page_later`), open
a dialog with a callback, or start a GDK read; other instances and scripts come
in through the socket (`socket_commands.c`), which calls the same functions as
the key bindings but not always through the layout-aware ones. The hazards that
follow are listed in `PROJECT.json` at their lines, each with the property that
covers it or the reason why none does.

## 2. The modules

| module | models | notes |
|---|---|---|
| `PanedTree` | trees of `GtkPaned`s as a function from panes to root and path | operators only: split a leaf, close a leaf, chain a column |
| `WorkspacePanes` | one workspace in both layouts: one action per handler | `ws` is the struct with its `strip_state` and its widgets; `tabs`, `focus`, `asked` (the dialog), `idle` (queued idles), `nextPane` |
| `TabPlaces` | where tabs lie, which workspace they belong to, and what must hold of that | state and properties of `Tabs`, shared with `MCWorkspaceList` |
| `Tabs` | the handlers of the tabs of classic workspaces, by identity | `pages` and `own` are the notebooks' pages and `ws->terminals`, which the code keeps apart; `past` records events that properties except |
| `WorkspaceList` | the workspaces of an instance and the indices others hold into the list | `app` is the list, `current_workspace`, the stack's child and the notifications; `dialog`, `deletes`, `drag` are what was taken before and is used later |
| `Mailbox` | abstract: messages of ghostty's threads are taken, in order | |
| `Wakeup` | `wakeup_cb` and `wakeup_idle`, one atomic operation a step | implements `Mailbox` (`Served`) |
| `Clipboard` | reads, prompts, writes, pastes and disposal | requests are known by addresses that ghostty reuses |
| `LatestAnswer` | abstract: a label fed by slow readers may lag or be blank, but never takes the answer to a question that is no longer asked | |
| `BranchDetect` | both git readers of every workspace and all that starts or cancels them | implements `LatestAnswer` twice, once for each label |
| `IconCache` | the cache and its handlers: lookups, requests, searches, listeners, files that come and go | implements `LatestAnswer` for the icon of a terminal |
| `Instances` | processes, their ids and sockets, the files they share, workspaces they move | crashes and restarts; a routed command is a blocking call |
| `SavedPanes` | one workspace written down and built again, by a restart or by a move | `AfterRestart` and `AfterMove` are the round trips, `Restart` and `MoveOut` take them as steps |
| `SaveQueue` | when a process writes its session | what there is to save is a version, `version`; `asked` and `tried` are the versions of the last change that asked for a save and of the last save |
| `TmuxCompat` | the tmux commands of claude-teams, as processes, and what the user does to panes and workspaces meanwhile | the file, and what each process loaded of it; the pane in front is left open; `past` records events that properties except |
| `MCWorkspaceList`, `MCBackground`, `MCSession`, `MCClients` | models that share a run | see below |
| `*_proofs` | the theorems and their lemmas | |

An MC module puts several models into one run: its variable `part` is chosen at
the start, and the model it names is the one that moves. The models of one MC
module share no state in the code either (or one follows the other, as a file its
writer), so nothing is lost by checking them apart. Where one model is too large
with all its features at once, `part` also says which of them is in use:
`MCWorkspaceList` lets the user have either the close dialogs, the picker, the
flash or a rename, next to all moves, drags and closes; `MCClients` has tmux
commands that run one at a time next to a user, in two parts, or two at a time.

In `WorkspacePanes` an operator such as `SetActive(w, p)` or `ClosePane(w, p)`
is a C function from workspace to workspace, so that a handler which calls five
of them is one action composing five operators in the order of the code.
Indices count from 1, with 0 for the code's -1; panes are named by
`next_pane_serial` and never reused; a column's root widget is named after the
pane it was created for. `Became` is what GTK does after any handler: pages and
focus of a destroyed notebook are gone.

The other modules are built the same way: `Removed(a, i)` in `WorkspaceList` is
`workspace_remove` as a function of the instance, `Left` and `UpdateSummary` in
`BranchDetect` take the summary of a workspace through the calls of a handler,
`Appended` and `ClosedPane` in `Tabs` take the pages. Indices into the workspace
list start at 0, as in the code. An index that is kept across handlers is a
record of the index and of the workspace it was taken for; only the properties
look at the latter.

Abstractions, each of them an over-approximation unless said otherwise:

- Which pane lies in a direction is geometry: `Navigate` may go to any other.
- The focus may move at any time to any terminal (`MoveFocus`): a click on a
  surface, or `focus_terminal_page_later` at its own time.
- In `WorkspacePanes` tabs are counted, in `Tabs` named. A closed tab's terminal
  is disposed of at once.
- A dialog may hold the last reference to a pane that left the screen; whether
  the disposal that follows queues an idle is left open (`late`).
- A state in which the registry or a column names a destroyed notebook
  (`Stale`), or in which a failed close stripped a pane of its terminals
  (`wrecked`), ends its behaviour: every action has the guard `Running`. What
  the program does after following such a pointer is not described by its code.
  How such a state comes about is what `column_lists` shows.
- `Tabs` is about the classic layout. Whether tabs may cross workspaces is the
  constant `Across`: `moved_tab` lets them, `workspace_list` does not, because
  the terminals are then in the wrong array and nothing is promised of them.
- In `Clipboard` a second request of a terminal is denied at once and leaves
  nothing; pending pastes of one terminal are one; ghostty hands out an address
  only when it is free.
- In `WorkspaceList` a switch may go to any index at any time: that covers the
  key bindings, the socket, the palette, clicks on notifications, and the click
  on a sidebar row, whose 280 ms timer keeps an index. Notifications are a set;
  which one goes at the limit of 50 is left open. A tab or pane of a notification
  is not kept. One dialog is open at a time, since it is modal.
- In `Wakeup` a call on the main thread is a thread whose steps the main loop
  does not interrupt, so it is among the behaviours.
- In `BranchDetect` and `IconCache` an answer is named after the directory or
  root it is about. Generations are only compared for equality: a read keeps
  whether it is behind. Any git may fail, to start or later.
- In `Instances` a session file is the set of its workspaces, and the reply to a
  routed command may be lost at any time. `Sharing` says whether two processes
  may run with one id, which takes a race of two launches; the run excludes it
  (an under-approximation, listed as a hazard).
- In `SavedPanes` what a pane holds is one body. Files were written by this code.
- In `SaveQueue` every write may fail, and the session goes on as if it had not.
  Changes are of two kinds. Those of `Change` end with `session_queue_save`. Those
  of `QuietChange` do not: a reordering of tabs, a tab that GTK drags to another
  pane and the idle that closes the pane it left, Delete in the sidebar, another
  tab shown, the size of the window. Both kinds happen at any time.
- In `TmuxCompat` a request with its reply is one step: the client waits, and the
  window handles a request to its end. Between any two requests the user may split
  and close panes of any workspace, and remove, drag, add and send away
  workspaces; the tmux commands name workspaces by their place in the list, and
  a place that no list has (too large, negative) is 0. A workspace sent back or
  imported is one more at the end. An agent may name any pane ever made.

## 3. What is checked

Passing runs (bounds in the `.cfg`; distinct states in parentheses):

- `strip_panes` (96,308): strip, 3 panes, one tab each, with socket `pane.close`
  and zoom. Disjoint columns, indices, highlight, agreement with the screen. Three
  panes are what it takes for a column of two beside another, and for a chain two
  levels deep, where closes and chains differ.
- `layout_switch` (57,756): both layouts with a dialog open across the switch:
  panes, places and the primary pane survive; in the classic layout the answer
  closes what was asked about.
- `classic` (16,345): classic, 3 panes of 2 tabs, socket split and close, zoom,
  under fairness: nothing stays hidden, trees are whole, emptied panes go. Two
  tabs a pane are what a pane needs to be refilled while its close is queued.
- `wakeup` (934): 3 threads, also checked for deadlock, and against `Mailbox`.
  One thread calls, one finds the flag up, and one calls between the flag's
  reset and the drain.
- `clipboard` (144,687): `Clipboard` with 2 terminals and 2 addresses: an address
  freed by one terminal and reused by the other, and a late read for each; and
  `TmuxCompat` with room for 2 workspaces and 5 panes, and 2 attempts to type (a
  retry and the last refusal), in three parts:
  - `splits`: one workspace, one act of the user, up to 4 commands of one client.
    That is a leader in a main-vertical layout, two teammates and one of them
    killed, with a pane of the user's beside the leader that
    `find_non_leader_pane_id` may choose.
  - `types`: two workspaces, up to 3 acts of the user and commands of one client,
    and 4 panes. `select-layout -t` names the other workspace, a row is dragged, a
    workspace is removed, added or sent away before, during or after a text is
    sent.
  - `pair`: two clients and up to 3 commands, 3 panes, and a user who leaves them
    alone: one command loads the file before and saves it after another.

  A part goes on until nothing is claimed of it any more. In every part a save of
  the state file may fail.
- `workspace_list` (205,188, up to renaming workspaces): `WorkspaceList` with 3
  workspaces, a notification and the toast, one queued delete, one dialog, one
  drag; three rows are what a reordering needs to shift a row it neither takes
  nor drops on, and what a removal needs to have one below and one above. And
  `Tabs` with 2 workspaces, 3 panes and 4 tabs: two panes in a workspace with a
  tab each and one to move, next to a workspace to switch to.
- `background` (64,004): `BranchDetect` with 2 workspaces, terminals and
  directories and 3 git processes, so that an old read, its successor and one of
  the other label are under way at a time, and serials run out; `IconCache` with
  2 roots, 2 terminals and one file a root that comes and goes.
- `session` (174,640): `Instances` with 2 processes, 2 slots, one workspace
  besides the blank ones and 2 crashes (one at each end of a move); `SavedPanes`
  with 3 panes and 4 ids a process: one more than the panes, so that ids run past
  those that were restored; `SaveQueue` with 3 changes: one
  in a restore, one after it that asks for a save, and one that does not. `ComesBack` is about both ways a workspace is written down;
  `SavedInTime` has the two sides of the flag
  `session_restoring`: it may drop a request, but not for good.

`CHECK_DEADLOCK FALSE` where the system may stop: a stale workspace, a clipboard
whose terminals are all closed, bounds that are reached, processes that are off.

Violations, each of a statement the repository itself makes (`findings`):

- `column_lists`: in a strip, closing the last tab of a pane stacked in a column
  goes through the classic `workspace_close_pane`, which leaves the destroyed
  notebook in the column's list.
- `restored_in_place`: panes are restored by position in the registry, although
  the saved layout names each of its leaves; when a split was not at the last
  pane, tabs come back in another place.
- `moved_tab`: a tab moved to another workspace by a command leaves its terminal
  in the array and overlay of the one that made it.
- `typed_elsewhere`: the command of a new teammate is typed into the pane in
  front if the new pane is closed first.

Some properties are stated in the modules and hold in no run, since the code does
otherwise; each is named by a hazard in `PROJECT.json`:
`Clipboard.PasteReachesLive` (`terminal.paste` holds the bare surface across a
read), `WorkspaceList.ConfirmRemovesAsked` (the dialog keeps a number),
`Instances.OnlyStaleRemoved` (a socket found dead is bound by another process
before it is unlinked). Restored pane ids and generated ones may be equal, and
`StripComesBack` is silent about a workspace where they are. In a strip, `EmptyPaneGoes` and `ConfirmClosesAsked` fail as well:
the closing function refuses a pane that is a column of its own, and the
answer closes whatever has the focus. They are checked for the classic layout.

`ActiveIsFocused` is checked without the socket command `pane.split` in its
runs: in a strip that command leaves the active pane outside every column (a
hazard in `PROJECT.json`), and the property speaks of listed panes only.
`BranchDetect` keeps tabs in their workspace: one that was moved reports its
directory to its old one, as `moved_tab` says, and the branch of the new one then
lags.

Every property has a mutant: a plausible slip in one definition (named after it
and placed just before it) under which TLC finds the property violated. The
type invariants are in the modules to document the state and to prove from; they
are properties of no run.

## 4. Fairness

- `WorkspacePanes`: weak fairness of `IdleClose(p)`: GLib runs an attached idle
  once. Nothing is assumed of users, sockets or dialogs.
- `Wakeup`: the main loop keeps running its sources (the idle has
  `G_PRIORITY_DEFAULT`, "a steady stream of priority-0 sources must not starve"
  it), and a thread inside the callback finishes it. Nothing makes a thread call.
- `WorkspaceList`, `Tabs`, `BranchDetect`, `SavedPanes`: none; their properties
  are of single steps and of all states.
- `Clipboard`: GDK ends every read, cancelled ones too, and idles run. No user
  has to answer a dialog, so `SettledOrAsked` promises settlement *or* a prompt.
- `IconCache`: a search has a deadline, and its completion and the queued answers
  are sources of the main loop.
- `Instances`: a launch comes to its end, and a blocked call is answered once
  somebody answered it; strong fairness of `Import`, since a process that is
  itself blocked in a call serves nobody until it returns. `MovesEnd` excepts
  processes that wait for each other in a circle, which really wait for ever.
- `SaveQueue`: while the process is not quitting, the main loop gets to a queued
  save, to the end of a restore, and again and again to the timer of 30 seconds,
  whose callback returns `G_SOURCE_CONTINUE`. `SavedInTime` needs none of it.
  `ChangesSaved` needs the timer, for quiet changes and for writes that failed; it
  excepts a disk on which from some time on every write fails.
- `TmuxCompat`: a process runs on, and the window answers it.

## 5. What is proved

For every number of panes, tabs, threads, terminals, addresses, workspaces,
directories, processes and crashes:

- `WorkspacePanes_proofs`: `TypeOK`, `ColumnsSound` (no pane in two places, every index
  in range),
  `TreesWhole`, `ScreenAgrees`, `PrimaryIsFirst` and the action property
  `ConfirmClosesAsked`, through splits, closes, tab moves, zooms and layout
  switches (`Invariant` and the theorems after it). The inductive invariant has
  four parts:
  - `WsOK(ws, 1 .. nextPane - 1)`, in `IInv`: the workspace is well formed over
    the panes created so far. A strip has a focused column in range, columns are
    not empty and their focused pane is in range, both zoom flags are never up.
    `IInv` adds that pages are only in panes on the screen, which is why a new
    pane starts with none.
  - `Trees`: registry and columns list no pane twice; the paneds are whole
    (`Whole`, the inductive form of `WellFormed`: every node above a pane has a
    pane on its other side, and no pane is over another); in the classic layout
    all hang in the overlay, in a strip every column's panes hang under its own
    root, in list order (`Hung`), and the box has one root for each column.
    `ScreenAgrees` alone is not inductive: a close would go to a wrong sibling if
    two columns had one root, and the order of a chain is only kept if a split
    puts the new pane next to its target in the tree and in the list.
  - `Agrees`: as long as no destroyed notebook is named, what is on the screen is
    registered and the primary pane is the first. The other inclusion is
    `Running` itself, the guard of every action.
  - `Lit` and `AllListed`, or `Veiled`, where one of the two theorems below needs
    them.

  The proof is in layers. The first part of the module says what each operation of
  `PanedTree` does to the places of the panes that stay: they keep their order and
  the tree stays whole
  (`SplitLeaf`, `CloseLeaf`, `Chain`, for trees of any depth). Each operator of
  `WorkspacePanes` has a lemma that it keeps `WsOK` and one that it keeps
  `Trees`, for any workspace and not only `ws`; what an action makes of `ws` is
  one of five things (`Outcome`: moved focus, zoomed, closed, split, rebuilt), so
  each of the added invariants is proved once per outcome and not per action.
  Records are compared field by field: `Kept(v, w, F)` says that `v` differs from
  `w` in the fields `F` alone.

  Two of the theorems have a hypothesis, and both are needed:
  - `ActiveIsFocused`, and that a column's list has all the panes on the screen,
    for `Inputs` without `"pane.split"`: that socket command splits a strip in the
    classic way and leaves the new pane in no column; when it is closed, the pane
    that becomes the active one need not be the one its column names as focused
    (TLC finds a trace of four states). The list is only claimed to be whole while
    it names no destroyed notebook: how it comes to name one is what
    `column_lists` shows.
  - `HiddenByZoom` for a workspace that keeps its layout (`OneLayout`). Rebuilding
    for the other layout neither un-zooms nor shows the panes the zoom hid: zoom
    onto one of two panes, switch to a strip, close the one that shows, switch
    back, and the workspace is one hidden pane. TLC finds a trace of seven
    states when `HiddenByZoom` is checked with both layouts.

- `Background_proofs`, of `BranchDetect`: `AnswersAreCurrent`, `Settled`, and `ImplementsLatest`
  (initial states and steps of both labels map to `LatestAnswer`; neither
  specification has fairness, so this is all of it). The invariant: a terminal is
  in the workspace its handlers report to, once (`Placed`); no two open
  workspaces share a serial and no read has that of a closed one (`Serials`,
  which is why an imported workspace may not reuse one); and each label is `Fed`:
  it waits for a read about its own directory, or waits for none and its branch
  is blank or that of the directory (`Current`). `AnswersAreCurrent` alone says
  nothing of the workspaces whose handler has cleared the summary without
  starting a read. Each function of `workspace.c` that a handler calls is an
  operator on a record of summary, reads and panes (`Works`), with a lemma that it
  keeps the labels fed.
- `Background_proofs`, of `IconCache`: `IconTypeOK`, `OneSearch` and
  `IconImplementsLatest`, provided that
  the two values for "no icon" and "not searched yet" are no files (`Blanks`). The
  invariant ties each icon to a root wherever it is kept: in the cache, in a
  search that has ended, on a terminal. `OneSearch` alone would do for itself, but
  not for the labels. The listeners of a search are called in one step of the
  model (`Resolved` takes the set of them): each call sets its own terminal and
  refreshes stale labels, whichever came before it.
- `Session_proofs`, of `Instances`: the type invariant and `Sound` with or without shared ids;
  `NothingLost` and `OneHome` under `~Sharing`, without which they do not hold (a
  hazard in `PROJECT.json`). The invariant speaks of *firm* homes: a process that
  is up has a workspace firmly unless it waits for the answer that will take it
  away, and a file does if nobody up has its id. Every open workspace not lost
  with a killed process has a firm home (`FirmHome`), and without kills only one
  (`OneFirm`). `NothingLost` alone is not inductive, since between the import and
  the detaching a workspace lives twice and may lose either home.
- `Session_proofs`, of `SavedPanes`: `PanesTypeOK` and `ComesBack`, for any number of
  panes, in both layouts, after any splits, closes, saves, restarts and moves.
  The inductive invariant `PanesIInv` says that the workspace is one (`Workspace`:
  its list has no pane twice, and these panes are on a whole tree or in one
  column each) and that each pane has an id. `ComesBack` follows from it, and is
  not what makes it inductive: what a restart builds must again be a workspace,
  whatever ids were saved. The argument follows the code:
  - Ids: `Unrepeated` gives as many ids as there are panes, and those wanted if no
    two are equal (`UnrepeatedOK`). Two panes with one id are legal here; a
    restart may then merge their columns, but loses no pane.
  - Splits: `RestoreLayoutOK`. After `k` of the splits the leaves of the tree are the
    children of the first `k` nodes that are not themselves among them
    (`Halfway`). The nodes are in an order in which each comes after the one above
    it, so the node that is split next is a leaf, and the last step has the leaves
    that were saved. Any whole tree comes back, of any depth.
  - Columns: every pane has one home, the first line that names it or a column of
    its own at the end (`HomesOf`), so the columns rebuilt are disjoint and list
    every pane, whatever the file says (`RebuildColumnsOK`). The flags and the
    focus move none (`RestoreFlagsOK`, `FocusPaneOK`).
  - If no two ids are equal, a saved column is `Faithful` to the column it came
    from once its panes are numbered by their place in the list (`Renumbered`):
    its home is its own number and its line the place in it, so list, flags and focus
    are those that were saved, and the bodies given by the same numbers undo the
    numbering.

- `Session_proofs`, of `SaveQueue`: `QueueTypeOK` and `SavedInTime`
  (`SaveOnItsWay` and `RestoreUndisturbed`). `SaveOnItsWay` speaks of the changes
  that asked for a save: one that is in no save yet has its callback queued, or
  made up for at the end of the restore. Of a quiet change it says nothing, since
  nothing is on its way but the timer. That no callback is queued during a restore
  nor after quitting, which the type invariant says, is what both rest on.
- `Wakeup_proofs`: `TypeOK`, `OneIdle`, `NoLostWakeup`, and that every step is a
  step of `Mailbox` or a stutter. `IInv`: the flag is up exactly when an idle is
  queued, being added or dispatched and not yet past its reset, and a message in
  the mailbox is announced, about to be, or about to be drained.
- `Clients_proofs`, of `Clipboard`: `TypeOK`, `SettledOnce`, `PromiseKept`, `DeadDoNotWrite`.
  `IInv` adds that a terminal's record and ghostty's view agree, that a read or
  a prompt whose request is pending is the only one, and that prompts of closed
  terminals are on their way out; `SettledOnce` alone says nothing of the reads
  still in flight that could break it.
- `Clients_proofs`, of `TmuxCompat`: `LastIsBeside`, `TeammatesStack` and
  `TypedWhereAsked`, in `TeamSpec`: any number of processes, any number of
  workspaces and panes, with the user's splits, closes, removals, drags, additions
  and moves to other instances at any time, where the run bounds all of these. The
  invariant `TeamInv`, which TLC checked before on the space of the run, has three
  layers, as `past` says what has happened:
  - `Shape`, always: panes are made once, and no more than there is room for.
  - `Homes`, until `Renumbered`: the number in the file names the workspace of the
    team, the teammates are only in that one, and every command in progress loaded
    that number and that leader. This is why text that is asked for in a
    workspace finds its pane there: `TypedWhereAsked` alone says nothing of the
    requests still to come. `select-layout -t` with another number, and a removal,
    a drag, an addition or a move to another instance after which the number names
    another workspace or none, end it: a command then looks in another workspace.
    Such an act that leaves the number to the team does not end it.
  - `Mates`, until `Meddled` (two commands that save at a time, a save that failed,
    a pane closed by hand in the team's workspace): the file or the one running
    command holds a pane that is `Good` to split below, or is in `tmux_kill_pane`
    between closing that pane and replacing it. While nothing but splits of the
    leader in a main-vertical layout have happened (`Clean`) all teammates are in
    one column, `Stacked`, that of this pane. `LastIsBeside` alone is silent while
    a command runs, and does not say that `last` is only empty when there are no
    teammates, without which the next split to the right would start a second
    column. `find_non_leader_pane_id` takes the first pane that is not the
    leader's; when the last teammate was killed that may be a pane of the user's,
    and the next teammate goes below it. `LastIsBeside` allows for that;
    `TeammatesStack` excepts it (`Aside`).

  What the user does is proved to keep the invariant once, for any act that is
  `ByHandOnly`: it touches nothing of the team's, only makes or closes panes, and
  is noted in `past` if it closes one of the team's workspace or shifts its number.
  What happens to the window's lists is proved of `Append`, `RemoveFirst`,
  `RemoveAt` and `InsertAt` for any sequence; that `find_non_leader_pane_id` finds
  a pane if there is one rests on the least number of a set.
- `WorkspaceList_proofs`: `ShowsCurrent`, `NotificationsFollow` and
  `CurrentSurvives`, for any set of workspaces and any bounds. `ShowsCurrent` with
  the type of `app` is inductive: no held index has to be in range, since every
  function that is given one checks it. One lemma for each C function says where
  it puts each workspace and that held indices follow; the lemma on `Moved`
  distinguishes where the current row lies from the two ends of the drag.
- `Tabs_proofs`: `TypeOK`, `PanesFilled`, `FlashTicks`, `FlagFits` and the action
  property `ButtonClosesAsked`, for any numbers of workspaces, panes and tabs. The
  widgets and the terminal sets are one record, a layout, and each C function has
  a lemma about what it makes of any layout that `Fits` (no pane in two
  workspaces, no tab on two pages, every notebook shows one of its own, what hangs
  in no tree is empty). The invariant adds:
  - `Asks`: an open dialog names the workspace that its tab or its pane is in, or
    one that is gone. It holds as a tab or a pane that a dialog refers to is not
    handed out again; without it the answer could close something else.
  - `Kept`, until a tab crosses to another workspace: what is listed hangs in the
    tree, and a workspace's terminals are the tabs of its panes.
  - `Full`, until a tab crosses or a close overtakes a queued one: every workspace
    has a tab, and an empty pane has its close queued. `PanesFilled` follows from
    `Kept` and `Full`, and is not inductive as it stands: it does not say that what
    is listed hangs in a tree, and forgets the terminals after a close that
    overtook another, which `Kept` survives.
  - `FlashTicks` and `FlagFits` as they are. Most handlers end the same way (what is
    gone loses its flag, its entry and its flash), so these are proved once, for
    any handler that settles in a layout that fits (`Settled`), and not per handler.

  `TabsTracked` itself is not provable: `moved_tab` refutes it.

The assumptions are the named `ASSUME`s of the modules (positive bounds, known
layouts and inputs, finite sets of threads and of tmux processes, a NULL that is no
address, a bound on crashes that is a number, widgets enough for a first tab in
each workspace) and the hypotheses named above.

A layout switch sorts the notebooks into the order its walk of the widgets meets
them (`Walk`, a `CHOOSE`). That such an order exists, for any finite set, is not
proved by induction over the set but by counting: a strict total order gives each
element the number of those before it, and that map is one to one onto
`1 .. n` (`ListAll`).

The induction theorems of the library take a predicate as a parameter, which the
provers cannot instantiate. What the recursive functions of `SavedPanes` compute (ids
given one after the other, splits made one after the other) is proved with sets in
their place: the numbers `k` for which the function is defined up to `k`, and those
for which its value there is as it should be, contain 0 and, with each number, the
next (`CountUp`).

`PanedTree_proofs` has the lemmas about lists and trees that `WorkspacePanes_proofs` and
`Session_proofs` share: what an insert and a remove do to a list, that splits,
closes and chains keep a tree whole, and that `Before` orders its panes.

Model-checked only: liveness (`EmptyPaneGoes`, `SettledOrAsked`, `DialogGoes`,
`CommandsEnd`, `ListenersCalled`, `MovesEnd`, `ChangesSaved`, the fairness half of
`Served`), which the provers do not reach. Every invariant and every action property
that a passing run checks is a theorem, under the hypotheses named above.

## 6. Not modelled

- Pixels: camera, widths, animations, split ratios, overlays, sizes.
- Rendering and input, terminal titles, the search bar and the other deferred
  actions of ghostty (`ghostty_actions.c`), which work on one widget's own state.
- Themes, settings, palettes, the key table, the sidebar's widgets: forms and
  files that no other component races with.
- Hover focus: three flags, read in the handlers that set them.
- The text of the session file and of socket messages, and files this code did
  not write: pure conversion of wide records.
- Pointers to a workspace that was removed while a dialog or an idle holds them:
  `WorkspaceList` has the workspaces and `WorkspacePanes` and `Tabs` the holders,
  but they are not composed.
- `prettymux-open`, a client that sends one request and prints the answer.

## 7. Status

The plan is done: the panes in both layouts, tabs, the workspace list, wakeup,
clipboard, both background readers, instances, saved panes and saves, and the tmux
commands are modelled, run and, but for liveness, proved. What a next version
could add, in this order: the holders of a `Workspace` pointer composed with the
list it goes from (section 6), the search bar's deferred actions, and the moves of
tabs between workspaces in a strip.
