--------------------------- MODULE WorkspaceList ---------------------------
(***************************************************************************)
(* The workspaces of one instance (workspace.c: add, remove, switch,       *)
(* detach, import, reorder) and everyone who holds a workspace by its      *)
(* index across a return to the main loop: the notifications and the toast *)
(* (notifications.c), the close dialog (app_actions.c), the delete queued  *)
(* by the sidebar's menu and the row being dragged (workspace.c).          *)
(*                                                                         *)
(* A handler runs to its end; the interleaving is that of the handlers:    *)
(* user events, timers, idle callbacks and the commands of the socket.     *)
(* Indices start at 0, as in the code.                                     *)
(***************************************************************************)
EXTENDS Integers, SequencesExt, FiniteSetsExt

CONSTANTS
    Workspaces,
    NoWs,        \* no workspace: what an empty stack shows, what -1 names
    MaxLen,      \* bound: workspaces in the instance
    MaxNotes,    \* the 50 notifications that notifications_add_full keeps
    MaxDeletes   \* bound: deletes queued by the sidebar

ASSUME NoWsAssumption == NoWs \notin Workspaces

VARIABLES
    app,         \* workspaces, current_workspace, the stack and notifications
    dialog,      \* PendingWorkspaceClose of the open dialog, if there is one
    deletes,     \* indices held by the queued sidebar_ctx_delete_idle_cb
    drag         \* WorkspaceReorderState, if a row is being dragged

vars == <<app, dialog, deletes, drag>>

\* An index that is held, and the workspace it was taken for (the code keeps
\* only the index; "of" is there to say what it should mean).
Held == [idx : Int, of : Workspaces \cup {NoWs}]

App == [list : Seq(Workspaces), current : Int, shown : Workspaces \cup {NoWs},
        notes : SUBSET Held, toast : SUBSET Held]

At(a, i) == IF i \in 0..Len(a.list) - 1 THEN a.list[i + 1] ELSE NoWs

Hold(a, i) == [idx |-> i, of |-> At(a, i)]

Indices(a) == 0..Len(a.list) - 1

TypeOK ==
    /\ app \in App
    /\ dialog \in SUBSET Held /\ Cardinality(dialog) <= 1
    /\ Cardinality(app.toast) <= 1 /\ Cardinality(app.notes) <= MaxNotes
    /\ deletes \in Seq(Nat)
    /\ drag \in SUBSET Held

\* The caller's first workspace and those session_restore adds to it, with the
\* saved one active.
Init ==
    /\ \E n \in 1..MaxLen : \E l \in [1..n -> Workspaces], c \in 1..n :
          /\ IsInjective(l)
          /\ app = [list |-> l, current |-> c - 1, shown |-> l[c],
                    notes |-> {}, toast |-> {}]
    /\ dialog = {} /\ deletes = <<>> /\ drag = {}

-----------------------------------------------------------------------------
\* The functions of workspace.c, as what they make of the instance.

SwitchedTo(a, i) ==
    IF i \in Indices(a)
    THEN [a EXCEPT !.current = i, !.shown = At(a, i)]
    ELSE a

Added(a, ws) ==
    LET b == [a EXCEPT !.list = Append(@, ws)]
    IN  SwitchedTo(b, Len(b.list) - 1)

\* Mutant of FollowRemoval: the entries above the removed index stay.
FollowRemovalNoShift(held, r) == {e \in held : e.idx # r}

\* notifications_on_workspace_removed, on the entries and on the toast
FollowRemoval(held, r) ==
    {[e EXCEPT !.idx = IF @ > r THEN @ - 1 ELSE @] : e \in {h \in held : h.idx # r}}

WithoutWs(a, i) ==
    [a EXCEPT !.list = RemoveAt(@, i + 1),
              !.notes = FollowRemoval(@, i),
              !.toast = FollowRemoval(@, i)]

\* Mutant of Removed: the last workspace may be removed too.
RemovedLast(a, i) ==
    IF i \notin Indices(a) THEN a
    ELSE LET b == WithoutWs(a, i)
         IN  SwitchedTo(b, IF b.current >= Len(b.list) THEN Len(b.list) - 1
                           ELSE b.current)

\* workspace_remove keeps the index of the current workspace, not the workspace
Removed(a, i) ==
    IF Len(a.list) <= 1 \/ i \notin Indices(a) THEN a
    ELSE LET b == WithoutWs(a, i)
         IN  SwitchedTo(b, IF b.current >= Len(b.list) THEN Len(b.list) - 1
                           ELSE b.current)

Detached(a, i) ==
    LET b == WithoutWs(a, i)
    IN  IF b.list = <<>> THEN [b EXCEPT !.current = 0, !.shown = NoWs]
        ELSE SwitchedTo(b, IF b.current > i THEN b.current - 1
                           ELSE IF b.current >= Len(b.list) THEN Len(b.list) - 1
                           ELSE b.current)

\* Mutant of Tracked: off by one at the place the row is dropped on.
TrackedShort(c, from, to) ==
    IF c = from THEN to
    ELSE IF from < c /\ c < to THEN c - 1
    ELSE IF to <= c /\ c < from THEN c + 1
    ELSE c

\* where the workspace of index c is after workspace_move_in_array
Tracked(c, from, to) ==
    IF c = from THEN to
    ELSE IF from < c /\ c <= to THEN c - 1
    ELSE IF to <= c /\ c < from THEN c + 1
    ELSE c

Moved(a, from, to) ==
    IF {from, to} \subseteq Indices(a) /\ from # to
    THEN [a EXCEPT !.list = InsertAt(RemoveAt(@, from + 1), to + 1, At(a, from)),
                   !.current = Tracked(@, from, to)]
    ELSE a

-----------------------------------------------------------------------------
\* A workspace is a new one: not listed, nor what anyone's index stood for.
Fresh ==
    Workspaces \ (Range(app.list)
                   \cup {h.of : h \in app.notes \cup app.toast \cup dialog \cup drag})

MayAdd == Len(app.list) < MaxLen

\* workspace.new, of a shortcut, the sidebar's button or the socket
New ==
    /\ MayAdd
    /\ \E ws \in Fresh : app' = Added(app, ws)
    /\ UNCHANGED <<dialog, deletes, drag>>

\* A switch to some index: workspace.focus.N, next and prev, the socket, the
\* palette, a tab dropped on a row, a click on a notification.  So does a click
\* on a row, 280 ms later (deferred_activate_cb), with the index it had then.
Switch(i) ==
    /\ app' = SwitchedTo(app, i)
    /\ UNCHANGED <<dialog, deletes, drag>>

\* request_close_current_workspace, with the dialog (modal: bound, one is open)
AskClose ==
    /\ Len(app.list) > 1 /\ dialog = {}
    /\ dialog' = {Hold(app, app.current)}
    /\ UNCHANGED <<app, deletes, drag>>

\* request_close_current_workspace, with the dialog turned off in the settings
CloseUnasked ==
    /\ Len(app.list) > 1 /\ dialog = {}
    /\ app' = Removed(app, app.current)
    /\ UNCHANGED <<dialog, deletes, drag>>

Confirm ==
    /\ \E d \in dialog : app' = Removed(app, d.idx)
    /\ dialog' = {}
    /\ UNCHANGED <<deletes, drag>>

Cancel ==
    /\ dialog # {}
    /\ dialog' = {}
    /\ UNCHANGED <<app, deletes, drag>>

\* on_sidebar_ctx_delete_activate: the removal waits for the main loop to idle
SidebarDelete(i) ==
    /\ Len(deletes) < MaxDeletes
    /\ deletes' = Append(deletes, i)
    /\ UNCHANGED <<app, dialog, drag>>

IdleDelete ==
    /\ deletes # <<>>
    /\ app' = Removed(app, Head(deletes))
    /\ deletes' = Tail(deletes)
    /\ UNCHANGED <<dialog, drag>>

\* on_ws_row_drag_begin.  The gesture of a removed row goes with the row.
DragBegin(i) ==
    /\ \A d \in drag : d.of \notin Range(app.list)
    /\ drag' = {Hold(app, i)}
    /\ UNCHANGED <<app, dialog, deletes>>

\* on_ws_row_drag_end over the row of index i, or over no row
DragEnd(i) ==
    /\ \E d \in drag : d.of \in Range(app.list) /\ app' = Moved(app, d.idx, i)
    /\ drag' = {}
    /\ UNCHANGED <<dialog, deletes>>

DragNowhere ==
    /\ \E d \in drag : d.of \in Range(app.list)
    /\ drag' = {}
    /\ UNCHANGED <<app, dialog, deletes>>

\* workspace_move_to_instance, once the other instance took the workspace
MoveAway(i) ==
    /\ LET b == Detached(app, i)
       IN  IF b.list = <<>>
           THEN \E ws \in Fresh : app' = Added(b, ws)
           ELSE app' = b
    /\ UNCHANGED <<dialog, deletes, drag>>

\* workspace_import_from_payload
Import ==
    /\ MayAdd
    /\ \E ws \in Fresh : app' = SwitchedTo(Added(app, ws), app.current)
    /\ UNCHANGED <<dialog, deletes, drag>>

\* workspace_import_from_payload, when the payload cannot be restored
ImportFails ==
    /\ MayAdd
    /\ \E ws \in Fresh :
          app' = SwitchedTo(Detached(Added(app, ws), Len(app.list)), app.current)
    /\ UNCHANGED <<dialog, deletes, drag>>

\* notifications_add_full, for a terminal of workspace i or for none (-1), with
\* or without the toast.  The list is a set here: its order only says which
\* entry goes when there are more than 50, and that may be any.
Notify(i, old, toast) ==
    LET e == Hold(app, i)
    IN  /\ Cardinality((app.notes \ old) \cup {e}) <= MaxNotes
        /\ app' = [app EXCEPT !.notes = (@ \ old) \cup {e},
                              !.toast = IF toast THEN {e} ELSE @]
        /\ UNCHANGED <<dialog, deletes, drag>>

NotificationsClear ==
    /\ app.notes # {}
    /\ app' = [app EXCEPT !.notes = {}]
    /\ UNCHANGED <<dialog, deletes, drag>>

\* sidebar_toast_hide, of its timeout or its close button
ToastHide ==
    /\ app.toast # {}
    /\ app' = [app EXCEPT !.toast = {}]
    /\ UNCHANGED <<dialog, deletes, drag>>

ToastClick ==
    /\ \E t \in app.toast : app' = [SwitchedTo(app, t.idx) EXCEPT !.toast = {}]
    /\ UNCHANGED <<dialog, deletes, drag>>

Next ==
    \/ New \/ AskClose \/ CloseUnasked \/ Confirm \/ Cancel \/ IdleDelete
    \/ DragNowhere \/ Import \/ ImportFails
    \/ NotificationsClear \/ ToastHide \/ ToastClick
    \/ \E i \in Indices(app) :
          \/ Switch(i) \/ SidebarDelete(i)
          \/ DragBegin(i) \/ DragEnd(i) \/ MoveAway(i)
    \/ \E i \in Indices(app) \cup {-1}, toast \in BOOLEAN,
          old \in {{}} \cup {{n} : n \in app.notes} : Notify(i, old, toast)

Spec == Init /\ [][Next]_vars

-----------------------------------------------------------------------------
\* The instance always has a workspace, current_workspace is the index of one,
\* and it is the one the stack shows: after every order of removals by stale
\* indices, moves to other instances, failed imports and reorderings (which
\* never touch the stack).
ShowsCurrentOf(a) ==
    /\ a.current \in Indices(a)
    /\ a.shown = At(a, a.current)

ShowsCurrent == ShowsCurrentOf(app)

\* Every held index is still the index of the workspace it was taken for.
FollowOf(a) ==
    \A e \in a.notes \cup a.toast :
        e.idx \in Indices(a) \cup {-1} /\ e.of = At(a, e.idx)

Follow == FollowOf(app)

\* Only reordering the rows can make a notification or the toast point at
\* another workspace than its own (the comment that ends
\* workspace_move_in_array): removals, moves and imports never do.
NotificationsFollow ==
    [][Follow /\ ~(\E i \in Indices(app) : DragEnd(i)) => Follow']_vars

\* Dragging rows, moving another workspace away and importing one, be it with
\* success or not, leave the user in the workspace that was current.
CurrentSurvives ==
    [][ \/ \E i \in Indices(app) :
              DragEnd(i) \/ (i # app.current /\ MoveAway(i))
        \/ Import \/ ImportFails
        => At(app', app'.current) = At(app, app.current)]_vars

\* The dialog says "The current workspace and its panes will be closed.": what
\* its answer removes is the workspace that was current when it was asked.
ConfirmRemovesAsked ==
    [][Confirm =>
         \A ws \in Range(app.list) :
            ws \notin Range(app'.list) => \E d \in dialog : d.of = ws]_vars
=============================================================================
