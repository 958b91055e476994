----------------------------- MODULE SavedPanes -----------------------------
(***************************************************************************)
(* The two ways a workspace is written down and built again: session.c     *)
(* saves it to a file and restores it in the next process, workspace.c     *)
(* exports it and another instance imports it.  The state is one workspace *)
(* as its panes are split, closed, restored and moved.                     *)
(*                                                                         *)
(* A pane is a slot number; what it holds (tabs, their names, directories  *)
(* and themes, the active tab) is written as one body, named by the pane   *)
(* that is saved.  Pixels (ratios, widths, the window) are left out, and   *)
(* so are files that were not written by this code.                        *)
(***************************************************************************)
EXTENDS PanedTree, FiniteSets, FiniteSetsExt, Functions

CONSTANTS
    Modes,      \* a subset of {"classic", "strip"}
    MaxPanes,   \* bound: panes at a time
    MaxSerial   \* bound: panes a process creates, ids it generates

ASSUME ModesAssumption == Modes \subseteq {"classic", "strip"}
ASSUME PanesAssumption == MaxPanes \in Nat \ {0}
ASSUME SerialAssumption == MaxSerial \in Nat /\ MaxSerial >= MaxPanes

VARIABLES
    ws,      \* layout_mode, pane_notebooks, the tree, columns and focused_col
    paneId,  \* of each pane, "pane-id"
    serial,  \* next_pane_serial
    gen      \* session_generated_pane_id

panesVars == <<ws, paneId, serial, gen>>

Pane == 1..MaxPanes
Id == {"pane", "restored"} \X (1..MaxSerial)
Column == [panes : Seq(Pane), focused : Nat, maximized : BOOLEAN, half : BOOLEAN]

Registered(w) == ToSet(w.panes)
InColumn(w, c) == ToSet(w.columns[c].panes)
Listed(w) == UNION {InColumn(w, c) : c \in DOMAIN w.columns}

\* Panes hang in the tree or in one column each, never in both.
Arranged(w) ==
    /\ w.panes \in Seq(Pane) /\ IsInjective(w.panes) /\ w.panes # <<>>
    /\ w.tree \in [DOMAIN w.tree -> Place({"overlay"})] /\ w.columns \in Seq(Column)
    /\ DOMAIN w.tree \cup Listed(w) = Registered(w)
    /\ IF w.mode = "classic" THEN w.columns = <<>> /\ WellFormed(w.tree)
       ELSE /\ DOMAIN w.tree = {} /\ w.focusedCol \in DOMAIN w.columns
            /\ \A c \in DOMAIN w.columns :
                  /\ w.columns[c].focused \in DOMAIN w.columns[c].panes
                  /\ IsInjective(w.columns[c].panes)
                  /\ \A d \in DOMAIN w.columns \ {c} : InColumn(w, c) \cap InColumn(w, d) = {}

PanesTypeOK ==
    /\ ws.mode \in Modes /\ Arranged(ws)
    /\ paneId \in [Registered(ws) -> Id]
    /\ serial \in 1..MaxSerial + 1 /\ gen \in 1..MaxSerial + 1

Only(S) == CHOOSE x \in S : TRUE

IndexOf(s, x) == CHOOSE i \in DOMAIN s : s[i] = x

\* What a walk over S in that order lists.
InOrder(S, before(_, _)) ==
    CHOOSE s \in [1..Cardinality(S) -> S] : \A i, j \in DOMAIN s : i < j => before(s[i], s[j])

ColumnOf(cols, p) == CHOOSE c \in DOMAIN cols : p \in ToSet(cols[c].panes)

NewColumn(p) == [panes |-> <<p>>, focused |-> 1, maximized |-> FALSE, half |-> FALSE]

-----------------------------------------------------------------------------
(* Pane ids *)

\* An id that was given before is replaced by the next generated one, which is
\* not looked up among the ids in use.
GiveId(x, i, kind) ==
    IF i \in ToSet(x.ids) THEN [ids |-> Append(x.ids, <<kind, x.n>>), n |-> x.n + 1]
    ELSE [x EXCEPT !.ids = Append(@, i)]

\* The ids wanted, one after the other; n is the next number to generate.
Unrepeated(wanted, n, kind) ==
    LET given[k \in 0..Len(wanted)] ==
            IF k = 0 THEN [ids |-> <<>>, n |-> n] ELSE GiveId(given[k - 1], wanted[k], kind)
    IN  given[Len(wanted)]

\* session_normalize_workspace_pane_ids, workspace_move_normalize_pane_ids
Normalized(panes, ids, n, kind) ==
    LET x == Unrepeated([k \in DOMAIN panes |-> ids[panes[k]]], n, kind)
    IN  [id |-> [p \in ToSet(panes) |-> x.ids[IndexOf(panes, p)]], n |-> x.n]

\* ..._assign_workspace_pane_ids_from_saved_order: by their place in the two
\* registries; pane k is the k-th.
Assigned(saved, n, kind) ==
    LET x == Unrepeated([k \in DOMAIN saved |-> saved[k].id], n, kind)
    IN  [id |-> x.ids, n |-> x.n]

-----------------------------------------------------------------------------
(* Saving *)

Layout(w) == {w.tree[p].path : p \in DOMAIN w.tree}

SavedColumn(col, ids) ==
    [ids |-> [k \in DOMAIN col.panes |-> ids[col.panes[k]]],
     focused |-> ids[col.panes[col.focused]],
     maximized |-> col.maximized, half |-> col.half]

\* session_save_for_instance: the ids of w's panes are ids.  The layout names
\* the pane of each leaf, which no restore reads.
SaveSession(w, ids) ==
    [mode |-> w.mode, layout |-> Layout(w),
     panes |-> [k \in DOMAIN w.panes |-> [id |-> ids[w.panes[k]], body |-> w.panes[k]]],
     columns |-> [c \in DOMAIN w.columns |-> SavedColumn(w.columns[c], ids)],
     focused |-> w.focusedCol, active |-> {}]

\* workspace_move_save_strip_state writes a column for each pane; a maximized
\* column is found only if its root widget is the pane itself.
ExportedColumn(w, p, ids) ==
    LET col == w.columns[ColumnOf(w.columns, p)]
    IN  [ids |-> <<ids[p]>>, focused |-> ids[p],
         maximized |-> Len(col.panes) = 1 /\ col.maximized, half |-> FALSE]

\* workspace_export_payload also names the focused pane.
Export(w, ids) ==
    IF w.mode = "classic" THEN SaveSession(w, ids)
    ELSE LET col == w.columns[w.focusedCol]
         IN  [SaveSession(w, ids) EXCEPT
                !.columns = [k \in DOMAIN w.panes |-> ExportedColumn(w, w.panes[k], ids)],
                !.active = {ids[col.panes[col.focused]]}]

-----------------------------------------------------------------------------
(* Building it again *)

\* The node a split makes comes before those below it, and its start before its
\* end.
SplitBefore(a, b) == IsStrictPrefix(a, b) \/ Before(a, b)

\* The GtkPaned nodes above the leaves.
Inner(leaves) == UNION {{SubSeq(l, 1, n) : n \in 0..Len(l) - 1} : l \in leaves}

SplitNode(pl, node) ==
    SplitLeaf(pl, CHOOSE p \in DOMAIN pl : pl[p].path = node, Cardinality(DOMAIN pl) + 1)

\* ..._restore_workspace_layout_node: one split_pane_target after the other, from
\* the bootstrap pane; the registry is in the order of the splits.
RestoreLayout(leaves) ==
    LET nodes == InOrder(Inner(leaves), SplitBefore)
        built[k \in 0..Len(nodes)] ==
            IF k = 0 THEN [p \in {1} |-> At("overlay", <<>>)] ELSE SplitNode(built[k - 1], nodes[k])
    IN  built[Len(nodes)]

\* workspace_get_pane_by_id: the first in the registry 1..n, as a set.
ById(ids, i) ==
    LET at == {p \in DOMAIN ids : ids[p] = i} IN IF at = {} THEN {} ELSE {Min(at)}

\* The saved columns, and their lines, that name p.
NamedIn(saved, p, ids) == {c \in DOMAIN saved : \E i \in ToSet(saved[c].ids) : p \in ById(ids, i)}
NamedAt(saved, p, ids, c) == {k \in DOMAIN saved[c].ids : p \in ById(ids, saved[c].ids[k])}

\* A pane goes where it is named first; what no column names gets a column of its
\* own at the end.
Home(saved, p, ids) ==
    LET cs == NamedIn(saved, p, ids)
    IN  IF cs = {} THEN [pane |-> p, col |-> Len(saved) + p, at |-> 1]
        ELSE [pane |-> p, col |-> Min(cs), at |-> Min(NamedAt(saved, p, ids, Min(cs)))]

Earlier(g, h) == g.col < h.col \/ (g.col = h.col /\ g.at < h.at)

PanesAt(homes) == LET s == InOrder(homes, Earlier) IN [k \in DOMAIN s |-> s[k].pane]

FocusedIn(list, ids, i) ==
    LET at == {k \in DOMAIN list : ids[list[k]] = i} IN IF at = {} THEN 1 ELSE Min(at)

RebuiltColumn(list, saved, ids, c) ==
    [panes |-> list, maximized |-> FALSE, half |-> FALSE,
     focused |-> IF c \in DOMAIN saved THEN FocusedIn(list, ids, saved[c].focused) ELSE 1]

\* session_strip_rebuild_columns_from_saved_state: the columns that got a pane and
\* the registry, column by column.
RebuildColumns(saved, ids) ==
    LET homes == {Home(saved, p, ids) : p \in DOMAIN ids}
        used == InOrder({h.col : h \in homes}, LAMBDA c, d : c < d)
    IN  [panes |-> PanesAt(homes),
         columns |-> [k \in DOMAIN used |->
                        RebuiltColumn(PanesAt({h \in homes : h.col = used[k]}), saved, ids, used[k])]]

\* ..._strip_column_index_by_pane_id; else the column with the number k.
ColumnById(cols, ids, i, k) ==
    LET at == {c \in DOMAIN cols : \E p \in ToSet(cols[c].panes) : ids[p] = i}
    IN  IF at # {} THEN {Min(at)} ELSE {k} \cap DOMAIN cols

\* The saved columns in turn give their flags and focus to the column that has
\* their focused pane: the last one stays.
RestoreFlags(cols, saved, ids) ==
    [c \in DOMAIN cols |->
        LET from == {k \in DOMAIN saved : c \in ColumnById(cols, ids, saved[k].focused, k)}
            s == saved[Max(from)]
        IN  IF from = {} THEN cols[c]
            ELSE [cols[c] EXCEPT !.maximized = s.maximized, !.half = s.half,
                                 !.focused = FocusedIn(cols[c].panes, ids, s.focused)]]

\* Mutant of FocusPane: the focus goes to the first column.
FocusFirst(w, ids, i, k) == [w EXCEPT !.focusedCol = 1]

\* The column with pane i gets the focus, and the pane in it; else column k.
FocusPane(w, ids, i, k) ==
    LET at == ColumnById(w.columns, ids, i, k)
        c == Only(at)
    IN  IF at = {} THEN [w EXCEPT !.focusedCol = 1]
        ELSE IF \A p \in InColumn(w, c) : ids[p] # i THEN [w EXCEPT !.focusedCol = c]
        ELSE [w EXCEPT !.focusedCol = c,
                       !.columns[c].focused = FocusedIn(w.columns[c].panes, ids, i)]

\* session_restore_workspace_strip_state and workspace_move_restore_strip_state,
\* on the panes and columns of x; the file says which pane to focus.
RestoreStrip(f, x, ids) ==
    LET w == [mode |-> "strip", tree |-> <<>>, focusedCol |-> 1, panes |-> x.panes,
              columns |-> RestoreFlags(x.columns, f.columns, ids)]
        v == FocusPane(w, ids, f.columns[f.focused].focused, f.focused)
    IN  IF f.active = {} THEN v ELSE FocusPane(v, ids, Only(f.active), v.focusedCol)

\* The k-th saved pane goes to the k-th in the registry: its tabs replace the one
\* the split made.  (A move looks for the id that this pane was just given.)
RestoredBodies(f) == [k \in DOMAIN f.panes |-> f.panes[k].body]

\* session_restore_for_instance and workspace_restore_from_payload_object, on the
\* workspace that workspace_add made: splits make as many panes as were saved.
Restored(f, n, kind) ==
    LET panes == [k \in DOMAIN f.panes |-> k]
        a == Assigned(f.panes, n, kind)
        x == IF kind = "restored" THEN RebuildColumns(f.columns, a.id)
             ELSE [panes |-> panes, columns |-> [k \in DOMAIN panes |-> NewColumn(k)]]
    IN  [ws |-> IF f.mode = "strip" THEN RestoreStrip(f, x, a.id)
                ELSE [mode |-> f.mode, panes |-> panes, tree |-> RestoreLayout(f.layout),
                      columns |-> <<>>, focusedCol |-> 0],
         id |-> a.id, n |-> a.n, body |-> RestoredBodies(f)]

SavedIds == Normalized(ws.panes, paneId, gen, "restored")
ExportedIds == Normalized(ws.panes, paneId, serial, "pane")

\* The next process, and an instance that has one pane so far: the panes it
\* makes use up the first serials.
AfterRestart == Restored(SaveSession(ws, SavedIds.id), 1, "restored")
AfterMove == Restored(Export(ws, ExportedIds.id), 2 + Len(ws.panes), "pane")

-----------------------------------------------------------------------------
(* The life of a workspace *)

PanesInit ==
    /\ \E m \in Modes :
          ws = [mode |-> m, panes |-> <<1>>, focusedCol |-> IF m = "strip" THEN 1 ELSE 0,
                tree |-> IF m = "classic" THEN [p \in {1} |-> At("overlay", <<>>)] ELSE <<>>,
                columns |-> IF m = "strip" THEN <<NewColumn(1)>> ELSE <<>>]
    /\ paneId = [p \in {1} |-> <<"pane", 1>>] /\ serial = 2 /\ gen = 1

FreeSlot(S) == Min(Pane \ S)

\* create_pane_notebook of pane q.
Create(q) ==
    /\ serial <= MaxSerial /\ Len(ws.panes) < MaxPanes
    /\ paneId' = [p \in DOMAIN paneId \cup {q} |-> IF p = q THEN <<"pane", serial>> ELSE paneId[p]]
    /\ serial' = serial + 1
    /\ UNCHANGED gen

\* workspace_split_pane_target
Split(p) ==
    LET q == FreeSlot(Registered(ws))
    IN  /\ ws.mode = "classic" /\ Create(q)
        /\ ws' = [ws EXCEPT !.tree = SplitLeaf(@, p, q), !.panes = Append(@, q)]

\* workspace_split_current_for_layout with p focused
SplitStrip(p, stacked) ==
    LET q == FreeSlot(Registered(ws))
        c == ColumnOf(ws.columns, p)
        after == InsertAt(ws.panes, IndexOf(ws.panes, p) + 1, q)
        i == IndexOf(ws.columns[c].panes, p) + 1
    IN  /\ ws.mode = "strip" /\ Create(q)
        /\ ws' = IF stacked
                 THEN [ws EXCEPT !.panes = after, !.focusedCol = c,
                                 !.columns[c].panes = InsertAt(@, i, q),
                                 !.columns[c].focused = i]
                 ELSE [ws EXCEPT !.panes = after, !.focusedCol = c + 1,
                                 !.columns = InsertAt(@, c + 1, NewColumn(q))]

Without(s, x) == RemoveAt(s, IndexOf(s, x))

Forget(p) ==
    /\ paneId' = [q \in DOMAIN paneId \ {p} |-> paneId[q]]
    /\ UNCHANGED <<serial, gen>>

\* workspace_close_pane
Close(p) ==
    /\ ws.mode = "classic" /\ Len(ws.panes) > 1 /\ Forget(p)
    /\ ws' = [ws EXCEPT !.tree = CloseLeaf(@, p), !.panes = Without(@, p)]

\* Closing pane i of a column leaves n: the next has the focus, else the last.
FocusLeft(i, n) == Min({i, n})

\* workspace_close_current_for_layout with p focused
CloseStrip(p) ==
    LET c == ColumnOf(ws.columns, p)
        col == ws.columns[c]
        list == Without(col.panes, p)
        f == FocusLeft(IndexOf(col.panes, p), Len(list))
    IN  /\ ws.mode = "strip" /\ Len(ws.panes) > 1 /\ Forget(p)
        /\ ws' = IF list # <<>>
                 THEN [ws EXCEPT !.panes = Without(@, p), !.focusedCol = c,
                                 !.columns[c] = [@ EXCEPT !.panes = list, !.focused = f]]
                 ELSE [ws EXCEPT !.panes = Without(@, p), !.columns = RemoveAt(@, c),
                                 !.focusedCol = Min({c, Len(ws.columns) - 1})]

\* workspace_set_active_pane
Focus(p) ==
    /\ ws.mode = "strip"
    /\ LET c == ColumnOf(ws.columns, p)
       IN  ws' = [ws EXCEPT !.focusedCol = c,
                            !.columns[c].focused = IndexOf(ws.columns[c].panes, p)]
    /\ UNCHANGED <<paneId, serial, gen>>

\* workspace_strip_toggle_maximize_column
Maximize ==
    /\ ws.mode = "strip"
    /\ ws' = [ws EXCEPT !.columns[ws.focusedCol].maximized = ~@,
                        !.columns[ws.focusedCol].half = FALSE]
    /\ UNCHANGED <<paneId, serial, gen>>

\* A save gives panes new ids while they run.
SavePanes ==
    LET x == SavedIds
    IN  /\ x.n <= MaxSerial + 1
        /\ paneId' = x.id /\ gen' = x.n
        /\ UNCHANGED <<ws, serial>>

Becomes(x) == ws' = x.ws /\ paneId' = x.id

Restart ==
    LET x == AfterRestart
    IN  /\ SavedIds.n <= MaxSerial + 1 /\ x.n <= MaxSerial + 1
        /\ Becomes(x)
        /\ gen' = x.n /\ serial' = Len(ws.panes) + 1

MoveOut ==
    LET x == AfterMove
    IN  /\ ExportedIds.n <= MaxSerial + 1 /\ x.n <= MaxSerial + 1
        /\ Becomes(x)
        /\ serial' = x.n /\ gen' = 1

PanesNext ==
    \/ \E p \in Registered(ws) :
          Split(p) \/ Close(p) \/ CloseStrip(p) \/ Focus(p)
          \/ \E stacked \in BOOLEAN : SplitStrip(p, stacked)
    \/ Maximize \/ SavePanes \/ Restart \/ MoveOut

PanesSpec == PanesInit /\ [][PanesNext]_panesVars

-----------------------------------------------------------------------------
(* What must hold *)

\* Whatever was split and closed before, and whatever the ids have become, a
\* restart and a move bring back every pane once, and the same splits.
\* (session.c: "Restore workspaces with full pane structure".)
PanesComeBack ==
    \A x \in {AfterRestart, AfterMove} :
        /\ x.ws.mode = ws.mode
        /\ ToSet(x.body) = Registered(ws) /\ Layout(x.ws) = Layout(ws)
        /\ IsInjective(x.ws.panes) /\ Len(x.ws.panes) = Len(ws.panes)
        /\ ws.mode = "strip" => Listed(x.ws) = Registered(x.ws)

Bodies(cols, bodies) ==
    [c \in DOMAIN cols |->
        [cols[c] EXCEPT !.panes = [k \in DOMAIN cols[c].panes |-> bodies[cols[c].panes[k]]]]]

\* As long as no two panes share an id, a restart brings back the columns of a
\* strip, their order, stacks, flags and focus.
StripComesBack ==
    ws.mode = "strip" /\ IsInjective(paneId) =>
        LET x == AfterRestart
        IN  Bodies(x.ws.columns, x.body) = ws.columns /\ x.ws.focusedCol = ws.focusedCol

ComesBack == PanesComeBack /\ StripComesBack

\* A pane is restored to the place it had in the tree.
InPlace ==
    \A p \in DOMAIN ws.tree, q \in DOMAIN AfterRestart.ws.tree :
        AfterRestart.body[q] = p => AfterRestart.ws.tree[q] = ws.tree[p]

=============================================================================
