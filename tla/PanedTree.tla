----------------------------- MODULE PanedTree -----------------------------
(***************************************************************************)
(* The GtkPaned trees that put the panes of a workspace on the screen.     *)
(*                                                                         *)
(* A tree is kept as a function `pl` from the panes on the screen to their *)
(* place: the root widget the pane hangs under (the child of the workspace *)
(* overlay, or one child of the strip's column_box) and the path of        *)
(* start/end children that leads from that root to the pane.  The inner    *)
(* GtkPaned nodes are the proper prefixes of the paths.                    *)
(***************************************************************************)
EXTENDS Naturals, Sequences, SequencesExt

Path == Seq({"s", "e"})

Place(Root) == [root : Root, path : Path]

At(root, path) == [root |-> root, path |-> path]

\* The panes under a root, and under a node of a root's tree.
InRoot(pl, r) == {x \in DOMAIN pl : pl[x].root = r}

Under(pl, r, path) ==
    {x \in InRoot(pl, r) : IsPrefix(path, pl[x].path)}

Other(side) == IF side = "s" THEN "e" ELSE "s"

SiblingPath(path) == Append(Front(path), Other(Last(path)))

\* The notebook that is the sibling of p in its GtkPaned, as a set: empty
\* when the sibling is itself a GtkPaned.
SiblingPanes(pl, p) ==
    IF pl[p].path = <<>> THEN {}
    ELSE {x \in InRoot(pl, pl[p].root) : pl[x].path = SiblingPath(pl[p].path)}

\* A GtkPaned takes p's place: p is its start child, q its end child.
SplitLeaf(pl, p, q) ==
    [x \in DOMAIN pl \cup {q} |->
        IF x = p THEN At(pl[p].root, Append(pl[p].path, "s"))
        ELSE IF x = q THEN At(pl[p].root, Append(pl[p].path, "e"))
        ELSE pl[x]]

\* Mutant of CloseLeaf: the sibling stays one level down.
CloseLeafInPlace(pl, p) == [x \in DOMAIN pl \ {p} |-> pl[x]]

\* p's GtkPaned is replaced by p's sibling: everything under the sibling
\* moves up one level.
CloseLeaf(pl, p) ==
    LET r  == pl[p].root
        up == Front(pl[p].path)
    IN  [x \in DOMAIN pl \ {p} |->
            IF x \in Under(pl, r, SiblingPath(pl[p].path))
            THEN At(r, up \o SubSeq(pl[x].path, Len(up) + 2, Len(pl[x].path)))
            ELSE pl[x]]

\* Where the left-deep chain over n panes puts the i-th one.
ChainPath(i, n) ==
    [k \in 1 .. (IF i = 1 THEN n - 1 ELSE n - i + 1) |->
        IF i # 1 /\ k = n - i + 1 THEN "e" ELSE "s"]

\* Whatever hung under r is dropped and the listed panes are chained there.
Chain(pl, r, list) ==
    [x \in (DOMAIN pl \ InRoot(pl, r)) \cup ToSet(list) |->
        IF x \in ToSet(list)
        THEN At(r, ChainPath(CHOOSE i \in DOMAIN list : list[i] = x, Len(list)))
        ELSE pl[x]]

\* a comes before b in a walk of the widgets under one root.
Before(a, b) ==
    \E i \in DOMAIN a \cap DOMAIN b :
        /\ SubSeq(a, 1, i - 1) = SubSeq(b, 1, i - 1)
        /\ a[i] = "s" /\ b[i] = "e"

(***************************************************************************)
(* Every inner node has two children and every leaf is one pane: the       *)
(* sibling of each proper prefix of a pane's path leads to some pane, and  *)
(* no pane sits at, or below, the place of another.                        *)
(***************************************************************************)
WellFormed(pl) ==
    \A x \in DOMAIN pl :
        /\ \A n \in 1 .. Len(pl[x].path) :
              Under(pl, pl[x].root, SiblingPath(SubSeq(pl[x].path, 1, n))) # {}
        /\ Under(pl, pl[x].root, pl[x].path) = {x}

=============================================================================
