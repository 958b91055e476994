----------------------- MODULE WorkspacePanes_proofs ------------------------
(***************************************************************************)
(* The operators of WorkspacePanes keep the workspace well formed (WsOK,    *)
(* for any set P of panes created so far), its widgets whole trees, one     *)
(* per column and in list order (Trees), and registry and screen in         *)
(* agreement (Agrees); hence its actions keep IInv and Screen, which give   *)
(* the properties. That a layout switch finds an order to sort its walk by  *)
(* is proved by counting, for each notebook, those that come before it: no  *)
(* induction over data is needed. Lists and trees have their lemmas in       *)
(* PanedTree_proofs.                                                        *)
(***************************************************************************)
EXTENDS WorkspacePanes, PanedTree_proofs

-----------------------------------------------------------------------------
(* Workspaces                                                              *)

ColumnSet(P) ==
    {col \in [root : P, panes : Seq(P), focused : Nat, maximized : BOOLEAN, half : BOOLEAN] :
       /\ col.focused \in 1 .. Len(col.panes)
       /\ ~(col.maximized /\ col.half)}

PlacesOK(pl, P) ==
    DOMAIN pl \subseteq P /\ pl \in [DOMAIN pl -> Place(P \cup {Overlay})]

Fields == {"mode", "panes", "active", "primary", "columns", "focusedCol", "box",
           "place", "zoomed", "hidden", "wrecked"}

Shape(w) == DOMAIN w = Fields /\ w = [f \in Fields |-> w[f]]

\* v is w but for the fields F.
Kept(v, w, F) == Shape(v) /\ \A f \in Fields \ F : v[f] = w[f]

WsOK(w, P) ==
    /\ Shape(w)
    /\ w.mode \in {"classic", "strip"}
    /\ w.panes \in Seq(P) /\ w.panes # <<>>
    /\ w.active \in P \cup {NoPane}
    /\ w.primary \in P \cup {NoPane}
    /\ w.columns \in Seq(ColumnSet(P))
    /\ w.focusedCol \in Nat
    /\ w.mode = "strip" => w.focusedCol \in 1 .. Len(w.columns)
    /\ w.box \in Seq(P \cup {Overlay})
    /\ PlacesOK(w.place, P)
    /\ w.zoomed \in BOOLEAN
    /\ w.hidden \in SUBSET P
    /\ w.wrecked \in SUBSET P

LEMMA IndexOfOK ==
  ASSUME NEW S, NEW s \in Seq(S), NEW x
  PROVE  /\ IndexOf(s, x) \in 0 .. Len(s)
         /\ IndexOf(s, x) # 0 <=> x \in ToSet(s)
         /\ x \in ToSet(s) => IndexOf(s, x) \in 1 .. Len(s) /\ s[IndexOf(s, x)] = x
BY DEF IndexOf, ToSet

LEMMA WithoutOK ==
  ASSUME NEW S, NEW s \in Seq(S), NEW x
  PROVE  /\ Without(s, x) \in Seq(S)
         /\ Len(Without(s, x)) >= Len(s) - 1
BY RemoveAtOK, IndexOfOK DEF Without

LEMMA ColumnFields ==
  ASSUME NEW P, NEW col \in ColumnSet(P)
  PROVE  /\ col.root \in P /\ col.panes \in Seq(P) /\ col.focused \in 1 .. Len(col.panes)
         /\ col.maximized \in BOOLEAN /\ col.half \in BOOLEAN
         /\ ~(col.maximized /\ col.half)
BY DEF ColumnSet

LEMMA FocusedOfOK ==
  ASSUME NEW P, NEW col \in ColumnSet(P)
  PROVE  FocusedOf(col) \in P /\ FocusedOf(col) = col.panes[col.focused]
BY ColumnFields DEF FocusedOf, Clamp

LEMMA ColumnOfOK ==
  ASSUME NEW S, NEW w, w.columns \in Seq(S), NEW p
  PROVE  ColumnOf(w, p) # 0 => /\ ColumnOf(w, p) \in 1 .. Len(w.columns)
                               /\ p \in ToSet(w.columns[ColumnOf(w, p)].panes)
<1>1. DOMAIN w.columns = 1 .. Len(w.columns)
  OBVIOUS
<1> DEFINE has(c) == p \in ToSet(w.columns[c].panes)
<1> SUFFICES ASSUME ColumnOf(w, p) # 0
             PROVE  ColumnOf(w, p) \in DOMAIN w.columns /\ has(ColumnOf(w, p))
  BY <1>1
<1>2. /\ \E c \in DOMAIN w.columns : has(c)
      /\ ColumnOf(w, p) = CHOOSE c \in DOMAIN w.columns : has(c)
  BY DEF ColumnOf, Listed
<1> HIDE DEF has
<1> QED
  BY <1>2

LEMMA ColumnSetAt ==
  ASSUME NEW P, NEW cols \in Seq(ColumnSet(P)), NEW c \in 1 .. Len(cols),
         NEW col \in ColumnSet(P)
  PROVE  /\ [cols EXCEPT ![c] = col] \in Seq(ColumnSet(P))
         /\ Len([cols EXCEPT ![c] = col]) = Len(cols)
         /\ [cols EXCEPT ![c] = col][c] = col
BY ExceptSeq

LEMMA NewColumnOK ==
  ASSUME NEW P, NEW p \in P
  PROVE  NewColumn(p) \in ColumnSet(P)
BY DEF NewColumn, ColumnSet

LEMMA SetActiveOK ==
  ASSUME NEW P, NEW w, WsOK(w, P), NEW p
  PROVE  /\ WsOK(SetActive(w, p), P)
         /\ SetActive(w, p).mode = w.mode
         /\ SetActive(w, p).panes = w.panes
         /\ SetActive(w, p).place = w.place
<1> DEFINE c == ColumnOf(w, p)
           v == SetActive(w, p)
<1>1. CASE p \notin Registered(w)
  BY <1>1 DEF SetActive
<1>2. CASE p \in Registered(w)
  <2>1. p \in P
    BY <1>2, ToSetOK DEF Registered, WsOK
  <2>2. CASE ~(w.mode = "strip" /\ c # 0)
    <3>1. v = [w EXCEPT !.active = p]
      BY <1>2, <2>2 DEF SetActive
    <3> HIDE DEF c, v
    <3>2. Kept(v, w, {"active"}) /\ v.active = p
      BY <3>1 DEF Kept, WsOK, Shape, Fields
    <3> QED
      BY <2>1, <3>2 DEF WsOK, Kept, Fields, v
  <2>3. CASE w.mode = "strip" /\ c # 0
    <3> DEFINE col == w.columns[c]
               k == IndexOf(col.panes, p)
               cols == [w.columns EXCEPT ![c] = [col EXCEPT !.focused = k]]
    <3>2. c \in 1 .. Len(w.columns) /\ p \in ToSet(col.panes) /\ col \in ColumnSet(P)
      BY <2>3, ColumnOfOK DEF WsOK
    <3>3. k \in 1 .. Len(col.panes)
      BY <3>2, IndexOfOK, ColumnFields
    <3>4. [col EXCEPT !.focused = k] \in ColumnSet(P)
      BY <3>2, <3>3 DEF ColumnSet
    <3>5. cols \in Seq(ColumnSet(P)) /\ Len(cols) = Len(w.columns)
      BY <3>2, <3>4, ColumnSetAt DEF WsOK
    <3>6. v = [w EXCEPT !.active = p, !.focusedCol = c, !.columns = cols]
      BY <1>2, <2>3, <3>2 DEF SetActive, WsOK
    <3> HIDE DEF c, cols, v
    <3>7. /\ Kept(v, w, {"active", "focusedCol", "columns"})
          /\ v.active = p /\ v.focusedCol = c /\ v.columns = cols
      BY <3>6 DEF Kept, WsOK, Shape, Fields
    <3>8. c \in Nat
      BY <3>2 DEF WsOK
    <3> QED
      BY <2>1, <3>2, <3>5, <3>7, <3>8 DEF WsOK, Kept, Fields, v
  <2> QED
    BY <2>2, <2>3
<1> QED
  BY <1>1, <1>2

LEMMA FocusColumnOK ==
  ASSUME NEW P, NEW w, WsOK(w, P), NEW c
  PROVE  /\ WsOK(FocusColumn(w, c), P)
         /\ FocusColumn(w, c).mode = w.mode
         /\ FocusColumn(w, c).panes = w.panes
         /\ FocusColumn(w, c).place = w.place
<1> DEFINE v == FocusColumn(w, c)
<1>1. CASE c \notin DOMAIN w.columns
  BY <1>1 DEF FocusColumn
<1>2. CASE c \in DOMAIN w.columns
  <2>1. c \in 1 .. Len(w.columns) /\ c \in Nat /\ w.columns[c] \in ColumnSet(P)
    BY <1>2 DEF WsOK
  <2>2. FocusedOf(w.columns[c]) \in P
    BY <2>1, FocusedOfOK
  <2>3. v = [w EXCEPT !.focusedCol = c, !.active = FocusedOf(w.columns[c])]
    BY <1>2 DEF FocusColumn
  <2> HIDE DEF v
  <2>4. /\ Kept(v, w, {"active", "focusedCol"})
        /\ v.active = FocusedOf(w.columns[c]) /\ v.focusedCol = c
    BY <2>3 DEF Kept, WsOK, Shape, Fields
  <2> QED
    BY <2>1, <2>2, <2>4 DEF WsOK, Kept, Fields, v
<1> QED
  BY <1>1, <1>2

-----------------------------------------------------------------------------
(* Lookups and zoom *)

LEMMA FocusedPaneOK ==
  ASSUME NEW P, NEW w, WsOK(w, P), NEW f
  PROVE  FocusedPane(w, f) \in P
<1>1. Registered(w) \subseteq P
  BY ToSetOK DEF Registered, WsOK
<1>2. w.panes[1] \in P
  BY DEF WsOK
<1>3. ColumnInRange(w) => FocusedOf(w.columns[w.focusedCol]) \in P
  <2>1. ColumnInRange(w) => w.columns[w.focusedCol] \in ColumnSet(P)
    BY DEF ColumnInRange, WsOK
  <2> QED
    BY <2>1, FocusedOfOK
<1> QED
  BY <1>1, <1>2, <1>3 DEF FocusedPane

LEMMA ActiveOK ==
  ASSUME NEW P, NEW w, WsOK(w, P), NEW a \in P \cup {NoPane}
  PROVE  /\ WsOK([w EXCEPT !.active = a], P)
         /\ [w EXCEPT !.active = a].mode = w.mode
         /\ [w EXCEPT !.active = a].panes = w.panes
         /\ [w EXCEPT !.active = a].place = w.place
<1> DEFINE v == [w EXCEPT !.active = a]
<1>1. Kept(v, w, {"active"}) /\ v.active = a
  BY DEF Kept, WsOK, Shape, Fields
<1> HIDE DEF v
<1>2. WsOK(v, P) /\ v.mode = w.mode /\ v.panes = w.panes /\ v.place = w.place
  BY <1>1 DEF WsOK, Kept, Fields
<1> QED
  BY <1>2 DEF v

LEMMA AfterLookupOK ==
  ASSUME NEW P, NEW w, WsOK(w, P), NEW f
  PROVE  /\ WsOK(AfterLookup(w, f), P)
         /\ AfterLookup(w, f).mode = w.mode
         /\ AfterLookup(w, f).panes = w.panes
         /\ AfterLookup(w, f).place = w.place
<1>1. ColumnInRange(w) => FocusedOf(w.columns[w.focusedCol]) \in P \cup {NoPane}
  <2>1. ColumnInRange(w) => w.columns[w.focusedCol] \in ColumnSet(P)
    BY DEF ColumnInRange, WsOK
  <2> QED
    BY <2>1, FocusedOfOK
<1> QED
  BY <1>1, SetActiveOK, ActiveOK DEF AfterLookup

\* A column of the focused column's place is replaced, and nothing else.
LEMMA ColumnsOK ==
  ASSUME NEW P, NEW w, WsOK(w, P), NEW cols \in Seq(ColumnSet(P)),
         Len(cols) = Len(w.columns)
  PROVE  /\ WsOK([w EXCEPT !.columns = cols], P)
         /\ [w EXCEPT !.columns = cols].mode = w.mode
         /\ [w EXCEPT !.columns = cols].panes = w.panes
         /\ [w EXCEPT !.columns = cols].place = w.place
<1> DEFINE v == [w EXCEPT !.columns = cols]
<1>1. Kept(v, w, {"columns"}) /\ v.columns = cols
  BY DEF Kept, WsOK, Shape, Fields
<1> HIDE DEF v
<1>2. WsOK(v, P) /\ v.mode = w.mode /\ v.panes = w.panes /\ v.place = w.place
  BY <1>1 DEF WsOK, Kept, Fields
<1> QED
  BY <1>2 DEF v

\* The focused pane of one column changes.
LEMMA ColumnFocusedOK ==
  ASSUME NEW P, NEW w, WsOK(w, P), NEW c \in 1 .. Len(w.columns),
         NEW k \in 1 .. Len(w.columns[c].panes)
  PROVE  LET v == [w EXCEPT !.columns[c].focused = k]
         IN  /\ WsOK(v, P) /\ v.mode = w.mode /\ v.panes = w.panes
             /\ v.place = w.place
<1> DEFINE col  == w.columns[c]
           cols == [w.columns EXCEPT ![c] = [col EXCEPT !.focused = k]]
<1>1. col \in ColumnSet(P)
  BY DEF WsOK
<1>2. [col EXCEPT !.focused = k] \in ColumnSet(P)
  BY <1>1 DEF ColumnSet
<1>3. cols \in Seq(ColumnSet(P)) /\ Len(cols) = Len(w.columns)
  BY <1>2, ColumnSetAt DEF WsOK
<1>4. [w EXCEPT !.columns[c].focused = k] = [w EXCEPT !.columns = cols]
  BY DEF WsOK
<1> HIDE DEF cols
<1> QED
  BY <1>3, <1>4, ColumnsOK

LEMMA ToggleMaximizeOK ==
  ASSUME NEW P, NEW w, WsOK(w, P)
  PROVE  /\ WsOK(ToggleMaximize(w), P)
         /\ ToggleMaximize(w).mode = w.mode
         /\ ToggleMaximize(w).panes = w.panes
         /\ ToggleMaximize(w).place = w.place
<1>1. CASE ~ColumnInRange(w)
  BY <1>1 DEF ToggleMaximize
<1>2. CASE ColumnInRange(w)
  <2> DEFINE c    == w.focusedCol
             col  == w.columns[c]
             new  == [col EXCEPT !.maximized = ~col.maximized, !.half = FALSE]
             cols == [w.columns EXCEPT ![c] = new]
  <2>1. c \in 1 .. Len(w.columns) /\ col \in ColumnSet(P)
    BY <1>2 DEF ColumnInRange, WsOK
  <2>2. new \in ColumnSet(P)
    BY <2>1 DEF ColumnSet
  <2>3. cols \in Seq(ColumnSet(P)) /\ Len(cols) = Len(w.columns)
    BY <2>1, <2>2, ColumnSetAt DEF WsOK
  <2>4. ToggleMaximize(w) = [w EXCEPT !.columns = cols]
    BY <1>2 DEF ToggleMaximize, WsOK
  <2> HIDE DEF cols
  <2> QED
    BY <2>3, <2>4, ColumnsOK
<1> QED
  BY <1>1, <1>2

LEMMA ToggleHalfOK ==
  ASSUME NEW P, NEW w, WsOK(w, P)
  PROVE  /\ WsOK(ToggleHalf(w), P)
         /\ ToggleHalf(w).mode = w.mode
         /\ ToggleHalf(w).panes = w.panes
         /\ ToggleHalf(w).place = w.place
<1>1. CASE w.mode = "classic" \/ ~ColumnInRange(w)
  BY <1>1 DEF ToggleHalf
<1>2. CASE ~(w.mode = "classic" \/ ~ColumnInRange(w))
  <2> DEFINE c    == w.focusedCol
             col  == w.columns[c]
             new  == [col EXCEPT !.half = ~col.half, !.maximized = FALSE]
             cols == [w.columns EXCEPT ![c] = new]
  <2>1. c \in 1 .. Len(w.columns) /\ col \in ColumnSet(P)
    BY <1>2 DEF ColumnInRange, WsOK
  <2>2. new \in ColumnSet(P)
    BY <2>1 DEF ColumnSet
  <2>3. cols \in Seq(ColumnSet(P)) /\ Len(cols) = Len(w.columns)
    BY <2>1, <2>2, ColumnSetAt DEF WsOK
  <2>4. ToggleHalf(w) = [w EXCEPT !.columns = cols]
    BY <1>2 DEF ToggleHalf, WsOK
  <2> HIDE DEF cols
  <2> QED
    BY <2>3, <2>4, ColumnsOK
<1> QED
  BY <1>1, <1>2

LEMMA ZoomedOK ==
  ASSUME NEW P, NEW w, WsOK(w, P), NEW z \in BOOLEAN, NEW h \in SUBSET P
  PROVE  /\ WsOK([w EXCEPT !.zoomed = z, !.hidden = h], P)
         /\ [w EXCEPT !.zoomed = z, !.hidden = h].mode = w.mode
         /\ [w EXCEPT !.zoomed = z, !.hidden = h].panes = w.panes
         /\ [w EXCEPT !.zoomed = z, !.hidden = h].place = w.place
<1> DEFINE v == [w EXCEPT !.zoomed = z, !.hidden = h]
<1>1. Kept(v, w, {"zoomed", "hidden"}) /\ v.zoomed = z /\ v.hidden = h
  BY DEF Kept, WsOK, Shape, Fields
<1> HIDE DEF v
<1>2. WsOK(v, P) /\ v.mode = w.mode /\ v.panes = w.panes /\ v.place = w.place
  BY <1>1 DEF WsOK, Kept, Fields
<1> QED
  BY <1>2 DEF v

LEMMA ZoomOntoOK ==
  ASSUME NEW P, NEW w, WsOK(w, P), NEW p
  PROVE  /\ WsOK(ZoomOnto(w, p), P) /\ ZoomOnto(w, p).mode = w.mode
         /\ ZoomOnto(w, p).place = w.place
<1> DEFINE sibs == {x \in OnScreen(w) :
                      \E n \in 1 .. Len(w.place[p].path) :
                         w.place[x].path = SiblingPath(SubSeq(w.place[p].path, 1, n))}
<1>1. sibs \subseteq P
  BY DEF OnScreen, WsOK, PlacesOK
<1>2. ZoomOnto(w, p) = [w EXCEPT !.zoomed = TRUE, !.hidden = (w.hidden \cup sibs) \ {p}]
  BY DEF ZoomOnto
<1> HIDE DEF sibs
<1>3. (w.hidden \cup sibs) \ {p} \in SUBSET P
  BY <1>1 DEF WsOK
<1> DEFINE v == ZoomOnto(w, p)
           h == (w.hidden \cup sibs) \ {p}
<1> HIDE DEF h
<1>4. v = [w EXCEPT !.zoomed = TRUE, !.hidden = h]
  BY <1>2 DEF h
<1> HIDE DEF v
<1>5. Kept(v, w, {"zoomed", "hidden"}) /\ v.zoomed = TRUE /\ v.hidden = h
  BY <1>4 DEF Kept, WsOK, Shape, Fields
<1>6. h \in SUBSET P
  BY <1>3 DEF h
<1>7. WsOK(v, P) /\ v.mode = w.mode /\ v.place = w.place
  BY <1>5, <1>6 DEF WsOK, Kept, Fields
<1> QED
  BY <1>7 DEF v

LEMMA ShowAllOK ==
  ASSUME NEW P, NEW w, WsOK(w, P)
  PROVE  /\ WsOK(ShowAll(w), P) /\ ShowAll(w).mode = w.mode
         /\ ShowAll(w).panes = w.panes /\ ShowAll(w).place = w.place
BY ZoomedOK, ZenonT(60) DEF ShowAll

LEMMA ToggleZoomOK ==
  ASSUME NEW P, NEW w, WsOK(w, P), NEW f
  PROVE  /\ WsOK(ToggleZoom(w, f), P) /\ ToggleZoom(w, f).mode = w.mode
         /\ ToggleZoom(w, f).place = w.place
<1>1. /\ WsOK(AfterLookup(w, f), P) /\ AfterLookup(w, f).mode = w.mode
      /\ AfterLookup(w, f).place = w.place
  BY AfterLookupOK
<1> QED
  BY <1>1, ToggleMaximizeOK, ShowAllOK, ZoomOntoOK DEF ToggleZoom

LEMMA UnzoomOK ==
  ASSUME NEW P, NEW w, WsOK(w, P)
  PROVE  /\ WsOK(Unzoom(w), P) /\ Unzoom(w).mode = w.mode
         /\ Unzoom(w).panes = w.panes /\ Unzoom(w).place = w.place
BY ToggleMaximizeOK, ShowAllOK DEF Unzoom

-----------------------------------------------------------------------------
(* The strip *)

LEMMA ResolveColOK ==
  ASSUME NEW P, NEW w, WsOK(w, P)
  PROVE  /\ ResolveCol(w) \in 0 .. Len(w.columns)
         /\ w.columns # <<>> => ResolveCol(w) \in 1 .. Len(w.columns)
<1>1. Len(w.columns) \in Nat /\ (w.columns # <<>> => Len(w.columns) > 0)
  BY DEF WsOK
<1>2. ColumnOf(w, w.active) # 0 => ColumnOf(w, w.active) \in 1 .. Len(w.columns)
  BY ColumnOfOK DEF WsOK
<1>3. ColumnInRange(w) => w.focusedCol \in 1 .. Len(w.columns)
  BY DEF ColumnInRange, WsOK
<1> QED
  BY <1>1, <1>2, <1>3 DEF ResolveCol

LEMMA ChainPlacesOK ==
  ASSUME NEW P, NEW pl, PlacesOK(pl, P), NEW r \in P, NEW list \in Seq(P)
  PROVE  PlacesOK(Chain(pl, r, list), P)
<1>1. ToSet(list) \subseteq P
  BY ToSetOK
<1>2. r \in P \cup {Overlay}
  OBVIOUS
<1> QED
  BY <1>1, <1>2, ChainOK DEF PlacesOK

LEMMA ClampOK ==
  ASSUME NEW n \in Int, NEW lo \in Int, NEW hi \in Int, lo <= hi
  PROVE  Clamp(n, lo, hi) \in lo .. hi
BY DEF Clamp

\* The columns, the box and the places change together.
LEMMA RearrangeOK ==
  ASSUME NEW P, NEW w, WsOK(w, P), NEW v, Kept(v, w, {"columns", "box", "place"}),
         v.columns \in Seq(ColumnSet(P)), Len(v.columns) >= Len(w.columns),
         v.box \in Seq(P \cup {Overlay}), PlacesOK(v.place, P)
  PROVE  WsOK(v, P) /\ v.mode = w.mode /\ v.panes = w.panes
<1>1. w.mode = "strip" => w.focusedCol \in 1 .. Len(v.columns)
  BY DEF WsOK
<1> QED
  BY <1>1 DEF WsOK, Kept, Fields

LEMMA InsertColumnOK ==
  ASSUME NEW P, NEW w, WsOK(w, P), NEW q \in P
  PROVE  /\ WsOK(InsertColumn(w, q), P)
         /\ InsertColumn(w, q).mode = w.mode
         /\ InsertColumn(w, q).panes = w.panes
<1> DEFINE at    == ResolveCol(w)
           after == IF at = 0 THEN 0 ELSE IndexOf(w.box, w.columns[at].root)
           cols  == InsertAt(w.columns, at + 1, NewColumn(q))
           box   == InsertAt(w.box, after + 1, q)
           pl    == Chain(w.place, q, <<q>>)
           w1    == [w EXCEPT !.columns = cols, !.box = box, !.place = pl]
<1>1. at \in 0 .. Len(w.columns) /\ at + 1 \in 1 .. Len(w.columns) + 1
  BY ResolveColOK DEF WsOK
<1>2. after \in 0 .. Len(w.box) /\ after + 1 \in 1 .. Len(w.box) + 1
  BY IndexOfOK DEF WsOK
<1>3. InsertColumn(w, q) = FocusColumn(w1, at + 1)
  BY DEF InsertColumn
<1> HIDE DEF at, after
<1>4. cols \in Seq(ColumnSet(P)) /\ Len(cols) = Len(w.columns) + 1
  BY <1>1, NewColumnOK, InsertAtOK DEF WsOK
<1>5. box \in Seq(P \cup {Overlay})
  <2>1. q \in P \cup {Overlay} /\ w.box \in Seq(P \cup {Overlay})
    BY DEF WsOK
  <2> QED
    BY <1>2, <2>1, InsertAtOK
<1>6. PlacesOK(pl, P)
  <2>1. <<q>> \in Seq(P)
    OBVIOUS
  <2> QED
    BY <2>1, ChainPlacesOK DEF WsOK
<1> HIDE DEF cols, box, pl
<1>7. Len(cols) >= Len(w.columns)
  BY <1>4 DEF WsOK
<1>8. w1 = [w EXCEPT !.columns = cols, !.box = box, !.place = pl]
  OBVIOUS
<1> HIDE DEF w1
<1>9. /\ Kept(w1, w, {"columns", "box", "place"})
      /\ w1.columns = cols /\ w1.box = box /\ w1.place = pl
  BY <1>8 DEF Kept, WsOK, Shape, Fields
<1>10. WsOK(w1, P) /\ w1.mode = w.mode /\ w1.panes = w.panes
  BY <1>4, <1>5, <1>6, <1>7, <1>9, RearrangeOK
<1> QED
  BY <1>3, <1>10, FocusColumnOK

LEMMA RechainOK ==
  ASSUME NEW P, NEW w, WsOK(w, P), NEW c \in 1 .. Len(w.columns),
         NEW list \in Seq(P), NEW f \in 1 .. Len(list)
  PROVE  LET v == Rechain(w, c, list, f)
         IN  /\ WsOK(v, P) /\ v.mode = w.mode /\ v.panes = w.panes
             /\ v.columns[c] \in ColumnSet(P)
<1> DEFINE col  == w.columns[c]
           new  == [col EXCEPT !.panes = list, !.focused = f]
           root == col.root
           cols == [w.columns EXCEPT ![c] = new]
           box  == Append(Without(w.box, root), root)
           pl   == Chain(w.place, root, list)
           v    == [w EXCEPT !.columns = cols, !.box = box, !.place = pl]
<1>1. col \in ColumnSet(P) /\ root \in P
  <2>1. col \in ColumnSet(P)
    BY DEF WsOK
  <2> QED
    BY <2>1, ColumnFields
<1>2. new \in ColumnSet(P)
  <2>1. new \in [root : P, panes : Seq(P), focused : Nat, maximized : BOOLEAN,
                 half : BOOLEAN]
    <3>1. f \in Nat
      OBVIOUS
    <3> QED
      BY <1>1, <3>1 DEF ColumnSet
  <2>2. /\ new.panes = list /\ new.focused = f
        /\ ~(new.maximized /\ new.half)
    BY <1>1 DEF ColumnSet
  <2> HIDE DEF new
  <2> QED
    BY <2>1, <2>2 DEF ColumnSet
<1>3. /\ cols \in Seq(ColumnSet(P)) /\ Len(cols) = Len(w.columns)
      /\ cols[c] \in ColumnSet(P)
  BY <1>2, ColumnSetAt DEF WsOK
<1>4. box \in Seq(P \cup {Overlay})
  <2>1. root \in P \cup {Overlay} /\ w.box \in Seq(P \cup {Overlay})
    BY <1>1 DEF WsOK
  <2>2. Without(w.box, root) \in Seq(P \cup {Overlay})
    BY <2>1, WithoutOK
  <2> QED
    BY <2>1, <2>2, AppendOK
<1>5. PlacesOK(pl, P)
  BY <1>1, ChainPlacesOK DEF WsOK
<1>6. Rechain(w, c, list, f) = v
  BY DEF Rechain, WsOK
<1>7. Len(cols) >= Len(w.columns)
  BY <1>3 DEF WsOK
<1> HIDE DEF cols, box, pl
<1>8. v = [w EXCEPT !.columns = cols, !.box = box, !.place = pl]
  OBVIOUS
<1> HIDE DEF v
<1>9. /\ Kept(v, w, {"columns", "box", "place"})
      /\ v.columns = cols /\ v.box = box /\ v.place = pl
  BY <1>8 DEF Kept, WsOK, Shape, Fields
<1>10. WsOK(v, P) /\ v.mode = w.mode /\ v.panes = w.panes
  BY <1>3, <1>4, <1>5, <1>7, <1>9, RearrangeOK
<1> QED
  BY <1>3, <1>6, <1>9, <1>10

LEMMA SplitInColumnOK ==
  ASSUME NEW P, NEW w, WsOK(w, P), w.mode = "strip", NEW q \in P
  PROVE  /\ WsOK(SplitInColumn(w, q), P)
         /\ SplitInColumn(w, q).mode = w.mode
         /\ SplitInColumn(w, q).panes = w.panes
<1> DEFINE c    == ResolveCol(w)
           col  == w.columns[c]
           i    == Clamp(col.focused + 1, 1, Len(col.panes) + 1)
           list == InsertAt(col.panes, i, q)
<1>1. c \in 1 .. Len(w.columns)
  BY ResolveColOK DEF WsOK
<1>2. col \in ColumnSet(P)
  BY <1>1 DEF WsOK
<1>3. col.panes \in Seq(P) /\ col.focused \in 1 .. Len(col.panes)
  BY <1>2, ColumnFields
<1> HIDE DEF c, col
<1>4. i \in 1 .. Len(col.panes) + 1
  <2> DEFINE n  == col.focused + 1
             hi == Len(col.panes) + 1
  <2>1. n \in Int /\ hi \in Int /\ 1 <= hi
    BY <1>3
  <2> HIDE DEF n, hi
  <2>2. Clamp(n, 1, hi) \in 1 .. hi
    BY <2>1, ClampOK
  <2> QED
    BY <2>2 DEF n, hi
<1>5. list \in Seq(P) /\ Len(list) = Len(col.panes) + 1
  BY <1>3, <1>4, InsertAtOK
<1>6. SplitInColumn(w, q) = Rechain(w, c, list, i)
  BY DEF SplitInColumn, c, col
<1> HIDE DEF i, list
<1>7. i \in 1 .. Len(list)
  BY <1>4, <1>5
<1> QED
  BY <1>1, <1>5, <1>6, <1>7, RechainOK

LEMMA RemoveFromColumnOK ==
  ASSUME NEW P, NEW w, WsOK(w, P), NEW p, ColumnOf(w, p) # 0,
         Len(w.columns[ColumnOf(w, p)].panes) > 1
  PROVE  /\ WsOK(RemoveFromColumn(w, p), P)
         /\ RemoveFromColumn(w, p).mode = w.mode
         /\ RemoveFromColumn(w, p).panes = w.panes
<1> DEFINE c    == ColumnOf(w, p)
           col  == w.columns[c]
           list == RemoveAt(col.panes, IndexOf(col.panes, p))
           f    == IF col.focused > Len(list) THEN Len(list) ELSE col.focused
           w2   == Rechain(w, c, list, f)
<1>1. c \in 1 .. Len(w.columns) /\ p \in ToSet(col.panes)
  BY ColumnOfOK DEF WsOK
<1>2. col \in ColumnSet(P)
  BY <1>1 DEF WsOK
<1>3. col.panes \in Seq(P) /\ col.focused \in 1 .. Len(col.panes)
  BY <1>2, ColumnFields
<1>4. list \in Seq(P) /\ Len(list) = Len(col.panes) - 1
  BY <1>1, <1>3, IndexOfOK, RemoveAtOK
<1> HIDE DEF list
<1>5. f \in 1 .. Len(list)
  BY <1>3, <1>4
<1>6. RemoveFromColumn(w, p) = [w2 EXCEPT !.active = FocusedOf(w2.columns[c])]
  BY DEF RemoveFromColumn, list
<1> HIDE DEF c, f
<1>7. /\ WsOK(w2, P) /\ w2.mode = w.mode /\ w2.panes = w.panes
      /\ w2.columns[c] \in ColumnSet(P)
  BY <1>1, <1>4, <1>5, RechainOK
<1>8. FocusedOf(w2.columns[c]) \in P \cup {NoPane}
  BY <1>7, FocusedOfOK
<1> HIDE DEF w2
<1> DEFINE a == FocusedOf(w2.columns[c])
           v == [w2 EXCEPT !.active = a]
<1>9. a \in P \cup {NoPane}
  BY <1>8
<1> HIDE DEF a
<1>10. WsOK(v, P) /\ v.mode = w2.mode /\ v.panes = w2.panes
  BY <1>7, <1>9, ActiveOK
<1>11. RemoveFromColumn(w, p) = v
  BY <1>6 DEF a
<1> HIDE DEF v
<1> QED
  BY <1>7, <1>10, <1>11

LEMMA RemoveActiveColumnOK ==
  ASSUME NEW P, NEW w, WsOK(w, P), Len(w.columns) > 1
  PROVE  /\ WsOK(RemoveActiveColumn(w), P)
         /\ RemoveActiveColumn(w).mode = w.mode
         /\ RemoveActiveColumn(w).panes = w.panes
<1> DEFINE c    == ResolveCol(w)
           root == w.columns[c].root
           cols == RemoveAt(w.columns, c)
           f    == IF c > Len(cols) THEN Len(cols) ELSE c
           box  == Without(w.box, root)
           pl   == Restrict(w.place, DOMAIN w.place \ InRoot(w.place, root))
           v    == RemoveActiveColumn(w)
<1>1. c \in 1 .. Len(w.columns)
  BY ResolveColOK DEF WsOK
<1>2. v = [w EXCEPT !.columns = cols, !.focusedCol = f, !.active = FocusedOf(cols[f]),
                    !.box = box, !.place = pl]
  BY DEF RemoveActiveColumn
<1>3. cols \in Seq(ColumnSet(P)) /\ Len(cols) = Len(w.columns) - 1
  BY <1>1, RemoveAtOK DEF WsOK
<1>4. f \in 1 .. Len(cols) /\ f \in Nat
  BY <1>1, <1>3 DEF WsOK
<1> HIDE DEF c, cols, f
<1>5. FocusedOf(cols[f]) \in P
  BY <1>3, <1>4, FocusedOfOK
<1>6. box \in Seq(P \cup {Overlay})
  BY WithoutOK DEF WsOK
<1>7. PlacesOK(pl, P)
  BY DEF WsOK, PlacesOK, Restrict
<1> HIDE DEF box, pl, v
<1>8. /\ Kept(v, w, {"columns", "focusedCol", "active", "box", "place"})
      /\ v.columns = cols /\ v.focusedCol = f /\ v.active = FocusedOf(cols[f])
      /\ v.box = box /\ v.place = pl
  BY <1>2 DEF Kept, WsOK, Shape, Fields
<1>9. WsOK(v, P) /\ v.mode = w.mode /\ v.panes = w.panes
  BY <1>3, <1>4, <1>5, <1>6, <1>7, <1>8 DEF WsOK, Kept, Fields
<1> QED
  BY <1>9 DEF v

-----------------------------------------------------------------------------
(* Splits and closes *)

LEMMA PanesOK ==
  ASSUME NEW P, NEW w, WsOK(w, P), NEW list \in Seq(P), list # <<>>
  PROVE  LET v == [w EXCEPT !.panes = list]
         IN  /\ WsOK(v, P) /\ v.mode = w.mode /\ v.panes = list
             /\ v.place = w.place
<1> DEFINE v == [w EXCEPT !.panes = list]
<1>1. Kept(v, w, {"panes"}) /\ v.panes = list
  BY DEF Kept, WsOK, Shape, Fields
<1> HIDE DEF v
<1>2. WsOK(v, P) /\ v.mode = w.mode /\ v.place = w.place
  BY <1>1 DEF WsOK, Kept, Fields
<1> QED
  BY <1>1, <1>2 DEF v

LEMMA SplitStripOK ==
  ASSUME NEW P, NEW w, WsOK(w, P), w.mode = "strip", NEW f, NEW o, NEW q \in P
  PROVE  WsOK(SplitStrip(w, f, o, q), P) /\ SplitStrip(w, f, o, q).mode = w.mode
<1> DEFINE p    == FocusedPane(w, f)
           k    == IndexOf(w.panes, p)
           w0   == AfterLookup(w, f)
           at   == IF k = 0 THEN Len(w0.panes) + 1 ELSE k + 1
           list == InsertAt(w0.panes, at, q)
           w1   == [w0 EXCEPT !.panes = list]
           w2   == IF o = "horizontal" THEN InsertColumn(w1, q)
                                       ELSE SplitInColumn(w1, q)
<1>1. SplitStrip(w, f, o, q) = SetActive(w2, q)
  BY DEF SplitStrip
<1>2. k \in 0 .. Len(w.panes)
  BY IndexOfOK DEF WsOK
<1>3. WsOK(w0, P) /\ w0.mode = w.mode /\ w0.panes = w.panes
  BY AfterLookupOK
<1> HIDE DEF k, w0
<1>4. w0.panes \in Seq(P) /\ at \in 1 .. Len(w0.panes) + 1
  BY <1>2, <1>3 DEF WsOK
<1> HIDE DEF at
<1>5. list \in Seq(P) /\ Len(list) = Len(w0.panes) + 1
  BY <1>4, InsertAtOK
<1> HIDE DEF list
<1>6. list # <<>>
  BY <1>4, <1>5
<1>7. WsOK(w1, P) /\ w1.mode = w0.mode
  BY <1>3, <1>5, <1>6, PanesOK
<1> HIDE DEF w1
<1>8. WsOK(w2, P) /\ w2.mode = w.mode
  BY <1>3, <1>7, InsertColumnOK, SplitInColumnOK
<1> HIDE DEF w2
<1> QED
  BY <1>1, <1>8, SetActiveOK

LEMMA SplitTargetOK ==
  ASSUME NEW P, NEW w, WsOK(w, P), NEW p, NEW q \in P
  PROVE  WsOK(SplitTarget(w, p, q), P) /\ SplitTarget(w, p, q).mode = w.mode
<1> DEFINE w0   == Unzoom(w)
           list == Append(w0.panes, q)
           w1   == [w0 EXCEPT !.panes = list]
           w2   == SetActive(w1, q)
<1>1. WsOK(w0, P) /\ w0.mode = w.mode /\ w0.place = w.place
  BY UnzoomOK
<1> HIDE DEF w0
<1>2. w0.panes \in Seq(P) /\ Len(w0.panes) \in Nat /\ Len(w0.panes) > 0
  BY <1>1 DEF WsOK
<1>3. list \in Seq(P) /\ Len(list) = Len(w0.panes) + 1 /\ list # <<>>
  BY <1>2, AppendOK
<1> HIDE DEF list
<1>4. WsOK(w1, P) /\ w1.mode = w.mode /\ w1.panes = list /\ w1.place = w.place
  BY <1>1, <1>3, PanesOK
<1> HIDE DEF w1
<1>5. WsOK(w2, P) /\ w2.mode = w.mode /\ w2.panes = list /\ w2.place = w.place
  BY <1>4, SetActiveOK
<1>6. CASE CanSplitAt(w, p)
  <2> DEFINE v == [w2 EXCEPT !.place = SplitLeaf(w2.place, p, q)]
  <2>1. SplitTarget(w, p, q) = SetActive(v, q)
    BY <1>6 DEF SplitTarget, w0, list, w1
  <2> HIDE DEF w2
  <2>2. PlacesOK(SplitLeaf(w2.place, p, q), P)
    <3>1. p \in DOMAIN w2.place
      BY <1>5, <1>6 DEF CanSplitAt, OnScreen
    <3>2. w2.place \in [DOMAIN w2.place -> Place(P \cup {Overlay})]
      BY <1>5 DEF WsOK, PlacesOK
    <3>3. SplitLeaf(w2.place, p, q) \in [DOMAIN w2.place \cup {q} -> Place(P \cup {Overlay})]
      BY <3>1, <3>2, SplitLeafOK
    <3>4. DOMAIN w2.place \cup {q} \subseteq P
      BY <1>5 DEF WsOK, PlacesOK
    <3> QED
      BY <3>3, <3>4 DEF PlacesOK
  <2>3. Kept(v, w2, {"place"}) /\ v.place = SplitLeaf(w2.place, p, q)
    BY <1>5 DEF Kept, WsOK, Shape, Fields
  <2> HIDE DEF v
  <2>4. WsOK(v, P) /\ v.mode = w.mode
    BY <1>5, <2>2, <2>3 DEF WsOK, Kept, Fields
  <2> QED
    BY <2>1, <2>4, SetActiveOK
<1>7. CASE ~CanSplitAt(w, p)
  <2> DEFINE l2 == Without(w2.panes, q)
  <2>1. SplitTarget(w, p, q) = [w2 EXCEPT !.panes = l2]
    BY <1>7 DEF SplitTarget, w0, list, w1
  <2> HIDE DEF w2
  <2>2. l2 \in Seq(P) /\ Len(l2) >= Len(list) - 1
    BY <1>3, <1>5, WithoutOK
  <2> HIDE DEF l2
  <2>3. l2 # <<>>
    BY <1>2, <1>3, <2>2
  <2> QED
    BY <1>5, <2>1, <2>2, <2>3, PanesOK
<1> QED
  BY <1>6, <1>7

LEMMA HeirOK ==
  ASSUME NEW P, NEW w, WsOK(w, P), NEW p
  PROVE  Heir(w, p) \in P \cup {NoPane}
<1>1. SiblingPanes(w.place, p) \subseteq P
  BY DEF SiblingPanes, InRoot, WsOK, PlacesOK
<1> QED
  BY <1>1 DEF Heir

LEMMA ClosePaneOK ==
  ASSUME NEW P, NEW w, WsOK(w, P), NEW p
  PROVE  WsOK(ClosePane(w, p), P) /\ ClosePane(w, p).mode = w.mode
<1>1. CASE Len(w.panes) <= 1
  BY <1>1 DEF ClosePane
<1>2. CASE ~(Len(w.panes) <= 1) /\ ~CanClose(w, p)
  BY <1>2, UnzoomOK DEF ClosePane
<1>3. CASE ~(Len(w.panes) <= 1) /\ CanClose(w, p)
  <2> DEFINE w1   == Unzoom(w)
             heir == Heir(w, p)
             left == Without(w.panes, p)
             prim == IF Len(w.place[p].path) = 1 /\ heir # NoPane THEN heir
                     ELSE w.primary
             pri2 == IF prim = p THEN left[1] ELSE prim
             act  == IF w1.active = p THEN heir ELSE w1.active
             hid  == w1.hidden \ {p}
             pl   == CloseLeaf(w1.place, p)
             v    == ClosePane(w, p)
  <2>1. v = [w1 EXCEPT !.place = pl, !.panes = left, !.primary = pri2,
                       !.active = act, !.hidden = hid]
    BY <1>3 DEF ClosePane
  <2>2. WsOK(w1, P) /\ w1.mode = w.mode /\ w1.place = w.place
    BY UnzoomOK
  <2> HIDE DEF w1
  <2>3. heir \in P \cup {NoPane}
    BY HeirOK
  <2> HIDE DEF heir
  <2>4. left \in Seq(P) /\ left # <<>> /\ left[1] \in P
    <3>1. left \in Seq(P) /\ Len(left) >= Len(w.panes) - 1
      BY WithoutOK DEF WsOK
    <3> HIDE DEF left
    <3>2. Len(left) >= 1
      BY <1>3, <3>1 DEF WsOK
    <3> QED
      BY <3>1, <3>2
  <2> HIDE DEF left
  <2>5. pri2 \in P \cup {NoPane}
    BY <2>3, <2>4 DEF WsOK
  <2>6. act \in P \cup {NoPane} /\ hid \in SUBSET P
    BY <2>2, <2>3 DEF WsOK
  <2>7. PlacesOK(pl, P)
    <3>1. p \in DOMAIN w1.place /\ w1.place[p].path # <<>>
      BY <1>3, <2>2 DEF CanClose, OnScreen
    <3>2. w1.place \in [DOMAIN w1.place -> Place(P \cup {Overlay})]
          /\ DOMAIN w1.place \subseteq P
      BY <2>2 DEF WsOK, PlacesOK
    <3>3. pl \in [DOMAIN w1.place \ {p} -> Place(P \cup {Overlay})]
      BY <3>1, <3>2, CloseLeafOK
    <3> HIDE DEF pl
    <3> QED
      BY <3>2, <3>3 DEF PlacesOK
  <2> HIDE DEF prim, pri2, act, hid, pl, v
  <2>8. /\ Kept(v, w1, {"place", "panes", "primary", "active", "hidden"})
        /\ v.place = pl /\ v.panes = left /\ v.primary = pri2 /\ v.active = act
        /\ v.hidden = hid
    BY <2>1, <2>2 DEF Kept, WsOK, Shape, Fields
  <2>9. WsOK(v, P) /\ v.mode = w.mode
    BY <2>2, <2>4, <2>5, <2>6, <2>7, <2>8 DEF WsOK, Kept, Fields
  <2> QED
    BY <2>9 DEF v
<1> QED
  BY <1>1, <1>2, <1>3

LEMMA UnregisterOK ==
  ASSUME NEW P, NEW w, WsOK(w, P), NEW p, NEW k \in 1 .. Len(w.panes),
         Len(w.panes) > 1
  PROVE  WsOK(Unregister(w, p, k), P) /\ Unregister(w, p, k).mode = w.mode
<1> DEFINE left == RemoveAt(w.panes, k)
           act  == IF w.active \in ToSet(left) THEN w.active
                   ELSE left[Clamp(k, 1, Len(left))]
           pri  == IF w.primary = p THEN left[1] ELSE w.primary
           hid  == w.hidden \ {p}
           v    == [w EXCEPT !.panes = left, !.active = act, !.primary = pri,
                             !.hidden = hid]
<1>1. Unregister(w, p, k) = SetActive(v, act)
  BY DEF Unregister
<1>2. left \in Seq(P) /\ Len(left) = Len(w.panes) - 1
  BY RemoveAtOK DEF WsOK
<1> HIDE DEF left
<1>3. Len(left) \in Nat /\ Len(left) >= 1 /\ left # <<>> /\ left[1] \in P
  BY <1>2 DEF WsOK
<1>4. act \in P
  <2>1. Clamp(k, 1, Len(left)) \in 1 .. Len(left)
    <3>1. k \in Nat /\ Len(left) \in Nat /\ 1 <= Len(left)
      BY <1>3 DEF WsOK
    <3> HIDE DEF act, pri, hid, v
    <3> QED
      BY <3>1 DEF Clamp
  <2>2. ToSet(left) \subseteq P
    BY <1>2, ToSetOK
  <2> QED
    BY <1>2, <2>1, <2>2
<1>5. pri \in P \cup {NoPane} /\ hid \in SUBSET P
  BY <1>3 DEF WsOK
<1> HIDE DEF act, pri, hid
<1>6. /\ Kept(v, w, {"panes", "active", "primary", "hidden"})
      /\ v.panes = left /\ v.active = act /\ v.primary = pri /\ v.hidden = hid
  BY DEF Kept, WsOK, Shape, Fields
<1> HIDE DEF v
<1>7. WsOK(v, P) /\ v.mode = w.mode
  BY <1>2, <1>3, <1>4, <1>5, <1>6 DEF WsOK, Kept, Fields
<1> QED
  BY <1>1, <1>7, SetActiveOK

LEMMA CloseCurrentOK ==
  ASSUME NEW P, NEW w, WsOK(w, P), NEW f
  PROVE  WsOK(CloseCurrent(w, f), P) /\ CloseCurrent(w, f).mode = w.mode
<1> DEFINE p  == FocusedPane(w, f)
           w1 == AfterLookup(w, f)
           c  == ColumnOf(w1, p)
           k  == IndexOf(w1.panes, p)
           fc == IF c # 0 THEN c ELSE w1.focusedCol
           w2 == [w1 EXCEPT !.focusedCol = fc]
           wr == w2.wrecked \cup {p}
           w3 == [w2 EXCEPT !.wrecked = wr]
<1>1. WsOK(w1, P) /\ w1.mode = w.mode /\ w1.panes = w.panes
  BY AfterLookupOK
<1>2. p \in P
  BY FocusedPaneOK
<1>d. CloseCurrent(w, f) =
        IF Len(w.panes) <= 1 THEN w
        ELSE IF k = 0 THEN w1
        ELSE IF c # 0 /\ Len(w1.columns[c].panes) > 1
             THEN Unregister(RemoveFromColumn(w2, p), p, k)
        ELSE IF Len(w1.columns) > 1
             THEN Unregister(RemoveActiveColumn(w2), p, k)
        ELSE w3
  BY DEF CloseCurrent
<1> HIDE DEF w1, p
<1>3. c # 0 => c \in 1 .. Len(w1.columns)
  BY <1>1, ColumnOfOK DEF WsOK
<1>4. k # 0 => k \in 1 .. Len(w.panes)
  BY <1>1, IndexOfOK DEF WsOK
<1>5. fc \in Nat /\ (w1.mode = "strip" => fc \in 1 .. Len(w1.columns))
  BY <1>1, <1>3 DEF WsOK
<1> HIDE DEF fc
<1>6. WsOK(w2, P) /\ w2.mode = w.mode /\ w2.panes = w.panes /\ w2.columns = w1.columns
  <2>1. Kept(w2, w1, {"focusedCol"}) /\ w2.focusedCol = fc
    BY <1>1 DEF Kept, WsOK, Shape, Fields
  <2> HIDE DEF w2
  <2> QED
    BY <1>1, <1>5, <2>1 DEF WsOK, Kept, Fields
<1> HIDE DEF w2
<1>7. WsOK(w3, P) /\ w3.mode = w.mode
  <2>1. wr \in SUBSET P
    BY <1>2, <1>6 DEF WsOK
  <2> HIDE DEF wr
  <2>2. Kept(w3, w2, {"wrecked"}) /\ w3.wrecked = wr
    BY <1>6 DEF Kept, WsOK, Shape, Fields
  <2> HIDE DEF w3
  <2> QED
    BY <1>6, <2>1, <2>2 DEF WsOK, Kept, Fields
<1> HIDE DEF w3
<1>8. ColumnOf(w2, p) = c
  BY <1>6 DEF ColumnOf, Listed
<1> HIDE DEF c, k
<1>9. CASE Len(w.panes) > 1 /\ k # 0 /\ c # 0 /\ Len(w1.columns[c].panes) > 1
  <2>1. /\ WsOK(RemoveFromColumn(w2, p), P)
        /\ RemoveFromColumn(w2, p).mode = w.mode
        /\ RemoveFromColumn(w2, p).panes = w.panes
    BY <1>6, <1>8, <1>9, RemoveFromColumnOK
  <2>2. WsOK(Unregister(RemoveFromColumn(w2, p), p, k), P)
        /\ Unregister(RemoveFromColumn(w2, p), p, k).mode = w.mode
    BY <1>4, <1>9, <2>1, UnregisterOK
  <2> QED
    BY <1>9, <1>d, <2>2
<1>10. CASE Len(w.panes) > 1 /\ k # 0 /\ Len(w1.columns) > 1
            /\ ~(c # 0 /\ Len(w1.columns[c].panes) > 1)
  <2>1. /\ WsOK(RemoveActiveColumn(w2), P)
        /\ RemoveActiveColumn(w2).mode = w.mode
        /\ RemoveActiveColumn(w2).panes = w.panes
    BY <1>6, <1>10, RemoveActiveColumnOK
  <2>2. WsOK(Unregister(RemoveActiveColumn(w2), p, k), P)
        /\ Unregister(RemoveActiveColumn(w2), p, k).mode = w.mode
    BY <1>4, <1>10, <2>1, UnregisterOK
  <2> QED
    BY <1>10, <1>d, <2>2
<1>11. Len(w.panes) \in Nat
  BY DEF WsOK
<1>12. CASE Len(w.panes) <= 1 \/ k = 0
  BY <1>1, <1>12, <1>d
<1>13. CASE ~(Len(w.panes) <= 1) /\ k # 0 /\ ~(Len(w1.columns) > 1)
            /\ ~(c # 0 /\ Len(w1.columns[c].panes) > 1)
  BY <1>7, <1>13, <1>d
<1> QED
  BY <1>9, <1>10, <1>11, <1>12, <1>13

LEMMA WsMono ==
  ASSUME NEW P, NEW Q, P \subseteq Q, NEW w, WsOK(w, P)
  PROVE  WsOK(w, Q)
<1>1. ColumnSet(P) \subseteq ColumnSet(Q)
  BY DEF ColumnSet
<1>2. Place(P \cup {Overlay}) \subseteq Place(Q \cup {Overlay})
  BY DEF Place
<1>3. PlacesOK(w.place, Q)
  BY <1>2 DEF PlacesOK, WsOK
<1>4. w.panes \in Seq(Q) /\ w.box \in Seq(Q \cup {Overlay})
  BY DEF WsOK
<1>5. w.columns \in Seq(ColumnSet(Q))
  <2>1. w.columns \in Seq(ColumnSet(P))
    BY DEF WsOK
  <2> HIDE DEF ColumnSet
  <2> QED
    BY <1>1, <2>1
<1> QED
  BY <1>3, <1>4, <1>5 DEF WsOK

-----------------------------------------------------------------------------
(* The inductive invariant.  Panes are named by next_pane_serial, so all    *)
(* that the state speaks of lies below it; and a page is in a notebook that *)
(* is on the screen, so a new pane starts with none.                        *)

Known == 1 .. nextPane - 1

IInv ==
    /\ nextPane \in 1 .. MaxPanes + 1
    /\ ws.mode \in Modes
    /\ WsOK(ws, Known)
    /\ tabs \in [Pane -> 0 .. MaxTabs]
    /\ \A p \in Pane : tabs[p] > 0 => p \in OnScreen(ws)
    /\ focus \in Known \cup {NoPane}
    /\ asked \in Known \cup {NoPane}
    /\ idle \in SUBSET Known

OneLayout == \A m, n \in Modes : m = n

LEMMA KnownPanes ==
  ASSUME IInv
  PROVE  /\ nextPane \in Nat /\ MaxPanes \in Nat /\ MaxTabs \in Nat /\ MaxTabs >= 1
         /\ Known \subseteq Pane /\ NoPane \notin Known
         /\ OnScreen(ws) \subseteq Known
         /\ Registered(ws) \subseteq Known
<1>1. nextPane \in Nat /\ MaxPanes \in Nat /\ MaxTabs \in Nat /\ MaxTabs >= 1
  BY PanesAssumption, TabsAssumption DEF IInv
<1>2. Known \subseteq Pane /\ NoPane \notin Known
  BY <1>1 DEF IInv, Known, Pane, NoPane
<1>3. OnScreen(ws) \subseteq Known
  BY DEF IInv, WsOK, PlacesOK, OnScreen
<1>4. Registered(ws) \subseteq Known
  BY ToSetOK DEF IInv, WsOK, Registered
<1> QED
  BY <1>1, <1>2, <1>3, <1>4

LEMMA InitOK ==
  ASSUME Init
  PROVE  IInv
<1>1. PICK mode \in Modes :
        ws = [mode |-> mode, panes |-> <<1>>, active |-> 1, primary |-> 1,
              columns |-> IF mode = "strip" THEN <<NewColumn(1)>> ELSE <<>>,
              focusedCol |-> IF mode = "strip" THEN 1 ELSE 0,
              box |-> <<IF mode = "strip" THEN 1 ELSE Overlay>>,
              place |-> [x \in {1} |-> At(IF mode = "strip" THEN 1 ELSE Overlay, <<>>)],
              zoomed |-> FALSE, hidden |-> {}, wrecked |-> {}]
  BY DEF Init
<1>2. nextPane = 2 /\ Known = {1} /\ nextPane \in 1 .. MaxPanes + 1 /\ 1 \in Pane
  BY PanesAssumption DEF Init, Known, Pane
<1> DEFINE root == IF mode = "strip" THEN 1 ELSE Overlay
<1>3. root \in {1} \cup {Overlay}
  OBVIOUS
<1>4. PlacesOK(ws.place, {1})
  <2>1. At(root, <<>>) \in Place({1} \cup {Overlay})
    <3>1. <<>> \in Path
      BY DEF Path
    <3> HIDE DEF root
    <3> QED
      BY <1>3, <3>1 DEF At, Place
  <2>2. ws.place = [x \in {1} |-> At(root, <<>>)]
    BY <1>1
  <2> QED
    BY <2>1, <2>2 DEF PlacesOK
<1>5. NewColumn(1) \in ColumnSet({1})
  BY NewColumnOK
<1>6. /\ ws.columns \in Seq(ColumnSet({1}))
      /\ ws.mode = "strip" => ws.focusedCol \in 1 .. Len(ws.columns)
      /\ ws.focusedCol \in Nat
  <2>1. CASE mode = "strip"
    <3>1. ws.columns = <<NewColumn(1)>> /\ ws.focusedCol = 1
      BY <1>1, <2>1
    <3> QED
      BY <1>5, <3>1
  <2>2. CASE mode # "strip"
    <3>1. ws.columns = <<>> /\ ws.focusedCol = 0 /\ ws.mode # "strip"
      BY <1>1, <2>2
    <3> QED
      BY <3>1
  <2> QED
    BY <2>1, <2>2
<1>7. Shape(ws)
  BY <1>1 DEF Shape, Fields
<1>8. /\ ws.mode = mode /\ ws.panes = <<1>> /\ ws.active = 1 /\ ws.primary = 1
      /\ ws.box = <<root>> /\ ws.zoomed = FALSE /\ ws.hidden = {} /\ ws.wrecked = {}
      /\ OnScreen(ws) = {1}
  BY <1>1 DEF OnScreen
<1>9. WsOK(ws, {1})
  <2>1. ws.box \in Seq({1} \cup {Overlay}) /\ ws.panes \in Seq({1}) /\ ws.panes # <<>>
    BY <1>3, <1>8
  <2>2. ws.mode \in {"classic", "strip"}
    BY <1>8, ModesAssumption
  <2> QED
    BY <1>4, <1>6, <1>7, <1>8, <2>1, <2>2 DEF WsOK
<1>10. /\ tabs \in [Pane -> 0 .. MaxTabs]
       /\ \A p \in Pane : tabs[p] > 0 => p \in OnScreen(ws)
  <2>1. tabs = [p \in Pane |-> IF p = 1 THEN 1 ELSE 0]
    BY DEF Init
  <2>2. 1 \in 0 .. MaxTabs /\ 0 \in 0 .. MaxTabs
    BY TabsAssumption
  <2> QED
    BY <1>8, <2>1, <2>2
<1>11. focus = 1 /\ asked = NoPane /\ idle = {}
  BY DEF Init
<1> QED
  BY <1>2, <1>8, <1>9, <1>10, <1>11 DEF IInv

\* What every handler that ends in Became has to show.
LEMMA BecameOK ==
  ASSUME IInv, NEW w, NEW t, NEW f, Became(w, t, f),
         nextPane' \in 1 .. MaxPanes + 1, WsOK(w, 1 .. nextPane' - 1), w.mode = ws.mode,
         \A x \in Pane : t[x] \in 0 .. MaxTabs,
         asked' \in (1 .. nextPane' - 1) \cup {NoPane},
         idle' \in SUBSET (1 .. nextPane' - 1)
  PROVE  IInv'
<1>1. ws' = w /\ tabs' = [x \in Pane |-> IF x \in OnScreen(w) THEN t[x] ELSE 0]
      /\ focus' = (IF f \in OnScreen(w) THEN f ELSE NoPane)
  BY DEF Became
<1>2. OnScreen(w) \subseteq 1 .. nextPane' - 1
  BY DEF WsOK, PlacesOK, OnScreen
<1>3. MaxTabs \in Nat
  BY KnownPanes
<1>4. tabs' \in [Pane -> 0 .. MaxTabs]
  BY <1>1, <1>3
<1>5. \A p \in Pane : tabs'[p] > 0 => p \in OnScreen(w)
  BY <1>1
<1>6. focus' \in (1 .. nextPane' - 1) \cup {NoPane}
  BY <1>1, <1>2
<1>7. ws.mode \in Modes
  BY DEF IInv
<1> QED
  BY <1>1, <1>4, <1>5, <1>6, <1>7 DEF IInv, Known, OnScreen

\* The commonest case: the tabs and the focus move, the registry does not grow.
LEMMA SettledOK ==
  ASSUME IInv, NEW w, NEW t, NEW f, Became(w, t, f), nextPane' = nextPane,
         WsOK(w, Known), w.mode = ws.mode,
         \A x \in Pane : t[x] \in 0 .. MaxTabs,
         asked' \in Known \cup {NoPane}, idle' \in SUBSET Known
  PROVE  IInv'
<1>1. nextPane' \in 1 .. MaxPanes + 1 /\ 1 .. nextPane' - 1 = Known
  BY DEF IInv, Known
<1> QED
  BY <1>1, BecameOK

LEMMA LessMore ==
  ASSUME IInv, NEW t, t \in [Pane -> 0 .. MaxTabs], NEW p \in Pane
  PROVE  /\ t[p] > 0 => Less(t, p) \in [Pane -> 0 .. MaxTabs]
         /\ t[p] < MaxTabs => More(t, p) \in [Pane -> 0 .. MaxTabs]
<1>1. MaxTabs \in Nat /\ t[p] \in Nat
  BY KnownPanes
<1>2. t[p] > 0 => t[p] - 1 \in 0 .. MaxTabs
  BY <1>1
<1>3. t[p] < MaxTabs => t[p] + 1 \in 0 .. MaxTabs
  BY <1>1
<1> QED
  BY <1>2, <1>3 DEF Less, More

LEMMA TabCounts ==
  ASSUME IInv
  PROVE  \A x \in Pane : tabs[x] \in 0 .. MaxTabs
BY DEF IInv

LEMMA IdlesOK ==
  ASSUME IInv, NEW w
  PROVE  /\ Disposed(w) \in SUBSET Known
         /\ asked # NoPane => Released(w) \in SUBSET Known
         /\ \A t : \A p \in Known : Emptied(w, t, p) \in SUBSET Known
<1>1. OnScreen(ws) \subseteq Known
  BY KnownPanes
<1>2. asked # NoPane => asked \in Known
  BY DEF IInv
<1> QED
  BY <1>1, <1>2 DEF Disposed, Released, Emptied

\* No page is in a pane that does not exist yet.
LEMMA NewPaneEmpty ==
  ASSUME IInv, nextPane \in Pane
  PROVE  \A x \in Pane : More(tabs, nextPane)[x] \in 0 .. MaxTabs
<1>1. nextPane \notin OnScreen(ws)
  BY KnownPanes DEF Known
<1>2. tabs \in [Pane -> 0 .. MaxTabs] /\ ~(tabs[nextPane] > 0)
  BY <1>1 DEF IInv
<1>3. tabs[nextPane] < MaxTabs
  BY <1>2, KnownPanes
<1> QED
  BY <1>2, <1>3, LessMore

-----------------------------------------------------------------------------
(* One lemma for each action. *)

LEMMA SplitCurrentOK ==
  ASSUME IInv, NEW o, SplitCurrent(o)
  PROVE  IInv'
<1> DEFINE q == nextPane
           Q == 1 .. nextPane' - 1
           w == IF ws.mode = "strip" THEN SplitStrip(ws, focus, o, q)
                ELSE SplitTarget(AfterLookup(ws, focus), FocusedPane(ws, focus), q)
<1>1. /\ q \in Pane /\ nextPane' = nextPane + 1 /\ Became(w, More(tabs, q), q)
      /\ asked' = asked /\ idle' = idle
  BY DEF SplitCurrent
<1>2. nextPane' \in 1 .. MaxPanes + 1 /\ Known \subseteq Q /\ q \in Q
  BY <1>1, KnownPanes DEF Known, Pane
<1>3. WsOK(ws, Q)
  BY <1>2, WsMono DEF IInv
<1>5. \A x \in Pane : More(tabs, q)[x] \in 0 .. MaxTabs
  BY <1>1, NewPaneEmpty
<1> HIDE DEF q, Q
<1>4. WsOK(w, Q) /\ w.mode = ws.mode
  <2>1. CASE ws.mode = "strip"
    BY <1>2, <1>3, <2>1, SplitStripOK
  <2>2. CASE ws.mode # "strip"
    <3>1. WsOK(AfterLookup(ws, focus), Q) /\ AfterLookup(ws, focus).mode = ws.mode
      BY <1>3, AfterLookupOK
    <3> QED
      BY <1>2, <2>2, <3>1, SplitTargetOK
  <2> QED
    BY <2>1, <2>2
<1> HIDE DEF w
<1>6. asked' \in Q \cup {NoPane} /\ idle' \in SUBSET Q
  BY <1>1, <1>2 DEF IInv
<1> QED
  BY <1>1, <1>2, <1>4, <1>5, <1>6, BecameOK DEF Q

LEMMA SplitPaneOK ==
  ASSUME IInv, NEW p, SplitPane(p)
  PROVE  IInv'
<1> DEFINE q == nextPane
           Q == 1 .. nextPane' - 1
           w == SplitTarget(ws, p, q)
           f == IF CanSplitAt(ws, p) THEN q ELSE focus
<1>1. /\ q \in Pane /\ nextPane' = nextPane + 1 /\ Became(w, More(tabs, q), f)
      /\ asked' = asked /\ idle' = idle
  BY DEF SplitPane
<1>2. nextPane' \in 1 .. MaxPanes + 1 /\ Known \subseteq Q /\ q \in Q
  BY <1>1, KnownPanes DEF Known, Pane
<1>3. WsOK(ws, Q)
  BY <1>2, WsMono DEF IInv
<1>5. \A x \in Pane : More(tabs, q)[x] \in 0 .. MaxTabs
  BY <1>1, NewPaneEmpty
<1> HIDE DEF q, Q
<1>4. WsOK(w, Q) /\ w.mode = ws.mode
  BY <1>2, <1>3, SplitTargetOK
<1> HIDE DEF w, f
<1>6. asked' \in Q \cup {NoPane} /\ idle' \in SUBSET Q
  BY <1>1, <1>2 DEF IInv
<1> QED
  BY <1>1, <1>2, <1>4, <1>5, <1>6, BecameOK DEF Q

\* A handler that changes the workspace and leaves tabs and focus to Became.
LEMMA WorkspaceOnlyOK ==
  ASSUME IInv, NEW w, ws' = w, WsOK(w, Known), w.mode = ws.mode,
         w.place = ws.place, UNCHANGED <<tabs, nextPane, idle>>,
         focus' \in Known \cup {NoPane}, asked' \in Known \cup {NoPane}
  PROVE  IInv'
BY DEF IInv, Known, OnScreen

LEMMA RequestCloseOK ==
  ASSUME IInv, RequestClose
  PROVE  IInv'
<1> DEFINE w == AfterLookup(ws, focus)
<1>1. /\ ws' = w /\ asked' = FocusedPane(ws, focus) /\ focus' = focus
      /\ UNCHANGED <<tabs, nextPane, idle>>
  BY DEF RequestClose
<1>2. WsOK(ws, Known) /\ focus \in Known \cup {NoPane}
  BY DEF IInv
<1>3. WsOK(w, Known) /\ w.mode = ws.mode /\ w.place = ws.place
  BY <1>2, AfterLookupOK
<1>4. asked' \in Known
  BY <1>1, <1>2, FocusedPaneOK
<1> HIDE DEF w
<1> QED
  BY <1>1, <1>2, <1>3, <1>4, WorkspaceOnlyOK

LEMMA ConfirmCloseOK ==
  ASSUME IInv, ConfirmClose
  PROVE  IInv'
<1>1. WsOK(ws, Known) /\ asked # NoPane /\ asked' = NoPane /\ nextPane' = nextPane
      /\ idle \in SUBSET Known
  BY DEF IInv, ConfirmClose
<1>2. CASE ws.mode = "classic"
  <2> DEFINE w == ClosePane(ws, asked)
             f == HeirFocus(asked, focus)
  <2>1. Became(w, tabs, f) /\ \E late \in SUBSET Released(w) : idle' = idle \cup late
    BY <1>2 DEF ConfirmClose
  <2>2. WsOK(w, Known) /\ w.mode = ws.mode
    BY <1>1, ClosePaneOK
  <2> HIDE DEF w, f
  <2>3. idle' \in SUBSET Known
    BY <1>1, <2>1, IdlesOK
  <2> QED
    BY <1>1, <2>1, <2>2, <2>3, SettledOK, TabCounts
<1>3. CASE ws.mode # "classic"
  <2> DEFINE w1 == SetActive(ws, asked)
             f1 == IF asked \in Registered(ws) THEN Grab(asked, focus) ELSE focus
             w  == CloseCurrent(w1, f1)
             f  == Grab(w.active, f1)
  <2>1. Became(w, tabs, f)
        /\ \E late \in SUBSET Released(ws) :
              idle' = (idle \ (Registered(ws) \ Registered(w))) \cup late
    BY <1>3 DEF ConfirmClose
  <2>2. WsOK(w1, Known) /\ w1.mode = ws.mode
    BY <1>1, SetActiveOK
  <2> HIDE DEF w1, f1
  <2>3. WsOK(w, Known) /\ w.mode = ws.mode
    BY <2>2, CloseCurrentOK
  <2> HIDE DEF w, f
  <2>4. idle' \in SUBSET Known
    BY <1>1, <2>1, IdlesOK
  <2> QED
    BY <1>1, <2>1, <2>3, <2>4, SettledOK, TabCounts
<1> QED
  BY <1>2, <1>3

LEMMA CancelCloseOK ==
  ASSUME IInv, CancelClose
  PROVE  IInv'
<1>1. /\ asked # NoPane /\ asked' = NoPane
      /\ \E late \in SUBSET Released(ws) : idle' = idle \cup late
      /\ UNCHANGED <<ws, tabs, focus, nextPane>>
  BY DEF CancelClose
<1>2. idle' \in SUBSET Known
  BY <1>1, IdlesOK DEF IInv
<1> QED
  BY <1>1, <1>2 DEF IInv, Known, OnScreen

LEMMA CloseCurrentNowOK ==
  ASSUME IInv, CloseCurrentNow
  PROVE  IInv'
<1> DEFINE w == CloseCurrent(ws, focus)
           f == Grab(w.active, focus)
<1>1. /\ Became(w, tabs, f) /\ idle' = idle \ (Registered(ws) \ Registered(w))
      /\ asked' = asked /\ nextPane' = nextPane
  BY DEF CloseCurrentNow
<1>2. WsOK(ws, Known) /\ idle \in SUBSET Known /\ asked \in Known \cup {NoPane}
  BY DEF IInv
<1>3. WsOK(w, Known) /\ w.mode = ws.mode
  BY <1>2, CloseCurrentOK
<1> HIDE DEF w, f
<1> QED
  BY <1>1, <1>2, <1>3, SettledOK, TabCounts

LEMMA ClosePaneCommandOK ==
  ASSUME IInv, NEW p, ClosePaneCommand(p)
  PROVE  IInv'
<1> DEFINE w == ClosePane(ws, p)
           f == HeirFocus(p, focus)
<1>1. /\ Became(w, tabs, f) /\ idle' = idle \cup Disposed(w)
      /\ asked' = asked /\ nextPane' = nextPane
  BY DEF ClosePaneCommand
<1>2. WsOK(ws, Known) /\ idle \in SUBSET Known /\ asked \in Known \cup {NoPane}
  BY DEF IInv
<1>3. WsOK(w, Known) /\ w.mode = ws.mode
  BY <1>2, ClosePaneOK
<1> HIDE DEF w, f
<1>4. idle' \in SUBSET Known
  BY <1>1, <1>2, IdlesOK
<1> QED
  BY <1>1, <1>2, <1>3, <1>4, SettledOK, TabCounts

LEMMA CloseTabOK ==
  ASSUME IInv, NEW p \in Pane, CloseTab(p)
  PROVE  IInv'
<1> DEFINE t == Less(tabs, p)
<1>1. /\ p \in Registered(ws) /\ tabs[p] > 0
      /\ idle' = idle \cup Emptied(ws, t, p) /\ asked' = asked /\ nextPane' = nextPane
  BY DEF CloseTab
<1>2. \/ Became(ClosePane(ws, p), t, HeirFocus(p, NoPane))
      \/ Became(ws, t, focus)
      \/ Became(SetActive(ws, p), t, p)
  BY DEF CloseTab
<1>3. WsOK(ws, Known) /\ tabs \in [Pane -> 0 .. MaxTabs]
  BY DEF IInv
<1>4. \A x \in Pane : t[x] \in 0 .. MaxTabs
  BY <1>1, <1>3, LessMore
<1>5. idle' \in SUBSET Known /\ asked' \in Known \cup {NoPane}
  BY <1>1, IdlesOK, KnownPanes DEF IInv
<1>6. WsOK(ClosePane(ws, p), Known) /\ ClosePane(ws, p).mode = ws.mode
  BY <1>3, ClosePaneOK
<1>7. WsOK(SetActive(ws, p), Known) /\ SetActive(ws, p).mode = ws.mode
  BY <1>3, SetActiveOK
<1> HIDE DEF t
<1> QED
  BY <1>1, <1>2, <1>3, <1>4, <1>5, <1>6, <1>7, SettledOK

LEMMA IdleCloseOK ==
  ASSUME IInv, NEW p, IdleClose(p)
  PROVE  IInv'
<1>1. /\ idle' = idle \ {p} /\ asked' = asked /\ nextPane' = nextPane
      /\ \/ Became(ClosePane(ws, p), tabs, HeirFocus(p, focus))
         \/ UNCHANGED <<ws, tabs, focus>>
  BY DEF IdleClose
<1>2. /\ WsOK(ws, Known) /\ idle' \in SUBSET Known /\ asked' \in Known \cup {NoPane}
  BY <1>1 DEF IInv
<1>3. WsOK(ClosePane(ws, p), Known) /\ ClosePane(ws, p).mode = ws.mode
  BY <1>2, ClosePaneOK
<1>4. CASE Became(ClosePane(ws, p), tabs, HeirFocus(p, focus))
  BY <1>1, <1>2, <1>3, <1>4, SettledOK, TabCounts
<1>5. CASE UNCHANGED <<ws, tabs, focus>>
  BY <1>1, <1>2, <1>5 DEF IInv, Known, OnScreen
<1> QED
  BY <1>1, <1>4, <1>5

LEMMA MoveTabOK ==
  ASSUME IInv, NEW p \in Pane, NEW q \in Pane, MoveTab(p, q)
  PROVE  IInv'
<1> DEFINE t == Less(tabs, p)
           w == IF t[p] = 0 THEN ClosePane(ws, p) ELSE ws
           v == SetActive(w, q)
           t2 == More(t, q)
<1>1. /\ p \in Registered(ws) /\ p # q /\ tabs[p] > 0 /\ tabs[q] < MaxTabs
      /\ Became(v, t2, q) /\ idle' = idle \cup Emptied(ws, t, p)
      /\ asked' = asked /\ nextPane' = nextPane
  BY DEF MoveTab
<1>2. WsOK(ws, Known) /\ tabs \in [Pane -> 0 .. MaxTabs]
  BY DEF IInv
<1>3. idle' \in SUBSET Known /\ asked' \in Known \cup {NoPane}
  BY <1>1, IdlesOK, KnownPanes DEF IInv
<1>4. t \in [Pane -> 0 .. MaxTabs] /\ t[q] = tabs[q]
  BY <1>1, <1>2, LessMore DEF Less
<1> HIDE DEF t
<1>5. \A x \in Pane : t2[x] \in 0 .. MaxTabs
  BY <1>1, <1>4, LessMore
<1>6. WsOK(w, Known) /\ w.mode = ws.mode
  BY <1>2, ClosePaneOK
<1> HIDE DEF w, t2
<1>7. WsOK(v, Known) /\ v.mode = ws.mode
  BY <1>6, SetActiveOK
<1> HIDE DEF v
<1> QED
  BY <1>1, <1>3, <1>5, <1>7, SettledOK

LEMMA MoveTabOutOK ==
  ASSUME IInv, NEW p \in Pane, MoveTabOut(p)
  PROVE  IInv'
<1> DEFINE t == Less(tabs, p)
           w == IF t[p] = 0 THEN ClosePane(ws, p) ELSE ws
<1>1. /\ p \in Registered(ws) /\ tabs[p] > 0
      /\ Became(w, t, NoPane) /\ idle' = idle \cup Emptied(ws, t, p)
      /\ asked' = asked /\ nextPane' = nextPane
  BY DEF MoveTabOut
<1>2. WsOK(ws, Known) /\ tabs \in [Pane -> 0 .. MaxTabs]
  BY DEF IInv
<1>3. idle' \in SUBSET Known /\ asked' \in Known \cup {NoPane}
  BY <1>1, IdlesOK, KnownPanes DEF IInv
<1>4. \A x \in Pane : t[x] \in 0 .. MaxTabs
  BY <1>1, <1>2, LessMore
<1> HIDE DEF t
<1>5. WsOK(w, Known) /\ w.mode = ws.mode
  BY <1>2, ClosePaneOK
<1> HIDE DEF w
<1> QED
  BY <1>1, <1>3, <1>4, <1>5, SettledOK

LEMMA DragTabOK ==
  ASSUME IInv, NEW p \in Pane, NEW q \in Pane, DragTab(p, q)
  PROVE  IInv'
<1> DEFINE t == Less(tabs, p)
           v == SetActive(ws, q)
           t2 == More(t, q)
<1>1. /\ p \in Registered(ws) /\ p # q /\ tabs[p] > 0 /\ tabs[q] < MaxTabs
      /\ Became(v, t2, q) /\ idle' = idle \cup Emptied(ws, t, p)
      /\ asked' = asked /\ nextPane' = nextPane
  BY DEF DragTab
<1>2. WsOK(ws, Known) /\ tabs \in [Pane -> 0 .. MaxTabs]
  BY DEF IInv
<1>3. idle' \in SUBSET Known /\ asked' \in Known \cup {NoPane}
  BY <1>1, IdlesOK, KnownPanes DEF IInv
<1>4. t \in [Pane -> 0 .. MaxTabs] /\ t[q] = tabs[q]
  BY <1>1, <1>2, LessMore DEF Less
<1> HIDE DEF t
<1>5. \A x \in Pane : t2[x] \in 0 .. MaxTabs
  BY <1>1, <1>4, LessMore
<1>6. WsOK(v, Known) /\ v.mode = ws.mode
  BY <1>2, SetActiveOK
<1> HIDE DEF v, t2
<1> QED
  BY <1>1, <1>3, <1>5, <1>6, SettledOK

LEMMA AddTabOK ==
  ASSUME IInv, NEW q \in Pane, AddTab(q)
  PROVE  IInv'
<1> DEFINE v == SetActive(ws, q)
           t == More(tabs, q)
<1>1. /\ tabs[q] < MaxTabs /\ Became(v, t, q)
      /\ asked' = asked /\ idle' = idle /\ nextPane' = nextPane
  BY DEF AddTab
<1>2. /\ WsOK(ws, Known) /\ tabs \in [Pane -> 0 .. MaxTabs]
      /\ idle' \in SUBSET Known /\ asked' \in Known \cup {NoPane}
  BY <1>1 DEF IInv
<1>3. \A x \in Pane : t[x] \in 0 .. MaxTabs
  BY <1>1, <1>2, LessMore
<1>4. WsOK(v, Known) /\ v.mode = ws.mode
  BY <1>2, SetActiveOK
<1> HIDE DEF v, t
<1> QED
  BY <1>1, <1>2, <1>3, <1>4, SettledOK

\* The handlers that make a pane the active one and do no more.
LEMMA ActivatedOK ==
  ASSUME IInv, NEW w, WsOK(w, Known), w.mode = ws.mode, NEW p, NEW f,
         Became(SetActive(w, p), tabs, f), UNCHANGED <<asked, idle, nextPane>>
  PROVE  IInv'
<1> DEFINE v == SetActive(w, p)
<1>1. /\ idle' \in SUBSET Known /\ asked' \in Known \cup {NoPane}
      /\ nextPane' = nextPane /\ Became(v, tabs, f)
  BY DEF IInv
<1>2. WsOK(v, Known) /\ v.mode = ws.mode
  BY SetActiveOK
<1> HIDE DEF v
<1> QED
  BY <1>1, <1>2, SettledOK, TabCounts

LEMMA SelectOK ==
  ASSUME IInv, NEW p, SelectTab(p) \/ FocusPane(p)
  PROVE  IInv'
<1>1. WsOK(ws, Known)
  BY DEF IInv
<1>2. CASE SelectTab(p)
  BY <1>1, <1>2, ActivatedOK DEF SelectTab
<1>3. CASE FocusPane(p)
  BY <1>1, <1>3, ActivatedOK DEF FocusPane
<1> QED
  BY <1>2, <1>3

LEMMA NavigateOK ==
  ASSUME IInv, NEW q, Navigate(q)
  PROVE  IInv'
<1> DEFINE w == AfterLookup(ws, focus)
           f == Grab(q, focus)
<1>1. Became(SetActive(w, q), tabs, f) /\ UNCHANGED <<asked, idle, nextPane>>
  BY DEF Navigate
<1>2. WsOK(w, Known) /\ w.mode = ws.mode
  BY AfterLookupOK DEF IInv
<1> HIDE DEF w, f
<1> QED
  BY <1>1, <1>2, ActivatedOK

LEMMA StepColumnOK ==
  ASSUME IInv, NEW c, StepColumn(c)
  PROVE  IInv'
<1> DEFINE w == FocusColumn(ws, c)
           f == Grab(w.active, focus)
<1>1. Became(SetActive(w, w.active), tabs, f) /\ UNCHANGED <<asked, idle, nextPane>>
  BY DEF StepColumn, FocusedCol
<1>2. WsOK(w, Known) /\ w.mode = ws.mode
  BY FocusColumnOK DEF IInv
<1> HIDE DEF w, f
<1> QED
  BY <1>1, <1>2, ActivatedOK

LEMMA StepPaneOK ==
  ASSUME IInv, StepPane
  PROVE  IInv'
<1> DEFINE col == ws.columns[ws.focusedCol]
<1>1. PICK i \in DOMAIN col.panes :
        Became(SetActive([ws EXCEPT !.columns[ws.focusedCol].focused = i], col.panes[i]),
               tabs, Grab(col.panes[i], focus))
  BY DEF StepPane
<1>2. ws.focusedCol \in DOMAIN ws.columns /\ UNCHANGED <<asked, idle, nextPane>>
  BY DEF StepPane, ColumnInRange
<1>3. WsOK(ws, Known) /\ ws.columns \in Seq(ColumnSet(Known))
  BY DEF IInv, WsOK
<1>4. ws.focusedCol \in 1 .. Len(ws.columns)
  BY <1>2, <1>3
<1>5. i \in 1 .. Len(col.panes)
  <2>1. col \in ColumnSet(Known)
    BY <1>3, <1>4
  <2> HIDE DEF col
  <2> QED
    BY <1>1, <2>1, ColumnFields
<1> DEFINE w == [ws EXCEPT !.columns[ws.focusedCol].focused = i]
           p == col.panes[i]
           f == Grab(p, focus)
<1>6. WsOK(w, Known) /\ w.mode = ws.mode
  BY <1>3, <1>4, <1>5, ColumnFocusedOK, SMTT(30)
<1>7. Became(SetActive(w, p), tabs, f)
  BY <1>1
<1> HIDE DEF w, p, f
<1> QED
  BY <1>2, <1>6, <1>7, ActivatedOK

LEMMA PointAtOK ==
  ASSUME IInv, NEW p, PointAt(p)
  PROVE  IInv'
<1> DEFINE w == SetActive(ws, p)
<1>1. ws' = w /\ UNCHANGED <<tabs, focus, asked, idle, nextPane>>
  BY DEF PointAt
<1>2. WsOK(w, Known) /\ w.mode = ws.mode /\ w.place = ws.place
  BY SetActiveOK DEF IInv
<1> HIDE DEF w
<1> QED
  BY <1>1, <1>2, WorkspaceOnlyOK DEF IInv

LEMMA FocusEnterOK ==
  ASSUME IInv, NEW p, FocusEnter(p)
  PROVE  IInv'
<1> DEFINE c == ColumnOf(ws, p)
           k == IndexOf(ws.columns[c].panes, p)
           v == [ws EXCEPT !.columns[c].focused = k]
           w == IF c = 0 THEN ws ELSE FocusColumn(v, c)
<1>1. ws' = w /\ focus' = p /\ p \in OnScreen(ws) /\ UNCHANGED <<tabs, asked, idle, nextPane>>
  BY DEF FocusEnter
<1>2. WsOK(ws, Known) /\ ws.columns \in Seq(ColumnSet(Known))
  BY DEF IInv, WsOK
<1>3. WsOK(w, Known) /\ w.mode = ws.mode /\ w.place = ws.place
  <2>1. CASE c = 0
    BY <1>2, <2>1
  <2>2. CASE c # 0
    <3>1. c \in 1 .. Len(ws.columns) /\ p \in ToSet(ws.columns[c].panes)
      BY <1>2, <2>2, ColumnOfOK
    <3>2. k \in 1 .. Len(ws.columns[c].panes)
      <4>1. ws.columns[c] \in ColumnSet(Known)
        BY <1>2, <3>1
      <4>2. ws.columns[c].panes \in Seq(Known)
        BY <4>1, ColumnFields
      <4> QED
        BY <3>1, <4>2, IndexOfOK
    <3> HIDE DEF c, k
    <3>3. WsOK(v, Known) /\ v.mode = ws.mode /\ v.place = ws.place
      BY <1>2, <3>1, <3>2, ColumnFocusedOK
    <3> HIDE DEF v
    <3> QED
      BY <2>2, <3>3, FocusColumnOK
  <2> QED
    BY <2>1, <2>2
<1> HIDE DEF w
<1>4. focus' \in Known
  BY <1>1, KnownPanes
<1> QED
  BY <1>1, <1>3, <1>4, WorkspaceOnlyOK DEF IInv

LEMMA MoveFocusOK ==
  ASSUME IInv, NEW p, MoveFocus(p)
  PROVE  IInv'
<1>1. /\ focus' = p /\ UNCHANGED <<ws, tabs, asked, idle, nextPane>>
      /\ p = NoPane \/ p \in OnScreen(ws)
  BY DEF MoveFocus
<1>2. focus' \in Known \cup {NoPane}
  BY <1>1, KnownPanes
<1> QED
  BY <1>1, <1>2 DEF IInv, Known, OnScreen

LEMMA ZoomStepOK ==
  ASSUME IInv, Zoom \/ HalfZoom
  PROVE  IInv'
<1>1. WsOK(ws, Known)
  BY DEF IInv
<1>2. CASE Zoom
  <2> DEFINE w == ToggleZoom(ws, focus)
  <2>1. ws' = w /\ UNCHANGED <<tabs, focus, asked, idle, nextPane>>
    BY <1>2 DEF Zoom
  <2>2. WsOK(w, Known) /\ w.mode = ws.mode /\ w.place = ws.place
    BY <1>1, ToggleZoomOK
  <2> HIDE DEF w
  <2> QED
    BY <2>1, <2>2, WorkspaceOnlyOK DEF IInv
<1>3. CASE HalfZoom
  <2> DEFINE w == ToggleHalf(ws)
  <2>1. ws' = w /\ UNCHANGED <<tabs, focus, asked, idle, nextPane>>
    BY <1>3 DEF HalfZoom
  <2>2. WsOK(w, Known) /\ w.mode = ws.mode /\ w.place = ws.place
    BY <1>1, ToggleHalfOK
  <2> HIDE DEF w
  <2> QED
    BY <2>1, <2>2, WorkspaceOnlyOK DEF IInv
<1> QED
  BY <1>2, <1>3

-----------------------------------------------------------------------------
(* What the invariant says of the types *)

LEMMA ColumnSetTypes ==
  ASSUME IInv
  PROVE  ColumnSet(Known) \subseteq Column
BY KnownPanes DEF ColumnSet, Column

LEMMA IInvTypes ==
  ASSUME IInv
  PROVE  TypeOK
<1>1. Known \subseteq Pane
  BY KnownPanes
<1>2. WsOK(ws, Pane)
  BY <1>1, WsMono DEF IInv
<1>3. ws.columns \in Seq(Column)
  <2>1. ws.columns \in Seq(ColumnSet(Known))
    BY DEF IInv, WsOK
  <2> HIDE DEF ColumnSet, Column
  <2> QED
    BY <2>1, ColumnSetTypes
<1>4. DOMAIN ws.place \subseteq Pane /\ ws.place \in [DOMAIN ws.place -> Place(Pane \cup {Overlay})]
  BY <1>2 DEF WsOK, PlacesOK
<1>5. ws \in Workspace(DOMAIN ws.place)
  <2>1. ws = [f \in Fields |-> ws[f]]
    BY <1>2 DEF WsOK, Shape
  <2>2. ws = [mode |-> ws.mode, panes |-> ws.panes, active |-> ws.active,
              primary |-> ws.primary, columns |-> ws.columns,
              focusedCol |-> ws.focusedCol, box |-> ws.box, place |-> ws.place,
              zoomed |-> ws.zoomed, hidden |-> ws.hidden, wrecked |-> ws.wrecked]
    BY <2>1 DEF Fields
  <2> QED
    BY <1>2, <1>3, <1>4, <2>2 DEF WsOK, Workspace
<1> QED
  BY <1>1, <1>4, <1>5 DEF IInv, TypeOK

LEMMA IInvIndices ==
  ASSUME IInv
  PROVE  StripIndices
<1>1. ws.columns \in Seq(ColumnSet(Known))
      /\ (ws.mode = "strip" => ws.focusedCol \in 1 .. Len(ws.columns))
  BY DEF IInv, WsOK
<1>2. ASSUME NEW c \in DOMAIN ws.columns
      PROVE  /\ ws.columns[c].focused \in DOMAIN ws.columns[c].panes
             /\ ~(ws.columns[c].maximized /\ ws.columns[c].half)
  <2>1. ws.columns[c] \in ColumnSet(Known)
    BY <1>1
  <2> QED
    BY <2>1, ColumnFields
<1> QED
  BY <1>1, <1>2 DEF StripIndices

\* No pane is in two columns, or twice in one.
Apart(w) ==
    \A c, d \in DOMAIN w.columns :
        \A i \in DOMAIN w.columns[c].panes, j \in DOMAIN w.columns[d].panes :
            w.columns[c].panes[i] = w.columns[d].panes[j] => c = d /\ i = j

Roots(w) == {w.columns[c].root : c \in DOMAIN w.columns}

\* What a column lists hangs under its root, in the order of the list, unless
\* it is off the screen.
InOrder(w, c) ==
    LET list == w.columns[c].panes IN
    /\ \A i \in DOMAIN list :
          list[i] \in OnScreen(w) => w.place[list[i]].root = w.columns[c].root
    /\ \A i, j \in DOMAIN list :
          i < j /\ {list[i], list[j]} \subseteq OnScreen(w)
             => Before(w.place[list[i]].path, w.place[list[j]].path)

\* The strip: one child of the box for each column, and every pane hangs under one.
RootsApart(w) ==
    \A c, d \in DOMAIN w.columns : w.columns[c].root = w.columns[d].root => c = d

Hung(w) ==
    /\ RootsApart(w)
    /\ Distinct(w.box)
    /\ ToSet(w.box) = Roots(w)
    /\ \A x \in OnScreen(w) : w.place[x].root \in Roots(w)
    /\ \A c \in DOMAIN w.columns : InOrder(w, c)

\* The classic layout: one tree.
Single(w) ==
    /\ DOMAIN w.columns = {}
    /\ w.box = <<Overlay>>
    /\ \A x \in OnScreen(w) : w.place[x].root = Overlay

Trees(w) ==
    /\ Distinct(w.panes)
    /\ Apart(w)
    /\ Whole(w.place)
    /\ w.mode = "classic" => Single(w)
    /\ w.mode = "strip" => Hung(w)

\* The registry knows what is on the screen, and its first pane is the primary one.
Agrees(w) ==
    Running(w) => OnScreen(w) \subseteq Registered(w) /\ w.primary = w.panes[1]

\* v differs from w at most in what is active, focused, zoomed or hidden.
SameTrees(v, w) ==
    /\ v.mode = w.mode /\ v.panes = w.panes /\ v.primary = w.primary
    /\ v.box = w.box /\ v.place = w.place /\ v.wrecked = w.wrecked
    /\ DOMAIN v.columns = DOMAIN w.columns
    /\ \A c \in DOMAIN w.columns :
          v.columns[c].root = w.columns[c].root /\ v.columns[c].panes = w.columns[c].panes

LEMMA SameTreesTrans ==
  ASSUME NEW u, NEW v, NEW w, SameTrees(u, v), SameTrees(v, w)
  PROVE  SameTrees(u, w)
BY DEF SameTrees

LEMMA SameTreesSelf ==
  ASSUME NEW w
  PROVE  SameTrees(w, w)
BY DEF SameTrees

LEMMA SameTreesOK ==
  ASSUME NEW v, NEW w, SameTrees(v, w)
  PROVE  /\ Trees(w) => Trees(v)
         /\ Agrees(w) => Agrees(v)
         /\ Running(v) <=> Running(w)
<1>1. /\ OnScreen(v) = OnScreen(w) /\ Registered(v) = Registered(w)
      /\ Listed(v) = Listed(w) /\ Roots(v) = Roots(w)
  BY DEF SameTrees, OnScreen, Registered, Listed, Roots
<1>2. Running(v) <=> Running(w)
  BY <1>1 DEF SameTrees, Running, Stale
<1>3. Agrees(w) => Agrees(v)
  BY <1>1, <1>2 DEF SameTrees, Agrees
<1>4. Apart(w) => Apart(v)
  BY DEF SameTrees, Apart
<1>5. Single(w) => Single(v)
  BY <1>1 DEF SameTrees, Single
<1>6. Hung(w) => Hung(v)
  <2>1. ASSUME NEW c \in DOMAIN w.columns, InOrder(w, c)
        PROVE  InOrder(v, c)
    BY <1>1, <2>1 DEF SameTrees, InOrder
  <2> QED BY <1>1, <2>1, SMTT(30) DEF SameTrees, Hung, RootsApart
<1> QED BY <1>2, <1>3, <1>4, <1>5, <1>6 DEF SameTrees, Trees

LEMMA SameTreesSets ==
  ASSUME NEW v, NEW w, SameTrees(v, w)
  PROVE  /\ OnScreen(v) = OnScreen(w) /\ Registered(v) = Registered(w)
         /\ Listed(v) = Listed(w) /\ Roots(v) = Roots(w)
BY DEF SameTrees, OnScreen, Registered, Listed, Roots

\* The columns change, but not their roots and lists.
LEMMA ColumnsSame ==
  ASSUME NEW P, NEW w, WsOK(w, P), NEW c \in 1 .. Len(w.columns), NEW col,
         col.root = w.columns[c].root, col.panes = w.columns[c].panes
  PROVE  SameTrees([w EXCEPT !.columns = [w.columns EXCEPT ![c] = col]], w)
<1> DEFINE cols == [w.columns EXCEPT ![c] = col]
           v == [w EXCEPT !.columns = cols]
<1>1. /\ DOMAIN cols = DOMAIN w.columns
      /\ \A d \in DOMAIN w.columns :
            cols[d].root = w.columns[d].root /\ cols[d].panes = w.columns[d].panes
  BY DEF WsOK
<1> HIDE DEF cols
<1>2. Kept(v, w, {"columns"}) /\ v.columns = cols
  BY DEF Kept, WsOK, Shape, Fields
<1> HIDE DEF v
<1>3. SameTrees(v, w)
  BY <1>1, <1>2 DEF Kept, Fields, SameTrees
<1> QED BY <1>3 DEF v, cols

\* So do other fields.
LEMMA KeptSame ==
  ASSUME NEW v, NEW w, Kept(v, w, {"active", "focusedCol", "zoomed", "hidden"})
  PROVE  SameTrees(v, w)
BY DEF Kept, Fields, SameTrees

LEMMA ActiveSame ==
  ASSUME NEW P, NEW w, WsOK(w, P), NEW a, NEW c
  PROVE  /\ SameTrees([w EXCEPT !.active = a], w)
         /\ SameTrees([w EXCEPT !.focusedCol = c], w)
         /\ SameTrees([w EXCEPT !.focusedCol = c, !.active = a], w)
<1>1. /\ Kept([w EXCEPT !.active = a], w, {"active", "focusedCol", "zoomed", "hidden"})
      /\ Kept([w EXCEPT !.focusedCol = c], w, {"active", "focusedCol", "zoomed", "hidden"})
      /\ Kept([w EXCEPT !.focusedCol = c, !.active = a], w, {"active", "focusedCol", "zoomed", "hidden"})
  BY DEF Kept, WsOK, Shape, Fields
<1> QED BY <1>1, KeptSame

LEMMA ColumnFocusedSame ==
  ASSUME NEW P, NEW w, WsOK(w, P), NEW c \in 1 .. Len(w.columns), NEW k
  PROVE  SameTrees([w EXCEPT !.columns[c].focused = k], w)
<1> DEFINE col == [w.columns[c] EXCEPT !.focused = k]
<1>1. w.columns[c] \in ColumnSet(P)
  BY DEF WsOK
<1>2. col.root = w.columns[c].root /\ col.panes = w.columns[c].panes
  BY <1>1 DEF ColumnSet
<1>3. [w EXCEPT !.columns[c].focused = k] = [w EXCEPT !.columns = [w.columns EXCEPT ![c] = col]]
  BY DEF WsOK
<1> HIDE DEF col
<1> QED BY <1>2, <1>3, ColumnsSame

LEMMA SetActiveSame ==
  ASSUME NEW P, NEW w, WsOK(w, P), NEW p
  PROVE  SameTrees(SetActive(w, p), w)
<1> DEFINE c == ColumnOf(w, p)
           k == IndexOf(w.columns[c].panes, p)
           v == [w EXCEPT !.columns[c].focused = k]
           u == [w EXCEPT !.focusedCol = c, !.active = p]
<1>1. CASE p \notin Registered(w)
  BY <1>1, SameTreesSelf DEF SetActive
<1>2. CASE p \in Registered(w) /\ ~(w.mode = "strip" /\ c # 0)
  BY <1>2, ActiveSame DEF SetActive
<1>3. CASE p \in Registered(w) /\ w.mode = "strip" /\ c # 0
  <2>1. c \in 1 .. Len(w.columns)
    BY <1>3, ColumnOfOK DEF WsOK
  <2>2. SetActive(w, p) = [w EXCEPT !.active = p, !.focusedCol = c, !.columns[c].focused = k]
    BY <1>3 DEF SetActive
  <2> HIDE DEF c, k
  <2>3. SameTrees(v, w)
    BY <2>1, ColumnFocusedSame
  <2>4. Kept(v, w, {"columns"}) /\ SetActive(w, p) = [v EXCEPT !.active = p, !.focusedCol = c]
    BY <2>2 DEF WsOK, Shape, Fields, Kept
  <2> HIDE DEF v
  <2>5. Kept(SetActive(w, p), v, {"active", "focusedCol", "zoomed", "hidden"})
    BY <2>4 DEF Kept, Shape, Fields
  <2> QED BY <2>3, <2>5, KeptSame, SameTreesTrans
<1> QED BY <1>1, <1>2, <1>3

LEMMA FocusColumnSame ==
  ASSUME NEW P, NEW w, WsOK(w, P), NEW c
  PROVE  SameTrees(FocusColumn(w, c), w)
BY ActiveSame, SameTreesSelf DEF FocusColumn

LEMMA AfterLookupSame ==
  ASSUME NEW P, NEW w, WsOK(w, P), NEW f
  PROVE  SameTrees(AfterLookup(w, f), w)
BY SetActiveSame, ActiveSame, SameTreesSelf DEF AfterLookup

LEMMA ToggleSame ==
  ASSUME NEW P, NEW w, WsOK(w, P)
  PROVE  SameTrees(ToggleMaximize(w), w) /\ SameTrees(ToggleHalf(w), w)
<1> DEFINE c   == w.focusedCol
           col == w.columns[c]
           max == [col EXCEPT !.maximized = ~col.maximized, !.half = FALSE]
           half == [col EXCEPT !.half = ~col.half, !.maximized = FALSE]
<1>1. CASE ColumnInRange(w)
  <2>1. c \in 1 .. Len(w.columns) /\ col \in ColumnSet(P)
    BY <1>1 DEF ColumnInRange, WsOK
  <2>2. max.root = col.root /\ max.panes = col.panes /\ half.root = col.root /\ half.panes = col.panes
    BY <2>1 DEF ColumnSet
  <2>3. /\ ToggleMaximize(w) = [w EXCEPT !.columns = [w.columns EXCEPT ![c] = max]]
        /\ ToggleHalf(w) = IF w.mode = "classic" THEN w ELSE [w EXCEPT !.columns = [w.columns EXCEPT ![c] = half]]
    BY <1>1 DEF ToggleMaximize, ToggleHalf, WsOK
  <2> HIDE DEF max, half, c
  <2>4. SameTrees([w EXCEPT !.columns = [w.columns EXCEPT ![c] = max]], w)
    BY <2>1, <2>2, ColumnsSame
  <2>5. SameTrees([w EXCEPT !.columns = [w.columns EXCEPT ![c] = half]], w)
    BY <2>1, <2>2, ColumnsSame
  <2> QED BY <2>3, <2>4, <2>5, SameTreesSelf
<1>2. CASE ~ColumnInRange(w)
  BY <1>2, SameTreesSelf DEF ToggleMaximize, ToggleHalf
<1> QED BY <1>1, <1>2

LEMMA ShowAllSame ==
  ASSUME NEW P, NEW w, WsOK(w, P), NEW p
  PROVE  SameTrees(ShowAll(w), w) /\ SameTrees(ZoomOnto(w, p), w)
<1>1. ASSUME NEW h
      PROVE  /\ Kept([w EXCEPT !.zoomed = FALSE, !.hidden = {}], w, {"active", "focusedCol", "zoomed", "hidden"})
             /\ Kept([w EXCEPT !.zoomed = TRUE, !.hidden = h], w, {"active", "focusedCol", "zoomed", "hidden"})
  BY DEF Kept, WsOK, Shape, Fields
<1> QED BY <1>1, KeptSame DEF ShowAll, ZoomOnto

LEMMA ToggleZoomSame ==
  ASSUME NEW P, NEW w, WsOK(w, P), NEW f
  PROVE  SameTrees(ToggleZoom(w, f), w)
<1>1. WsOK(AfterLookup(w, f), P) /\ SameTrees(AfterLookup(w, f), w)
  BY AfterLookupOK, AfterLookupSame
<1>2. SameTrees(ZoomOnto(AfterLookup(w, f), FocusedPane(w, f)), w)
  BY <1>1, ShowAllSame, SameTreesTrans
<1> QED BY <1>2, ToggleSame, ShowAllSame, SameTreesSelf DEF ToggleZoom

LEMMA UnzoomSame ==
  ASSUME NEW P, NEW w, WsOK(w, P)
  PROVE  SameTrees(Unzoom(w), w)
BY ToggleSame, ShowAllSame, SameTreesSelf DEF Unzoom

-----------------------------------------------------------------------------
(* The highlighted pane *)

\* ActiveIsFocused, of any workspace.
Lit(w) ==
    w.mode = "strip" /\ Running(w) /\ w.active \in Listed(w)
        => w.active = FocusedOf(w.columns[w.focusedCol])

\* On the strip every registered pane is in a column.
AllListed(w) == w.mode = "strip" /\ Running(w) => Registered(w) \subseteq Listed(w)

\* v is w with the focus moved: what Lit says still holds.
Moved(v, w) ==
    /\ SameTrees(v, w)
    /\ v.hidden = w.hidden /\ v.zoomed = w.zoomed
    /\ Lit(w) => Lit(v)

LEMMA MovedTrans ==
  ASSUME NEW u, NEW v, NEW w, Moved(u, v), Moved(v, w)
  PROVE  Moved(u, w)
BY SameTreesTrans DEF Moved

LEMMA MovedSelf ==
  ASSUME NEW w
  PROVE  Moved(w, w)
BY SameTreesSelf DEF Moved

\* set_active_pane on a pane of the registry leaves it the focused pane of the
\* focused column, if it is in a column at all.
LEMMA SetActiveLit ==
  ASSUME NEW P, NEW w, WsOK(w, P), NEW p \in Registered(w)
  PROVE  Lit(SetActive(w, p))
<1> DEFINE c   == ColumnOf(w, p)
           k   == IndexOf(w.columns[c].panes, p)
           cols == [w.columns EXCEPT ![c] = [w.columns[c] EXCEPT !.focused = k]]
           v   == SetActive(w, p)
<1>1. CASE w.mode = "strip" /\ c # 0
  <2>1. v = [w EXCEPT !.active = p, !.focusedCol = c, !.columns[c].focused = k]
    BY <1>1 DEF SetActive
  <2>2. v.active = p /\ v.focusedCol = c /\ v.columns = cols
    BY <2>1 DEF WsOK, Shape, Fields
  <2>3. c \in 1 .. Len(w.columns) /\ p \in ToSet(w.columns[c].panes)
    BY <1>1, ColumnOfOK DEF WsOK
  <2>4. w.columns[c] \in ColumnSet(P)
    BY <2>3 DEF WsOK
  <2>5. w.columns[c].panes \in Seq(P)
    BY <2>4, ColumnFields
  <2>6. k \in 1 .. Len(w.columns[c].panes) /\ w.columns[c].panes[k] = p
    BY <2>3, <2>5, IndexOfOK
  <2> HIDE DEF v, k
  <2>7. v.columns[c] = [w.columns[c] EXCEPT !.focused = k]
    BY <2>2, <2>3 DEF WsOK
  <2>8. v.columns[c].focused = k /\ v.columns[c].panes = w.columns[c].panes
    BY <2>4, <2>7 DEF ColumnSet
  <2>9. FocusedOf(v.columns[c]) = p
    <3>1. Clamp(k, 1, Len(w.columns[c].panes)) = k
      BY <2>5, <2>6 DEF Clamp
    <3> QED BY <2>6, <2>8, <3>1 DEF FocusedOf
  <2> QED BY <2>2, <2>9 DEF Lit, v
<1>2. CASE ~(w.mode = "strip" /\ c # 0)
  <2>1. v = [w EXCEPT !.active = p]
    BY <1>2 DEF SetActive
  <2>2. v.active = p /\ v.mode = w.mode /\ v.columns = w.columns
    BY <2>1 DEF WsOK, Shape, Fields
  <2>3. w.mode = "strip" => p \notin Listed(w)
    <3>1. ASSUME w.mode = "strip", p \in Listed(w)
          PROVE  FALSE
      <4>1. PICK d \in DOMAIN w.columns : p \in ToSet(w.columns[d].panes)
        BY <3>1 DEF Listed
      <4>2. c \in DOMAIN w.columns
        BY <3>1, <4>1 DEF ColumnOf
      <4> QED BY <1>2, <3>1, <4>2 DEF WsOK
    <3> QED BY <3>1
  <2> HIDE DEF v
  <2> QED BY <2>2, <2>3 DEF Lit, Listed, v
<1> QED BY <1>1, <1>2

LEMMA SetActiveMoved ==
  ASSUME NEW P, NEW w, WsOK(w, P), NEW p
  PROVE  Moved(SetActive(w, p), w)
<1> DEFINE v == SetActive(w, p)
<1>1. v.hidden = w.hidden /\ v.zoomed = w.zoomed
  BY DEF SetActive, WsOK, Shape, Fields
<1>2. SameTrees(v, w)
  BY SetActiveSame
<1>3. Lit(w) => Lit(v)
  <2>1. CASE p \in Registered(w)
    BY <2>1, SetActiveLit
  <2>2. CASE p \notin Registered(w)
    BY <2>2 DEF SetActive
  <2> QED BY <2>1, <2>2
<1> QED BY <1>1, <1>2, <1>3 DEF Moved

\* So does a jump to a column.
LEMMA FocusColumnLit ==
  ASSUME NEW P, NEW w, WsOK(w, P), NEW c \in 1 .. Len(w.columns)
  PROVE  Lit(FocusColumn(w, c))
<1> DEFINE v == FocusColumn(w, c)
<1>1. v = [w EXCEPT !.focusedCol = c, !.active = FocusedOf(w.columns[c])]
  BY DEF FocusColumn, WsOK
<1>2. v.focusedCol = c /\ v.active = FocusedOf(w.columns[c]) /\ v.columns = w.columns
  BY <1>1 DEF WsOK, Shape, Fields
<1> HIDE DEF v
<1> QED BY <1>2 DEF Lit, v

LEMMA FocusColumnMoved ==
  ASSUME NEW P, NEW w, WsOK(w, P), NEW c
  PROVE  Moved(FocusColumn(w, c), w)
<1> DEFINE v == FocusColumn(w, c)
<1>1. v.hidden = w.hidden /\ v.zoomed = w.zoomed
  BY DEF FocusColumn, WsOK, Shape, Fields
<1>2. SameTrees(v, w)
  BY FocusColumnSame
<1>3. Lit(w) => Lit(v)
  <2>1. CASE c \in DOMAIN w.columns
    BY <2>1, FocusColumnLit, SMTT(30) DEF WsOK
  <2>2. CASE c \notin DOMAIN w.columns
    BY <2>2 DEF FocusColumn
  <2> QED BY <2>1, <2>2
<1> QED BY <1>1, <1>2, <1>3 DEF Moved

\* workspace_get_focused_pane writes active_pane only with the focused pane of
\* the focused column, or with none.
LEMMA AfterLookupMoved ==
  ASSUME NEW P, NoPane \notin P, NEW w, WsOK(w, P), NEW f
  PROVE  Moved(AfterLookup(w, f), w)
<1> DEFINE v == AfterLookup(w, f)
<1>1. CASE f \in Registered(w)
  BY <1>1, SetActiveMoved DEF AfterLookup
<1>2. CASE f \notin Registered(w)
  <2>1. SameTrees(v, w)
    BY AfterLookupSame
  <2>2. v.hidden = w.hidden /\ v.zoomed = w.zoomed
    BY <1>2 DEF AfterLookup, WsOK, Shape, Fields
  <2>3. Lit(w) => Lit(v)
    <3>1. CASE w.mode = "strip" /\ ColumnInRange(w)
      <4>1. v = [w EXCEPT !.active = FocusedOf(w.columns[w.focusedCol])]
        BY <1>2, <3>1 DEF AfterLookup
      <4>2. /\ v.active = FocusedOf(w.columns[w.focusedCol])
            /\ v.columns = w.columns /\ v.focusedCol = w.focusedCol
        BY <4>1 DEF WsOK, Shape, Fields
      <4> HIDE DEF v
      <4> QED BY <4>2 DEF Lit, v
    <3>2. CASE ~(w.mode = "strip" /\ ColumnInRange(w)) /\ w.active \in Registered(w)
      BY <1>2, <3>2 DEF AfterLookup
    <3>3. CASE ~(w.mode = "strip" /\ ColumnInRange(w)) /\ w.active \notin Registered(w)
      <4>1. v = [w EXCEPT !.active = NoPane]
        BY <1>2, <3>3 DEF AfterLookup
      <4>2. v.mode = w.mode
        BY <4>1 DEF WsOK, Shape, Fields
      <4>3. w.mode # "strip"
        BY <3>3 DEF ColumnInRange, WsOK
      <4> HIDE DEF v
      <4> QED BY <4>2, <4>3 DEF Lit, v
    <3> QED BY <3>1, <3>2, <3>3
  <2> QED BY <2>1, <2>2, <2>3 DEF Moved
<1> QED BY <1>1, <1>2

LEMMA LitSame ==
  ASSUME NEW P, NEW v, NEW w, WsOK(w, P), SameTrees(v, w),
         v.active = w.active, v.focusedCol = w.focusedCol,
         w.mode = "strip" => v.columns[w.focusedCol].focused = w.columns[w.focusedCol].focused
  PROVE  Lit(w) => Lit(v)
<1> SUFFICES ASSUME Lit(w), v.mode = "strip", Running(v), v.active \in Listed(v)
             PROVE  v.active = FocusedOf(v.columns[v.focusedCol])
  BY DEF Lit
<1>1. w.mode = "strip" /\ Running(w) /\ w.active \in Listed(w)
  BY SameTreesOK, SameTreesSets DEF SameTrees
<1>2. w.focusedCol \in DOMAIN w.columns
  BY <1>1 DEF WsOK
<1>3. v.columns[w.focusedCol].panes = w.columns[w.focusedCol].panes
  BY <1>2 DEF SameTrees
<1>4. FocusedOf(v.columns[w.focusedCol]) = FocusedOf(w.columns[w.focusedCol])
  BY <1>1, <1>3 DEF FocusedOf
<1> QED BY <1>1, <1>4 DEF Lit

\* The width of a column says nothing of the focus.
LEMMA ToggleLit ==
  ASSUME NEW P, NEW w, WsOK(w, P)
  PROVE  /\ Lit(w) => Lit(ToggleMaximize(w))
         /\ Lit(w) => Lit(ToggleHalf(w))
<1> DEFINE c   == w.focusedCol
           col == w.columns[c]
           m   == [col EXCEPT !.maximized = ~col.maximized, !.half = FALSE]
           h   == [col EXCEPT !.half = ~col.half, !.maximized = FALSE]
<1>1. CASE ~ColumnInRange(w)
  BY <1>1 DEF ToggleMaximize, ToggleHalf
<1>2. CASE ColumnInRange(w)
  <2>1. c \in 1 .. Len(w.columns) /\ col \in ColumnSet(P)
    BY <1>2 DEF ColumnInRange, WsOK
  <2>2. m.focused = col.focused /\ h.focused = col.focused
    BY <2>1 DEF ColumnSet
  <2>3. /\ SameTrees(ToggleMaximize(w), w) /\ SameTrees(ToggleHalf(w), w)
    BY ToggleSame
  <2>4. ASSUME NEW d, d.focused = col.focused, NEW v, v = [w EXCEPT !.columns[c] = d],
               SameTrees(v, w)
        PROVE  Lit(w) => Lit(v)
    <3>1. v.active = w.active /\ v.focusedCol = w.focusedCol /\ v.columns[c] = d
      BY <2>1, <2>4 DEF WsOK, Shape, Fields
    <3> QED BY <2>4, <3>1, LitSame
  <2>5. ToggleMaximize(w) = [w EXCEPT !.columns[c] = m]
    BY <1>2 DEF ToggleMaximize
  <2>6. ToggleHalf(w) = w \/ ToggleHalf(w) = [w EXCEPT !.columns[c] = h]
    BY <1>2 DEF ToggleHalf
  <2> HIDE DEF m, h, col
  <2> QED BY <2>2, <2>3, <2>4, <2>5, <2>6
<1> QED BY <1>1, <1>2

LEMMA ZoomLit ==
  ASSUME NEW P, NEW w, WsOK(w, P), NEW f
  PROVE  /\ Lit(w) => Lit(ToggleZoom(w, f))
         /\ Lit(w) => Lit(Unzoom(w))
<1>1. CASE w.mode = "strip"
  BY <1>1, ToggleLit DEF ToggleZoom, Unzoom
<1>2. CASE w.mode # "strip"
  BY <1>2, ToggleZoomOK, UnzoomOK DEF Lit
<1> QED BY <1>1, <1>2

-----------------------------------------------------------------------------
(* The panes a zoom hides *)

\* HiddenByZoom, of any workspace, and with a pane that still shows.
Veiled(w) ==
    w.mode = "classic" => /\ w.hidden # {} => w.zoomed
                          /\ \E x \in OnScreen(w) : x \notin w.hidden

LEMMA MovedVeiled ==
  ASSUME NEW v, NEW w, Moved(v, w), Veiled(w)
  PROVE  Veiled(v)
BY SameTreesSets DEF Moved, SameTrees, Veiled

\* A split and a close start from a workspace that hides nothing.
LEMMA UnzoomVeiled ==
  ASSUME NEW P, NEW w, WsOK(w, P), w.mode = "classic", Veiled(w)
  PROVE  Unzoom(w).hidden = {}
<1>1. CASE w.zoomed
  BY <1>1 DEF Unzoom, IsZoomed, ShowAll, WsOK, Shape, Fields
<1>2. CASE ~w.zoomed
  BY <1>2 DEF Unzoom, IsZoomed, Veiled
<1> QED BY <1>1, <1>2

LEMMA FocusedRegistered ==
  ASSUME NEW P, NEW w, WsOK(w, P), w.mode = "classic", NEW f
  PROVE  FocusedPane(w, f) \in Registered(w)
<1>1. w.panes[1] \in Registered(w)
  <2>1. w.panes \in Seq(P) /\ 1 \in 1 .. Len(w.panes)
    BY DEF WsOK
  <2> QED BY <2>1, ToSetOK DEF Registered
<1> QED BY <1>1 DEF FocusedPane

LEMMA ToggleZoomVeiled ==
  ASSUME NEW P, NoPane \notin P, NEW w, WsOK(w, P), Running(w), Veiled(w), NEW f
  PROVE  Veiled(ToggleZoom(w, f))
<1> DEFINE v == ToggleZoom(w, f)
           u == AfterLookup(w, f)
           p == FocusedPane(w, f)
<1>1. SUFFICES ASSUME v.mode = "classic"
               PROVE  /\ v.hidden # {} => v.zoomed
                      /\ \E x \in OnScreen(v) : x \notin v.hidden
  BY DEF Veiled
<1>2. w.mode = "classic" /\ OnScreen(v) = OnScreen(w)
  <2>1. SameTrees(v, w)
    BY ToggleZoomSame
  <2> QED BY <1>1, <2>1, SameTreesSets DEF SameTrees
<1>3. p \in Registered(w) /\ p \in OnScreen(w)
  <2>1. p \in Registered(w)
    BY <1>2, FocusedRegistered
  <2> QED BY <2>1 DEF Running, Stale
<1>4. CASE w.zoomed
  <2>1. v = [w EXCEPT !.zoomed = FALSE, !.hidden = {}]
    BY <1>2, <1>4 DEF ToggleZoom, ShowAll
  <2>2. v.hidden = {}
    BY <2>1 DEF WsOK, Shape, Fields
  <2> HIDE DEF v
  <2> QED BY <1>2, <1>3, <2>2
<1>5. CASE ~w.zoomed /\ Len(w.panes) <= 1
  <2>1. v = w
    BY <1>2, <1>5 DEF ToggleZoom
  <2> QED BY <1>2, <2>1 DEF Veiled
<1>6. CASE ~w.zoomed /\ ~(Len(w.panes) <= 1)
  <2>1. v = ZoomOnto(u, p)
    BY <1>2, <1>6 DEF ToggleZoom
  <2>2. WsOK(u, P)
    BY AfterLookupOK
  <2> HIDE DEF p, u, v
  <2>3. v.zoomed = TRUE /\ p \notin v.hidden
    BY <2>1, <2>2 DEF ZoomOnto, WsOK, Shape, Fields
  <2> QED BY <1>2, <1>3, <2>3 DEF v
<1> QED BY <1>4, <1>5, <1>6

-----------------------------------------------------------------------------
(* Lists without repetitions, and columns *)

LEMMA WithoutDistinct ==
  ASSUME NEW S, NEW s \in Seq(S), Distinct(s), NEW x
  PROVE  /\ ToSet(Without(s, x)) = ToSet(s) \ {x}
         /\ Distinct(Without(s, x))
<1>1. CASE x \notin ToSet(s)
  BY <1>1 DEF Without
<1>2. CASE x \in ToSet(s)
  <2>1. IndexOf(s, x) \in 1 .. Len(s) /\ s[IndexOf(s, x)] = x
    BY <1>2, IndexOfOK
  <2>2. Without(s, x) = RemoveAt(s, IndexOf(s, x))
    BY <1>2 DEF Without
  <2> QED BY <2>1, <2>2, RemoveDistinct
<1> QED BY <1>1, <1>2

\* A column that was there before keeps its order when its panes stay in place.
LEMMA InOrderSame ==
  ASSUME NEW v, NEW w, NEW c, NEW d, InOrder(w, d),
         v.columns[c].panes = w.columns[d].panes, v.columns[c].root = w.columns[d].root,
         \A x \in ToSet(w.columns[d].panes) :
            x \in OnScreen(v) => x \in OnScreen(w) /\ v.place[x] = w.place[x]
  PROVE  InOrder(v, c)
<1> DEFINE list == w.columns[d].panes
<1>1. \A i \in DOMAIN list : list[i] \in ToSet(list)
  BY DEF ToSet
<1>2. /\ \A i \in DOMAIN list :
            list[i] \in OnScreen(w) => w.place[list[i]].root = w.columns[d].root
      /\ \A i, j \in DOMAIN list :
            i < j /\ {list[i], list[j]} \subseteq OnScreen(w)
               => Before(w.place[list[i]].path, w.place[list[j]].path)
  BY DEF InOrder
<1>3. \A x \in ToSet(list) : x \in OnScreen(v) => x \in OnScreen(w) /\ v.place[x] = w.place[x]
  OBVIOUS
<1> HIDE DEF list
<1>4. /\ \A i \in DOMAIN list :
            list[i] \in OnScreen(v) => v.place[list[i]].root = w.columns[d].root
      /\ \A i, j \in DOMAIN list :
            i < j /\ {list[i], list[j]} \subseteq OnScreen(v)
               => Before(v.place[list[i]].path, v.place[list[j]].path)
  BY <1>1, <1>2, <1>3
<1>5. v.columns[c].panes = list
  BY DEF list
<1> QED BY <1>4, <1>5 DEF InOrder

\* The columns of v and w are the same ones but for w's i-th.
AllBut(v, w, i) ==
    /\ Roots(w) = Roots(v) \cup {w.columns[i].root}
    /\ Listed(w) = Listed(v) \cup ToSet(w.columns[i].panes)
    /\ \A c \in DOMAIN v.columns : \E d \in DOMAIN w.columns \ {i} : v.columns[c] = w.columns[d]
    /\ \A d \in DOMAIN w.columns \ {i} : \E c \in DOMAIN v.columns : v.columns[c] = w.columns[d]

LEMMA SkipsColumns ==
  ASSUME NEW v, NEW w, NEW i \in DOMAIN w.columns, Skips(v.columns, w.columns, i)
  PROVE  AllBut(v, w, i)
<1>1. PICK g \in [DOMAIN v.columns -> DOMAIN w.columns \ {i}] :
        /\ \A j \in DOMAIN v.columns : v.columns[j] = w.columns[g[j]]
        /\ \A j, k \in DOMAIN v.columns : g[j] = g[k] => j = k
        /\ \A k \in DOMAIN w.columns \ {i} : \E j \in DOMAIN v.columns : g[j] = k
  BY DEF Skips
<1>2. \A c \in DOMAIN v.columns : \E d \in DOMAIN w.columns \ {i} : v.columns[c] = w.columns[d]
  BY <1>1
<1>3. \A d \in DOMAIN w.columns \ {i} : \E c \in DOMAIN v.columns : v.columns[c] = w.columns[d]
  BY <1>1
<1>4. Roots(w) = Roots(v) \cup {w.columns[i].root}
  BY <1>2, <1>3 DEF Roots
<1>5. Listed(w) = Listed(v) \cup ToSet(w.columns[i].panes)
  BY <1>2, <1>3 DEF Listed
<1> QED BY <1>2, <1>3, <1>4, <1>5 DEF AllBut

\* A column goes.
LEMMA SkipsApart ==
  ASSUME NEW v, NEW w, NEW i \in DOMAIN w.columns, Skips(v.columns, w.columns, i), Apart(w)
  PROVE  /\ Apart(v)
         /\ Listed(v) \cap ToSet(w.columns[i].panes) = {}
<1>1. PICK g \in [DOMAIN v.columns -> DOMAIN w.columns \ {i}] :
        /\ \A j \in DOMAIN v.columns : v.columns[j] = w.columns[g[j]]
        /\ \A j, k \in DOMAIN v.columns : g[j] = g[k] => j = k
  BY DEF Skips
<1>2. \A c \in DOMAIN v.columns : g[c] \in DOMAIN w.columns /\ g[c] # i /\ v.columns[c] = w.columns[g[c]]
  BY <1>1
<1>3. Apart(v)
  BY <1>1, <1>2 DEF Apart
<1>4. ASSUME NEW x \in Listed(v), x \in ToSet(w.columns[i].panes)
      PROVE  FALSE
  <2>1. PICK c \in DOMAIN v.columns : x \in ToSet(v.columns[c].panes)
    BY DEF Listed
  <2>2. g[c] \in DOMAIN w.columns /\ g[c] # i /\ x \in ToSet(w.columns[g[c]].panes)
    BY <1>2, <2>1
  <2> QED BY <1>4, <2>2 DEF Apart, ToSet
<1> QED BY <1>3, <1>4

\* A column comes, with panes that no other one lists.
LEMMA GrowsApart ==
  ASSUME NEW v, NEW w, NEW i \in DOMAIN w.columns, Skips(v.columns, w.columns, i), Apart(v),
         Distinct(w.columns[i].panes), Listed(v) \cap ToSet(w.columns[i].panes) = {}
  PROVE  Apart(w)
<1>1. PICK g \in [DOMAIN v.columns -> DOMAIN w.columns \ {i}] :
        /\ \A j \in DOMAIN v.columns : v.columns[j] = w.columns[g[j]]
        /\ \A k \in DOMAIN w.columns \ {i} : \E j \in DOMAIN v.columns : g[j] = k
  BY DEF Skips
<1>2. \A d \in DOMAIN w.columns : d # i => \E c \in DOMAIN v.columns : d = g[c] /\ w.columns[d] = v.columns[c]
  BY <1>1
<1>3. ASSUME NEW d \in DOMAIN w.columns, NEW j \in DOMAIN w.columns[d].panes, d # i
      PROVE  w.columns[d].panes[j] \in Listed(v)
  BY <1>2, <1>3 DEF Listed, ToSet
<1>4. ASSUME NEW c \in DOMAIN w.columns, NEW d \in DOMAIN w.columns,
             NEW j \in DOMAIN w.columns[c].panes, NEW k \in DOMAIN w.columns[d].panes,
             w.columns[c].panes[j] = w.columns[d].panes[k]
      PROVE  c = d /\ j = k
  <2>1. CASE c = i /\ d = i
    BY <1>4, <2>1 DEF Distinct
  <2>2. CASE c = i /\ d # i
    BY <1>3, <1>4, <2>2 DEF ToSet
  <2>3. CASE c # i /\ d = i
    BY <1>3, <1>4, <2>3 DEF ToSet
  <2>4. CASE c # i /\ d # i
    BY <1>2, <1>4, <2>4 DEF Apart
  <2> QED BY <2>1, <2>2, <2>3, <2>4
<1> QED BY <1>4 DEF Apart

\* Roots of columns stay apart likewise.
LEMMA SkipsRoots ==
  ASSUME NEW v, NEW w, NEW i \in DOMAIN w.columns, Skips(v.columns, w.columns, i)
  PROVE  /\ RootsApart(w) => RootsApart(v) /\ Roots(v) = Roots(w) \ {w.columns[i].root}
         /\ RootsApart(v) /\ w.columns[i].root \notin Roots(v) => RootsApart(w)
<1>1. PICK g \in [DOMAIN v.columns -> DOMAIN w.columns \ {i}] :
        /\ \A j \in DOMAIN v.columns : v.columns[j] = w.columns[g[j]]
        /\ \A j, k \in DOMAIN v.columns : g[j] = g[k] => j = k
        /\ \A k \in DOMAIN w.columns \ {i} : \E j \in DOMAIN v.columns : g[j] = k
  BY DEF Skips
<1>2. \A c \in DOMAIN v.columns : g[c] \in DOMAIN w.columns /\ g[c] # i /\ v.columns[c] = w.columns[g[c]]
  BY <1>1
<1>3. Roots(w) = Roots(v) \cup {w.columns[i].root}
  BY SkipsColumns DEF AllBut
<1>4. ASSUME RootsApart(w) PROVE RootsApart(v) /\ w.columns[i].root \notin Roots(v)
  BY <1>1, <1>2, <1>4 DEF RootsApart, Roots
<1>5. ASSUME RootsApart(v), w.columns[i].root \notin Roots(v) PROVE RootsApart(w)
  <2>1. \A d \in DOMAIN w.columns : d # i => \E c \in DOMAIN v.columns : d = g[c] /\ w.columns[d] = v.columns[c]
    BY <1>1
  <2>2. \A d \in DOMAIN w.columns : d # i => w.columns[d].root # w.columns[i].root
    BY <1>5, <2>1 DEF Roots
  <2> QED BY <1>5, <2>1, <2>2 DEF RootsApart
<1> QED BY <1>3, <1>4, <1>5

\* The change is not about the registry.
SameRegistry(v, w) ==
    v.mode = w.mode /\ v.panes = w.panes /\ v.primary = w.primary /\ v.wrecked = w.wrecked

\* q is the name of a pane that no widget or column has.
Fresh(w, q) == q \notin OnScreen(w) /\ q \notin Listed(w) /\ q \notin Roots(w)

\* A new column with a new pane.
LEMMA InsertColumnTrees ==
  ASSUME NEW P, NEW w, WsOK(w, P), w.mode = "strip", Trees(w), NEW q \in P, Fresh(w, q)
  PROVE  /\ Trees(InsertColumn(w, q)) /\ SameRegistry(InsertColumn(w, q), w)
         /\ OnScreen(InsertColumn(w, q)) = OnScreen(w) \cup {q}
         /\ Listed(InsertColumn(w, q)) = Listed(w) \cup {q}
<1> DEFINE at    == ResolveCol(w)
           n     == at + 1
           after == IF at = 0 THEN 0 ELSE IndexOf(w.box, w.columns[at].root)
           cols  == InsertAt(w.columns, n, NewColumn(q))
           box   == InsertAt(w.box, after + 1, q)
           pl    == Chain(w.place, q, <<q>>)
           v     == [w EXCEPT !.columns = cols, !.box = box, !.place = pl]
<1>1. at \in 0 .. Len(w.columns) /\ n \in 1 .. Len(w.columns) + 1
  BY ResolveColOK DEF WsOK
<1>2. after + 1 \in 1 .. Len(w.box) + 1
  BY IndexOfOK DEF WsOK
<1>3. InsertColumn(w, q) = FocusColumn(v, n)
  BY DEF InsertColumn
<1> HIDE DEF at, after, n
<1>4. /\ Skips(w.columns, cols, n) /\ n \in DOMAIN cols /\ cols[n] = NewColumn(q)
      /\ cols \in Seq(ColumnSet(P)) /\ Len(cols) = Len(w.columns) + 1
  BY <1>1, NewColumnOK, InsertSkips, InsertAtOK DEF WsOK
<1>5. /\ Distinct(w.box) /\ ToSet(w.box) = Roots(w) /\ q \notin ToSet(w.box)
      /\ RootsApart(w) /\ \A c \in DOMAIN w.columns : InOrder(w, c)
      /\ \A x \in OnScreen(w) : w.place[x].root \in Roots(w)
      /\ Distinct(w.panes) /\ Apart(w) /\ Whole(w.place)
  BY DEF Trees, Hung, Fresh
<1>6. box \in Seq(P \cup {Overlay}) /\ ToSet(box) = ToSet(w.box) \cup {q} /\ Distinct(box)
  <2>1. w.box \in Seq(P \cup {Overlay}) /\ q \in P \cup {Overlay}
    BY DEF WsOK
  <2> QED BY <1>2, <1>5, <2>1, InsertDistinct, InsertAtOK
<1>7. InRoot(w.place, q) = {}
  BY <1>5 DEF InRoot, OnScreen, Fresh
<1> DEFINE one == <<q>>
<1>8. one \in Seq(P) /\ Distinct(one) /\ ToSet(one) = {q} /\ Len(one) = 1 /\ one[1] = q
  BY DEF Distinct, ToSet
<1>c. Chain(w.place, q, <<q>>) = Chain(w.place, q, one)
  OBVIOUS
<1> HIDE DEF one
<1>9. Whole(pl)
  <2>1. ToSet(one) \cap DOMAIN w.place \subseteq InRoot(w.place, q)
    BY <1>8 DEF Fresh, OnScreen
  <2> QED BY <1>5, <1>8, <1>c, <2>1, ChainWhole
<1>10. /\ DOMAIN pl = OnScreen(w) \cup {q} /\ pl[q].root = q
       /\ \A x \in OnScreen(w) : pl[x] = w.place[x]
  <2>1. Chained(pl, w.place, q, one)
    BY <1>8, <1>c, ChainPlaces
  <2>2. DOMAIN pl = OnScreen(w) \cup {q} /\ \A x \in OnScreen(w) : pl[x] = w.place[x]
    BY <1>7, <1>8, <2>1 DEF Chained, OnScreen, Fresh
  <2>3. pl[q] = At(q, ChainPath(1, Len(one)))
    BY <1>8, <2>1 DEF Chained
  <2> QED BY <2>2, <2>3 DEF At
<1> HIDE DEF cols, box, pl
<1>11. /\ Kept(v, w, {"columns", "box", "place"})
       /\ v.columns = cols /\ v.box = box /\ v.place = pl
  BY DEF Kept, WsOK, Shape, Fields
<1> HIDE DEF v
<1>12. SameRegistry(v, w)
  BY <1>11 DEF Kept, Fields, SameRegistry
<1>13. NewColumn(q).root = q /\ NewColumn(q).panes = <<q>>
  BY DEF NewColumn
<1>14. /\ Roots(v) = Roots(w) \cup {q} /\ Listed(v) = Listed(w) \cup {q}
       /\ \A d \in DOMAIN v.columns \ {n} : \E c \in DOMAIN w.columns : w.columns[c] = v.columns[d]
  <2>1. /\ Skips(w.columns, v.columns, n) /\ n \in DOMAIN v.columns
        /\ v.columns[n].root = q /\ ToSet(v.columns[n].panes) = {q}
    BY <1>4, <1>8, <1>11, <1>13 DEF one
  <2>2. AllBut(w, v, n)
    BY <2>1, SkipsColumns
  <2> QED BY <2>1, <2>2 DEF AllBut
<1>15. RootsApart(v)
  BY <1>4, <1>5, <1>11, <1>13, SkipsRoots DEF Fresh
<1>16. Apart(v)
  <2>1. Distinct(cols[n].panes) /\ Listed(w) \cap ToSet(cols[n].panes) = {}
    BY <1>4, <1>8, <1>13 DEF one, Fresh
  <2> QED BY <1>4, <1>5, <1>11, <2>1, GrowsApart
<1>17. OnScreen(v) = OnScreen(w) \cup {q}
  BY <1>10, <1>11 DEF OnScreen
<1>18. ASSUME NEW d \in DOMAIN v.columns
       PROVE  InOrder(v, d)
  <2>1. CASE d = n
    <3>1. v.columns[d].panes = <<q>> /\ v.columns[d].root = q
      BY <1>4, <1>11, <1>13, <2>1
    <3>2. \A i \in DOMAIN <<q>> : i = 1 /\ <<q>>[i] = q
      OBVIOUS
    <3> QED BY <1>10, <1>11, <3>1, <3>2 DEF InOrder
  <2>2. CASE d # n
    <3>1. PICK c \in DOMAIN w.columns : w.columns[c] = v.columns[d]
      BY <1>14, <2>2
    <3>2. \A x \in ToSet(w.columns[c].panes) : x \in Listed(w)
      BY DEF Listed
    <3>3. \A x \in ToSet(w.columns[c].panes) :
             x \in OnScreen(v) => x \in OnScreen(w) /\ v.place[x] = w.place[x]
      BY <1>10, <1>11, <1>17, <3>2 DEF Fresh
    <3> QED BY <1>5, <3>1, <3>3, InOrderSame
  <2> QED BY <2>1, <2>2
<1>19. Hung(v)
  <2>1. \A x \in OnScreen(v) : v.place[x].root \in Roots(v)
    BY <1>5, <1>10, <1>11, <1>14, <1>17
  <2> QED BY <1>5, <1>6, <1>11, <1>14, <1>15, <1>18, <2>1 DEF Hung
<1>20. Trees(v)
  BY <1>5, <1>9, <1>11, <1>12, <1>16, <1>19 DEF Trees, SameRegistry
<1>21. WsOK(v, P)
  <2>1. PlacesOK(pl, P)
    BY <1>8, <1>c, ChainPlacesOK DEF WsOK, pl
  <2>2. v.columns \in Seq(ColumnSet(P)) /\ Len(v.columns) >= Len(w.columns)
    <3>1. Len(w.columns) \in Nat
      BY DEF WsOK
    <3> QED BY <1>4, <1>11, <3>1
  <2>3. v.box \in Seq(P \cup {Overlay}) /\ PlacesOK(v.place, P)
    BY <1>6, <1>11, <2>1
  <2> QED BY <1>11, <2>2, <2>3, RearrangeOK
<1>22. SameTrees(FocusColumn(v, n), v)
  BY <1>21, FocusColumnSame
<1>23. /\ Trees(FocusColumn(v, n)) /\ SameRegistry(FocusColumn(v, n), w)
       /\ OnScreen(FocusColumn(v, n)) = OnScreen(v) /\ Listed(FocusColumn(v, n)) = Listed(v)
  BY <1>12, <1>20, <1>22, SameTreesOK DEF SameTrees, SameRegistry, OnScreen, Listed
<1> QED BY <1>3, <1>14, <1>17, <1>23

\* v is w with column c listing other panes, chained under its root.
Rechained(v, w, c, list, f) ==
    /\ SameRegistry(v, w)
    /\ OnScreen(v) = (OnScreen(w) \ InRoot(w.place, w.columns[c].root)) \cup ToSet(list)
    /\ v.columns = [w.columns EXCEPT ![c] = [w.columns[c] EXCEPT !.panes = list, !.focused = f]]

\* A column is rebuilt from a list of its own.
LEMMA RechainTrees ==
  ASSUME NEW P, NEW w, WsOK(w, P), w.mode = "strip", Trees(w), NEW c \in 1 .. Len(w.columns),
         NEW list \in Seq(P), Distinct(list), NEW f,
         \A d \in DOMAIN w.columns : d # c => ToSet(list) \cap ToSet(w.columns[d].panes) = {},
         ToSet(list) \cap OnScreen(w) \subseteq InRoot(w.place, w.columns[c].root)
  PROVE  Trees(Rechain(w, c, list, f)) /\ Rechained(Rechain(w, c, list, f), w, c, list, f)
<1> DEFINE col  == w.columns[c]
           new  == [col EXCEPT !.panes = list, !.focused = f]
           root == col.root
           cols == [w.columns EXCEPT ![c] = new]
           box  == Append(Without(w.box, root), root)
           pl   == Chain(w.place, root, list)
           v    == [w EXCEPT !.columns = cols, !.box = box, !.place = pl]
<1>1. Rechain(w, c, list, f) = v
  BY DEF Rechain, WsOK
<1>2. w.columns \in Seq(ColumnSet(P)) /\ DOMAIN w.columns = 1 .. Len(w.columns)
  BY DEF WsOK
<1>3. new.root = root /\ new.panes = list /\ root \in P /\ root \in Roots(w)
  <2>1. col \in ColumnSet(P)
    BY <1>2
  <2>2. root \in Roots(w)
    BY <1>2 DEF Roots
  <2> QED BY <2>1, <2>2, ColumnFields DEF ColumnSet
<1>4. /\ DOMAIN cols = DOMAIN w.columns /\ cols[c] = new
      /\ \A d \in DOMAIN w.columns : cols[d].root = w.columns[d].root
      /\ \A d \in DOMAIN w.columns : d # c => cols[d] = w.columns[d]
  BY <1>2, <1>3
<1>5. /\ Distinct(w.box) /\ ToSet(w.box) = Roots(w)
      /\ RootsApart(w) /\ \A d \in DOMAIN w.columns : InOrder(w, d)
      /\ \A x \in OnScreen(w) : w.place[x].root \in Roots(w)
      /\ Distinct(w.panes) /\ Apart(w) /\ Whole(w.place)
  BY DEF Trees, Hung
<1> DEFINE rest == Without(w.box, root)
<1>6. box \in Seq(P \cup {Overlay}) /\ ToSet(box) = Roots(w) /\ Distinct(box)
  <2>1. w.box \in Seq(P \cup {Overlay}) /\ root \in P \cup {Overlay}
    BY <1>3 DEF WsOK
  <2> HIDE DEF root
  <2>2. rest \in Seq(P \cup {Overlay}) /\ Distinct(rest) /\ ToSet(rest) = Roots(w) \ {root}
    BY <1>5, <2>1, WithoutOK, WithoutDistinct
  <2> HIDE DEF rest
  <2>3. /\ Append(rest, root) \in Seq(P \cup {Overlay})
        /\ ToSet(Append(rest, root)) = ToSet(rest) \cup {root}
        /\ Distinct(Append(rest, root))
    BY <2>1, <2>2, AppendDistinct, AppendOK
  <2> QED BY <1>3, <2>2, <2>3 DEF rest
<1> HIDE DEF rest
<1>7. Whole(pl) /\ Chained(pl, w.place, root, list)
  <2> HIDE DEF root
  <2>1. ToSet(list) \cap DOMAIN w.place \subseteq InRoot(w.place, root)
    BY DEF OnScreen, root
  <2> QED BY <1>5, <2>1, ChainWhole, ChainPlaces
<1>8. \A d \in DOMAIN w.columns : d # c => ToSet(list) \cap ToSet(w.columns[d].panes) = {}
  OBVIOUS
<1>9. v.columns = [w.columns EXCEPT ![c] = [w.columns[c] EXCEPT !.panes = list, !.focused = f]]
  BY DEF WsOK, Shape, Fields
<1> HIDE DEF cols, box, pl, new
<1>10. /\ Kept(v, w, {"columns", "box", "place"})
       /\ v.columns = cols /\ v.box = box /\ v.place = pl
  BY DEF Kept, WsOK, Shape, Fields
<1> HIDE DEF v
<1>11. SameRegistry(v, w)
  BY <1>10 DEF Kept, Fields, SameRegistry
<1>12. Roots(v) = Roots(w) /\ RootsApart(v)
  BY <1>4, <1>5, <1>10 DEF Roots, RootsApart
<1>13. OnScreen(v) = (OnScreen(w) \ InRoot(w.place, root)) \cup ToSet(list)
  BY <1>7, <1>10 DEF OnScreen, Chained
<1>14. /\ \A i \in 1 .. Len(list) : v.place[list[i]].root = root
                                   /\ v.place[list[i]].path = ChainPath(i, Len(list))
       /\ \A x \in OnScreen(v) \ ToSet(list) : v.place[x] = w.place[x]
  <2>1. \A x \in OnScreen(v) \ ToSet(list) : v.place[x] = w.place[x]
    BY <1>7, <1>10 DEF OnScreen, Chained
  <2>2. ASSUME NEW i \in 1 .. Len(list)
        PROVE  v.place[list[i]].root = root /\ v.place[list[i]].path = ChainPath(i, Len(list))
    <3>1. v.place[list[i]] = At(root, ChainPath(i, Len(list)))
      BY <1>7, <1>10 DEF Chained
    <3> QED BY <3>1 DEF At
  <2> QED BY <2>1, <2>2
<1>15. DOMAIN list = 1 .. Len(list) /\ Len(list) \in Nat
  OBVIOUS
<1>16. Apart(v)
  <2>1. ASSUME NEW a \in DOMAIN v.columns, NEW b \in DOMAIN v.columns,
               NEW i \in DOMAIN v.columns[a].panes, NEW j \in DOMAIN v.columns[b].panes,
               v.columns[a].panes[i] = v.columns[b].panes[j]
        PROVE  a = b /\ i = j
    <3>1. /\ a \in DOMAIN w.columns /\ b \in DOMAIN w.columns
          /\ a # c => v.columns[a] = w.columns[a]
          /\ b # c => v.columns[b] = w.columns[b]
          /\ a = c => v.columns[a].panes = list
          /\ b = c => v.columns[b].panes = list
      BY <1>3, <1>4, <1>10
    <3>2. CASE a = c /\ b = c
      BY <2>1, <3>1, <3>2 DEF Distinct
    <3>3. CASE a = c /\ b # c
      BY <1>8, <2>1, <3>1, <3>3 DEF ToSet
    <3>4. CASE a # c /\ b = c
      BY <1>8, <2>1, <3>1, <3>4 DEF ToSet
    <3>5. CASE a # c /\ b # c
      BY <1>5, <2>1, <3>1, <3>5 DEF Apart
    <3> QED BY <3>2, <3>3, <3>4, <3>5
  <2> QED BY <2>1 DEF Apart
<1>17. ASSUME NEW d \in DOMAIN v.columns
       PROVE  InOrder(v, d)
  <2>1. d \in DOMAIN w.columns
    BY <1>4, <1>10
  <2>2. CASE d = c
    <3>1. v.columns[d].panes = list /\ v.columns[d].root = root
      BY <1>3, <1>4, <1>10, <2>2
    <3>2. \A i, j \in DOMAIN list : i < j => Before(v.place[list[i]].path, v.place[list[j]].path)
      BY <1>14, <1>15, ChainOrder
    <3> QED BY <1>14, <1>15, <3>1, <3>2 DEF InOrder
  <2>3. CASE d # c
    <3>1. v.columns[d] = w.columns[d]
      BY <1>4, <1>10, <2>1, <2>3
    <3>2. \A x \in ToSet(w.columns[d].panes) :
             x \in OnScreen(v) => x \in OnScreen(w) /\ v.place[x] = w.place[x]
      BY <1>8, <1>13, <1>14, <2>1, <2>3
    <3> QED BY <1>5, <2>1, <3>1, <3>2, InOrderSame
  <2> QED BY <2>2, <2>3
<1>18. \A x \in OnScreen(v) : v.place[x].root \in Roots(v)
  <2>1. ASSUME NEW x \in ToSet(list) PROVE v.place[x].root \in Roots(v)
    <3>1. PICK i \in 1 .. Len(list) : x = list[i]
      BY <1>15 DEF ToSet
    <3> QED BY <1>3, <1>12, <1>14, <3>1
  <2>2. ASSUME NEW x \in OnScreen(v), x \notin ToSet(list) PROVE v.place[x].root \in Roots(v)
    BY <1>5, <1>12, <1>13, <1>14, <2>2
  <2> QED BY <2>1, <2>2
<1>19. Hung(v)
  BY <1>6, <1>10, <1>12, <1>17, <1>18 DEF Hung
<1>20. Trees(v)
  BY <1>5, <1>7, <1>10, <1>11, <1>16, <1>19 DEF Trees, SameRegistry
<1> QED BY <1>1, <1>9, <1>11, <1>13, <1>20 DEF Rechained

\* A column goes with everything that hangs under its root.
LEMMA RemoveActiveColumnTrees ==
  ASSUME NEW P, NEW w, WsOK(w, P), w.mode = "strip", Trees(w)
  PROVE  /\ Trees(RemoveActiveColumn(w)) /\ SameRegistry(RemoveActiveColumn(w), w)
         /\ ResolveCol(w) \in 1 .. Len(w.columns)
         /\ OnScreen(RemoveActiveColumn(w))
              = OnScreen(w) \ InRoot(w.place, w.columns[ResolveCol(w)].root)
         /\ Listed(w) \subseteq Listed(RemoveActiveColumn(w))
                                 \cup ToSet(w.columns[ResolveCol(w)].panes)
<1> DEFINE c    == ResolveCol(w)
           root == w.columns[c].root
           cols == RemoveAt(w.columns, c)
           f    == IF c > Len(cols) THEN Len(cols) ELSE c
           act  == FocusedOf(cols[f])
           box  == Without(w.box, root)
           pl   == Restrict(w.place, DOMAIN w.place \ InRoot(w.place, root))
           v    == RemoveActiveColumn(w)
<1>1. c \in 1 .. Len(w.columns) /\ c \in DOMAIN w.columns
  <2>1. w.columns \in Seq(ColumnSet(P)) /\ Len(w.columns) \in Nat /\ w.focusedCol \in 1 .. Len(w.columns)
    BY DEF WsOK
  <2>2. w.columns # <<>>
    BY <2>1
  <2> QED BY <2>1, <2>2, ResolveColOK
<1>2. v = [w EXCEPT !.columns = cols, !.focusedCol = f, !.active = act, !.box = box, !.place = pl]
  BY DEF RemoveActiveColumn
<1>3. Skips(cols, w.columns, c)
  BY <1>1, RemoveSkips DEF WsOK
<1>4. /\ Distinct(w.box) /\ ToSet(w.box) = Roots(w)
      /\ RootsApart(w) /\ \A d \in DOMAIN w.columns : InOrder(w, d)
      /\ \A x \in OnScreen(w) : w.place[x].root \in Roots(w)
      /\ Distinct(w.panes) /\ Apart(w) /\ Whole(w.place)
  BY DEF Trees, Hung
<1>5. ToSet(box) = Roots(w) \ {root} /\ Distinct(box)
  <2>1. w.box \in Seq(P \cup {Overlay})
    BY DEF WsOK
  <2> QED BY <1>4, <2>1, WithoutDistinct
<1>6. /\ DOMAIN pl = OnScreen(w) \ InRoot(w.place, root)
      /\ \A x \in DOMAIN pl : pl[x] = w.place[x]
  BY DEF Restrict, OnScreen
<1> HIDE DEF cols, f, act, box, pl, v, c
<1>7. /\ Kept(v, w, {"columns", "focusedCol", "active", "box", "place"})
      /\ v.columns = cols /\ v.box = box /\ v.place = pl
  BY <1>2 DEF Kept, WsOK, Shape, Fields
<1>8. SameRegistry(v, w) /\ OnScreen(v) = OnScreen(w) \ InRoot(w.place, root)
  BY <1>6, <1>7 DEF Kept, Fields, SameRegistry, OnScreen
<1>9. Whole(v.place)
  <2>1. DOMAIN pl = DOMAIN w.place \ InRoot(w.place, root)
    BY <1>6 DEF OnScreen
  <2> QED BY <1>4, <1>6, <1>7, <2>1, DropWhole
<1>10. Skips(v.columns, w.columns, c)
  BY <1>3, <1>7
<1>11. Apart(v) /\ RootsApart(v) /\ Roots(v) = Roots(w) \ {root}
  BY <1>1, <1>4, <1>10, SkipsApart, SkipsRoots
<1>12. ASSUME NEW d \in DOMAIN v.columns
       PROVE  InOrder(v, d)
  <2>1. AllBut(v, w, c)
    BY <1>1, <1>10, SkipsColumns
  <2>2. PICK e \in DOMAIN w.columns : v.columns[d] = w.columns[e]
    BY <2>1 DEF AllBut
  <2>3. \A x \in ToSet(w.columns[e].panes) :
           x \in OnScreen(v) => x \in OnScreen(w) /\ v.place[x] = w.place[x]
    BY <1>6, <1>7, <1>8
  <2> QED BY <1>4, <2>2, <2>3, InOrderSame
<1>13. \A x \in OnScreen(v) : v.place[x].root \in Roots(v)
  BY <1>4, <1>6, <1>7, <1>8, <1>11 DEF InRoot, OnScreen
<1>14. Hung(v)
  BY <1>5, <1>7, <1>11, <1>12, <1>13 DEF Hung
<1>15. Trees(v)
  BY <1>4, <1>8, <1>9, <1>11, <1>14 DEF Trees, SameRegistry
<1>16. Listed(w) \subseteq Listed(v) \cup ToSet(w.columns[c].panes)
  <2>1. AllBut(v, w, c)
    BY <1>1, <1>10, SkipsColumns
  <2>2. Listed(w) = Listed(v) \cup ToSet(w.columns[c].panes)
    BY <2>1 DEF AllBut
  <2> QED BY <2>2
<1> QED BY <1>1, <1>8, <1>15, <1>16 DEF v, c

\* The panes of a column are its own, and on the screen they hang under its root.
LEMMA ColumnPanes ==
  ASSUME NEW P, NEW w, WsOK(w, P), w.mode = "strip", Trees(w), NEW c \in 1 .. Len(w.columns)
  PROVE  /\ w.columns[c].panes \in Seq(P) /\ Distinct(w.columns[c].panes)
         /\ ToSet(w.columns[c].panes) \subseteq Listed(w)
         /\ ToSet(w.columns[c].panes) \cap OnScreen(w) \subseteq InRoot(w.place, w.columns[c].root)
         /\ \A d \in DOMAIN w.columns :
               d # c => ToSet(w.columns[c].panes) \cap ToSet(w.columns[d].panes) = {}
<1>1. w.columns[c] \in ColumnSet(P) /\ c \in DOMAIN w.columns
  BY DEF WsOK
<1>2. w.columns[c].panes \in Seq(P)
  BY <1>1, ColumnFields
<1>3. Apart(w) /\ InOrder(w, c)
  BY <1>1 DEF Trees, Hung
<1>4. Distinct(w.columns[c].panes)
  BY <1>1, <1>3 DEF Apart, Distinct
<1>5. ToSet(w.columns[c].panes) \cap OnScreen(w) \subseteq InRoot(w.place, w.columns[c].root)
  BY <1>3 DEF InOrder, ToSet, InRoot, OnScreen
<1>6. \A d \in DOMAIN w.columns :
         d # c => ToSet(w.columns[c].panes) \cap ToSet(w.columns[d].panes) = {}
  BY <1>1, <1>3 DEF Apart, ToSet
<1>7. ToSet(w.columns[c].panes) \subseteq Listed(w)
  BY <1>1 DEF Listed
<1> QED BY <1>2, <1>4, <1>5, <1>6, <1>7

\* What is listed when one column's list changes.
LEMMA ListedOK ==
  ASSUME NEW v, NEW w, NEW c \in DOMAIN w.columns, DOMAIN v.columns = DOMAIN w.columns,
         \A d \in DOMAIN w.columns : d # c => v.columns[d] = w.columns[d]
  PROVE  /\ ToSet(v.columns[c].panes) \subseteq Listed(v)
         /\ \A x : x \notin ToSet(w.columns[c].panes) /\ x \notin ToSet(v.columns[c].panes)
                     => (x \in Listed(v) <=> x \in Listed(w))
BY DEF Listed

\* A pane is put into the focused column.
LEMMA SplitInColumnTrees ==
  ASSUME NEW P, NEW w, WsOK(w, P), w.mode = "strip", Trees(w), NEW q \in P, Fresh(w, q)
  PROVE  /\ Trees(SplitInColumn(w, q)) /\ SameRegistry(SplitInColumn(w, q), w)
         /\ q \in OnScreen(SplitInColumn(w, q))
         /\ OnScreen(SplitInColumn(w, q)) \subseteq OnScreen(w) \cup Listed(w) \cup {q}
         /\ Listed(SplitInColumn(w, q)) = Listed(w) \cup {q}
<1> DEFINE c    == ResolveCol(w)
           col  == w.columns[c]
           i    == Clamp(col.focused + 1, 1, Len(col.panes) + 1)
           list == InsertAt(col.panes, i, q)
           v    == Rechain(w, c, list, i)
<1>1. c \in 1 .. Len(w.columns) /\ c \in DOMAIN w.columns
  <2>1. w.columns \in Seq(ColumnSet(P)) /\ Len(w.columns) \in Nat /\ w.focusedCol \in 1 .. Len(w.columns)
    BY DEF WsOK
  <2>2. w.columns # <<>>
    BY <2>1
  <2> QED BY <2>1, <2>2, ResolveColOK
<1>2. col \in ColumnSet(P)
  BY <1>1 DEF WsOK
<1>3. col.panes \in Seq(P) /\ col.focused \in 1 .. Len(col.panes)
  BY <1>2, ColumnFields
<1> HIDE DEF c
<1>4. /\ Distinct(col.panes) /\ ToSet(col.panes) \subseteq Listed(w)
      /\ ToSet(col.panes) \cap OnScreen(w) \subseteq InRoot(w.place, col.root)
      /\ \A d \in DOMAIN w.columns : d # c => ToSet(col.panes) \cap ToSet(w.columns[d].panes) = {}
  BY <1>1, ColumnPanes
<1> HIDE DEF col
<1>5. i \in 1 .. Len(col.panes) + 1
  <2> DEFINE n  == col.focused + 1
             hi == Len(col.panes) + 1
  <2>1. n \in Int /\ hi \in Int /\ 1 <= hi
    BY <1>3
  <2> HIDE DEF n, hi
  <2>2. Clamp(n, 1, hi) \in 1 .. hi
    BY <2>1, ClampOK
  <2> QED
    BY <2>2 DEF n, hi
<1>6. SplitInColumn(w, q) = Rechain(w, c, list, i)
  BY DEF SplitInColumn, c, col
<1> HIDE DEF i
<1>7. /\ list \in Seq(P) /\ ToSet(list) = ToSet(col.panes) \cup {q} /\ Distinct(list)
  <2>1. q \notin ToSet(col.panes)
    BY <1>4 DEF Fresh
  <2> QED BY <1>3, <1>4, <1>5, <2>1, InsertAtOK, InsertDistinct
<1> HIDE DEF list
<1>8. \A d \in DOMAIN w.columns : d # c => ToSet(list) \cap ToSet(w.columns[d].panes) = {}
  <2>1. \A d \in DOMAIN w.columns : q \notin ToSet(w.columns[d].panes)
    BY DEF Fresh, Listed
  <2> QED BY <1>4, <1>7, <2>1
<1>9. ToSet(list) \cap OnScreen(w) \subseteq InRoot(w.place, w.columns[c].root)
  BY <1>4, <1>7 DEF Fresh, col
<1> HIDE DEF v
<1>10. Trees(Rechain(w, c, list, i)) /\ Rechained(Rechain(w, c, list, i), w, c, list, i)
  BY <1>1, <1>7, <1>8, <1>9, RechainTrees
<1>11. /\ Trees(v) /\ SameRegistry(v, w)
       /\ OnScreen(v) = (OnScreen(w) \ InRoot(w.place, w.columns[c].root)) \cup ToSet(list)
       /\ v.columns = [w.columns EXCEPT ![c] = [w.columns[c] EXCEPT !.panes = list, !.focused = i]]
  BY <1>10 DEF v, Rechained
<1>12. Listed(v) = Listed(w) \cup {q}
  <2>1. /\ DOMAIN v.columns = DOMAIN w.columns
        /\ \A d \in DOMAIN w.columns : d # c => v.columns[d] = w.columns[d]
        /\ v.columns[c].panes = list
    BY <1>1, <1>2, <1>11 DEF col, ColumnSet
  <2>2. /\ ToSet(list) \subseteq Listed(v)
        /\ \A x : x \notin ToSet(col.panes) /\ x \notin ToSet(list) => (x \in Listed(v) <=> x \in Listed(w))
    BY <1>1, <2>1, ListedOK DEF col
  <2> QED BY <1>4, <1>7, <2>2
<1> QED BY <1>4, <1>6, <1>7, <1>11, <1>12 DEF v

\* A pane leaves a column of several.
LEMMA RemoveFromColumnTrees ==
  ASSUME NEW P, NEW w, WsOK(w, P), w.mode = "strip", Trees(w), NEW p, ColumnOf(w, p) # 0,
         Len(w.columns[ColumnOf(w, p)].panes) > 1
  PROVE  /\ Trees(RemoveFromColumn(w, p)) /\ SameRegistry(RemoveFromColumn(w, p), w)
         /\ OnScreen(RemoveFromColumn(w, p)) \subseteq (OnScreen(w) \cup Listed(w)) \ {p}
         /\ Listed(RemoveFromColumn(w, p)) = Listed(w) \ {p}
<1> DEFINE c    == ColumnOf(w, p)
           col  == w.columns[c]
           k    == IndexOf(col.panes, p)
           list == RemoveAt(col.panes, k)
           f    == IF col.focused > Len(list) THEN Len(list) ELSE col.focused
           v    == Rechain(w, c, list, f)
           act  == FocusedOf(v.columns[c])
<1>1. c \in 1 .. Len(w.columns) /\ c \in DOMAIN w.columns /\ p \in ToSet(col.panes)
  <2>1. w.columns \in Seq(ColumnSet(P))
    BY DEF WsOK
  <2>2. ColumnOf(w, p) \in 1 .. Len(w.columns) /\ p \in ToSet(w.columns[ColumnOf(w, p)].panes)
    BY <2>1, ColumnOfOK
  <2> QED BY <2>1, <2>2
<1>2. col \in ColumnSet(P)
  BY <1>1 DEF WsOK
<1>3. col.panes \in Seq(P) /\ col.focused \in 1 .. Len(col.panes)
  BY <1>2, ColumnFields
<1>6. RemoveFromColumn(w, p) = [v EXCEPT !.active = act]
  BY DEF RemoveFromColumn
<1>h. Len(col.panes) > 1
  OBVIOUS
<1> HIDE DEF c
<1>4. /\ Distinct(col.panes) /\ ToSet(col.panes) \subseteq Listed(w)
      /\ ToSet(col.panes) \cap OnScreen(w) \subseteq InRoot(w.place, col.root)
      /\ \A d \in DOMAIN w.columns : d # c => ToSet(col.panes) \cap ToSet(w.columns[d].panes) = {}
  BY <1>1, ColumnPanes
<1> HIDE DEF col
<1>5. k \in 1 .. Len(col.panes) /\ col.panes[k] = p
  BY <1>1, <1>3, IndexOfOK
<1> HIDE DEF k
<1>7. /\ list \in Seq(P) /\ ToSet(list) = ToSet(col.panes) \ {p} /\ Distinct(list)
      /\ Len(list) = Len(col.panes) - 1
  BY <1>3, <1>4, <1>5, RemoveAtOK, RemoveDistinct, ZenonT(60)
<1> HIDE DEF list
<1>8. \A d \in DOMAIN w.columns : d # c => ToSet(list) \cap ToSet(w.columns[d].panes) = {}
  BY <1>4, <1>7
<1>9. ToSet(list) \cap OnScreen(w) \subseteq InRoot(w.place, w.columns[c].root)
  BY <1>4, <1>7 DEF col
<1>f. f \in 1 .. Len(list)
  BY <1>3, <1>7, <1>h
<1> HIDE DEF v, f, act
<1>10. Trees(Rechain(w, c, list, f)) /\ Rechained(Rechain(w, c, list, f), w, c, list, f)
  BY <1>1, <1>7, <1>8, <1>9, RechainTrees
<1>11. /\ Trees(v) /\ SameRegistry(v, w)
       /\ OnScreen(v) = (OnScreen(w) \ InRoot(w.place, w.columns[c].root)) \cup ToSet(list)
       /\ v.columns = [w.columns EXCEPT ![c] = [w.columns[c] EXCEPT !.panes = list, !.focused = f]]
  BY <1>10 DEF v, Rechained
<1>12. Listed(v) = Listed(w) \ {p}
  <2>1. /\ DOMAIN v.columns = DOMAIN w.columns
        /\ \A d \in DOMAIN w.columns : d # c => v.columns[d] = w.columns[d]
        /\ v.columns[c].panes = list
    BY <1>1, <1>2, <1>11 DEF col, ColumnSet
  <2>2. /\ ToSet(list) \subseteq Listed(v)
        /\ \A x : x \notin ToSet(col.panes) /\ x \notin ToSet(list) => (x \in Listed(v) <=> x \in Listed(w))
    BY <1>1, <2>1, ListedOK DEF col
  <2>3. p \notin Listed(v)
    <3>1. \A d \in DOMAIN w.columns : p \notin ToSet(v.columns[d].panes)
      BY <1>1, <1>4, <1>7, <2>1
    <3> QED BY <2>1, <3>1 DEF Listed
  <2> QED BY <1>4, <1>7, <2>2, <2>3
<1>13. OnScreen(v) \subseteq (OnScreen(w) \cup Listed(w)) \ {p}
  BY <1>1, <1>4, <1>7, <1>11 DEF col
<1>14. WsOK(v, P)
  BY <1>1, <1>7, <1>f, RechainOK DEF v
<1>15. SameTrees([v EXCEPT !.active = act], v)
  BY <1>14, ActiveSame
<1>16. /\ Trees([v EXCEPT !.active = act]) /\ SameRegistry([v EXCEPT !.active = act], w)
       /\ OnScreen([v EXCEPT !.active = act]) = OnScreen(v) /\ Listed([v EXCEPT !.active = act]) = Listed(v)
  <2> HIDE DEF act
  <2> DEFINE u == [v EXCEPT !.active = act]
  <2>1. SameTrees(u, v)
    BY <1>15
  <2> HIDE DEF u
  <2>2. Trees(u) /\ OnScreen(u) = OnScreen(v) /\ Listed(u) = Listed(v)
    BY <1>11, <2>1, SameTreesOK, SameTreesSets
  <2>3. SameRegistry(u, w)
    BY <1>11, <2>1 DEF SameTrees, SameRegistry
  <2> QED BY <2>2, <2>3 DEF u
<1> QED BY <1>6, <1>12, <1>13, <1>16

-----------------------------------------------------------------------------
(* Splits *)

\* The list of the registry changes, and nothing else.
LEMMA PanesTrees ==
  ASSUME NEW P, NEW w, WsOK(w, P), Trees(w), NEW list, Distinct(list)
  PROVE  LET v == [w EXCEPT !.panes = list]
         IN  /\ Trees(v) /\ Kept(v, w, {"panes"}) /\ v.panes = list
             /\ OnScreen(v) = OnScreen(w) /\ Listed(v) = Listed(w) /\ Roots(v) = Roots(w)
<1> DEFINE v == [w EXCEPT !.panes = list]
<1>1. Kept(v, w, {"panes"}) /\ v.panes = list
  BY DEF Kept, WsOK, Shape, Fields
<1> HIDE DEF v
<1>2. /\ v.mode = w.mode /\ v.columns = w.columns /\ v.box = w.box /\ v.place = w.place
  BY <1>1 DEF Kept, Fields
<1>3. OnScreen(v) = OnScreen(w) /\ Listed(v) = Listed(w) /\ Roots(v) = Roots(w)
  BY <1>2 DEF OnScreen, Listed, Roots
<1>4. Trees(v)
  <2>1. Apart(w) => Apart(v)
    BY <1>2 DEF Apart
  <2>2. Single(w) => Single(v)
    BY <1>2, <1>3, SMTT(30) DEF Single
  <2>3. ASSUME NEW c \in DOMAIN w.columns, InOrder(w, c)
        PROVE  InOrder(v, c)
    BY <1>2, <1>3, <2>3 DEF InOrder
  <2>4. Hung(w) => Hung(v)
    BY <1>2, <1>3, <2>3 DEF Hung, RootsApart
  <2> QED BY <1>1, <1>2, <2>1, <2>2, <2>4 DEF Trees
<1> QED BY <1>1, <1>3, <1>4 DEF v

LEMMA InsertFirst ==
  ASSUME NEW S, NEW s \in Seq(S), NEW i \in 1 .. Len(s) + 1, NEW e \in S, i # 1
  PROVE  InsertAt(s, i, e)[1] = s[1]
<1>2. /\ InsertAt(s, i, e) \in Seq(S)
      /\ Len(InsertAt(s, i, e)) = Len(s) + 1
      /\ \A j \in 1 .. Len(s) + 1 :
            InsertAt(s, i, e)[j] = IF j < i THEN s[j] ELSE IF j = i THEN e ELSE s[j - 1]
  BY InsertAtOK
<1>3. 1 \in 1 .. Len(s) + 1 /\ 1 < i
  OBVIOUS
<1> QED BY <1>2, <1>3

\* On the strip a split brings one pane, in the registry, in a column and on
\* the screen.
LEMMA SplitStripTrees ==
  ASSUME NEW P, NEW w, WsOK(w, P), w.mode = "strip", Trees(w), NEW q \in P, Fresh(w, q),
         q \notin Registered(w), NEW f, NEW o
  PROVE  LET v == SplitStrip(w, f, o, q)
         IN  /\ Trees(v) /\ v.mode = w.mode /\ v.wrecked = w.wrecked
             /\ v.primary = w.primary /\ v.panes[1] = w.panes[1]
             /\ Registered(v) = Registered(w) \cup {q}
             /\ OnScreen(v) \subseteq OnScreen(w) \cup Listed(w) \cup {q}
             /\ Listed(v) = Listed(w) \cup {q}
             /\ q \in OnScreen(v) /\ Lit(v)
<1> DEFINE p    == FocusedPane(w, f)
           k    == IndexOf(w.panes, p)
           w0   == AfterLookup(w, f)
           at   == IF k = 0 THEN Len(w0.panes) + 1 ELSE k + 1
           list == InsertAt(w0.panes, at, q)
           w1   == [w0 EXCEPT !.panes = list]
           w2   == IF o = "horizontal" THEN InsertColumn(w1, q) ELSE SplitInColumn(w1, q)
           v    == SplitStrip(w, f, o, q)
<1>1. v = SetActive(w2, q)
  BY DEF SplitStrip
<1>2. k \in 0 .. Len(w.panes)
  BY IndexOfOK DEF WsOK
<1>3. WsOK(w0, P) /\ SameTrees(w0, w)
  BY AfterLookupOK, AfterLookupSame
<1> HIDE DEF k, w0
<1>4. /\ w0.panes = w.panes /\ w0.mode = w.mode /\ w0.primary = w.primary /\ w0.wrecked = w.wrecked
      /\ Trees(w0) /\ OnScreen(w0) = OnScreen(w) /\ Listed(w0) = Listed(w) /\ Roots(w0) = Roots(w)
  BY <1>3, SameTreesOK, SameTreesSets DEF SameTrees
<1>5. /\ w0.panes \in Seq(P) /\ Len(w0.panes) \in Nat /\ Len(w0.panes) >= 1
      /\ at \in 2 .. Len(w0.panes) + 1
  <2>1. w0.panes \in Seq(P) /\ w0.panes # <<>>
    BY <1>3 DEF WsOK
  <2>2. Len(w0.panes) \in Nat /\ Len(w0.panes) >= 1
    BY <2>1
  <2>3. at \in 2 .. Len(w0.panes) + 1
    BY <1>2, <1>4, <2>2
  <2> QED BY <2>1, <2>2, <2>3
<1> HIDE DEF at
<1>6. at \in 1 .. Len(w0.panes) + 1
  BY <1>5
<1> DEFINE s == w0.panes
<1>7. /\ list \in Seq(P) /\ Len(list) = Len(s) + 1 /\ list[1] = s[1]
      /\ ToSet(list) = ToSet(s) \cup {q}
      /\ Distinct(s) /\ q \notin ToSet(s) => Distinct(list)
  <2>0. s \in Seq(P) /\ at \in 1 .. Len(s) + 1 /\ at # 1
    BY <1>5, <1>6
  <2> HIDE DEF s
  <2>1. /\ InsertAt(s, at, q) \in Seq(P)
        /\ Len(InsertAt(s, at, q)) = Len(s) + 1
    BY <2>0, InsertAtOK
  <2>2. /\ ToSet(InsertAt(s, at, q)) = ToSet(s) \cup {q}
        /\ Distinct(s) /\ q \notin ToSet(s) => Distinct(InsertAt(s, at, q))
    BY <2>0, InsertDistinct
  <2>3. InsertAt(s, at, q)[1] = s[1]
    BY <2>0, InsertFirst
  <2> QED BY <2>1, <2>2, <2>3 DEF s
<1>8. list[1] = w.panes[1] /\ ToSet(list) = Registered(w) \cup {q} /\ Distinct(list) /\ list # <<>>
  <2>2. Distinct(w0.panes)
    BY <1>4 DEF Trees
  <2>3. list # <<>>
    BY <1>5, <1>7
  <2> QED BY <1>4, <1>7, <2>2, <2>3 DEF Registered
<1>9. list \in Seq(P)
  BY <1>7
<1> HIDE DEF list
<1>10. /\ Trees(w1) /\ Kept(w1, w0, {"panes"}) /\ w1.panes = list
       /\ OnScreen(w1) = OnScreen(w0) /\ Listed(w1) = Listed(w0) /\ Roots(w1) = Roots(w0)
  BY <1>3, <1>4, <1>8, PanesTrees
<1>11. WsOK(w1, P)
  BY <1>3, <1>8, <1>9, PanesOK
<1> HIDE DEF w1
<1>12. w1.mode = w.mode /\ w1.primary = w.primary /\ w1.wrecked = w.wrecked /\ Fresh(w1, q)
  BY <1>4, <1>10 DEF Kept, Fields, Fresh
<1>13. /\ WsOK(w2, P) /\ Trees(w2) /\ SameRegistry(w2, w1) /\ q \in OnScreen(w2)
       /\ OnScreen(w2) \subseteq OnScreen(w1) \cup Listed(w1) \cup {q}
       /\ Listed(w2) = Listed(w1) \cup {q}
  <2>1. CASE o = "horizontal"
    BY <1>10, <1>11, <1>12, <2>1, InsertColumnOK, InsertColumnTrees
  <2>2. CASE o # "horizontal"
    BY <1>10, <1>11, <1>12, <2>2, SplitInColumnOK, SplitInColumnTrees
  <2> QED BY <2>1, <2>2
<1> HIDE DEF w2, v
<1>14. SameTrees(v, w2)
  BY <1>1, <1>13, SetActiveSame
<1>15. Trees(v) /\ OnScreen(v) = OnScreen(w2) /\ Listed(v) = Listed(w2) /\ Registered(v) = Registered(w2)
  BY <1>13, <1>14, SameTreesOK, SameTreesSets
<1>16. /\ v.mode = w.mode /\ v.wrecked = w.wrecked /\ v.primary = w.primary /\ v.panes = list
  BY <1>10, <1>12, <1>13, <1>14 DEF SameTrees, SameRegistry
<1>17. Lit(v)
  <2>1. q \in Registered(w2)
    BY <1>8, <1>10, <1>13 DEF Registered, SameRegistry
  <2> QED BY <1>1, <1>13, <2>1, SetActiveLit
<1> QED BY <1>4, <1>8, <1>10, <1>13, <1>15, <1>16, <1>17 DEF v, Registered

\* The last element taken off again.
LEMMA AppendWithout ==
  ASSUME NEW S, NEW s \in Seq(S), NEW e \in S, e \notin ToSet(s)
  PROVE  Without(Append(s, e), e) = s
<1> DEFINE t == Append(s, e)
           n == Len(s)
           k == IndexOf(t, e)
           u == RemoveAt(t, k)
<1>1. /\ n \in Nat /\ t \in Seq(S) /\ Len(t) = n + 1
      /\ \A j \in 1 .. n + 1 : t[j] = IF j <= n THEN s[j] ELSE e
  BY AppendOK
<1>2. \A j \in 1 .. n : s[j] # e
  BY DEF ToSet
<1>3. e \in ToSet(t)
  BY AppendDistinct
<1>4. Without(t, e) = u
  BY <1>3 DEF Without
<1> HIDE DEF t, n
<1>5. k \in 1 .. Len(t) /\ t[k] = e
  BY <1>1, <1>3, IndexOfOK
<1> HIDE DEF k
<1>6. k = n + 1
  BY <1>1, <1>2, <1>5
<1>7. /\ u \in Seq(S) /\ Len(u) = Len(t) - 1
      /\ \A j \in 1 .. Len(t) - 1 : u[j] = IF j < k THEN t[j] ELSE t[j + 1]
  BY <1>1, <1>5, RemoveAtOK
<1> HIDE DEF u
<1>8. Len(u) = n /\ \A j \in 1 .. Len(u) : u[j] = s[j]
  BY <1>1, <1>6, <1>7
<1>9. u = s
  BY <1>7, <1>8, SeqEqual DEF n
<1> QED BY <1>4, <1>9 DEF t

\* v hangs its panes where w does, or beside them: the panes that both have keep
\* their root and their order, and no listed pane of w comes back.
Follows(v, w) ==
    /\ \A x \in OnScreen(v) :
          /\ x \in Listed(w) => x \in OnScreen(w)
          /\ \E y \in OnScreen(w) : v.place[x].root = w.place[y].root
    /\ \A x \in OnScreen(v) \cap OnScreen(w) : v.place[x].root = w.place[x].root
    /\ \A x, y \in OnScreen(v) \cap OnScreen(w) :
          w.place[x].root = w.place[y].root /\ Before(w.place[x].path, w.place[y].path)
             => Before(v.place[x].path, v.place[y].path)

LEMMA FollowsTrees ==
  ASSUME NEW v, NEW w, Trees(w), v.mode = w.mode, v.columns = w.columns, v.box = w.box,
         Distinct(v.panes), Whole(v.place), Follows(v, w)
  PROVE  Trees(v)
<1>1. Apart(v)
  BY DEF Trees, Apart
<1>2. Roots(v) = Roots(w) /\ Listed(v) = Listed(w)
  BY DEF Roots, Listed
<1>3. Single(w) => Single(v)
  BY SMTT(30) DEF Single, Follows
<1>4. ASSUME NEW c \in DOMAIN w.columns, InOrder(w, c)
      PROVE  InOrder(v, c)
  <2> DEFINE list == w.columns[c].panes
  <2>1. \A i \in DOMAIN list : list[i] \in Listed(w)
    BY DEF Listed, ToSet
  <2>2. \A i \in DOMAIN list : list[i] \in OnScreen(v) => list[i] \in OnScreen(w)
    BY <2>1 DEF Follows
  <2>3. \A i \in DOMAIN list :
           list[i] \in OnScreen(v) => v.place[list[i]].root = w.columns[c].root
    BY <1>4, <2>2, SMTT(30) DEF Follows, InOrder
  <2>4. ASSUME NEW i \in DOMAIN list, NEW j \in DOMAIN list, i < j,
               {list[i], list[j]} \subseteq OnScreen(v)
        PROVE  Before(v.place[list[i]].path, v.place[list[j]].path)
    <3>1. list[i] \in OnScreen(w) /\ list[j] \in OnScreen(w)
      BY <2>2, <2>4
    <3>2. /\ w.place[list[i]].root = w.place[list[j]].root
          /\ Before(w.place[list[i]].path, w.place[list[j]].path)
      BY <1>4, <2>4, <3>1 DEF InOrder
    <3> QED BY <2>4, <3>1, <3>2, Zenon DEF Follows
  <2> QED BY <2>3, <2>4 DEF InOrder
<1>5. Hung(w) => Hung(v)
  BY <1>2, <1>4 DEF Hung, RootsApart, Follows
<1> QED BY <1>1, <1>3, <1>5 DEF Trees

LEMMA SplitLeafRoots ==
  ASSUME NEW pl, NEW p \in DOMAIN pl, NEW q, q \notin DOMAIN pl
  PROVE  /\ DOMAIN SplitLeaf(pl, p, q) = DOMAIN pl \cup {q}
         /\ SplitLeaf(pl, p, q)[p].root = pl[p].root
         /\ SplitLeaf(pl, p, q)[q].root = pl[p].root
         /\ \A x \in DOMAIN pl \ {p} : SplitLeaf(pl, p, q)[x] = pl[x]
BY DEF SplitLeaf, At

LEMMA SplitPlaceTrees ==
  ASSUME NEW P, NEW w, WsOK(w, P), Trees(w), NEW p \in OnScreen(w), NEW q,
         q \notin OnScreen(w), q \notin Listed(w)
  PROVE  LET v == [w EXCEPT !.place = SplitLeaf(w.place, p, q)]
         IN  /\ Trees(v) /\ Kept(v, w, {"place"})
             /\ OnScreen(v) = OnScreen(w) \cup {q}
<1> DEFINE pl == SplitLeaf(w.place, p, q)
           v  == [w EXCEPT !.place = pl]
           R  == P \cup {Overlay}
<1>1. w.place \in [DOMAIN w.place -> Place(R)] /\ p \in DOMAIN w.place /\ q \notin DOMAIN w.place
  BY DEF WsOK, PlacesOK, OnScreen
<1>2. /\ DOMAIN pl = DOMAIN w.place \cup {q}
      /\ pl[p].root = w.place[p].root /\ pl[q].root = w.place[p].root
      /\ \A x \in DOMAIN w.place \ {p} : pl[x] = w.place[x]
  <2> DEFINE u == w.place
  <2>1. p \in DOMAIN u /\ q \notin DOMAIN u
    BY <1>1
  <2> HIDE DEF R, u
  <2>2. /\ DOMAIN SplitLeaf(u, p, q) = DOMAIN u \cup {q}
        /\ SplitLeaf(u, p, q)[p].root = u[p].root
        /\ SplitLeaf(u, p, q)[q].root = u[p].root
        /\ \A x \in DOMAIN u \ {p} : SplitLeaf(u, p, q)[x] = u[x]
    BY ONLY <2>1, SplitLeafRoots
  <2> QED BY <2>2 DEF u
<1>10. Whole(w.place)
  BY DEF Trees
<1>3. Whole(pl)
  <2> HIDE DEF R
  <2>1. Whole(SplitLeaf(w.place, p, q))
    BY <1>1, <1>10, SplitLeafWhole
  <2> QED BY <2>1
<1>4. \A x, y \in DOMAIN w.place :
         Before(w.place[x].path, w.place[y].path) => Before(pl[x].path, pl[y].path)
  BY <1>1, SplitLeafOrder
<1>5. Kept(v, w, {"place"}) /\ v.place = pl
  BY DEF Kept, WsOK, Shape, Fields
<1> HIDE DEF v, pl
<1>6. v.mode = w.mode /\ v.columns = w.columns /\ v.box = w.box /\ v.panes = w.panes
  BY <1>5 DEF Kept, Fields
<1>7. OnScreen(v) = OnScreen(w) \cup {q}
  BY <1>2, <1>5 DEF OnScreen
<1>8. Follows(v, w)
  <2>1. \A x \in OnScreen(w) : v.place[x].root = w.place[x].root
    BY <1>2, <1>5 DEF OnScreen
  <2>2. v.place[q].root = w.place[p].root
    BY <1>2, <1>5
  <2>3. \A x, y \in OnScreen(w) :
           Before(w.place[x].path, w.place[y].path) => Before(v.place[x].path, v.place[y].path)
    BY <1>4, <1>5 DEF OnScreen
  <2> QED BY <1>7, <2>1, <2>2, <2>3 DEF Follows
<1>9. Trees(v)
  <2>1. Distinct(v.panes) /\ Whole(v.place)
    BY <1>3, <1>5, <1>6 DEF Trees
  <2> QED BY <1>6, <1>8, <2>1, FollowsTrees
<1> QED BY <1>5, <1>7, <1>9 DEF v, pl

\* workspace_split_pane_target brings one pane, in the registry and on the
\* screen, or leaves both as they were.
LEMMA SplitTargetTrees ==
  ASSUME NEW P, NEW w, WsOK(w, P), Trees(w), NEW q \in P, Fresh(w, q), q \notin Registered(w),
         NEW p
  PROVE  LET v == SplitTarget(w, p, q)
         IN  /\ Trees(v) /\ v.mode = w.mode /\ v.wrecked = w.wrecked
             /\ v.primary = w.primary /\ v.panes[1] = w.panes[1] /\ Listed(v) = Listed(w)
             /\ CanSplitAt(w, p) => /\ Registered(v) = Registered(w) \cup {q}
                                    /\ OnScreen(v) = OnScreen(w) \cup {q}
             /\ ~CanSplitAt(w, p) => v.panes = w.panes /\ OnScreen(v) = OnScreen(w)
<1> DEFINE u    == Unzoom(w)
           list == Append(u.panes, q)
           u1   == [u EXCEPT !.panes = list]
           w1   == SetActive(u1, q)
           w2   == [w1 EXCEPT !.place = SplitLeaf(w1.place, p, q)]
           w3   == [w1 EXCEPT !.panes = Without(w1.panes, q)]
           v    == SplitTarget(w, p, q)
<1>1. v = IF CanSplitAt(w, p) THEN SetActive(w2, q) ELSE w3
  BY DEF SplitTarget
<1>2. WsOK(u, P) /\ SameTrees(u, w)
  BY UnzoomOK, UnzoomSame
<1> HIDE DEF u
<1>3. /\ u.panes = w.panes /\ u.mode = w.mode /\ u.primary = w.primary /\ u.wrecked = w.wrecked
      /\ Trees(u) /\ OnScreen(u) = OnScreen(w) /\ Listed(u) = Listed(w) /\ u.place = w.place
  BY <1>2, SameTreesOK, SameTreesSets DEF SameTrees
<1>4. /\ list \in Seq(P) /\ list # <<>> /\ list[1] = w.panes[1] /\ Distinct(list)
      /\ ToSet(list) = Registered(w) \cup {q} /\ Without(list, q) = w.panes
  <2> DEFINE s == w.panes
  <2>1. s \in Seq(P) /\ s # <<>> /\ Len(s) \in Nat /\ Len(s) >= 1
    BY DEF WsOK
  <2>2. Distinct(s) /\ q \notin ToSet(s) /\ ToSet(s) = Registered(w)
    BY DEF Trees, Registered
  <2> HIDE DEF s
  <2>3. /\ Append(s, q) \in Seq(P)
        /\ Len(Append(s, q)) = Len(s) + 1
        /\ \A j \in 1 .. Len(s) + 1 :
              Append(s, q)[j] = IF j <= Len(s) THEN s[j] ELSE q
    BY <2>1, AppendOK
  <2>4. Append(s, q)[1] = s[1] /\ Append(s, q) # <<>>
    BY <2>1, <2>3
  <2>5. ToSet(Append(s, q)) = ToSet(s) \cup {q} /\ Distinct(Append(s, q))
    BY <2>1, <2>2, AppendDistinct
  <2>6. Without(Append(s, q), q) = s
    BY <2>1, <2>2, AppendWithout
  <2> QED BY <1>3, <2>2, <2>3, <2>4, <2>5, <2>6 DEF s
<1> HIDE DEF list
<1>5. /\ Trees(u1) /\ Kept(u1, u, {"panes"}) /\ u1.panes = list
      /\ OnScreen(u1) = OnScreen(u) /\ Listed(u1) = Listed(u)
  BY <1>2, <1>3, <1>4, PanesTrees
<1>6. WsOK(u1, P)
  BY <1>2, <1>4, PanesOK
<1> HIDE DEF u1
<1>7. WsOK(w1, P) /\ SameTrees(w1, u1)
  BY <1>6, SetActiveOK, SetActiveSame
<1>8. /\ Trees(w1) /\ OnScreen(w1) = OnScreen(w) /\ Listed(w1) = Listed(w)
      /\ w1.panes = list /\ w1.mode = w.mode /\ w1.primary = w.primary /\ w1.wrecked = w.wrecked
  <2>1. u1.mode = u.mode /\ u1.primary = u.primary /\ u1.wrecked = u.wrecked
    BY <1>5 DEF Kept, Fields
  <2>2. Trees(w1) /\ OnScreen(w1) = OnScreen(u1) /\ Listed(w1) = Listed(u1)
    BY <1>5, <1>7, SameTreesOK, SameTreesSets
  <2>3. /\ w1.panes = u1.panes /\ w1.mode = u1.mode /\ w1.primary = u1.primary
        /\ w1.wrecked = u1.wrecked
    BY <1>7 DEF SameTrees
  <2> QED BY <1>3, <1>5, <2>1, <2>2, <2>3
<1> HIDE DEF w1
<1>9. CASE CanSplitAt(w, p)
  <2>1. p \in OnScreen(w1) /\ q \notin OnScreen(w1) /\ q \notin Listed(w1)
    BY <1>8, <1>9 DEF CanSplitAt, Fresh
  <2>2. /\ Trees(w2) /\ Kept(w2, w1, {"place"})
        /\ OnScreen(w2) = OnScreen(w1) \cup {q}
    BY <1>7, <1>8, <2>1, SplitPlaceTrees
  <2>4. p \in P /\ PlacesOK(SplitLeaf(w1.place, p, q), P)
    <3> DEFINE R == P \cup {Overlay}
               S == OnScreen(w1)
               pl == w1.place
    <3>1. S \subseteq P /\ pl \in [S -> Place(R)] /\ p \in S
      BY <1>7, <2>1 DEF WsOK, PlacesOK, OnScreen
    <3> HIDE DEF S, pl
    <3>2. SplitLeaf(pl, p, q) \in [S \cup {q} -> Place(R)]
      BY <3>1, SplitLeafOK
    <3> QED BY <3>1, <3>2 DEF PlacesOK, pl
  <2>3. WsOK(w2, P)
    <3>1. w2.place = SplitLeaf(w1.place, p, q)
      BY <1>7 DEF WsOK, Shape, Fields
    <3> HIDE DEF w2
    <3> QED BY <1>7, <2>2, <2>4, <3>1 DEF WsOK, Kept, Fields
  <2> HIDE DEF w2
  <2>5. SameTrees(v, w2)
    BY <1>1, <1>9, <2>3, SetActiveSame
  <2>6. Trees(v) /\ OnScreen(v) = OnScreen(w2) /\ Listed(v) = Listed(w2)
    BY <2>2, <2>5, SameTreesOK, SameTreesSets
  <2>7. /\ v.panes = w2.panes /\ v.mode = w2.mode /\ v.primary = w2.primary
        /\ v.wrecked = w2.wrecked
    BY <2>5 DEF SameTrees
  <2>8. /\ w2.panes = w1.panes /\ w2.mode = w1.mode /\ w2.primary = w1.primary
        /\ w2.wrecked = w1.wrecked /\ Listed(w2) = Listed(w1)
    BY <2>2 DEF Kept, Fields, Listed
  <2> HIDE DEF v
  <2>9. Registered(v) = Registered(w) \cup {q}
    BY <1>4, <1>8, <2>7, <2>8 DEF Registered
  <2> QED BY <1>4, <1>8, <1>9, <2>2, <2>6, <2>7, <2>8, <2>9 DEF v
<1>10. CASE ~CanSplitAt(w, p)
  <2>1. v = w3 /\ w3 = [w1 EXCEPT !.panes = w.panes]
    BY <1>1, <1>4, <1>8, <1>10
  <2>2. Distinct(w.panes)
    BY DEF Trees
  <2> HIDE DEF v, w3
  <2>3. /\ Trees(v) /\ Kept(v, w1, {"panes"}) /\ v.panes = w.panes
        /\ OnScreen(v) = OnScreen(w1) /\ Listed(v) = Listed(w1)
    BY <1>7, <1>8, <2>1, <2>2, PanesTrees
  <2>4. v.mode = w1.mode /\ v.primary = w1.primary /\ v.wrecked = w1.wrecked
    BY <2>3 DEF Kept, Fields
  <2> QED BY <1>8, <1>10, <2>3, <2>4 DEF v
<1> QED BY <1>9, <1>10

LEMMA WithoutFirst ==
  ASSUME NEW S, NEW s \in Seq(S), NEW x, s # <<>>, s[1] # x
  PROVE  Without(s, x)[1] = s[1]
<1>1. CASE x \notin ToSet(s)
  BY <1>1 DEF Without
<1>2. CASE x \in ToSet(s)
  <2> DEFINE k == IndexOf(s, x)
  <2>1. k \in 1 .. Len(s) /\ s[k] = x
    BY <1>2, IndexOfOK
  <2> HIDE DEF k
  <2>2. k # 1 /\ 1 \in 1 .. Len(s) - 1 /\ 1 < k
    BY <2>1
  <2>3. /\ RemoveAt(s, k) \in Seq(S)
        /\ Len(RemoveAt(s, k)) = Len(s) - 1
        /\ \A j \in 1 .. Len(s) - 1 : RemoveAt(s, k)[j] = IF j < k THEN s[j] ELSE s[j + 1]
    BY <2>1, RemoveAtOK
  <2>4. Without(s, x) = RemoveAt(s, k)
    BY <1>2 DEF Without, k
  <2> QED BY <2>2, <2>3, <2>4
<1> QED BY <1>1, <1>2

\* A pane one level under a root and the notebook beside it are the only ones
\* of that root.
LEMMA OnlyTwo ==
  ASSUME NEW R, NEW pl, pl \in [DOMAIN pl -> Place(R)], Whole(pl), NEW p \in DOMAIN pl,
         Len(pl[p].path) = 1, NEW x \in SiblingPanes(pl, p)
  PROVE  x # p /\ InRoot(pl, pl[p].root) \subseteq {p, x}
<1> DEFINE a == pl[p].path
           r == pl[p].root
<1>1. a \in Path /\ Len(a) = 1 /\ a # <<>>
  <2>1. pl[p] \in Place(R)
    OBVIOUS
  <2>2. a \in Path
    BY <2>1, PlaceFields
  <2> QED BY <2>2
<1>2. x \in InRoot(pl, r) /\ pl[x].path = SiblingPath(a)
  BY <1>1 DEF SiblingPanes
<1> HIDE DEF a
<1>3. SubSeq(a, 1, 1) = a
  BY <1>1, PathOK
<1>4. LET s == SiblingPath(SubSeq(a, 1, 1))
      IN  /\ s \in Path /\ Len(s) = 1 /\ s[1] # a[1]
          /\ \A k \in 1 .. 1 - 1 : s[k] = a[k]
  <2>1. 1 \in 1 .. Len(a)
    BY <1>1
  <2> QED BY <1>1, <2>1, SiblingOK
<1> DEFINE b == pl[x].path
<1>5. b \in Path /\ Len(b) = 1 /\ b[1] # a[1]
  BY <1>2, <1>3, <1>4
<1> HIDE DEF b
<1>6. a[1] \in {"s", "e"} /\ b[1] \in {"s", "e"}
  BY <1>1, <1>5, PathOK
<1>7. x # p
  BY <1>5 DEF a, b
<1>8. ASSUME NEW y \in InRoot(pl, r), y # p, y # x
      PROVE  FALSE
  <2>1. x \in DOMAIN pl /\ y \in DOMAIN pl /\ pl[x].root = r /\ pl[y].root = r
    BY <1>2, <1>8 DEF InRoot
  <2>2. y \in InRoot(pl, pl[p].root) \ {p} /\ y \in InRoot(pl, pl[x].root) \ {x}
    BY <1>8, <2>1
  <2>3. PICK k \in Nat : Splits(a, pl[y].path, k)
    BY <2>2 DEF Whole, a
  <2>4. PICK j \in Nat : Splits(b, pl[y].path, j)
    BY <2>1, <2>2 DEF Whole, b
  <2>5. k = 1 /\ j = 1
    BY <1>1, <1>5, <2>3, <2>4 DEF Splits
  <2>6. pl[y].path \in Path
    BY <2>1, PlaceFields
  <2>7. 1 \in 1 .. Len(pl[y].path) /\ pl[y].path[1] # a[1] /\ pl[y].path[1] # b[1]
    BY <2>3, <2>4, <2>5 DEF Splits
  <2>8. pl[y].path[1] \in {"s", "e"}
    BY <2>6, <2>7, PathOK
  <2> QED BY <1>5, <1>6, <2>7, <2>8
<1> QED BY <1>7, <1>8

\* The tree of GtkPaneds after a close.
LEMMA ClosePlaces ==
  ASSUME NEW P, NEW w, WsOK(w, P), Trees(w), NEW p, CanClose(w, p), NEW v,
         v.place = CloseLeaf(w.place, p)
  PROVE  /\ Whole(v.place) /\ Follows(v, w) /\ OnScreen(v) = OnScreen(w) \ {p}
<1> DEFINE R  == P \cup {Overlay}
           pl == w.place
           c  == CloseLeaf(pl, p)
<1>1. pl \in [DOMAIN pl -> Place(R)] /\ p \in DOMAIN pl /\ pl[p].path # <<>> /\ Whole(pl)
  BY DEF WsOK, PlacesOK, OnScreen, CanClose, Trees
<1> HIDE DEF R
<1>2. DOMAIN c = DOMAIN pl \ {p} /\ \A x \in DOMAIN c : c[x].root = pl[x].root
  <2> HIDE DEF pl
  <2>1. /\ DOMAIN c = DOMAIN pl \ {p}
        /\ \A x \in DOMAIN c :
               /\ c[x].root = pl[x].root
               /\ ~Rises(pl, p, x) => c[x] = pl[x]
               /\ Rises(pl, p, x) => /\ c[x].path \in Path
                                     /\ Lifted(pl[x].path, c[x].path, Len(pl[p].path))
    BY <1>1, CloseLeafLifts
  <2> QED BY <2>1
<1>3. Whole(c)
  BY <1>1, CloseLeafWhole
<1>4. \A x, y \in DOMAIN pl \ {p} :
         pl[x].root = pl[y].root /\ Before(pl[x].path, pl[y].path)
            => Before(c[x].path, c[y].path)
  BY <1>1, CloseLeafOrder
<1> HIDE DEF c
<1>5. v.place = c
  BY DEF c
<1>6. OnScreen(v) = OnScreen(w) \ {p}
  BY <1>2, <1>5 DEF OnScreen
<1>7. Follows(v, w)
  <2>1. \A x \in OnScreen(v) : x \in OnScreen(w) /\ v.place[x].root = w.place[x].root
    BY <1>2, <1>5 DEF OnScreen
  <2>2. \A x, y \in OnScreen(v) \cap OnScreen(w) :
           w.place[x].root = w.place[y].root /\ Before(w.place[x].path, w.place[y].path)
             => Before(v.place[x].path, v.place[y].path)
    BY <1>4, <1>5, <1>6 DEF OnScreen
  <2> QED BY <2>1, <2>2 DEF Follows
<1> QED BY <1>3, <1>5, <1>6, <1>7

\* workspace_close_pane takes its pane out of the tree and of the registry, or
\* leaves both; a workspace that agreed with its screen still does.
LEMMA ClosePaneTrees ==
  ASSUME NEW P, Overlay \notin P, NEW w, WsOK(w, P), Trees(w), NEW p
  PROVE  LET v == ClosePane(w, p)
         IN  /\ Trees(v) /\ v.mode = w.mode /\ v.wrecked = w.wrecked
             /\ OnScreen(v) \subseteq OnScreen(w) /\ Registered(v) \subseteq Registered(w)
             /\ OnScreen(w) \ OnScreen(v) \subseteq {p}
             /\ Listed(v) = Listed(w) /\ Roots(v) = Roots(w)
             /\ Running(w) /\ Agrees(w) => Agrees(v)
<1> DEFINE v    == ClosePane(w, p)
           u    == Unzoom(w)
           left == Without(w.panes, p)
           heir == Heir(w, p)
           prim == IF Len(w.place[p].path) = 1 /\ heir # NoPane THEN heir ELSE w.primary
<1>1. WsOK(u, P) /\ SameTrees(u, w)
  BY UnzoomOK, UnzoomSame
<1>2. ASSUME SameTrees(v, w)
      PROVE  /\ Trees(v) /\ v.mode = w.mode /\ v.wrecked = w.wrecked
             /\ OnScreen(v) \subseteq OnScreen(w) /\ Registered(v) \subseteq Registered(w)
             /\ OnScreen(w) \ OnScreen(v) \subseteq {p}
             /\ Listed(v) = Listed(w) /\ Roots(v) = Roots(w)
             /\ Running(w) /\ Agrees(w) => Agrees(v)
  <2> HIDE DEF v
  <2>1. v.mode = w.mode /\ v.wrecked = w.wrecked
    BY <1>2 DEF SameTrees
  <2>2. Trees(v) /\ (Agrees(w) => Agrees(v))
    BY <1>2, SameTreesOK
  <2>3. /\ OnScreen(v) = OnScreen(w) /\ Registered(v) = Registered(w)
        /\ Listed(v) = Listed(w) /\ Roots(v) = Roots(w)
    BY <1>2, SameTreesSets
  <2> QED BY <2>1, <2>2, <2>3
<1>3. CASE Len(w.panes) <= 1
  <2>1. v = w
    BY <1>3 DEF ClosePane
  <2> HIDE DEF v
  <2> QED BY <1>2, <2>1, SameTreesSelf DEF v
<1>4. CASE ~(Len(w.panes) <= 1) /\ ~CanClose(w, p)
  <2>1. v = u
    BY <1>4 DEF ClosePane
  <2> HIDE DEF v, u
  <2> QED BY <1>1, <1>2, <2>1 DEF v
<1>5. CASE ~(Len(w.panes) <= 1) /\ CanClose(w, p)
  <2>1. v = [u EXCEPT !.place = CloseLeaf(@, p),
                      !.panes = left,
                      !.primary = IF prim = p THEN left[1] ELSE prim,
                      !.active = IF @ = p THEN heir ELSE @,
                      !.hidden = @ \ {p}]
    BY <1>5, SMTT(30) DEF ClosePane
  <2>2. /\ v.place = CloseLeaf(u.place, p) /\ v.panes = left
        /\ v.primary = IF prim = p THEN left[1] ELSE prim
        /\ v.mode = u.mode /\ v.columns = u.columns /\ v.box = u.box /\ v.wrecked = u.wrecked
    BY <1>1, <2>1 DEF WsOK, Shape, Fields
  <2>3. /\ u.mode = w.mode /\ u.place = w.place /\ u.wrecked = w.wrecked /\ Trees(u)
        /\ OnScreen(u) = OnScreen(w) /\ Listed(u) = Listed(w) /\ Roots(u) = Roots(w)
    BY <1>1, SameTreesOK, SameTreesSets DEF SameTrees
  <2> HIDE DEF u, v
  <2>4. CanClose(u, p) /\ v.place = CloseLeaf(w.place, p)
    BY <1>5, <2>2, <2>3 DEF CanClose, OnScreen
  <2>5. Whole(v.place) /\ Follows(v, u) /\ OnScreen(v) = OnScreen(u) \ {p}
    BY <1>1, <2>2, <2>3, <2>4, ClosePlaces
  <2>6. /\ w.panes \in Seq(P) /\ Len(w.panes) \in Nat /\ Len(w.panes) > 1 /\ w.panes # <<>>
        /\ Distinct(w.panes)
    BY <1>5 DEF WsOK, Trees
  <2>7. ToSet(left) = Registered(w) \ {p} /\ Distinct(left)
    BY <2>6, WithoutDistinct DEF Registered
  <2>8. left \in Seq(P) /\ Len(left) >= 1 /\ left # <<>>
    <3>1. left \in Seq(P) /\ Len(left) >= Len(w.panes) - 1
      BY <2>6, WithoutOK
    <3> QED BY <2>6, <3>1
  <2>9. w.panes[1] # p => left[1] = w.panes[1]
    BY <2>6, WithoutFirst
  <2>10. Trees(v)
    BY <2>2, <2>3, <2>5, <2>7, FollowsTrees
  <2>11. Registered(v) = Registered(w) \ {p}
    BY <2>2, <2>7 DEF Registered
  <2>12. Listed(v) = Listed(w) /\ Roots(v) = Roots(w)
    BY <2>2, <2>3 DEF Listed, Roots
  <2>13. ASSUME Running(w), Agrees(w)
         PROVE  v.primary = v.panes[1]
    <3>1. OnScreen(w) = Registered(w) /\ w.primary = w.panes[1]
      BY <2>13 DEF Agrees, Running, Stale
    <3>2. ASSUME Len(w.place[p].path) = 1, heir # NoPane
          PROVE  heir # p /\ left[1] = heir
      <4>1. w.place[p].root = Overlay /\ p \in OnScreen(w)
        BY <1>5, <3>2 DEF CanClose
      <4>2. w.mode # "strip"
        <5>1. ASSUME w.mode = "strip"
              PROVE  FALSE
          <6>1. w.place[p].root \in Roots(w)
            BY <4>1, <5>1 DEF Trees, Hung
          <6>2. PICK c \in DOMAIN w.columns : w.columns[c].root = Overlay
            BY <4>1, <6>1 DEF Roots
          <6>3. w.columns[c] \in ColumnSet(P)
            BY DEF WsOK
          <6> QED BY <6>2, <6>3, ColumnFields
        <5> QED BY <5>1
      <4>3. w.mode = "classic"
        BY <4>2 DEF WsOK
      <4>4. OnScreen(w) \subseteq InRoot(w.place, w.place[p].root)
        BY <4>1, <4>3 DEF Trees, Single, InRoot, OnScreen
      <4>5. heir \in SiblingPanes(w.place, p)
        <5>1. SiblingPanes(w.place, p) # {}
          BY <3>2 DEF Heir
        <5> QED BY <5>1 DEF Heir
      <4> HIDE DEF heir
      <4>6. heir # p /\ InRoot(w.place, w.place[p].root) \subseteq {p, heir}
        <5> DEFINE R == P \cup {Overlay}
        <5>1. /\ w.place \in [DOMAIN w.place -> Place(R)] /\ p \in DOMAIN w.place
              /\ Whole(w.place)
          BY <4>1 DEF WsOK, PlacesOK, OnScreen, Trees
        <5> HIDE DEF R
        <5> QED BY <3>2, <4>5, <5>1, OnlyTwo
      <4>7. ToSet(left) \subseteq {heir}
        BY <2>7, <3>1, <4>4, <4>6
      <4>8. left[1] \in ToSet(left)
        BY <2>8, ToSetOK
      <4> QED BY <4>6, <4>7, <4>8
    <3>3. CASE Len(w.place[p].path) = 1 /\ heir # NoPane
      BY <2>2, <3>2, <3>3
    <3>4. CASE ~(Len(w.place[p].path) = 1 /\ heir # NoPane)
      BY <2>2, <2>9, <3>1, <3>4
    <3> QED BY <3>3, <3>4
  <2>14. Running(w) /\ Agrees(w) => Agrees(v)
    <3>1. Running(w) /\ Agrees(w) => OnScreen(v) \subseteq Registered(v)
      BY <2>3, <2>5, <2>11 DEF Agrees
    <3> QED BY <2>13, <3>1 DEF Agrees
  <2> QED BY <2>2, <2>3, <2>5, <2>10, <2>11, <2>12, <2>14 DEF v
<1> QED BY <1>3, <1>4, <1>5

LEMMA UnregisterTrees ==
  ASSUME NEW P, NEW w, WsOK(w, P), Trees(w), NEW k \in 1 .. Len(w.panes), NEW p,
         w.panes[k] = p, Len(w.panes) > 1
  PROVE  LET v == Unregister(w, p, k)
         IN  /\ Trees(v) /\ v.mode = w.mode /\ v.wrecked = w.wrecked
             /\ OnScreen(v) = OnScreen(w) /\ Listed(v) = Listed(w)
             /\ Registered(v) = Registered(w) \ {p} /\ Lit(v)
             /\ w.primary = w.panes[1] => v.primary = v.panes[1]
<1> DEFINE s    == w.panes
           left == RemoveAt(s, k)
           act  == IF w.active \in ToSet(left) THEN w.active
                   ELSE left[Clamp(k, 1, Len(left))]
           pri  == IF w.primary = p THEN left[1] ELSE w.primary
           hid  == w.hidden \ {p}
           u    == [w EXCEPT !.panes = left, !.active = act, !.primary = pri,
                             !.hidden = hid]
           v    == Unregister(w, p, k)
<1>1. v = SetActive(u, act)
  BY DEF Unregister
<1>2. s \in Seq(P) /\ Distinct(s) /\ k \in 1 .. Len(s) /\ s[k] = p /\ Len(s) > 1 /\ Len(s) \in Nat
  BY DEF WsOK, Trees
<1> HIDE DEF s
<1>3. ToSet(left) = ToSet(s) \ {p} /\ Distinct(left)
  BY <1>2, RemoveDistinct
<1>4. s[1] # p => left[1] = s[1]
  <2>1. /\ RemoveAt(s, k) \in Seq(P)
        /\ Len(RemoveAt(s, k)) = Len(s) - 1
        /\ \A j \in 1 .. Len(s) - 1 : RemoveAt(s, k)[j] = IF j < k THEN s[j] ELSE s[j + 1]
    BY <1>2, RemoveAtOK
  <2>2. ASSUME s[1] # p
        PROVE  k # 1 /\ 1 \in 1 .. Len(s) - 1 /\ 1 < k
    BY <1>2, <2>2
  <2> QED BY <2>1, <2>2
<1>a. act \in ToSet(left)
  <2>1. left \in Seq(P) /\ Len(left) = Len(s) - 1
    BY <1>2, RemoveAtOK DEF left
  <2>2. k \in Nat /\ Len(left) \in Nat /\ 1 <= Len(left)
    BY <1>2, <2>1
  <2>3. Clamp(k, 1, Len(left)) \in 1 .. Len(left)
    BY <2>2 DEF Clamp
  <2>4. left[Clamp(k, 1, Len(left))] \in ToSet(left)
    BY <2>1, <2>3, ToSetOK
  <2> QED BY <2>4 DEF act
<1> HIDE DEF left, act, pri, hid
<1>5. /\ Kept(u, w, {"panes", "active", "primary", "hidden"})
      /\ u.panes = left /\ u.primary = pri
  BY DEF Kept, WsOK, Shape, Fields
<1> HIDE DEF u
<1>6. /\ u.mode = w.mode /\ u.columns = w.columns /\ u.box = w.box /\ u.place = w.place
      /\ u.wrecked = w.wrecked
  BY <1>5 DEF Kept, Fields
<1>7. WsOK(v, P)
  BY UnregisterOK
<1>b. WsOK(u, P)
  <2>1. left \in Seq(P) /\ Len(left) = Len(s) - 1
    BY <1>2, RemoveAtOK DEF left
  <2>2. Len(left) \in Nat /\ Len(left) >= 1 /\ left # <<>> /\ left[1] \in P
    BY <1>2, <2>1
  <2>3. act \in P
    BY <1>a, <2>1, ToSetOK
  <2>4. pri \in P \cup {NoPane} /\ hid \in SUBSET P
    BY <2>2 DEF WsOK, pri, hid
  <2>5. u.active = act /\ u.hidden = hid
    BY DEF u, WsOK, Shape, Fields
  <2> QED BY <1>5, <2>1, <2>2, <2>3, <2>4, <2>5 DEF WsOK, Kept, Fields
<1>8. SameTrees(v, u) /\ Lit(v)
  <2>1. act \in Registered(u)
    BY <1>5, <1>a DEF Registered
  <2> QED BY <1>1, <1>b, <2>1, SetActiveSame, SetActiveLit
<1>9. Trees(u) /\ OnScreen(u) = OnScreen(w) /\ Listed(u) = Listed(w)
  <2>1. OnScreen(u) = OnScreen(w) /\ Listed(u) = Listed(w)
    BY <1>6 DEF OnScreen, Listed
  <2>2. Follows(u, w)
    BY <1>6, <2>1 DEF Follows
  <2>3. Distinct(u.panes) /\ Whole(u.place)
    BY <1>3, <1>5, <1>6 DEF Trees
  <2> QED BY <1>6, <2>1, <2>2, <2>3, FollowsTrees
<1>10. /\ Trees(v) /\ OnScreen(v) = OnScreen(u) /\ Listed(v) = Listed(u)
       /\ Registered(v) = Registered(u)
  BY <1>8, <1>9, SameTreesOK, SameTreesSets
<1>11. v.mode = u.mode /\ v.wrecked = u.wrecked /\ v.panes = left /\ v.primary = pri
  BY <1>5, <1>8 DEF SameTrees
<1>12. Registered(u) = Registered(w) \ {p}
  BY <1>3, <1>5 DEF Registered, s
<1>13. w.primary = w.panes[1] => v.primary = v.panes[1]
  BY <1>4, <1>11 DEF pri, s
<1> HIDE DEF v
<1> QED BY <1>6, <1>8, <1>9, <1>10, <1>11, <1>12, <1>13 DEF v

\* A close took w to v.
Closed(v, w) ==
    /\ Trees(v) /\ Agrees(v) /\ v.mode = w.mode
    /\ AllListed(w) => AllListed(v)
    /\ AllListed(w) /\ Lit(w) => Lit(v)

\* A close of the focused pane on the strip keeps the trees, and what is left
\* of the registry and of the screen agree, unless a pointer was left stale.
LEMMA CloseCurrentTrees ==
  ASSUME NEW P, NoPane \notin P, NEW w, WsOK(w, P), w.mode = "strip", Trees(w), Running(w),
         Agrees(w), NEW f
  PROVE  Closed(CloseCurrent(w, f), w)
<1> DEFINE p  == FocusedPane(w, f)
           w1 == AfterLookup(w, f)
           c  == ColumnOf(w1, p)
           k  == IndexOf(w1.panes, p)
           fc == IF c # 0 THEN c ELSE w1.focusedCol
           w2 == [w1 EXCEPT !.focusedCol = fc]
           w3 == [w2 EXCEPT !.wrecked = w2.wrecked \cup {p}]
           v  == CloseCurrent(w, f)
<1>1. WsOK(w1, P) /\ SameTrees(w1, w)
  BY AfterLookupOK, AfterLookupSame
<1>2. p \in P
  BY FocusedPaneOK
<1>d. v = IF Len(w.panes) <= 1 THEN w
        ELSE IF k = 0 THEN w1
        ELSE IF c # 0 /\ Len(w1.columns[c].panes) > 1
             THEN Unregister(RemoveFromColumn(w2, p), p, k)
        ELSE IF Len(w1.columns) > 1
             THEN Unregister(RemoveActiveColumn(w2), p, k)
        ELSE w3
  BY DEF CloseCurrent
<1> HIDE DEF w1, p, v
<1>3. c # 0 => c \in 1 .. Len(w1.columns)
  BY <1>1, ColumnOfOK DEF WsOK
<1>c. w1.mode = "strip" /\ w1.panes = w.panes
  BY <1>1 DEF SameTrees
<1>4. k # 0 => k \in 1 .. Len(w.panes) /\ w.panes[k] = p /\ p \in Registered(w)
  <2>1. w1.panes \in Seq(P)
    BY <1>1 DEF WsOK
  <2>2. k # 0 => p \in ToSet(w1.panes) /\ k \in 1 .. Len(w1.panes) /\ w1.panes[k] = p
    BY <2>1, IndexOfOK
  <2> QED BY <1>c, <2>2 DEF Registered
<1>5. fc \in Nat /\ fc \in 1 .. Len(w1.columns) /\ (c # 0 => fc = c)
  BY <1>1, <1>3, <1>c DEF WsOK
<1> HIDE DEF fc
<1>6. WsOK(w2, P) /\ w2.columns = w1.columns /\ w2.focusedCol = fc /\ SameTrees(w2, w)
  <2>1. Kept(w2, w1, {"focusedCol"}) /\ w2.focusedCol = fc
    BY <1>1 DEF Kept, WsOK, Shape, Fields
  <2>2. SameTrees(w2, w1)
    BY <1>1, ActiveSame
  <2> HIDE DEF w2
  <2>3. WsOK(w2, P) /\ w2.columns = w1.columns
    BY <1>1, <1>5, <2>1 DEF WsOK, Kept, Fields
  <2> QED BY <1>1, <2>1, <2>2, <2>3, SameTreesTrans
<1> HIDE DEF w2
<1>7. /\ Trees(w2) /\ Agrees(w2) /\ Running(w2) /\ w2.mode = "strip"
      /\ w2.panes = w.panes /\ w2.primary = w.primary /\ w2.wrecked = w.wrecked
      /\ OnScreen(w2) = OnScreen(w) /\ Listed(w2) = Listed(w) /\ Registered(w2) = Registered(w)
  BY <1>6, SameTreesOK, SameTreesSets DEF SameTrees
<1>8. ColumnOf(w2, p) = c
  BY <1>6 DEF ColumnOf, Listed
<1>a. OnScreen(w) = Registered(w) /\ Listed(w) \subseteq OnScreen(w) /\ w.primary = w.panes[1]
  BY DEF Running, Stale, Agrees
<1>w. Closed(w1, w)
  <2>1. Trees(w1) /\ Agrees(w1) /\ w1.mode = w.mode
    BY <1>1, <1>c, SameTreesOK
  <2>2. AllListed(w) => AllListed(w1)
    BY <1>1, SameTreesOK, SameTreesSets DEF SameTrees, AllListed
  <2>3. Lit(w) => Lit(w1)
    BY AfterLookupMoved DEF Moved, w1
  <2> QED BY <2>1, <2>2, <2>3 DEF Closed
<1>9. ASSUME Len(w.panes) > 1, k # 0, NEW u, WsOK(u, P), Trees(u), SameRegistry(u, w2),
             p \notin OnScreen(u), OnScreen(u) \subseteq OnScreen(w),
             Listed(w) \ {p} \subseteq Listed(u)
      PROVE  Closed(Unregister(u, p, k), w)
  <2> DEFINE x == Unregister(u, p, k)
  <2>1. u.panes = w.panes /\ u.primary = w.primary /\ u.mode = w.mode
    BY <1>7, <1>9 DEF SameRegistry
  <2>2. /\ Trees(x) /\ x.mode = u.mode /\ OnScreen(x) = OnScreen(u)
        /\ Registered(x) = Registered(u) \ {p} /\ Listed(x) = Listed(u) /\ Lit(x)
        /\ u.primary = u.panes[1] => x.primary = x.panes[1]
    BY <1>4, <1>9, <2>1, UnregisterTrees
  <2> HIDE DEF x
  <2>3. Registered(u) = Registered(w)
    BY <2>1 DEF Registered
  <2>4. Agrees(x)
    BY <1>9, <1>a, <2>1, <2>2, <2>3 DEF Agrees
  <2>5. AllListed(w) => AllListed(x)
    BY <1>9, <2>2, <2>3 DEF AllListed
  <2> QED BY <2>1, <2>2, <2>4, <2>5 DEF x, Closed
<1>10. CASE Len(w.panes) > 1 /\ k # 0 /\ c # 0 /\ Len(w1.columns[c].panes) > 1
  <2> DEFINE u == RemoveFromColumn(w2, p)
  <2>1. /\ WsOK(u, P) /\ Trees(u) /\ SameRegistry(u, w2)
        /\ OnScreen(u) \subseteq (OnScreen(w2) \cup Listed(w2)) \ {p}
        /\ Listed(u) = Listed(w2) \ {p}
    BY <1>6, <1>7, <1>8, <1>10, RemoveFromColumnOK, RemoveFromColumnTrees
  <2> HIDE DEF u
  <2>2. /\ p \notin OnScreen(u) /\ OnScreen(u) \subseteq OnScreen(w)
        /\ Listed(w) \ {p} \subseteq Listed(u)
    BY <1>7, <1>a, <2>1
  <2>3. v = Unregister(u, p, k)
    BY <1>10, <1>d DEF u, WsOK
  <2> QED BY <1>9, <1>10, <2>1, <2>2, <2>3 DEF v
<1>11. CASE /\ Len(w.panes) > 1 /\ k # 0 /\ ~(c # 0 /\ Len(w1.columns[c].panes) > 1)
            /\ Len(w1.columns) > 1
  <2> DEFINE u  == RemoveActiveColumn(w2)
             rc == ResolveCol(w2)
             x  == Unregister(u, p, k)
  <2>1. WsOK(u, P)
    BY <1>6, <1>11, RemoveActiveColumnOK
  <2>2. /\ Trees(u) /\ SameRegistry(u, w2) /\ rc \in 1 .. Len(w2.columns)
        /\ OnScreen(u) = OnScreen(w2) \ InRoot(w2.place, w2.columns[rc].root)
        /\ Listed(w2) \subseteq Listed(u) \cup ToSet(w2.columns[rc].panes)
    BY <1>6, <1>7, RemoveActiveColumnTrees
  <2>3. rc = fc
    <3>1. w2.focusedCol \in DOMAIN w2.columns
      BY <1>5, <1>6 DEF WsOK
    <3> QED BY <1>6, <3>1 DEF ResolveCol, ColumnInRange
  <2>4. v = x
    BY <1>11, <1>d DEF WsOK
  <2> HIDE DEF u, rc
  <2>5. /\ w2.columns[rc].panes \in Seq(P) /\ ToSet(w2.columns[rc].panes) \subseteq Listed(w2)
        /\ ToSet(w2.columns[rc].panes) \cap OnScreen(w2)
             \subseteq InRoot(w2.place, w2.columns[rc].root)
    BY <1>6, <1>7, <2>2, ColumnPanes
  <2>6. OnScreen(u) \cap ToSet(w2.columns[rc].panes) = {} /\ OnScreen(u) \subseteq OnScreen(w)
    BY <1>7, <2>2, <2>5
  <2>7. CASE c # 0
    <3>1. p \in ToSet(w2.columns[rc].panes)
      <4>1. w2.columns \in Seq(ColumnSet(P)) /\ ColumnOf(w2, p) # 0
        BY <1>6, <1>8, <2>7 DEF WsOK
      <4>2. p \in ToSet(w2.columns[ColumnOf(w2, p)].panes)
        BY <4>1, ColumnOfOK
      <4> QED BY <1>5, <1>8, <2>3, <2>7, <4>2
    <3>2. ToSet(w2.columns[rc].panes) = {p}
      <4>1. w1.columns[c].panes = w2.columns[rc].panes /\ ~(Len(w2.columns[rc].panes) > 1)
        BY <1>5, <1>6, <1>11, <2>3, <2>7
      <4> QED BY <2>5, <3>1, <4>1 DEF ToSet
    <3>3. p \notin OnScreen(u) /\ Listed(w) \ {p} \subseteq Listed(u)
      BY <1>7, <2>2, <2>6, <3>2
    <3> QED BY <1>9, <1>11, <2>1, <2>2, <2>4, <2>6, <3>3 DEF v
  <2>8. CASE c = 0
    <3>1. p \notin Listed(w2)
      <4>1. ASSUME p \in Listed(w2)
            PROVE  FALSE
        <5>1. PICK d \in DOMAIN w2.columns : p \in ToSet(w2.columns[d].panes)
          BY <4>1 DEF Listed
        <5>2. c \in DOMAIN w2.columns
          BY <1>8, <4>1, <5>1 DEF ColumnOf
        <5> QED BY <1>6, <2>8, <5>2 DEF WsOK
      <4> QED BY <4>1
    <3>2. PICK y \in ToSet(w2.columns[rc].panes) : TRUE
      <4>1. w2.columns[rc] \in ColumnSet(P)
        BY <1>6, <2>2 DEF WsOK
      <4>2. w2.columns[rc].focused \in 1 .. Len(w2.columns[rc].panes)
        BY <4>1, ColumnFields
      <4> QED BY <2>5, <4>2, ToSetOK
    <3>3. y \in Registered(w) /\ y # p /\ y \notin OnScreen(u)
      BY <1>7, <1>a, <2>5, <2>6, <3>1, <3>2
    <3>4. u.panes = w.panes /\ u.mode = w.mode
      BY <1>7, <2>2 DEF SameRegistry
    <3>5. /\ Trees(x) /\ x.mode = u.mode /\ OnScreen(x) = OnScreen(u)
          /\ Registered(x) = Registered(u) \ {p}
      BY <1>4, <1>11, <2>1, <2>2, <3>4, UnregisterTrees
    <3> HIDE DEF x
    <3>6. ~Running(x)
      BY <3>3, <3>4, <3>5 DEF Running, Stale, Registered
    <3> QED BY <1>7, <2>4, <3>4, <3>5, <3>6 DEF Agrees, AllListed, Lit, Closed, v
  <2> QED BY <2>7, <2>8
<1>12. CASE /\ Len(w.panes) > 1 /\ k # 0 /\ ~(c # 0 /\ Len(w1.columns[c].panes) > 1)
            /\ ~(Len(w1.columns) > 1)
  <2>1. v = w3
    BY <1>12, <1>d DEF WsOK
  <2>2. /\ w3.mode = w2.mode /\ w3.columns = w2.columns /\ w3.box = w2.box
        /\ w3.place = w2.place /\ w3.panes = w2.panes /\ p \in w3.wrecked
    BY <1>6 DEF WsOK, Shape, Fields
  <2> HIDE DEF w3
  <2>3. Follows(w3, w2) /\ Distinct(w3.panes) /\ Whole(w3.place)
    BY <1>7, <2>2 DEF Follows, OnScreen, Trees
  <2>4. Trees(w3)
    BY <1>7, <2>2, <2>3, FollowsTrees
  <2>5. ~Running(w3)
    BY <2>2 DEF Running
  <2> QED BY <1>7, <2>1, <2>2, <2>4, <2>5 DEF Agrees, AllListed, Lit, Closed, v
<1>13. CASE Len(w.panes) <= 1
  BY <1>13, <1>d DEF v, Closed
<1>14. CASE Len(w.panes) > 1 /\ k = 0
  <2>1. v = w1
    BY <1>14, <1>d DEF WsOK
  <2> QED BY <1>w, <2>1 DEF v
<1>15. Len(w.panes) <= 1 \/ Len(w.panes) > 1
  BY DEF WsOK
<1> QED BY <1>10, <1>11, <1>12, <1>13, <1>14, <1>15

\* The walk of the widgets meets every notebook on the screen, and each once.
LEMMA PrecedesOrders ==
  ASSUME NEW P, NEW w, WsOK(w, P), Trees(w)
  PROVE  Orders({z \in OnScreen(w) \X OnScreen(w) : Precedes(w, z[1], z[2])}, OnScreen(w))
<1> DEFINE D    == OnScreen(w)
           R    == {z \in D \X D : Precedes(w, z[1], z[2])}
           b(x) == IndexOf(w.box, w.place[x].root)
           a(x) == w.place[x].path
<1>1. \A x, y \in D : <<x, y>> \in R <=> b(x) < b(y) \/ (b(x) = b(y) /\ Before(a(x), a(y)))
  BY DEF Precedes
<1>2. w.box \in Seq(P \cup {Overlay}) /\ w.place \in [D -> Place(P \cup {Overlay})]
  BY DEF WsOK, PlacesOK, OnScreen
<1>3. ASSUME NEW x \in D
      PROVE  a(x) \in Path /\ b(x) \in Nat /\ w.place[x].root \in ToSet(w.box)
  <2>1. w.place[x] \in Place(P \cup {Overlay})
    BY <1>2
  <2>2. a(x) \in Path
    BY <2>1, PlaceFields
  <2>3. b(x) \in 0 .. Len(w.box)
    BY <1>2, IndexOfOK
  <2>4. w.place[x].root \in ToSet(w.box)
    <3>1. CASE w.mode = "strip"
      BY <3>1 DEF Trees, Hung
    <3>2. CASE w.mode = "classic"
      <4>1. w.box = <<Overlay>> /\ w.place[x].root = Overlay
        BY <3>2 DEF Trees, Single
      <4> QED BY <4>1 DEF ToSet
    <3> QED BY <3>1, <3>2 DEF WsOK
  <2> QED BY <1>2, <2>2, <2>3, <2>4
<1>4. ASSUME NEW x \in D, NEW y \in D, b(x) = b(y)
      PROVE  w.place[x].root = w.place[y].root
  <2>1. /\ w.box[b(x)] = w.place[x].root
        /\ w.box[b(y)] = w.place[y].root
    BY <1>2, <1>3, IndexOfOK
  <2> QED BY <1>4, <2>1
<1>5. ASSUME NEW x \in D, NEW y \in D, x # y, b(x) = b(y)
      PROVE  Before(a(x), a(y)) \/ Before(a(y), a(x))
  <2>1. y \in InRoot(w.place, w.place[x].root) \ {x} /\ x \in DOMAIN w.place
    BY <1>4, <1>5 DEF InRoot, OnScreen
  <2>2. PICK k \in Nat : Splits(a(x), a(y), k)
    BY <2>1 DEF Trees, Whole
  <2> QED BY <1>3, <2>2, BeforeTotal
<1>6. \A x \in D : ~Before(a(x), a(x))
  BY <1>3, BeforeStrict
<1>7. \A x, y, z \in D : Before(a(x), a(y)) /\ Before(a(y), a(z)) => Before(a(x), a(z))
  BY <1>3, BeforeTransitive
<1>8. \A x \in D : b(x) \in Nat
  BY <1>3
<1> HIDE DEF R, D, a, b
<1>9. \A x \in D : <<x, x>> \notin R
  BY <1>1, <1>6, <1>8
<1>10. \A x, y, z \in D : <<x, y>> \in R /\ <<y, z>> \in R => <<x, z>> \in R
  <2> SUFFICES ASSUME NEW x \in D, NEW y \in D, NEW z \in D, <<x, y>> \in R, <<y, z>> \in R
               PROVE  <<x, z>> \in R
    OBVIOUS
  <2>1. b(x) \in Nat /\ b(y) \in Nat /\ b(z) \in Nat
    BY <1>8
  <2>2. b(x) < b(y) \/ (b(x) = b(y) /\ Before(a(x), a(y)))
    BY <1>1
  <2>3. b(y) < b(z) \/ (b(y) = b(z) /\ Before(a(y), a(z)))
    BY <1>1
  <2>4. Before(a(x), a(y)) /\ Before(a(y), a(z)) => Before(a(x), a(z))
    BY <1>7
  <2>5. b(x) < b(z) \/ (b(x) = b(z) /\ Before(a(x), a(z)))
    BY <2>1, <2>2, <2>3, <2>4
  <2> QED BY <1>1, <2>5
<1>11. \A x, y \in D : x = y \/ <<x, y>> \in R \/ <<y, x>> \in R
  <2> SUFFICES ASSUME NEW x \in D, NEW y \in D, x # y
               PROVE  <<x, y>> \in R \/ <<y, x>> \in R
    OBVIOUS
  <2>1. b(x) \in Nat /\ b(y) \in Nat
    BY <1>8
  <2>2. b(x) = b(y) => Before(a(x), a(y)) \/ Before(a(y), a(x))
    BY <1>5
  <2>3. \/ b(x) < b(y) \/ (b(x) = b(y) /\ Before(a(x), a(y)))
        \/ b(y) < b(x) \/ (b(y) = b(x) /\ Before(a(y), a(x)))
    BY <2>1, <2>2
  <2> QED BY <1>1, <2>3
<1>12. Orders(R, D)
  BY <1>9, <1>10, <1>11 DEF Orders
<1> QED BY <1>12 DEF R, D

LEMMA WalkOK ==
  ASSUME NEW P, IsFiniteSet(P), NEW w, WsOK(w, P), Trees(w)
  PROVE  Walk(w) \in Seq(OnScreen(w)) /\ Distinct(Walk(w)) /\ ToSet(Walk(w)) = OnScreen(w)
<1> DEFINE D == OnScreen(w)
           R == {z \in D \X D : Precedes(w, z[1], z[2])}
<1>1. IsFiniteSet(D)
  <2>1. D \in SUBSET P
    BY DEF WsOK, PlacesOK, OnScreen
  <2> QED BY <2>1, FS_Subset
<1>2. Orders(R, D)
  BY PrecedesOrders
<1>3. \A x, y \in D : <<x, y>> \in R <=> Precedes(w, x, y)
  OBVIOUS
<1> HIDE DEF R
<1>4. \E s : Lists(s, R, D)
  BY <1>1, <1>2, ListExists
<1>5. \A s \in [1 .. Cardinality(D) -> D] :
         Lists(s, R, D) <=> \A i, j \in DOMAIN s : i < j => Precedes(w, s[i], s[j])
  BY <1>3 DEF Lists
<1>6. \E s \in [1 .. Cardinality(D) -> D] :
         \A i, j \in DOMAIN s : i < j => Precedes(w, s[i], s[j])
  BY <1>4, <1>5 DEF Lists
<1>7. /\ Walk(w) \in [1 .. Cardinality(D) -> D]
      /\ \A i, j \in DOMAIN Walk(w) : i < j => Precedes(w, Walk(w)[i], Walk(w)[j])
  BY <1>6, Zenon DEF Walk
<1>8. Lists(Walk(w), R, D)
  BY <1>5, <1>7
<1> QED BY <1>1, <1>2, <1>8, ListAll

LEMMA PrimaryFirstOK ==
  ASSUME NEW S, NEW s \in Seq(S), Distinct(s), NEW p \in ToSet(s)
  PROVE  LET r == PrimaryFirst(s, p)
         IN  /\ r \in Seq(S) /\ Distinct(r) /\ ToSet(r) = ToSet(s) /\ r[1] = p /\ r # <<>>
<1> DEFINE k == IndexOf(s, p)
           r == PrimaryFirst(s, p)
           n == Len(s)
           g(j) == IF j = k THEN 1 ELSE IF j = 1 THEN k ELSE j
<1>1. k \in 1 .. n /\ s[k] = p /\ n \in Nat /\ DOMAIN s = 1 .. n
  BY IndexOfOK
<1>2. 1 \in 1 .. n
  BY <1>1
<1>3. r = [s EXCEPT ![1] = p, ![k] = s[1]]
  <2>1. r = IF k = 0 THEN Append(s, p) ELSE [s EXCEPT ![1] = p, ![k] = s[1]]
    BY DEF PrimaryFirst
  <2> HIDE DEF k, r
  <2>2. k # 0
    BY <1>1
  <2> QED BY <2>1, <2>2
<1>e. \A j \in 1 .. n : s[j] \in S
  OBVIOUS
<1> HIDE DEF k
<1>4. DOMAIN r = 1 .. n /\ \A j \in 1 .. n : r[j] = IF j = k THEN s[1] ELSE IF j = 1 THEN p ELSE s[j]
  BY <1>1, <1>2, <1>3
<1> HIDE DEF r, n
<1>5. \A j \in 1 .. n : g(j) \in 1 .. n /\ g(g(j)) = j
  BY <1>1, <1>2
<1>6. \A j \in 1 .. n : r[j] = s[g(j)]
  BY <1>1, <1>4
<1> HIDE DEF g
<1>7. \A j \in 1 .. n : r[j] \in S
  BY <1>5, <1>6, <1>e
<1>8. r \in Seq(S) /\ Len(r) = n
  <2>1. r \in [1 .. n -> S]
    <3>1. r = [j \in 1 .. n |-> r[j]]
      BY <1>3, <1>4
    <3> QED BY <1>7, <3>1
  <2> QED BY <1>1, <1>4, <2>1
<1>9. Distinct(r)
  <2>1. ASSUME NEW i \in 1 .. n, NEW j \in 1 .. n, r[i] = r[j]
        PROVE  i = j
    <3>1. g(i) = g(j)
      BY <1>1, <1>5, <1>6, <2>1 DEF Distinct
    <3>2. g(g(i)) = i /\ g(g(j)) = j
      BY <1>5
    <3> QED BY <3>1, <3>2
  <2> QED BY <1>4, <2>1 DEF Distinct
<1>10. ToSet(r) = ToSet(s)
  <2>1. ASSUME NEW j \in 1 .. n
        PROVE  r[j] \in ToSet(s) /\ s[j] \in ToSet(r)
    <3>1. r[j] = s[g(j)] /\ r[g(j)] = s[j] /\ g(j) \in 1 .. n
      BY <1>5, <1>6
    <3> QED BY <1>1, <1>4, <3>1 DEF ToSet
  <2> QED BY <1>1, <1>4, <2>1 DEF ToSet
<1>11. r[1] = p /\ r # <<>>
  BY <1>1, <1>2, <1>4, <1>8
<1> QED BY <1>8, <1>9, <1>10, <1>11 DEF r

\* A workspace whose columns are the panes of a list, one each.
LEMMA ColumnsTrees ==
  ASSUME NEW P, NEW s \in Seq(P), Distinct(s), NEW v,
         v.columns = [i \in DOMAIN s |-> NewColumn(s[i])], v.box = s,
         v.place = [x \in ToSet(s) |-> At(x, <<>>)]
  PROVE  /\ Apart(v) /\ Hung(v) /\ Whole(v.place)
         /\ OnScreen(v) = ToSet(s) /\ Listed(v) = ToSet(s)
         /\ v.columns \in Seq(ColumnSet(P)) /\ Len(v.columns) = Len(s)
<1> DEFINE D == DOMAIN s
<1>1. Len(s) \in Nat /\ D = 1 .. Len(s) /\ \A i \in D : s[i] \in P
  OBVIOUS
<1>2. /\ DOMAIN v.columns = D
      /\ \A i \in D : v.columns[i] = NewColumn(s[i])
  OBVIOUS
<1>3. \A i \in D : v.columns[i].root = s[i] /\ v.columns[i].panes = <<s[i]>>
  BY <1>2 DEF NewColumn
<1>4. /\ DOMAIN v.place = ToSet(s)
      /\ \A x \in ToSet(s) : v.place[x].root = x /\ v.place[x].path = <<>>
  BY DEF At
<1>5. ToSet(s) = {s[i] : i \in D}
  BY DEF ToSet
<1>6. \A i \in D : DOMAIN v.columns[i].panes = {1} /\ v.columns[i].panes[1] = s[i]
  BY <1>3
<1>7. v.columns \in Seq(ColumnSet(P)) /\ Len(v.columns) = Len(s)
  <2>1. \A i \in D : NewColumn(s[i]) \in ColumnSet(P)
    BY <1>1, NewColumnOK
  <2>2. v.columns \in [1 .. Len(s) -> ColumnSet(P)]
    BY <1>1, <2>1
  <2> QED BY <1>1, <2>2
<1> HIDE DEF D
<1>8. Apart(v)
  <2> SUFFICES ASSUME NEW c \in D, NEW d \in D,
                      NEW i \in DOMAIN v.columns[c].panes, NEW j \in DOMAIN v.columns[d].panes,
                      v.columns[c].panes[i] = v.columns[d].panes[j]
               PROVE  c = d /\ i = j
    BY <1>2 DEF Apart
  <2>1. i = 1 /\ j = 1
    BY <1>6, ZenonT(60)
  <2>2. s[c] = s[d]
    BY <1>6, <2>1
  <2> QED BY <2>1, <2>2 DEF Distinct, D
<1>9. Whole(v.place)
  BY <1>4, AloneWhole
<1>10. OnScreen(v) = ToSet(s)
  BY <1>4 DEF OnScreen
<1>11. Listed(v) = ToSet(s)
  <2>1. ASSUME NEW i \in D
        PROVE  ToSet(v.columns[i].panes) = {s[i]}
    <3> DEFINE L == v.columns[i].panes
    <3>1. DOMAIN L = {1} /\ L[1] = s[i]
      BY <1>6
    <3> HIDE DEF L
    <3>2. \A x : x \in ToSet(L) <=> x = s[i]
      BY <3>1 DEF ToSet
    <3>3. ToSet(L) = {s[i]}
      BY <3>2
    <3> QED BY <3>3 DEF L
  <2>2. \A x : x \in Listed(v) <=> \E c \in D : x \in ToSet(v.columns[c].panes)
    BY <1>2 DEF Listed
  <2>3. \A x : x \in ToSet(s) <=> \E c \in D : x = s[c]
    BY <1>5
  <2>4. ASSUME NEW x \in Listed(v)
        PROVE  x \in ToSet(s)
    <3>1. PICK c \in D : x \in ToSet(v.columns[c].panes)
      BY <2>2
    <3>2. x = s[c]
      BY <2>1, <3>1, ZenonT(60)
    <3> QED BY <2>3, <3>2
  <2>5. ASSUME NEW x \in ToSet(s)
        PROVE  x \in Listed(v)
    <3>1. PICK c \in D : x = s[c]
      BY <2>3
    <3>2. x \in ToSet(v.columns[c].panes)
      BY <2>1, <3>1
    <3> QED BY <2>2, <3>2
  <2> QED BY <2>4, <2>5
<1>12. Roots(v) = ToSet(s)
  BY <1>2, <1>3, <1>5 DEF Roots
<1>13. RootsApart(v)
  BY <1>2, <1>3 DEF RootsApart, Distinct, D
<1>14. ASSUME NEW c \in D
       PROVE  InOrder(v, c)
  <2> DEFINE L == v.columns[c].panes
  <2>1. DOMAIN L = {1} /\ L[1] = s[c] /\ v.columns[c].root = s[c] /\ s[c] \in ToSet(s)
    BY <1>3, <1>5, <1>6
  <2>2. v.place[s[c]].root = s[c]
    BY <1>4, <2>1
  <2> HIDE DEF L
  <2>3. \A i \in DOMAIN L : v.place[L[i]].root = v.columns[c].root
    BY <2>1, <2>2
  <2>4. \A i, j \in DOMAIN L : ~(i < j)
    BY <2>1
  <2> QED BY <2>3, <2>4 DEF InOrder, L
<1>15. Hung(v)
  BY <1>2, <1>4, <1>10, <1>12, <1>13, <1>14 DEF Hung
<1> QED BY <1>7, <1>8, <1>9, <1>10, <1>11, <1>15

\* A workspace whose panes are chained under the overlay.
LEMMA ChainedTrees ==
  ASSUME NEW P, NEW s \in Seq(P), Distinct(s), NEW v,
         v.columns = <<>>, v.box = <<Overlay>>,
         v.place = Chain([x \in {} |-> At(Overlay, <<>>)], Overlay, s)
  PROVE  /\ Apart(v) /\ Single(v) /\ Whole(v.place)
         /\ OnScreen(v) = ToSet(s) /\ PlacesOK(v.place, P)
<1> DEFINE none == [x \in {} |-> At(Overlay, <<>>)]
           R    == P \cup {Overlay}
<1>1. DOMAIN none = {} /\ none \in [{} -> Place(R)]
  OBVIOUS
<1>2. Whole(none)
  BY <1>1 DEF Whole
<1>3. InRoot(none, Overlay) = {} /\ ToSet(s) \cap DOMAIN none \subseteq InRoot(none, Overlay)
  BY <1>1 DEF InRoot
<1> HIDE DEF none
<1>4. Chained(v.place, none, Overlay, s)
  BY ChainPlaces DEF none
<1>5. Whole(v.place)
  <2>1. Whole(Chain(none, Overlay, s))
    BY <1>2, <1>3, ChainWhole
  <2> QED BY <2>1 DEF none
<1>6. OnScreen(v) = ToSet(s)
  BY <1>1, <1>4 DEF Chained, OnScreen
<1>7. \A x \in OnScreen(v) : v.place[x].root = Overlay
  <2>1. ASSUME NEW x \in ToSet(s)
        PROVE  v.place[x].root = Overlay
    <3>1. PICK i \in 1 .. Len(s) : s[i] = x
      BY DEF ToSet
    <3>2. v.place[x] = At(Overlay, ChainPath(i, Len(s)))
      BY <1>4, <3>1 DEF Chained
    <3> QED BY <3>2 DEF At
  <2> QED BY <1>6, <2>1
<1>8. PlacesOK(v.place, P)
  <2>0. Overlay \in R
    OBVIOUS
  <2>1. Chain(none, Overlay, s) \in [DOMAIN Chain(none, Overlay, s) -> Place(R)]
    <3> HIDE DEF R
    <3> QED BY <1>1, <2>0, ChainOK
  <2>2. v.place \in [DOMAIN v.place -> Place(R)]
    BY <2>1 DEF none
  <2>3. DOMAIN v.place \subseteq P
    BY <1>6, ToSetOK DEF OnScreen
  <2> QED BY <2>2, <2>3 DEF PlacesOK
<1>9. DOMAIN v.columns = {} /\ Apart(v)
  BY DEF Apart
<1> QED BY <1>5, <1>6, <1>7, <1>8, <1>9 DEF Single

\* A switch of the layout keeps every pane, registers them all, and makes the
\* primary notebook the first of them.
LEMMA RebuildTrees ==
  ASSUME NEW P, IsFiniteSet(P), NEW w, WsOK(w, P), Trees(w),
         w.primary \in OnScreen(w), NEW mode \in {"classic", "strip"}
  PROVE  LET v == Rebuild(w, mode)
         IN  /\ WsOK(v, P) /\ Trees(v) /\ v.mode = mode
             /\ v.primary = v.panes[1] /\ v.wrecked = w.wrecked
             /\ OnScreen(v) = OnScreen(w) /\ Registered(v) = OnScreen(w) /\ Lit(v)
             /\ mode = "strip" => Listed(v) = OnScreen(w)
<1> DEFINE p     == w.primary
           walk  == Walk(w)
           s     == PrimaryFirst(walk, p)
           first == s[1]
           kept  == IF w.active \in ToSet(s) THEN w.active ELSE first
           w1    == [w EXCEPT !.mode = mode, !.panes = s, !.primary = first,
                              !.active = kept]
           cols  == [i \in DOMAIN s |-> NewColumn(s[i])]
           flat  == [x \in ToSet(s) |-> At(x, <<>>)]
           tree  == Chain([x \in {} |-> At(Overlay, <<>>)], Overlay, s)
           ws2   == [w1 EXCEPT !.columns = cols, !.box = s, !.place = flat]
           wc2   == [w1 EXCEPT !.columns = <<>>, !.focusedCol = 0, !.box = <<Overlay>>,
                               !.place = tree]
           v     == Rebuild(w, mode)
<1>1. v = IF mode = "strip" THEN SetActive(FocusColumn(ws2, 1), first) ELSE wc2
  BY DEF Rebuild
<1>2. OnScreen(w) \subseteq P
  BY DEF WsOK, PlacesOK, OnScreen
<1>3. walk \in Seq(OnScreen(w)) /\ Distinct(walk) /\ ToSet(walk) = OnScreen(w)
  BY WalkOK
<1> HIDE DEF walk
<1>4. /\ s \in Seq(OnScreen(w)) /\ Distinct(s) /\ ToSet(s) = OnScreen(w) /\ s[1] = p
      /\ s # <<>>
  BY <1>3, PrimaryFirstOK
<1> HIDE DEF s
<1>5. s \in Seq(P) /\ Len(s) \in Nat /\ Len(s) >= 1
  BY <1>2, <1>4
<1>6. first \in P /\ kept \in P /\ first = p
  BY <1>2, <1>4, <1>5
<1> HIDE DEF first, kept
<1>7. /\ Kept(w1, w, {"mode", "panes", "primary", "active"})
      /\ w1.mode = mode /\ w1.panes = s /\ w1.primary = first /\ w1.active = kept
  BY DEF Kept, WsOK, Shape, Fields
<1> HIDE DEF w1
<1>8. CASE mode = "strip"
  <2>1. /\ Kept(ws2, w1, {"columns", "box", "place"})
        /\ ws2.columns = cols /\ ws2.box = s /\ ws2.place = flat
    BY <1>7 DEF Kept, Shape, Fields
  <2> HIDE DEF ws2
  <2>2. /\ Apart(ws2) /\ Hung(ws2) /\ Whole(ws2.place)
        /\ OnScreen(ws2) = ToSet(s) /\ Listed(ws2) = ToSet(s)
        /\ ws2.columns \in Seq(ColumnSet(P)) /\ Len(ws2.columns) = Len(s)
    BY <1>4, <1>5, <2>1, ColumnsTrees
  <2>3. /\ ws2.mode = "strip" /\ ws2.panes = s /\ ws2.primary = first /\ ws2.active = kept
        /\ ws2.zoomed = w.zoomed /\ ws2.hidden = w.hidden /\ ws2.wrecked = w.wrecked
        /\ ws2.focusedCol = w.focusedCol
    BY <1>7, <1>8, <2>1 DEF Kept, Fields
  <2>4. Trees(ws2)
    BY <1>4, <2>2, <2>3 DEF Trees
  <2> DEFINE u == FocusColumn(ws2, 1)
  <2>5. /\ Kept(u, ws2, {"focusedCol", "active"})
        /\ u.focusedCol = 1 /\ u.active = FocusedOf(ws2.columns[1])
    <3>1. 1 \in DOMAIN ws2.columns
      BY <1>5, <2>2
    <3> QED BY <2>1, <3>1 DEF FocusColumn, Kept, Shape, Fields
  <2> HIDE DEF u
  <2>6. FocusedOf(ws2.columns[1]) \in P
    <3>1. ws2.columns[1] \in ColumnSet(P)
      BY <1>5, <2>2
    <3> QED BY <3>1, FocusedOfOK
  <2>7. ws2.box \in Seq(P \cup {Overlay}) /\ PlacesOK(ws2.place, P)
    <3>1. s \in Seq(P \cup {Overlay})
      BY <1>5
    <3>2. ToSet(s) \subseteq P
      BY <1>5, ToSetOK
    <3>3. \A x \in ToSet(s) : At(x, <<>>) \in Place(P \cup {Overlay})
      <4>1. <<>> \in Path
        BY DEF Path
      <4> QED BY <3>2, <4>1 DEF Place, At
    <3>4. PlacesOK(flat, P)
      BY <3>2, <3>3 DEF PlacesOK
    <3> QED BY <2>1, <3>1, <3>4
  <2>8. /\ u.mode = "strip" /\ u.panes = s /\ u.primary = first /\ u.columns = ws2.columns
        /\ u.box = ws2.box /\ u.place = ws2.place
        /\ u.zoomed = w.zoomed /\ u.hidden = w.hidden /\ u.wrecked = w.wrecked
    BY <2>3, <2>5 DEF Kept, Fields
  <2>9. WsOK(u, P)
    <3>1. Shape(u) /\ 1 \in Nat /\ 1 \in 1 .. Len(ws2.columns)
      BY <1>5, <2>2, <2>5 DEF Kept
    <3>2. u.focusedCol \in Nat /\ u.focusedCol \in 1 .. Len(u.columns)
      BY <2>5, <2>8, <3>1
    <3>3. /\ u.panes \in Seq(P) /\ u.panes # <<>> /\ u.active \in P \cup {NoPane}
          /\ u.primary \in P \cup {NoPane} /\ u.columns \in Seq(ColumnSet(P))
      BY <1>4, <1>5, <1>6, <2>2, <2>5, <2>6, <2>8
    <3>4. /\ u.box \in Seq(P \cup {Overlay}) /\ PlacesOK(u.place, P)
          /\ u.zoomed \in BOOLEAN /\ u.hidden \in SUBSET P /\ u.wrecked \in SUBSET P
      BY <2>7, <2>8 DEF WsOK
    <3> QED BY <2>8, <3>1, <3>2, <3>3, <3>4 DEF WsOK
  <2>10. SameTrees(u, ws2)
    BY <2>5, KeptSame DEF Kept
  <2>11. v = SetActive(u, first)
    BY <1>1, <1>8 DEF u
  <2> HIDE DEF v
  <2>12. WsOK(v, P) /\ SameTrees(v, u)
    BY <2>9, <2>11, SetActiveOK, SetActiveSame
  <2>13. SameTrees(v, ws2)
    BY <2>10, <2>12, SameTreesTrans
  <2>14. /\ Trees(v) /\ OnScreen(v) = OnScreen(ws2) /\ Listed(v) = Listed(ws2)
         /\ Registered(v) = Registered(ws2)
    BY <2>4, <2>13, SameTreesOK, SameTreesSets
  <2>15. v.mode = mode /\ v.panes = s /\ v.primary = first /\ v.wrecked = w.wrecked
    BY <1>8, <2>3, <2>13 DEF SameTrees
  <2>16. Registered(v) = OnScreen(w)
    BY <1>4, <2>15 DEF Registered
  <2>17. Lit(v)
    <3>1. first \in Registered(u)
      BY <1>4, <1>6, <2>8 DEF Registered
    <3> QED BY <2>9, <2>11, <3>1, SetActiveLit
  <2> QED BY <1>4, <1>6, <2>2, <2>12, <2>14, <2>15, <2>16, <2>17 DEF v
<1>9. CASE mode = "classic"
  <2>1. /\ Kept(wc2, w1, {"columns", "focusedCol", "box", "place"})
        /\ wc2.columns = <<>> /\ wc2.focusedCol = 0 /\ wc2.box = <<Overlay>>
        /\ wc2.place = tree
    BY <1>7 DEF Kept, Shape, Fields
  <2>2. v = wc2
    BY <1>1, <1>9
  <2> HIDE DEF v, wc2
  <2>3. /\ Apart(v) /\ Single(v) /\ Whole(v.place)
        /\ OnScreen(v) = ToSet(s) /\ PlacesOK(v.place, P)
    BY <1>4, <1>5, <2>1, <2>2, ChainedTrees
  <2>4. /\ v.mode = "classic" /\ v.panes = s /\ v.primary = first /\ v.active = kept
        /\ v.zoomed = w.zoomed /\ v.hidden = w.hidden /\ v.wrecked = w.wrecked
    BY <1>7, <1>9, <2>1, <2>2 DEF Kept, Fields
  <2>5. Trees(v)
    BY <1>4, <2>3, <2>4 DEF Trees
  <2>6. WsOK(v, P)
    <3>1. Shape(v) /\ v.columns = <<>> /\ v.focusedCol = 0 /\ v.box = <<Overlay>>
      BY <2>1, <2>2 DEF Kept
    <3>2. /\ v.columns \in Seq(ColumnSet(P)) /\ v.focusedCol \in Nat
          /\ v.box \in Seq(P \cup {Overlay})
      BY <3>1
    <3>3. v.zoomed \in BOOLEAN /\ v.hidden \in SUBSET P /\ v.wrecked \in SUBSET P
      BY <2>4 DEF WsOK
    <3> QED BY <1>4, <1>5, <1>6, <2>3, <2>4, <3>1, <3>2, <3>3 DEF WsOK
  <2>7. Registered(v) = OnScreen(w)
    BY <1>4, <2>4 DEF Registered
  <2>8. Lit(v)
    BY <2>4 DEF Lit
  <2> QED BY <1>4, <1>6, <1>9, <2>3, <2>4, <2>5, <2>6, <2>7, <2>8 DEF v
<1> QED BY <1>8, <1>9

LEMMA FirstOnScreen ==
  ASSUME NEW P, NEW w, WsOK(w, P), Running(w)
  PROVE  w.panes[1] \in Registered(w) /\ w.panes[1] \in OnScreen(w)
<1>1. w.panes \in Seq(P) /\ 1 \in DOMAIN w.panes
  BY DEF WsOK
<1>2. w.panes[1] \in Registered(w)
  BY <1>1 DEF Registered, ToSet
<1> QED BY <1>2 DEF Running, Stale

\* The classic close of a pane takes it off the strip for good: what the
\* columns still list is then gone, so nothing more is said of that workspace.
LEMMA ClosePaneStrip ==
  ASSUME NEW P, Overlay \notin P, NEW w, WsOK(w, P), w.mode = "strip", Trees(w),
         Running(w), Agrees(w), NEW p
  PROVE  Closed(ClosePane(w, p), w)
<1> DEFINE v == ClosePane(w, p)
           u == Unzoom(w)
<1>1. /\ Trees(v) /\ Agrees(v) /\ v.mode = w.mode /\ Listed(v) = Listed(w)
      /\ OnScreen(w) \ OnScreen(v) \subseteq {p}
  BY ClosePaneTrees
<1>2. ASSUME v = w \/ v = u
      PROVE  (Lit(w) => Lit(v)) /\ (AllListed(w) => AllListed(v))
  <2>1. SameTrees(u, w) /\ (Lit(w) => Lit(u))
    BY UnzoomSame, ZoomLit
  <2> HIDE DEF u, v
  <2>2. AllListed(w) => AllListed(u)
    BY <2>1, SameTreesOK, SameTreesSets DEF SameTrees, AllListed
  <2> QED BY <1>2, <2>1, <2>2
<1>3. CASE Len(w.panes) <= 1
  <2>1. v = w
    BY <1>3 DEF ClosePane
  <2> HIDE DEF v
  <2> QED BY <1>1, <1>2, <2>1 DEF v, Closed
<1>4. CASE ~(Len(w.panes) <= 1) /\ ~CanClose(w, p)
  <2>1. v = u
    BY <1>4 DEF ClosePane
  <2> HIDE DEF v, u
  <2> QED BY <1>1, <1>2, <2>1 DEF v, Closed
<1>5. CASE ~(Len(w.panes) <= 1) /\ CanClose(w, p)
  <2>1. p \notin OnScreen(v)
    <3>1. WsOK(u, P) /\ u.place = w.place
      BY UnzoomOK
    <3> HIDE DEF u
    <3>2. v.place = CloseLeaf(u.place, p)
      BY <1>5, <3>1 DEF ClosePane, u, WsOK, Shape, Fields
    <3> HIDE DEF v
    <3> QED BY <3>2 DEF CloseLeaf, OnScreen
  <2>2. p \in Registered(w)
    BY <1>5 DEF CanClose, Agrees
  <2> HIDE DEF v
  <2>3. AllListed(w) => p \in Listed(w)
    BY <2>2 DEF AllListed
  <2>4. AllListed(w) => ~Running(v)
    BY <1>1, <2>1, <2>3 DEF Running, Stale
  <2> QED BY <1>1, <2>4 DEF Closed, Lit, AllListed, v
<1> QED BY <1>3, <1>4, <1>5
-----------------------------------------------------------------------------
(* What a split and a close leave hidden in the classic layout: nothing *)

LEMMA SplitTargetVeiled ==
  ASSUME NEW P, NEW w, WsOK(w, P), w.mode = "classic", Trees(w), NEW q \in P, Fresh(w, q),
         q \notin Registered(w), Running(w), Veiled(w), NEW p
  PROVE  Veiled(SplitTarget(w, p, q))
<1> DEFINE u  == Unzoom(w)
           u1 == [u EXCEPT !.panes = Append(u.panes, q)]
           w1 == SetActive(u1, q)
           w2 == [w1 EXCEPT !.place = SplitLeaf(w1.place, p, q)]
           w3 == [w1 EXCEPT !.panes = Without(w1.panes, q)]
           v  == SplitTarget(w, p, q)
<1>1. v = IF CanSplitAt(w, p) THEN SetActive(w2, q) ELSE w3
  BY DEF SplitTarget
<1>2. WsOK(u, P) /\ u.hidden = {} /\ u.panes = w.panes
  BY UnzoomOK, UnzoomVeiled
<1> HIDE DEF u
<1>3. WsOK(u1, P) /\ u1.hidden = {}
  <2> DEFINE s == u.panes
             t == Append(s, q)
  <2>1. s \in Seq(P) /\ Len(s) \in Nat
    BY <1>2 DEF WsOK
  <2> HIDE DEF s
  <2>2. t \in Seq(P) /\ Len(t) = Len(s) + 1
    BY <2>1, AppendOK
  <2>3. t \in Seq(P) /\ t # <<>>
    BY <2>1, <2>2
  <2>4. u1 = [u EXCEPT !.panes = t]
    BY DEF s
  <2> HIDE DEF u1, t
  <2>5. WsOK(u1, P)
    BY <1>2, <2>3, <2>4, PanesOK
  <2> QED BY <1>2, <2>4, <2>5 DEF WsOK, Shape, Fields
<1> HIDE DEF u1
<1>4. WsOK(w1, P) /\ w1.hidden = {}
  BY <1>3, SetActiveMoved, SetActiveOK DEF Moved
<1> HIDE DEF w1
<1>5. Shape(w2) /\ w2.hidden = {} /\ Shape(w3) /\ w3.hidden = {}
  BY <1>4 DEF WsOK, Shape, Fields
<1> HIDE DEF w2, w3, v
<1>6. v.hidden = {}
  <2>1. SetActive(w2, q).hidden = w2.hidden
    BY <1>5 DEF SetActive, Shape, Fields
  <2> QED BY <1>1, <1>5, <2>1
<1>7. OnScreen(w) \subseteq OnScreen(v)
  BY SplitTargetTrees DEF v
<1>8. w.panes[1] \in OnScreen(w)
  BY FirstOnScreen
<1> QED BY <1>6, <1>7, <1>8 DEF Veiled, v

LEMMA ClosePaneVeiled ==
  ASSUME NEW P, Overlay \notin P, NEW w, WsOK(w, P), w.mode = "classic", Trees(w),
         Running(w), Veiled(w), NEW p
  PROVE  Veiled(ClosePane(w, p))
<1> DEFINE v == ClosePane(w, p)
           u == Unzoom(w)
<1>1. OnScreen(w) \ OnScreen(v) \subseteq {p} /\ v.mode = "classic"
  BY ClosePaneTrees
<1>2. CASE Len(w.panes) <= 1
  BY <1>2 DEF ClosePane
<1>3. CASE ~(Len(w.panes) <= 1)
  <2>1. WsOK(u, P) /\ u.hidden = {}
    BY UnzoomOK, UnzoomVeiled
  <2>2. v.hidden = {}
    <3> HIDE DEF u
    <3>1. CASE ~CanClose(w, p)
      BY <1>3, <2>1, <3>1 DEF ClosePane, u
    <3>2. CASE CanClose(w, p)
      BY <1>3, <2>1, <3>2 DEF ClosePane, u, WsOK, Shape, Fields
    <3> QED BY <3>1, <3>2
  <2> HIDE DEF v
  <2>3. /\ {1, 2} \subseteq DOMAIN w.panes /\ w.panes[1] # w.panes[2]
        /\ {w.panes[1], w.panes[2]} \subseteq OnScreen(w)
    <3>1. w.panes \in Seq(P) /\ Len(w.panes) \in Nat /\ Len(w.panes) > 1
      BY <1>3 DEF WsOK
    <3>2. {1, 2} \subseteq DOMAIN w.panes
      BY <3>1
    <3>3. w.panes[1] \in Registered(w) /\ w.panes[2] \in Registered(w)
      BY <3>1, <3>2 DEF Registered, ToSet
    <3> QED BY <3>2, <3>3 DEF Running, Stale, Trees, Distinct
  <2> QED BY <1>1, <2>2, <2>3 DEF Veiled, v
<1> QED BY <1>2, <1>3

-----------------------------------------------------------------------------
(* What a step makes of the workspace *)

ZoomsTo(v, w) ==
    \/ \E f : v = ToggleZoom(w, f)
    \/ w.mode = "strip" /\ v = ToggleHalf(w)

ClosesTo(v, w, P) ==
    \/ \E p : Moved(v, ClosePane(w, p))
    \/ /\ w.mode = "strip"
       /\ \E u, f : WsOK(u, P) /\ Moved(u, w) /\ v = CloseCurrent(u, f)

\* A pane that hangs in a column is split in place only by the socket command.
SplitsTo(v, w, P, q) ==
    \/ w.mode = "strip" /\ \E f, o : v = SplitStrip(w, f, o, q)
    \/ /\ w.mode = "classic" \/ "pane.split" \in Inputs
       /\ \E u, p : WsOK(u, P) /\ Moved(u, w) /\ v = SplitTarget(u, p, q)

RebuildsTo(v, w) == \E mode \in Modes : mode # w.mode /\ v = Rebuild(w, mode)

Outcome(v, w, P, q) ==
    \/ Moved(v, w)
    \/ Running(w) /\ \/ ZoomsTo(v, w) \/ ClosesTo(v, w, P) \/ RebuildsTo(v, w)
                     \/ q \in Pane /\ SplitsTo(v, w, P, q)

\* The focus enters a pane of a column.
LEMMA EnterMoved ==
  ASSUME NEW P, NEW w, WsOK(w, P), NEW c \in 1 .. Len(w.columns),
         NEW k \in 1 .. Len(w.columns[c].panes)
  PROVE  Moved(FocusColumn([w EXCEPT !.columns[c].focused = k], c), w)
<1> DEFINE u == [w EXCEPT !.columns[c].focused = k]
           v == FocusColumn(u, c)
<1>1. WsOK(u, P) /\ SameTrees(u, w)
  BY ColumnFocusedOK, ColumnFocusedSame
<1>2. u.hidden = w.hidden /\ u.zoomed = w.zoomed
  BY DEF WsOK, Shape, Fields
<1> HIDE DEF u
<1>3. c \in 1 .. Len(u.columns)
  BY <1>1 DEF SameTrees, WsOK
<1>4. Moved(v, u) /\ Lit(v)
  BY <1>1, <1>3, FocusColumnMoved, FocusColumnLit
<1> HIDE DEF v
<1> QED BY <1>1, <1>2, <1>4, SameTreesTrans DEF Moved, u, v

\* The focus steps to a pane of the focused column.
LEMMA StepMoved ==
  ASSUME NEW P, NEW w, WsOK(w, P), NEW c \in 1 .. Len(w.columns),
         NEW k \in 1 .. Len(w.columns[c].panes), NEW p \in Registered(w)
  PROVE  Moved(SetActive([w EXCEPT !.columns[c].focused = k], p), w)
<1> DEFINE u == [w EXCEPT !.columns[c].focused = k]
           v == SetActive(u, p)
<1>1. WsOK(u, P) /\ SameTrees(u, w)
  BY ColumnFocusedOK, ColumnFocusedSame
<1>2. u.hidden = w.hidden /\ u.zoomed = w.zoomed
  BY DEF WsOK, Shape, Fields
<1> HIDE DEF u
<1>3. p \in Registered(u)
  BY <1>1, SameTreesSets
<1>4. Moved(v, u) /\ Lit(v)
  BY <1>1, <1>3, SetActiveMoved, SetActiveLit
<1> HIDE DEF v
<1> QED BY <1>1, <1>2, <1>4, SameTreesTrans DEF Moved, u, v

LEMMA FocusEnterMoved ==
  ASSUME IInv, NEW p, FocusEnter(p)
  PROVE  Moved(ws', ws)
<1> DEFINE c == ColumnOf(ws, p)
           k == IndexOf(ws.columns[c].panes, p)
<1>1. ws' = IF c = 0 THEN ws ELSE FocusColumn([ws EXCEPT !.columns[c].focused = k], c)
  BY DEF FocusEnter
<1>2. WsOK(ws, Known) /\ ws.columns \in Seq(ColumnSet(Known))
  BY DEF IInv, WsOK
<1>3. CASE c = 0
  BY <1>1, <1>3, MovedSelf
<1>4. CASE c # 0
  <2>1. c \in 1 .. Len(ws.columns) /\ p \in ToSet(ws.columns[c].panes)
    BY <1>2, <1>4, ColumnOfOK
  <2>2. k \in 1 .. Len(ws.columns[c].panes)
    <3>1. ws.columns[c] \in ColumnSet(Known)
      BY <1>2, <2>1
    <3>2. ws.columns[c].panes \in Seq(Known)
      BY <3>1, ColumnFields
    <3> QED BY <2>1, <3>2, IndexOfOK
  <2> HIDE DEF c, k
  <2>3. Moved(FocusColumn([ws EXCEPT !.columns[c].focused = k], c), ws)
    BY <1>2, <2>1, <2>2, EnterMoved
  <2> QED BY <1>1, <1>4, <2>3
<1> QED BY <1>3, <1>4

LEMMA StepPaneMoved ==
  ASSUME IInv, Agrees(ws), StepPane
  PROVE  Moved(ws', ws)
<1> DEFINE c   == ws.focusedCol
           col == ws.columns[c]
<1>1. PICK i \in DOMAIN col.panes :
        Became(SetActive([ws EXCEPT !.columns[c].focused = i], col.panes[i]),
               tabs, Grab(col.panes[i], focus))
  BY DEF StepPane
<1>2. c \in DOMAIN ws.columns /\ Running(ws)
  BY DEF StepPane, ColumnInRange
<1>3. WsOK(ws, Known) /\ ws.columns \in Seq(ColumnSet(Known))
  BY DEF IInv, WsOK
<1>4. c \in 1 .. Len(ws.columns)
  BY <1>2, <1>3
<1>5. col.panes \in Seq(Known)
  <2>1. col \in ColumnSet(Known)
    BY <1>3, <1>4
  <2> HIDE DEF col
  <2> QED BY <2>1, ColumnFields
<1>6. i \in 1 .. Len(col.panes) /\ col.panes[i] \in ToSet(col.panes)
  BY <1>1, <1>5 DEF ToSet
<1>7. col.panes[i] \in Registered(ws)
  <2>1. col.panes[i] \in Listed(ws)
    BY <1>2, <1>6 DEF Listed
  <2> QED BY <1>2, <2>1 DEF Running, Stale, Agrees
<1>8. ws' = SetActive([ws EXCEPT !.columns[c].focused = i], col.panes[i])
  BY <1>1 DEF Became
<1> HIDE DEF c
<1>9. Moved(SetActive([ws EXCEPT !.columns[c].focused = i], ws.columns[c].panes[i]), ws)
  BY <1>3, <1>4, <1>6, <1>7, StepMoved
<1> QED BY <1>8, <1>9

LEMMA StepColumnMoved ==
  ASSUME IInv, NEW c, StepColumn(c)
  PROVE  Moved(ws', ws)
<1> DEFINE w == FocusColumn(ws, c)
<1>1. ws' = SetActive(w, w.active)
  BY DEF StepColumn, FocusedCol, Became
<1>2. WsOK(w, Known) /\ Moved(w, ws)
  BY FocusColumnOK, FocusColumnMoved DEF IInv
<1> HIDE DEF w
<1>3. Moved(SetActive(w, w.active), w)
  BY <1>2, SetActiveMoved
<1> QED BY <1>1, <1>2, <1>3, MovedTrans

\* The handlers that only move the focus.
LEMMA FocusStepMoved ==
  ASSUME IInv, NEW p,
         \/ AddTab(p) \/ SelectTab(p) \/ FocusPane(p) \/ PointAt(p) \/ Navigate(p)
         \/ MoveFocus(p) \/ RequestClose \/ CancelClose \/ UNCHANGED vars
         \/ \E o : DragTab(o, p)
  PROVE  Moved(ws', ws)
<1>1. WsOK(ws, Known) /\ NoPane \notin Known
  BY KnownPanes DEF IInv
<1>2. CASE AddTab(p) \/ SelectTab(p) \/ FocusPane(p) \/ PointAt(p) \/ \E o : DragTab(o, p)
  <2>1. ws' = SetActive(ws, p)
    BY <1>2 DEF AddTab, SelectTab, FocusPane, PointAt, DragTab, Became
  <2> QED BY <1>1, <2>1, SetActiveMoved
<1>3. CASE Navigate(p)
  <2> DEFINE w == AfterLookup(ws, focus)
  <2>1. ws' = SetActive(w, p)
    BY <1>3 DEF Navigate, Became
  <2>2. WsOK(w, Known) /\ Moved(w, ws)
    BY <1>1, AfterLookupOK, AfterLookupMoved
  <2> HIDE DEF w
  <2>3. Moved(SetActive(w, p), w)
    BY <2>2, SetActiveMoved
  <2> QED BY <2>1, <2>2, <2>3, MovedTrans
<1>4. CASE RequestClose
  <2>1. ws' = AfterLookup(ws, focus)
    BY <1>4 DEF RequestClose
  <2> QED BY <1>1, <2>1, AfterLookupMoved
<1>5. CASE MoveFocus(p) \/ CancelClose \/ UNCHANGED vars
  <2>1. ws' = ws
    BY <1>5 DEF MoveFocus, CancelClose, vars
  <2> QED BY <2>1, MovedSelf
<1> QED BY <1>2, <1>3, <1>4, <1>5

LEMMA CloseOutcome ==
  ASSUME IInv, NEW p,
         \/ ConfirmClose \/ CloseCurrentNow
         \/ ClosePaneCommand(p) \/ CloseTab(p) \/ IdleClose(p) \/ MoveTabOut(p)
         \/ \E q : MoveTab(p, q)
  PROVE  Outcome(ws', ws, Known, nextPane)
<1>1. WsOK(ws, Known)
  BY DEF IInv
<1>2. Running(ws)
  BY DEF ConfirmClose, CloseCurrentNow, ClosePaneCommand, CloseTab, IdleClose, MoveTabOut, MoveTab
<1>3. ASSUME NEW x, Moved(ws', ClosePane(ws, x))
      PROVE  Outcome(ws', ws, Known, nextPane)
  BY <1>2, <1>3 DEF Outcome, ClosesTo
<1>4. ASSUME NEW x, ws' = ClosePane(ws, x) \/ Moved(ws', ws)
      PROVE  Outcome(ws', ws, Known, nextPane)
  BY <1>3, <1>4, MovedSelf DEF Outcome
<1>5. CASE ConfirmClose
  <2>1. CASE ws.mode = "classic"
    <3>1. ws' = ClosePane(ws, asked)
      BY <1>5, <2>1 DEF ConfirmClose, Became
    <3> QED BY <1>4, <3>1
  <2>2. CASE ws.mode # "classic"
    <3> DEFINE u == SetActive(ws, asked)
               f == IF asked \in Registered(ws) THEN Grab(asked, focus) ELSE focus
    <3>1. ws' = CloseCurrent(u, f)
      BY <1>5, <2>2 DEF ConfirmClose, Became
    <3>2. WsOK(u, Known) /\ Moved(u, ws)
      BY <1>1, SetActiveOK, SetActiveMoved
    <3>3. ws.mode = "strip"
      BY <1>1, <2>2 DEF WsOK
    <3> HIDE DEF u, f
    <3> QED BY <1>2, <3>1, <3>2, <3>3 DEF Outcome, ClosesTo
  <2> QED BY <2>1, <2>2
<1>6. CASE CloseCurrentNow
  <2>1. ws.mode = "strip" /\ ws' = CloseCurrent(ws, focus)
    BY <1>6 DEF CloseCurrentNow, Became
  <2> QED BY <1>1, <1>2, <2>1, MovedSelf DEF Outcome, ClosesTo
<1>7. CASE ClosePaneCommand(p)
  <2>1. ws' = ClosePane(ws, p)
    BY <1>7 DEF ClosePaneCommand, Became
  <2> QED BY <1>4, <2>1
<1>8. CASE CloseTab(p)
  <2>1. ws' = ClosePane(ws, p) \/ ws' = ws \/ ws' = SetActive(ws, p)
    BY <1>8 DEF CloseTab, Became
  <2>2. Moved(SetActive(ws, p), ws)
    BY <1>1, SetActiveMoved
  <2> QED BY <1>4, <2>1, <2>2, MovedSelf
<1>9. CASE IdleClose(p)
  <2>1. ws' = ClosePane(ws, p) \/ ws' = ws
    BY <1>9 DEF IdleClose, Became
  <2> QED BY <1>4, <2>1, MovedSelf
<1>10. CASE MoveTabOut(p)
  <2>1. ws' = ClosePane(ws, p) \/ ws' = ws
    BY <1>10 DEF MoveTabOut, Became
  <2> QED BY <1>4, <2>1, MovedSelf
<1>11. ASSUME NEW q, MoveTab(p, q)
       PROVE  Outcome(ws', ws, Known, nextPane)
  <2> DEFINE w == IF Less(tabs, p)[p] = 0 THEN ClosePane(ws, p) ELSE ws
  <2>1. ws' = SetActive(w, q)
    BY <1>11 DEF MoveTab, Became
  <2>2. WsOK(w, Known) /\ (w = ClosePane(ws, p) \/ w = ws)
    BY <1>1, ClosePaneOK
  <2> HIDE DEF w
  <2>3. Moved(ws', w)
    BY <2>1, <2>2, SetActiveMoved
  <2> QED BY <1>3, <1>4, <2>2, <2>3
<1> QED BY <1>5, <1>6, <1>7, <1>8, <1>9, <1>10, <1>11

LEMMA SplitOutcome ==
  ASSUME IInv, NEW x, SplitCurrent(x) \/ SplitPane(x)
  PROVE  Outcome(ws', ws, Known, nextPane)
<1>1. WsOK(ws, Known) /\ NoPane \notin Known
  BY KnownPanes DEF IInv
<1>2. Running(ws) /\ nextPane \in Pane
  BY DEF SplitCurrent, SplitPane
<1>3. SplitsTo(ws', ws, Known, nextPane)
  <2>1. CASE SplitPane(x)
    <3>1. "pane.split" \in Inputs /\ ws' = SplitTarget(ws, x, nextPane)
      BY <2>1 DEF SplitPane, Became
    <3> QED BY <1>1, <3>1, MovedSelf DEF SplitsTo
  <2>2. CASE SplitCurrent(x) /\ ws.mode = "strip"
    <3>1. ws' = SplitStrip(ws, focus, x, nextPane)
      BY <2>2 DEF SplitCurrent, Became
    <3> QED BY <2>2, <3>1 DEF SplitsTo
  <2>3. CASE SplitCurrent(x) /\ ws.mode # "strip"
    <3> DEFINE u == AfterLookup(ws, focus)
               p == FocusedPane(ws, focus)
    <3>1. ws' = SplitTarget(u, p, nextPane)
      BY <2>3 DEF SplitCurrent, Became
    <3>2. WsOK(u, Known) /\ Moved(u, ws)
      BY <1>1, AfterLookupOK, AfterLookupMoved
    <3>3. ws.mode = "classic"
      BY <1>1, <2>3 DEF WsOK
    <3> HIDE DEF u, p
    <3> QED BY <3>1, <3>2, <3>3 DEF SplitsTo
  <2> QED BY <2>1, <2>2, <2>3
<1> QED BY <1>2, <1>3 DEF Outcome

\* Every step of the program is one of the few things that can happen to the
\* workspace.
LEMMA StepOutcome ==
  ASSUME IInv, Agrees(ws), [Next]_vars
  PROVE  Outcome(ws', ws, Known, nextPane)
<1>1. ASSUME Moved(ws', ws)
      PROVE  Outcome(ws', ws, Known, nextPane)
  BY <1>1 DEF Outcome
<1>2. CASE \E o \in {"horizontal", "vertical"} : SplitCurrent(o)
  BY <1>2, SplitOutcome
<1>3. CASE RequestClose \/ CancelClose \/ UNCHANGED vars
  <2>1. Moved(ws', ws)
    BY <1>3, FocusStepMoved
  <2> QED BY <1>1, <2>1
<1>4. CASE ConfirmClose \/ CloseCurrentNow
  BY <1>4, CloseOutcome
<1>5. CASE StepFocus
  BY <1>1, <1>5, StepColumnMoved DEF StepFocus
<1>6. CASE StepPane
  BY <1>1, <1>6, StepPaneMoved
<1>7. CASE Zoom \/ HalfZoom
  BY <1>7 DEF Zoom, HalfZoom, Outcome, ZoomsTo
<1>8. CASE \E mode \in Modes : SetLayout(mode)
  BY <1>8 DEF SetLayout, Became, Outcome, RebuildsTo
<1>9. ASSUME NEW p \in Pane, PaneStep(p)
      PROVE  Outcome(ws', ws, Known, nextPane)
  <2>1. CASE SplitPane(p)
    BY <2>1, SplitOutcome
  <2>2. CASE ClosePaneCommand(p) \/ CloseTab(p) \/ IdleClose(p) \/ MoveTabOut(p)
    BY <2>2, CloseOutcome
  <2>3. CASE AddTab(p) \/ SelectTab(p) \/ FocusPane(p) \/ PointAt(p) \/ Navigate(p)
    <3>1. Moved(ws', ws)
      BY <2>3, FocusStepMoved
    <3> QED BY <1>1, <3>1
  <2>4. CASE FocusEnter(p)
    BY <1>1, <2>4, FocusEnterMoved
  <2> QED BY <1>9, <2>1, <2>2, <2>3, <2>4 DEF PaneStep
<1>10. ASSUME NEW p \in Pane, NEW q \in Pane, MoveTab(p, q) \/ DragTab(p, q)
       PROVE  Outcome(ws', ws, Known, nextPane)
  <2>1. CASE MoveTab(p, q)
    BY <2>1, CloseOutcome
  <2>2. CASE DragTab(p, q)
    <3>1. Moved(ws', ws)
      BY <2>2, FocusStepMoved
    <3> QED BY <1>1, <3>1
  <2> QED BY <1>10, <2>1, <2>2
<1>11. ASSUME NEW p, MoveFocus(p)
       PROVE  Outcome(ws', ws, Known, nextPane)
  <2>1. Moved(ws', ws)
    BY <1>11, FocusStepMoved
  <2> QED BY <1>1, <2>1
<1> QED
  BY <1>2, <1>3, <1>4, <1>5, <1>6, <1>7, <1>8, <1>9, <1>10, <1>11 DEF Next

-----------------------------------------------------------------------------
(* What the outcomes keep *)

\* The pane a split creates is new to the workspace.
LEMMA NewPane ==
  ASSUME IInv, nextPane \in Pane, NEW u, WsOK(u, Known)
  PROVE  /\ WsOK(u, 1 .. nextPane) /\ nextPane \in 1 .. nextPane
         /\ Fresh(u, nextPane) /\ nextPane \notin Registered(u)
<1>1. nextPane \in Nat /\ nextPane >= 1 /\ Known \subseteq 1 .. nextPane /\ nextPane \notin Known
  BY KnownPanes DEF Pane, Known
<1>2. WsOK(u, 1 .. nextPane)
  BY <1>1, WsMono
<1>3. OnScreen(u) \subseteq Known /\ Registered(u) \subseteq Known
  BY ToSetOK DEF WsOK, PlacesOK, OnScreen, Registered
<1>4. \A c \in DOMAIN u.columns : u.columns[c] \in ColumnSet(Known)
  BY DEF WsOK
<1>5. Roots(u) \subseteq Known
  BY <1>4, ColumnFields DEF Roots
<1>6. Listed(u) \subseteq Known
  <2>1. ASSUME NEW c \in DOMAIN u.columns
        PROVE  ToSet(u.columns[c].panes) \subseteq Known
    <3>1. u.columns[c].panes \in Seq(Known)
      BY <1>4, ColumnFields
    <3> QED BY <3>1, ToSetOK
  <2> QED BY <2>1 DEF Listed
<1> QED BY <1>1, <1>2, <1>3, <1>5, <1>6 DEF Fresh

\* The invariant of the trees and of the screen, and what is added to it for
\* one layout and for a strip that is only split as a strip.
Screen(w) == Trees(w) /\ Agrees(w)

LEMMA SplitScreen ==
  ASSUME NEW P, NEW w, WsOK(w, P), Screen(w), Running(w), NEW q \in P, Fresh(w, q),
         q \notin Registered(w)
  PROVE  /\ w.mode = "strip" => \A f, o : /\ Screen(SplitStrip(w, f, o, q))
                                          /\ SplitStrip(w, f, o, q).mode = w.mode
         /\ \A p : Screen(SplitTarget(w, p, q)) /\ SplitTarget(w, p, q).mode = w.mode
<1>1. OnScreen(w) \subseteq Registered(w) /\ Listed(w) \subseteq Registered(w) /\ w.primary = w.panes[1]
  BY DEF Screen, Agrees, Running, Stale
<1>2. ASSUME w.mode = "strip", NEW f, NEW o
      PROVE  Screen(SplitStrip(w, f, o, q)) /\ SplitStrip(w, f, o, q).mode = w.mode
  <2> DEFINE v == SplitStrip(w, f, o, q)
  <2>1. /\ Trees(v) /\ v.mode = w.mode /\ v.primary = w.primary /\ v.panes[1] = w.panes[1]
        /\ Registered(v) = Registered(w) \cup {q}
        /\ OnScreen(v) \subseteq OnScreen(w) \cup Listed(w) \cup {q}
    BY <1>2, SplitStripTrees DEF Screen
  <2> HIDE DEF v
  <2> QED BY <1>1, <2>1 DEF Screen, Agrees, v
<1>3. ASSUME NEW p
      PROVE  Screen(SplitTarget(w, p, q)) /\ SplitTarget(w, p, q).mode = w.mode
  <2> DEFINE v == SplitTarget(w, p, q)
  <2>1. /\ Trees(v) /\ v.mode = w.mode /\ v.primary = w.primary /\ v.panes[1] = w.panes[1]
        /\ CanSplitAt(w, p) => /\ Registered(v) = Registered(w) \cup {q}
                               /\ OnScreen(v) = OnScreen(w) \cup {q}
        /\ ~CanSplitAt(w, p) => v.panes = w.panes /\ OnScreen(v) = OnScreen(w)
    BY SplitTargetTrees DEF Screen
  <2> HIDE DEF v
  <2>2. OnScreen(v) \subseteq Registered(v)
    BY <1>1, <2>1 DEF Registered
  <2> QED BY <1>1, <2>1, <2>2 DEF Screen, Agrees, v
<1> QED BY <1>2, <1>3

LEMMA MovedScreen ==
  ASSUME NEW v, NEW w, Moved(v, w)
  PROVE  /\ Screen(w) => Screen(v)
         /\ Running(v) <=> Running(w)
         /\ AllListed(w) => AllListed(v)
         /\ v.mode = w.mode
<1>1. /\ SameTrees(v, w) /\ OnScreen(v) = OnScreen(w) /\ Registered(v) = Registered(w)
      /\ Listed(v) = Listed(w)
  BY SameTreesSets DEF Moved
<1>2. (Trees(w) => Trees(v)) /\ (Agrees(w) => Agrees(v)) /\ (Running(v) <=> Running(w))
  BY <1>1, SameTreesOK
<1> QED BY <1>1, <1>2 DEF SameTrees, Screen, AllListed

\* The primary notebook is on the screen, so a switch of the layout finds it.
LEMMA RebuildStep ==
  ASSUME IInv, Screen(ws), Running(ws), NEW mode \in Modes
  PROVE  LET v == Rebuild(ws, mode)
         IN  WsOK(v, Known) /\ Screen(v) /\ v.mode = mode /\ AllListed(v) /\ Lit(v)
<1> DEFINE v == Rebuild(ws, mode)
<1>1. WsOK(ws, Known) /\ IsFiniteSet(Known) /\ mode \in {"classic", "strip"}
  <2>1. nextPane - 1 \in Int /\ 1 \in Int
    BY KnownPanes
  <2> QED BY <2>1, FS_Interval, ModesAssumption DEF IInv, Known
<1>2. ws.primary \in OnScreen(ws)
  BY <1>1, FirstOnScreen DEF Screen, Agrees
<1>3. /\ WsOK(v, Known) /\ Trees(v) /\ v.mode = mode /\ v.primary = v.panes[1]
      /\ OnScreen(v) = OnScreen(ws) /\ Registered(v) = OnScreen(ws) /\ Lit(v)
      /\ mode = "strip" => Listed(v) = OnScreen(ws)
  <2> DEFINE K == Known
             w == ws
  <2>1. /\ IsFiniteSet(K) /\ WsOK(w, K) /\ Trees(w) /\ w.primary \in OnScreen(w)
        /\ mode \in {"classic", "strip"}
    BY <1>1, <1>2 DEF Screen
  <2> QED BY <2>1, RebuildTrees
<1> HIDE DEF v
<1> QED BY <1>3 DEF v, Screen, Agrees, AllListed

LEMMA ScreenStep ==
  ASSUME IInv, Screen(ws), [Next]_vars
  PROVE  Screen(ws')
<1>1. /\ WsOK(ws, Known) /\ Overlay \notin Known /\ NoPane \notin Known
  BY KnownPanes DEF IInv, Overlay, NoPane
<1>2. Outcome(ws', ws, Known, nextPane)
  BY StepOutcome DEF Screen
<1>3. CASE Moved(ws', ws)
  BY <1>3, MovedScreen
<1>4. CASE ZoomsTo(ws', ws)
  <2>1. SameTrees(ws', ws)
    BY <1>1, <1>4, ToggleZoomSame, ToggleSame DEF ZoomsTo
  <2> QED BY <2>1, SameTreesOK DEF Screen
<1>5. CASE Running(ws) /\ ClosesTo(ws', ws, Known)
  <2>1. ASSUME NEW p, Moved(ws', ClosePane(ws, p))
        PROVE  Screen(ws')
    <3>1. Screen(ClosePane(ws, p))
      BY <1>1, <1>5, ClosePaneTrees DEF Screen
    <3> QED BY <2>1, <3>1, MovedScreen
  <2>2. ASSUME ws.mode = "strip", NEW u, NEW f, WsOK(u, Known), Moved(u, ws),
               ws' = CloseCurrent(u, f)
        PROVE  Screen(ws')
    <3>1. Screen(u) /\ Running(u) /\ u.mode = "strip"
      BY <1>5, <2>2, MovedScreen
    <3>2. Closed(CloseCurrent(u, f), u)
      BY <1>1, <2>2, <3>1, CloseCurrentTrees DEF Screen
    <3> QED BY <2>2, <3>2 DEF Closed, Screen
  <2> QED BY <1>5, <2>1, <2>2 DEF ClosesTo
<1>6. CASE Running(ws) /\ RebuildsTo(ws', ws)
  BY <1>6, RebuildStep DEF RebuildsTo
<1>7. CASE Running(ws) /\ nextPane \in Pane /\ SplitsTo(ws', ws, Known, nextPane)
  <2>1. ASSUME NEW u, WsOK(u, Known), Moved(u, ws)
        PROVE  /\ WsOK(u, 1 .. nextPane) /\ nextPane \in 1 .. nextPane
               /\ Fresh(u, nextPane) /\ nextPane \notin Registered(u)
               /\ Screen(u) /\ Running(u)
    BY <1>7, <2>1, NewPane, MovedScreen
  <2>2. /\ WsOK(ws, 1 .. nextPane) /\ nextPane \in 1 .. nextPane
        /\ Fresh(ws, nextPane) /\ nextPane \notin Registered(ws)
    BY <1>1, <1>7, NewPane
  <2>3. ASSUME ws.mode = "strip", NEW f, NEW o, ws' = SplitStrip(ws, f, o, nextPane)
        PROVE  Screen(ws')
    BY <1>7, <2>2, <2>3, SplitScreen
  <2>4. ASSUME NEW u, NEW p, WsOK(u, Known), Moved(u, ws), ws' = SplitTarget(u, p, nextPane)
        PROVE  Screen(ws')
    <3>1. /\ WsOK(u, 1 .. nextPane) /\ nextPane \in 1 .. nextPane
          /\ Fresh(u, nextPane) /\ nextPane \notin Registered(u)
          /\ Screen(u) /\ Running(u)
      BY <2>1, <2>4
    <3>2. Screen(SplitTarget(u, p, nextPane))
      BY <3>1, SplitScreen
    <3> QED BY <2>4, <3>2
  <2> QED BY <1>7, <2>3, <2>4 DEF SplitsTo
<1> QED BY <1>2, <1>3, <1>4, <1>5, <1>6, <1>7 DEF Outcome

\* With no pane.split command, every pane of a strip stays in a column, and
\* the active one is the focused one.
LEMMA LitStep ==
  ASSUME "pane.split" \notin Inputs, IInv, Screen(ws), AllListed(ws), Lit(ws), [Next]_vars
  PROVE  AllListed(ws') /\ Lit(ws')
<1>1. /\ WsOK(ws, Known) /\ Overlay \notin Known /\ NoPane \notin Known
  BY KnownPanes DEF IInv, Overlay, NoPane
<1>2. Outcome(ws', ws, Known, nextPane)
  BY StepOutcome DEF Screen
<1>d. ws.mode \in {"classic", "strip"}
  BY <1>1 DEF WsOK
<1>c. ASSUME ws'.mode # "strip"
      PROVE  AllListed(ws') /\ Lit(ws')
  BY <1>c DEF AllListed, Lit
<1>3. CASE Moved(ws', ws)
  BY <1>3, MovedScreen DEF Moved
<1>4. CASE ZoomsTo(ws', ws)
  <2>1. SameTrees(ws', ws) /\ Lit(ws')
    BY <1>1, <1>4, ToggleZoomSame, ToggleSame, ZoomLit, ToggleLit DEF ZoomsTo
  <2>2. AllListed(ws')
    BY <2>1, SameTreesOK, SameTreesSets DEF SameTrees, AllListed
  <2> QED BY <2>1, <2>2
<1>5. CASE Running(ws) /\ ClosesTo(ws', ws, Known)
  <2>1. ASSUME NEW p, Moved(ws', ClosePane(ws, p))
        PROVE  AllListed(ws') /\ Lit(ws')
    <3>1. ClosePane(ws, p).mode = ws.mode
      BY <1>1, ClosePaneOK
    <3>2. CASE ws.mode = "classic"
      BY <1>c, <2>1, <3>1, <3>2, MovedScreen
    <3>3. CASE ws.mode = "strip"
      <4>1. Closed(ClosePane(ws, p), ws)
        BY <1>1, <1>5, <3>3, ClosePaneStrip DEF Screen
      <4> QED BY <2>1, <4>1, MovedScreen DEF Closed, Moved
    <3> QED BY <1>d, <3>2, <3>3
  <2>2. ASSUME ws.mode = "strip", NEW u, NEW f, WsOK(u, Known), Moved(u, ws),
               ws' = CloseCurrent(u, f)
        PROVE  AllListed(ws') /\ Lit(ws')
    <3>1. Screen(u) /\ Running(u) /\ u.mode = "strip" /\ AllListed(u) /\ Lit(u)
      BY <1>5, <2>2, MovedScreen DEF Moved
    <3>2. Closed(CloseCurrent(u, f), u)
      BY <1>1, <2>2, <3>1, CloseCurrentTrees DEF Screen
    <3> QED BY <2>2, <3>1, <3>2 DEF Closed
  <2> QED BY <1>5, <2>1, <2>2 DEF ClosesTo
<1>6. CASE Running(ws) /\ RebuildsTo(ws', ws)
  BY <1>6, RebuildStep DEF RebuildsTo
<1>7. CASE Running(ws) /\ nextPane \in Pane /\ SplitsTo(ws', ws, Known, nextPane)
  <2>1. /\ WsOK(ws, 1 .. nextPane) /\ nextPane \in 1 .. nextPane
        /\ Fresh(ws, nextPane) /\ nextPane \notin Registered(ws)
    BY <1>1, <1>7, NewPane
  <2>2. ASSUME ws.mode = "strip", NEW f, NEW o, ws' = SplitStrip(ws, f, o, nextPane)
        PROVE  AllListed(ws') /\ Lit(ws')
    <3> DEFINE v == SplitStrip(ws, f, o, nextPane)
    <3>1. /\ Registered(v) = Registered(ws) \cup {nextPane}
          /\ Listed(v) = Listed(ws) \cup {nextPane} /\ Lit(v)
      BY <2>1, <2>2, SplitStripTrees DEF Screen
    <3> HIDE DEF v
    <3>2. AllListed(v)
      BY <1>7, <2>2, <3>1 DEF AllListed
    <3> QED BY <2>2, <3>1, <3>2 DEF v
  <2>3. ASSUME NEW u, NEW p, WsOK(u, Known), Moved(u, ws), ws' = SplitTarget(u, p, nextPane),
               ws.mode = "classic"
        PROVE  AllListed(ws') /\ Lit(ws')
    <3>1. /\ WsOK(u, 1 .. nextPane) /\ nextPane \in 1 .. nextPane
          /\ Fresh(u, nextPane) /\ nextPane \notin Registered(u)
          /\ Screen(u) /\ Running(u) /\ u.mode = "classic"
      BY <1>7, <2>3, NewPane, MovedScreen
    <3>2. SplitTarget(u, p, nextPane).mode = "classic"
      BY <3>1, SplitScreen
    <3> QED BY <1>c, <2>3, <3>2
  <2> QED BY <1>7, <2>2, <2>3 DEF SplitsTo
<1> QED BY <1>2, <1>3, <1>4, <1>5, <1>6, <1>7 DEF Outcome

\* A workspace that keeps the classic layout never has a pane hidden but by a
\* zoom, nor all of them.
LEMMA VeiledStep ==
  ASSUME OneLayout, IInv, Screen(ws), Veiled(ws), [Next]_vars
  PROVE  Veiled(ws')
<1>1. /\ WsOK(ws, Known) /\ Overlay \notin Known /\ NoPane \notin Known
  BY KnownPanes DEF IInv, Overlay, NoPane
<1>2. Outcome(ws', ws, Known, nextPane)
  BY StepOutcome DEF Screen
<1>d. ws.mode \in {"classic", "strip"}
  BY <1>1 DEF WsOK
<1>c. ASSUME ws'.mode # "classic"
      PROVE  Veiled(ws')
  BY <1>c DEF Veiled
<1>3. CASE Moved(ws', ws)
  BY <1>3, MovedVeiled
<1>4. CASE Running(ws) /\ ZoomsTo(ws', ws)
  <2>1. ASSUME NEW f, ws' = ToggleZoom(ws, f)
        PROVE  Veiled(ws')
    BY <1>1, <1>4, <2>1, ToggleZoomVeiled
  <2>2. ASSUME ws.mode = "strip", ws' = ToggleHalf(ws)
        PROVE  Veiled(ws')
    <3>1. ws'.mode = "strip"
      BY <1>1, <2>2, ToggleHalfOK
    <3> QED BY <1>c, <3>1
  <2> QED BY <1>4, <2>1, <2>2 DEF ZoomsTo
<1>5. CASE Running(ws) /\ ClosesTo(ws', ws, Known)
  <2>1. ASSUME NEW p, Moved(ws', ClosePane(ws, p))
        PROVE  Veiled(ws')
    <3>1. ClosePane(ws, p).mode = ws.mode
      BY <1>1, ClosePaneOK
    <3>2. CASE ws.mode = "classic"
      <4>1. Veiled(ClosePane(ws, p))
        BY <1>1, <1>5, <3>2, ClosePaneVeiled DEF Screen
      <4> QED BY <2>1, <4>1, MovedVeiled
    <3>3. CASE ws.mode = "strip"
      BY <1>c, <2>1, <3>1, <3>3, MovedScreen
    <3> QED BY <1>d, <3>2, <3>3
  <2>2. ASSUME ws.mode = "strip", NEW u, NEW f, WsOK(u, Known), Moved(u, ws),
               ws' = CloseCurrent(u, f)
        PROVE  Veiled(ws')
    <3>1. u.mode = "strip"
      BY <2>2, MovedScreen
    <3>2. ws'.mode = "strip"
      BY <2>2, <3>1, CloseCurrentOK
    <3> QED BY <1>c, <3>2
  <2> QED BY <1>5, <2>1, <2>2 DEF ClosesTo
<1>6. CASE RebuildsTo(ws', ws)
  BY <1>6 DEF RebuildsTo, OneLayout, IInv
<1>7. CASE Running(ws) /\ nextPane \in Pane /\ SplitsTo(ws', ws, Known, nextPane)
  <2>1. /\ WsOK(ws, 1 .. nextPane) /\ nextPane \in 1 .. nextPane
        /\ Fresh(ws, nextPane) /\ nextPane \notin Registered(ws)
    BY <1>1, <1>7, NewPane
  <2>2. ASSUME ws.mode = "strip", NEW f, NEW o, ws' = SplitStrip(ws, f, o, nextPane)
        PROVE  Veiled(ws')
    <3>1. ws'.mode = "strip"
      BY <1>7, <2>1, <2>2, SplitScreen
    <3> QED BY <1>c, <3>1
  <2>3. ASSUME NEW u, NEW p, WsOK(u, Known), Moved(u, ws), ws' = SplitTarget(u, p, nextPane)
        PROVE  Veiled(ws')
    <3>1. /\ WsOK(u, 1 .. nextPane) /\ nextPane \in 1 .. nextPane
          /\ Fresh(u, nextPane) /\ nextPane \notin Registered(u)
          /\ Screen(u) /\ Running(u) /\ u.mode = ws.mode /\ Veiled(u)
      BY <1>7, <2>3, NewPane, MovedScreen, MovedVeiled
    <3>2. SplitTarget(u, p, nextPane).mode = ws.mode
      BY <3>1, SplitScreen
    <3>3. CASE ws.mode = "classic"
      <4>1. Veiled(SplitTarget(u, p, nextPane))
        BY <3>1, <3>3, SplitTargetVeiled DEF Screen
      <4> QED BY <2>3, <4>1
    <3>4. CASE ws.mode = "strip"
      BY <1>c, <2>3, <3>2, <3>4
    <3> QED BY <1>d, <3>3, <3>4
  <2> QED BY <1>7, <2>2, <2>3 DEF SplitsTo
<1> QED BY <1>2, <1>3, <1>4, <1>5, <1>6, <1>7 DEF Outcome

\* A switch of the layout makes and drops no pane.
LEMMA SetLayoutOK ==
  ASSUME IInv, Screen(ws), NEW mode \in Modes, SetLayout(mode)
  PROVE  IInv'
<1> DEFINE w == Rebuild(ws, mode)
           f == Grab(w.active, focus)
<1>1. /\ Became(w, tabs, f) /\ Running(ws) /\ nextPane' = nextPane /\ idle' = idle
      /\ asked' = asked
  BY DEF SetLayout
<1>2. WsOK(w, Known) /\ w.mode \in Modes
  BY <1>1, RebuildStep
<1> HIDE DEF w, f
<1>3. /\ ws' = w /\ tabs' = [x \in Pane |-> IF x \in OnScreen(w) THEN tabs[x] ELSE 0]
      /\ focus' = (IF f \in OnScreen(w) THEN f ELSE NoPane)
  BY <1>1 DEF Became
<1>4. OnScreen(w) \subseteq Known
  BY <1>2 DEF WsOK, PlacesOK, OnScreen
<1>5. tabs' \in [Pane -> 0 .. MaxTabs]
  BY <1>3, KnownPanes DEF IInv
<1>6. \A p \in Pane : tabs'[p] > 0 => p \in OnScreen(w)
  BY <1>3
<1> QED BY <1>1, <1>2, <1>3, <1>4, <1>5, <1>6 DEF IInv, Known, OnScreen

LEMMA NextInv ==
  ASSUME IInv, Screen(ws), [Next]_vars
  PROVE  IInv'
<1>1. CASE \E o \in {"horizontal", "vertical"} : SplitCurrent(o)
  BY <1>1, SplitCurrentOK
<1>2. CASE RequestClose
  BY <1>2, RequestCloseOK
<1>3. CASE ConfirmClose
  BY <1>3, ConfirmCloseOK
<1>4. CASE CancelClose
  BY <1>4, CancelCloseOK
<1>5. CASE CloseCurrentNow
  BY <1>5, CloseCurrentNowOK
<1>6. CASE StepFocus
  BY <1>6, StepColumnOK DEF StepFocus
<1>7. CASE StepPane
  BY <1>7, StepPaneOK
<1>8. CASE Zoom \/ HalfZoom
  BY <1>8, ZoomStepOK
<1>9. CASE \E mode \in Modes : SetLayout(mode)
  BY <1>9, SetLayoutOK
<1>10. ASSUME NEW p \in Pane, PaneStep(p)
       PROVE  IInv'
  BY <1>10, SplitPaneOK, ClosePaneCommandOK, CloseTabOK, IdleCloseOK, AddTabOK,
     MoveTabOutOK, SelectOK, PointAtOK, FocusEnterOK, NavigateOK DEF PaneStep
<1>11. ASSUME NEW p \in Pane, NEW q \in Pane, MoveTab(p, q) \/ DragTab(p, q)
       PROVE  IInv'
  BY <1>11, MoveTabOK, DragTabOK
<1>12. CASE \E p \in Pane \cup {NoPane} : MoveFocus(p)
  BY <1>12, MoveFocusOK
<1>13. CASE UNCHANGED vars
  BY <1>13 DEF IInv, Known, OnScreen, vars
<1> QED
  BY <1>1, <1>2, <1>3, <1>4, <1>5, <1>6, <1>7, <1>8, <1>9, <1>10, <1>11, <1>12,
     <1>13 DEF Next

\* One pane, alone in its column or in the overlay.
LEMMA InitScreen ==
  ASSUME Init
  PROVE  Screen(ws) /\ AllListed(ws) /\ Lit(ws) /\ Veiled(ws)
<1>1. PICK mode \in Modes :
        ws = [mode |-> mode, panes |-> <<1>>, active |-> 1, primary |-> 1,
              columns |-> IF mode = "strip" THEN <<NewColumn(1)>> ELSE <<>>,
              focusedCol |-> IF mode = "strip" THEN 1 ELSE 0,
              box |-> <<IF mode = "strip" THEN 1 ELSE Overlay>>,
              place |-> [x \in {1} |-> At(IF mode = "strip" THEN 1 ELSE Overlay, <<>>)],
              zoomed |-> FALSE, hidden |-> {}, wrecked |-> {}]
  BY DEF Init
<1> DEFINE root == IF mode = "strip" THEN 1 ELSE Overlay
           cols == IF mode = "strip" THEN <<NewColumn(1)>> ELSE <<>>
           one  == <<1>>
           box  == <<root>>
           fc   == IF mode = "strip" THEN 1 ELSE 0
<1>2. /\ ws.mode = mode /\ ws.panes = one /\ ws.active = 1 /\ ws.primary = 1
      /\ ws.columns = cols /\ ws.box = box /\ ws.hidden = {} /\ ws.focusedCol = fc
      /\ ws.place = [x \in {1} |-> At(root, <<>>)]
  BY <1>1
<1>3. OnScreen(ws) = {1} /\ ws.place[1].root = root /\ ws.place[1].path = <<>>
  BY <1>2 DEF OnScreen, At
<1>4. DOMAIN one = {1} /\ one[1] = 1 /\ ToSet(one) = {1}
  BY DEF ToSet
<1>5. DOMAIN box = {1} /\ box[1] = root /\ ToSet(box) = {root}
  BY DEF ToSet
<1>6. mode = "strip" => /\ DOMAIN cols = {1} /\ cols[1].root = 1 /\ cols[1].panes = one
                        /\ cols[1].focused = 1
  BY DEF NewColumn
<1>7. mode # "strip" => DOMAIN cols = {} /\ cols = <<>>
  OBVIOUS
<1>8. Whole(ws.place)
  BY <1>3 DEF Whole, InRoot, OnScreen
<1>9. mode \in {"classic", "strip"}
  BY ModesAssumption
<1> HIDE DEF one, box, cols, root
<1>10. Distinct(ws.panes) /\ Apart(ws)
  BY <1>2, <1>4, <1>6, <1>7 DEF Distinct, Apart
<1>11. mode = "classic" => Single(ws)
  BY <1>2, <1>3, <1>7 DEF Single, root, box
<1>12. ASSUME mode = "strip"
       PROVE  Hung(ws)
  <2>1. Roots(ws) = {1} /\ root = 1
    BY <1>2, <1>6, <1>12 DEF Roots, root
  <2>2. RootsApart(ws) /\ Distinct(ws.box) /\ ToSet(ws.box) = Roots(ws)
    BY <1>2, <1>5, <1>6, <1>12, <2>1 DEF RootsApart, Distinct
  <2>3. InOrder(ws, 1)
    BY <1>2, <1>3, <1>4, <1>6, <1>12, <2>1 DEF InOrder
  <2> QED BY <1>2, <1>3, <1>6, <1>12, <2>1, <2>2, <2>3 DEF Hung
<1>13. Trees(ws)
  BY <1>2, <1>8, <1>10, <1>11, <1>12 DEF Trees
<1>14. Registered(ws) = {1}
  BY <1>2, <1>4 DEF Registered
<1>15. Agrees(ws)
  BY <1>2, <1>3, <1>4, <1>14 DEF Agrees
<1>16. mode = "strip" => Listed(ws) = {1}
  BY <1>2, <1>4, <1>6 DEF Listed
<1>17. AllListed(ws)
  BY <1>2, <1>14, <1>16 DEF AllListed
<1>18. Lit(ws)
  <2>1. mode = "strip" => FocusedOf(ws.columns[1]) = 1
    <3>1. Clamp(1, 1, Len(one)) = 1
      BY DEF Clamp, one
    <3> QED BY <1>2, <1>4, <1>6, <3>1 DEF FocusedOf
  <2> QED BY <1>2, <2>1 DEF Lit
<1>19. Veiled(ws)
  BY <1>2, <1>3 DEF Veiled
<1> QED BY <1>13, <1>15, <1>17, <1>18, <1>19 DEF Screen

-----------------------------------------------------------------------------
(* What the invariant says of the properties *)

LEMMA ScreenDisjoint ==
  ASSUME Screen(ws)
  PROVE  ColumnsDisjoint
BY DEF Screen, Trees, Apart, ColumnsDisjoint

LEMMA ScreenWhole ==
  ASSUME IInv, Screen(ws)
  PROVE  TreesWhole
<1> DEFINE R  == Known \cup {Overlay}
           pl == ws.place
<1>1. pl \in [DOMAIN pl -> Place(R)] /\ Whole(pl)
  BY DEF IInv, WsOK, PlacesOK, Screen, Trees
<1> HIDE DEF R, pl
<1>2. WellFormed(pl)
  BY <1>1, WholeOK
<1> QED BY <1>2 DEF TreesWhole, pl

LEMMA ScreenPrimary ==
  ASSUME Screen(ws)
  PROVE  PrimaryIsFirst
BY DEF Screen, Agrees, PrimaryIsFirst

LEMMA ScreenInStep ==
  ASSUME IInv, Screen(ws)
  PROVE  ScreenAgrees
<1> SUFFICES ASSUME Running(ws)
             PROVE  /\ OnScreen(ws) = Registered(ws)
                    /\ Cardinality(Registered(ws)) = Len(ws.panes)
                    /\ Listed(ws) \subseteq Registered(ws)
                    /\ {ws.place[x].root : x \in OnScreen(ws)} = ToSet(ws.box)
                    /\ \A c \in DOMAIN ws.columns :
                          LET list == ws.columns[c].panes IN
                          /\ \A i \in DOMAIN list : ws.place[list[i]].root = ws.columns[c].root
                          /\ \A i, j \in DOMAIN list :
                                i < j => Before(ws.place[list[i]].path, ws.place[list[j]].path)
  BY DEF ScreenAgrees
<1>1. WsOK(ws, Known) /\ Trees(ws) /\ Agrees(ws)
  BY DEF IInv, Screen
<1>2. OnScreen(ws) = Registered(ws) /\ Listed(ws) \subseteq OnScreen(ws)
  BY <1>1 DEF Agrees, Running, Stale
<1>3. Cardinality(Registered(ws)) = Len(ws.panes)
  BY <1>1, DistinctCount DEF WsOK, Trees, Registered
<1>4. \A c \in DOMAIN ws.columns : \A i \in DOMAIN ws.columns[c].panes :
         ws.columns[c].panes[i] \in OnScreen(ws)
  BY <1>2 DEF Listed, ToSet
<1>5. CASE ws.mode = "classic"
  <2>1. /\ DOMAIN ws.columns = {} /\ ToSet(ws.box) = {Overlay}
        /\ \A x \in OnScreen(ws) : ws.place[x].root = Overlay
    BY <1>1, <1>5 DEF Trees, Single, ToSet
  <2>2. ws.panes[1] \in OnScreen(ws)
    BY <1>1, FirstOnScreen
  <2>3. {ws.place[x].root : x \in OnScreen(ws)} = ToSet(ws.box)
    BY <2>1, <2>2
  <2> QED BY <1>2, <1>3, <2>1, <2>3
<1>6. CASE ws.mode = "strip"
  <2>1. /\ ToSet(ws.box) = Roots(ws) /\ \A x \in OnScreen(ws) : ws.place[x].root \in Roots(ws)
        /\ \A c \in DOMAIN ws.columns : InOrder(ws, c)
    BY <1>1, <1>6, SMTT(30) DEF Trees, Hung
  <2>2. \A c \in DOMAIN ws.columns :
           LET list == ws.columns[c].panes IN
           /\ \A i \in DOMAIN list : ws.place[list[i]].root = ws.columns[c].root
           /\ \A i, j \in DOMAIN list :
                 i < j => Before(ws.place[list[i]].path, ws.place[list[j]].path)
    BY <1>4, <2>1 DEF InOrder
  <2>3. ASSUME NEW c \in DOMAIN ws.columns
        PROVE  \E x \in OnScreen(ws) : ws.place[x].root = ws.columns[c].root
    <3>1. ws.columns[c] \in ColumnSet(Known)
      BY <1>1 DEF WsOK
    <3>2. 1 \in DOMAIN ws.columns[c].panes
      <4>1. ws.columns[c].panes \in Seq(Known) /\ ws.columns[c].focused \in 1 .. Len(ws.columns[c].panes)
        BY <3>1, ColumnFields
      <4> QED BY <4>1
    <3> QED BY <1>4, <2>2, <3>2
  <2>4. {ws.place[x].root : x \in OnScreen(ws)} = Roots(ws)
    BY <2>1, <2>3 DEF Roots
  <2> QED BY <1>2, <1>3, <2>1, <2>2, <2>4
<1> QED BY <1>1, <1>5, <1>6, SMTT(30) DEF WsOK

LEMMA LitFocused ==
  ASSUME Lit(ws)
  PROVE  ActiveIsFocused
BY DEF Lit, ActiveIsFocused

LEMMA VeiledZoom ==
  ASSUME Veiled(ws)
  PROVE  HiddenByZoom
BY DEF Veiled, HiddenByZoom

\* Only the two answers let go of the pane the dialog is about.
LEMMA AskedStep ==
  ASSUME IInv, Screen(ws), [Next]_vars, asked # NoPane, asked' = NoPane, ws.mode = "classic"
  PROVE  OnScreen(ws) \ OnScreen(ws)' \subseteq {asked}
<1>1. ConfirmClose \/ CancelClose
  <2>1. asked' # asked
    OBVIOUS
  <2>2. ~StepFocus /\ ~StepPane /\ ~(Zoom \/ HalfZoom) /\ ~CloseCurrentNow /\ ~RequestClose
    BY <2>1 DEF StepFocus, StepColumn, StepPane, Zoom, HalfZoom, CloseCurrentNow, RequestClose
  <2>3. /\ \A o : ~SplitCurrent(o) /\ ~SetLayout(o) /\ ~MoveFocus(o)
        /\ \A p, q : ~MoveTab(p, q) /\ ~DragTab(p, q)
    BY <2>1 DEF SplitCurrent, SetLayout, MoveFocus, MoveTab, DragTab
  <2>4. \A p : ~PaneStep(p)
    BY <2>1 DEF PaneStep, SplitPane, ClosePaneCommand, CloseTab, IdleClose, AddTab, MoveTabOut,
                SelectTab, FocusPane, PointAt, FocusEnter, Navigate
  <2>5. ~UNCHANGED vars
    BY <2>1 DEF vars
  <2> QED BY <2>2, <2>3, <2>4, <2>5 DEF Next
<1>2. CASE CancelClose
  BY <1>2 DEF CancelClose, OnScreen
<1>3. CASE ConfirmClose
  <2>1. ws' = ClosePane(ws, asked)
    BY <1>3 DEF ConfirmClose, Became
  <2>2. WsOK(ws, Known) /\ Trees(ws) /\ Overlay \notin Known
    BY KnownPanes DEF IInv, Screen, Overlay, NoPane
  <2>3. OnScreen(ws) \ OnScreen(ClosePane(ws, asked)) \subseteq {asked}
    BY <2>2, ClosePaneTrees
  <2> QED BY <2>1, <2>3 DEF OnScreen
<1> QED BY <1>1, <1>2, <1>3

-----------------------------------------------------------------------------
(* The theorems *)

\* The inductive invariant: the workspace is well formed over the panes created
\* so far; its paneds are whole trees, one per column in list order; and the
\* registry has what is on the screen, the primary pane first.
THEOREM Invariant == Spec => [](IInv /\ Screen(ws))
<1>1. Init => IInv /\ Screen(ws)
  BY InitOK, InitScreen
<1>2. IInv /\ Screen(ws) /\ [Next]_vars => (IInv /\ Screen(ws))'
  <2> SUFFICES ASSUME IInv, Screen(ws), [Next]_vars
               PROVE  IInv' /\ Screen(ws')
    BY DEF Screen, Trees, Agrees
  <2> QED BY NextInv, ScreenStep
<1> QED BY <1>1, <1>2, PTL DEF Spec

\* However many panes and tabs, the workspace keeps its type: every pane that
\* the registry, the columns, the box, the places, the dialog or the idles name
\* has been created.
THEOREM TypeCorrect == Spec => []TypeOK
<1>1. IInv => TypeOK
  BY IInvTypes
<1> QED BY <1>1, Invariant, PTL

\* The strip's handlers index strip_state->columns by focused_col and a
\* column's panes by focused_pane: both are always in range, no column is
\* left empty, and no column is maximized and half at once.
THEOREM IndicesInRange == Spec => []StripIndices
<1>1. IInv => StripIndices
  BY IInvIndices
<1> QED BY <1>1, Invariant, PTL

\* No splits, closes, moves and switches put a pane into two columns, or twice
\* into one: the first match that workspace_strip.c's lookups take is the only.
THEOREM ColumnsApart == Spec => []ColumnsDisjoint
<1>1. Screen(ws) => ColumnsDisjoint
  BY ScreenDisjoint
<1> QED BY <1>1, Invariant, PTL

\* Both together: whatever is inserted, removed and moved, a pane is found in one
\* place of the columns and every index that is kept names one.
THEOREM ColumnsAlwaysSound == Spec => []ColumnsSound
<1>1. ColumnsDisjoint /\ StripIndices => ColumnsSound
  BY DEF ColumnsSound
<1> QED BY <1>1, IndicesInRange, ColumnsApart, PTL

\* Splits, closes, chains and rebuilds leave no GtkPaned with one child and no
\* notebook above another.
THEOREM WholeTrees == Spec => []TreesWhole
<1>1. IInv /\ Screen(ws) => TreesWhole
  BY ScreenWhole
<1> QED BY <1>1, Invariant, PTL

\* As long as no destroyed notebook is named, pane_notebooks has the notebooks
\* on the screen, each once, and a column's list has its panes in their order.
THEOREM InStep == Spec => []ScreenAgrees
<1>1. IInv /\ Screen(ws) => ScreenAgrees
  BY ScreenInStep
<1> QED BY <1>1, Invariant, PTL

\* ws->notebook is pane_notebooks[0], whichever pane is closed and whatever
\* order the walk of a layout switch finds the notebooks in.
THEOREM PrimaryFirstAlways == Spec => []PrimaryIsFirst
<1>1. Screen(ws) => PrimaryIsFirst
  BY ScreenPrimary
<1> QED BY <1>1, Invariant, PTL

\* Without the socket's pane.split, which splits in the classic way on a strip
\* too, a column's list has all its panes and the highlighted pane is the one
\* that commands act on.
THEOREM Highlighted ==
  "pane.split" \notin Inputs => (Spec => [](ActiveIsFocused /\ (Running(ws) => ColumnsListScreen)))
<1> SUFFICES ASSUME "pane.split" \notin Inputs
             PROVE  Spec => [](ActiveIsFocused /\ (Running(ws) => ColumnsListScreen))
  OBVIOUS
<1> DEFINE Shown == AllListed(ws) /\ Lit(ws)
<1>1. Init => Shown
  BY InitScreen
<1>2. IInv /\ Screen(ws) /\ Shown /\ [Next]_vars => Shown'
  <2> SUFFICES ASSUME IInv, Screen(ws), AllListed(ws), Lit(ws), [Next]_vars
               PROVE  AllListed(ws') /\ Lit(ws')
    BY DEF AllListed, Lit
  <2> QED BY LitStep
<1>3. Screen(ws) /\ Shown => ActiveIsFocused /\ (Running(ws) => ColumnsListScreen)
  <2> SUFFICES ASSUME Screen(ws), AllListed(ws), Lit(ws)
               PROVE  ActiveIsFocused /\ (Running(ws) => ColumnsListScreen)
    OBVIOUS
  <2>1. ASSUME Running(ws), ws.mode = "strip"
        PROVE  Listed(ws) = OnScreen(ws)
    BY <2>1 DEF AllListed, Screen, Agrees, Running, Stale
  <2> QED BY <2>1, LitFocused DEF ColumnsListScreen
<1> HIDE DEF Shown
<1> QED BY <1>1, <1>2, <1>3, Invariant, PTL DEF Spec

\* In a workspace that stays classic a pane is hidden only by a zoom that is on,
\* and never are all of them.  (A switch of the layout while zoomed keeps
\* `hidden`, and leaves a workspace of one hidden pane if the other is closed.)
THEOREM HiddenOnlyByZoom == OneLayout => (Spec => []HiddenByZoom)
<1> SUFFICES ASSUME OneLayout
             PROVE  Spec => []HiddenByZoom
  OBVIOUS
<1> DEFINE V == Veiled(ws)
<1>1. Init => V
  BY InitScreen
<1>2. IInv /\ Screen(ws) /\ V /\ [Next]_vars => V'
  <2> SUFFICES ASSUME IInv, Screen(ws), Veiled(ws), [Next]_vars
               PROVE  Veiled(ws')
    BY DEF Veiled
  <2> QED BY VeiledStep
<1>3. V => HiddenByZoom
  BY VeiledZoom
<1> HIDE DEF V
<1> QED BY <1>1, <1>2, <1>3, Invariant, PTL DEF Spec

\* A confirmed close takes no other pane than the one the dialog was about, even
\* when panes were closed or the layout was switched while the dialog was open.
THEOREM AskedAlone == Spec => ConfirmClosesAsked
<1>1. IInv /\ Screen(ws) /\ [Next]_vars =>
        [asked # NoPane /\ asked' = NoPane /\ ws.mode = "classic"
           => OnScreen(ws) \ OnScreen(ws)' \subseteq {asked}]_vars
  BY AskedStep
<1> QED BY <1>1, Invariant, PTL DEF Spec, ConfirmClosesAsked

=============================================================================
