---------------------------- MODULE Tabs_proofs -----------------------------
(***************************************************************************)
(* What the handlers of workspace.c do to the layout of the tabs (a lemma  *)
(* for each function they call), and from them: no terminal is in two      *)
(* places, the rename flag and the flash follow their tabs, and as long as *)
(* tabs stay in their workspace every workspace keeps its terminals and a  *)
(* tab.                                                                    *)
(***************************************************************************)
EXTENDS Tabs, SequenceTheorems, TLAPS

-----------------------------------------------------------------------------
(* Lists without repetitions                                               *)

Distinct(s, S) == s \in Seq(S) /\ IsInjective(s)

LEMMA ListOK ==
  ASSUME NEW S, NEW s \in Seq(S)
  PROVE  /\ Len(s) \in Nat /\ DOMAIN s = 1 .. Len(s)
         /\ \A i \in 1 .. Len(s) : s[i] \in S
         /\ ToSet(s) \subseteq S
         /\ s = <<>> <=> ToSet(s) = {}
         /\ s = <<>> <=> Len(s) = 0
<1>1. /\ Len(s) \in Nat /\ DOMAIN s = 1 .. Len(s) /\ \A i \in 1 .. Len(s) : s[i] \in S
  OBVIOUS
<1>2. ToSet(s) \subseteq S
  BY <1>1 DEF ToSet
<1>3. s = <<>> <=> Len(s) = 0
  BY EmptySeq
<1>4. ToSet(s) = {} <=> Len(s) = 0
  <2>1. CASE Len(s) = 0
    BY <1>1, <2>1 DEF ToSet
  <2>2. CASE Len(s) # 0
    <3>1. 1 \in DOMAIN s
      BY <1>1, <2>2
    <3> QED BY <2>2, <3>1 DEF ToSet
  <2> QED BY <2>1, <2>2
<1> QED BY <1>1, <1>2, <1>3, <1>4

\* t is s with one more element, its i-th.
Skips(s, t, i) ==
    /\ Len(t) = Len(s) + 1
    /\ i \in 1 .. Len(t)
    /\ \A j \in 1 .. Len(s) : s[j] = IF j < i THEN t[j] ELSE t[j + 1]

LEMMA SkipsOK ==
  ASSUME NEW S, NEW s \in Seq(S), NEW t \in Seq(S), NEW i, Skips(s, t, i)
  PROVE  /\ ToSet(t) = ToSet(s) \cup {t[i]}
         /\ IsInjective(t) => IsInjective(s) /\ t[i] \notin ToSet(s)
         /\ IsInjective(s) /\ t[i] \notin ToSet(s) => IsInjective(t)
<1> DEFINE n == Len(s)
           up(j) == IF j < i THEN j ELSE j + 1
<1>1. /\ n \in Nat /\ DOMAIN s = 1 .. n /\ DOMAIN t = 1 .. n + 1 /\ i \in 1 .. n + 1
      /\ \A j \in 1 .. n : s[j] = IF j < i THEN t[j] ELSE t[j + 1]
  BY ListOK DEF Skips
<1> HIDE DEF n
<1>2. \A j \in 1 .. n : up(j) \in 1 .. n + 1 /\ up(j) # i /\ s[j] = t[up(j)]
  BY <1>1
<1>3. \A j, k \in 1 .. n : up(j) = up(k) => j = k
  BY <1>1
<1>4. \A k \in 1 .. n + 1 : k # i => \E j \in 1 .. n : up(j) = k
  <2> SUFFICES ASSUME NEW k \in 1 .. n + 1, k # i
               PROVE  \E j \in 1 .. n : up(j) = k
    OBVIOUS
  <2>1. CASE k < i
    <3>1. k \in 1 .. n /\ up(k) = k
      BY <1>1, <2>1
    <3> QED BY <3>1
  <2>2. CASE k > i
    <3>1. k - 1 \in 1 .. n /\ up(k - 1) = k
      BY <1>1, <2>2
    <3> QED BY <3>1
  <2> QED BY <1>1, <2>1, <2>2
<1> HIDE DEF up
<1>5. ToSet(t) = ToSet(s) \cup {t[i]}
  <2>1. \A x \in ToSet(t) : x = t[i] \/ x \in ToSet(s)
    <3> SUFFICES ASSUME NEW k \in 1 .. n + 1, k # i
                 PROVE  t[k] \in ToSet(s)
      BY <1>1 DEF ToSet
    <3>1. PICK j \in 1 .. n : up(j) = k
      BY <1>4
    <3> QED BY <1>1, <1>2, <3>1 DEF ToSet
  <2>2. \A x \in ToSet(s) : x \in ToSet(t)
    BY <1>1, <1>2 DEF ToSet
  <2>3. t[i] \in ToSet(t)
    BY <1>1 DEF ToSet
  <2> QED BY <2>1, <2>2, <2>3
<1>6. ASSUME IsInjective(t) PROVE IsInjective(s) /\ t[i] \notin ToSet(s)
  <2>1. IsInjective(s)
    BY <1>1, <1>2, <1>3, <1>6 DEF IsInjective
  <2>2. t[i] \notin ToSet(s)
    <3> SUFFICES ASSUME NEW j \in 1 .. n, s[j] = t[i]
                 PROVE  FALSE
      BY <1>1 DEF ToSet
    <3>1. up(j) \in DOMAIN t /\ i \in DOMAIN t /\ up(j) # i /\ t[up(j)] = t[i]
      BY <1>1, <1>2
    <3> QED BY <1>6, <3>1 DEF IsInjective
  <2> QED BY <2>1, <2>2
<1>7. ASSUME IsInjective(s), t[i] \notin ToSet(s) PROVE IsInjective(t)
  <2> SUFFICES ASSUME NEW a \in 1 .. n + 1, NEW b \in 1 .. n + 1, t[a] = t[b]
               PROVE  a = b
    BY <1>1 DEF IsInjective
  <2>1. CASE a = i /\ b = i
    BY <2>1
  <2>2. CASE a = i /\ b # i
    <3>1. PICK k \in 1 .. n : up(k) = b
      BY <1>4, <2>2
    <3> QED BY <1>1, <1>2, <1>7, <2>2, <3>1 DEF ToSet
  <2>3. CASE a # i /\ b = i
    <3>1. PICK j \in 1 .. n : up(j) = a
      BY <1>4, <2>3
    <3> QED BY <1>1, <1>2, <1>7, <2>3, <3>1 DEF ToSet
  <2>4. CASE a # i /\ b # i
    <3>1. PICK j \in 1 .. n : up(j) = a
      BY <1>4, <2>4
    <3>2. PICK k \in 1 .. n : up(k) = b
      BY <1>4, <2>4
    <3>3. s[j] = s[k]
      BY <1>2, <3>1, <3>2
    <3>4. j = k
      BY <1>1, <1>7, <3>3 DEF IsInjective
    <3> QED BY <3>1, <3>2, <3>4
  <2> QED BY <2>1, <2>2, <2>3, <2>4
<1> QED BY <1>5, <1>6, <1>7

LEMMA InsertAtOK ==
  ASSUME NEW S, NEW s \in Seq(S), NEW i \in 1 .. Len(s) + 1, NEW e \in S
  PROVE  InsertAt(s, i, e) \in Seq(S) /\ Skips(s, InsertAt(s, i, e), i)
                                      /\ InsertAt(s, i, e)[i] = e
<1> DEFINE a == SubSeq(s, 1, i - 1)
           b == SubSeq(s, i, Len(s))
           ae == a \o <<e>>
           t == ae \o b
<1>1. a \in Seq(S) /\ Len(a) = i - 1 /\ \A j \in 1 .. i - 1 : a[j] = s[j]
  BY SubSeqProperties
<1>2. /\ b \in Seq(S) /\ Len(b) = Len(s) - i + 1
      /\ \A j \in 1 .. Len(s) - i + 1 : b[j] = s[i + j - 1]
  BY SubSeqProperties
<1>3. t = InsertAt(s, i, e)
  BY DEF InsertAt
<1> HIDE DEF a, b
<1>4. <<e>> \in Seq(S) /\ Len(<<e>>) = 1 /\ <<e>>[1] = e
  OBVIOUS
<1>5. /\ ae \in Seq(S) /\ Len(ae) = i
      /\ \A j \in 1 .. i : ae[j] = IF j < i THEN s[j] ELSE e
  <2>1. /\ ae \in Seq(S) /\ Len(ae) = Len(a) + 1
        /\ \A j \in 1 .. Len(a) + 1 :
              ae[j] = IF j <= Len(a) THEN a[j] ELSE <<e>>[j - Len(a)]
    BY <1>1, <1>4, ConcatProperties
  <2> HIDE DEF ae
  <2> QED BY <2>1, <1>1, <1>4
<1> HIDE DEF ae
<1>6. /\ t \in Seq(S) /\ Len(t) = Len(ae) + Len(b)
      /\ \A j \in 1 .. Len(ae) + Len(b) : t[j] = IF j <= Len(ae) THEN ae[j] ELSE b[j - Len(ae)]
  BY <1>2, <1>5, ConcatProperties
<1> HIDE DEF t
<1>7. Len(s) \in Nat /\ Len(t) = Len(s) + 1 /\ i \in 1 .. Len(t) /\ t[i] = e
  BY <1>2, <1>5, <1>6
<1>8. ASSUME NEW j \in 1 .. Len(s)
      PROVE  s[j] = IF j < i THEN t[j] ELSE t[j + 1]
  <2>1. CASE j < i
    BY <1>2, <1>5, <1>6, <1>7, <2>1
  <2>2. CASE ~(j < i)
    <3>1. /\ ~(j + 1 <= Len(ae)) /\ j + 1 \in 1 .. Len(ae) + Len(b)
          /\ (j + 1) - Len(ae) \in 1 .. Len(s) - i + 1 /\ i + ((j + 1) - Len(ae)) - 1 = j
      BY <1>2, <1>5, <1>7, <2>2
    <3>2. t[j + 1] = b[(j + 1) - Len(ae)]
      BY <1>6, <3>1
    <3>3. b[(j + 1) - Len(ae)] = s[j]
      BY <1>2, <3>1
    <3> QED BY <2>2, <3>2, <3>3
  <2> QED BY <2>1, <2>2
<1> QED BY <1>3, <1>6, <1>7, <1>8 DEF Skips

LEMMA RemoveAtOK ==
  ASSUME NEW S, NEW s \in Seq(S), NEW i \in 1 .. Len(s)
  PROVE  RemoveAt(s, i) \in Seq(S) /\ Skips(RemoveAt(s, i), s, i)
<1> DEFINE l == SubSeq(s, 1, i - 1)
           r == SubSeq(s, i + 1, Len(s))
           c == l \o r
<1>1. l \in Seq(S) /\ Len(l) = i - 1 /\ \A j \in 1 .. i - 1 : l[j] = s[j]
  BY SubSeqProperties
<1>2. r \in Seq(S) /\ Len(r) = Len(s) - i /\ \A j \in 1 .. Len(s) - i : r[j] = s[i + j]
  BY SubSeqProperties
<1>3. c = RemoveAt(s, i)
  BY DEF RemoveAt
<1> HIDE DEF l, r
<1>4. /\ c \in Seq(S) /\ Len(c) = Len(l) + Len(r)
      /\ \A j \in 1 .. Len(l) + Len(r) : c[j] = IF j <= Len(l) THEN l[j] ELSE r[j - Len(l)]
  BY <1>1, <1>2, ConcatProperties
<1> HIDE DEF c
<1>5. Len(s) \in Nat /\ Len(s) = Len(c) + 1 /\ Len(c) = Len(s) - 1 /\ i \in 1 .. Len(s)
  BY <1>1, <1>2, <1>4
<1>6. ASSUME NEW j \in 1 .. Len(c)
      PROVE  c[j] = IF j < i THEN s[j] ELSE s[j + 1]
  <2>1. CASE j < i
    BY <1>1, <1>2, <1>4, <1>5, <2>1
  <2>2. CASE ~(j < i)
    <3>1. /\ ~(j <= Len(l)) /\ j \in 1 .. Len(l) + Len(r)
          /\ j - Len(l) \in 1 .. Len(s) - i /\ i + (j - Len(l)) = j + 1
      BY <1>1, <1>2, <1>5, <2>2
    <3>2. c[j] = r[j - Len(l)]
      BY <1>4, <3>1
    <3>3. r[j - Len(l)] = s[j + 1]
      BY <1>2, <3>1
    <3> QED BY <2>2, <3>2, <3>3
  <2> QED BY <2>1, <2>2
<1> QED BY <1>3, <1>4, <1>5, <1>6 DEF Skips

\* A new element of a list.
LEMMA InsertOK ==
  ASSUME NEW S, NEW s, Distinct(s, S), NEW i \in 1 .. Len(s) + 1, NEW e \in S, e \notin ToSet(s)
  PROVE  Distinct(InsertAt(s, i, e), S) /\ ToSet(InsertAt(s, i, e)) = ToSet(s) \cup {e}
<1> DEFINE t == InsertAt(s, i, e)
<1>1. t \in Seq(S) /\ Skips(s, t, i) /\ t[i] = e /\ s \in Seq(S) /\ IsInjective(s)
  BY InsertAtOK DEF Distinct
<1> HIDE DEF t
<1>2. ToSet(t) = ToSet(s) \cup {e} /\ IsInjective(t)
  BY <1>1, SkipsOK
<1> QED BY <1>1, <1>2 DEF t, Distinct

\* A list without one of its elements, or without another.
LEMMA WithoutOK ==
  ASSUME NEW S, NEW s, Distinct(s, S), NEW e
  PROVE  /\ Distinct(Without(s, e), S) /\ ToSet(Without(s, e)) = ToSet(s) \ {e}
         /\ e \in ToSet(s) => Len(s) = Len(Without(s, e)) + 1
<1>1. CASE e \in ToSet(s)
  <2> DEFINE i == Index(s, e)
             t == RemoveAt(s, i)
  <2>1. s \in Seq(S) /\ IsInjective(s) /\ DOMAIN s = 1 .. Len(s)
    BY ListOK DEF Distinct
  <2>2. i \in 1 .. Len(s) /\ s[i] = e
    <3>1. \E j \in DOMAIN s : s[j] = e
      BY <1>1 DEF ToSet
    <3> QED BY <2>1, <3>1 DEF Index
  <2>3. Without(s, e) = t
    BY <1>1 DEF Without
  <2> HIDE DEF i
  <2>4. t \in Seq(S) /\ Skips(t, s, i)
    BY <2>1, <2>2, RemoveAtOK
  <2>6. Len(s) = Len(t) + 1
    BY <2>4 DEF Skips
  <2> HIDE DEF t
  <2>5. ToSet(s) = ToSet(t) \cup {e} /\ IsInjective(t) /\ e \notin ToSet(t)
    BY <2>1, <2>2, <2>4, SkipsOK
  <2> QED BY <2>3, <2>4, <2>5, <2>6 DEF Distinct
<1>2. CASE e \notin ToSet(s)
  BY <1>2 DEF Without
<1> QED BY <1>1, <1>2

\* A list has one element or more.
LEMMA LenOK ==
  ASSUME NEW S, NEW s, Distinct(s, S)
  PROVE  /\ Len(s) > 1 => \A e \in ToSet(s) : ToSet(s) \ {e} # {}
         /\ \A a, b \in ToSet(s) : a # b => Len(s) > 1
         /\ s # <<>> => s[1] \in ToSet(s)
<1>1. /\ s \in Seq(S) /\ IsInjective(s) /\ Len(s) \in Nat /\ DOMAIN s = 1 .. Len(s)
      /\ s = <<>> <=> Len(s) = 0
  BY ListOK DEF Distinct
<1>2. ASSUME Len(s) > 1, NEW e \in ToSet(s)
      PROVE  ToSet(s) \ {e} # {}
  <2>1. 1 \in DOMAIN s /\ 2 \in DOMAIN s
    BY <1>1, <1>2
  <2>2. s[1] # s[2]
    BY <1>1, <2>1 DEF IsInjective
  <2> QED BY <2>1, <2>2 DEF ToSet
<1>3. ASSUME NEW a \in ToSet(s), NEW b \in ToSet(s), a # b
      PROVE  Len(s) > 1
  <2>1. PICK i \in 1 .. Len(s), j \in 1 .. Len(s) : s[i] = a /\ s[j] = b
    BY <1>1 DEF ToSet
  <2> QED BY <1>1, <1>3, <2>1
<1>4. ASSUME s # <<>> PROVE s[1] \in ToSet(s)
  <2>1. 1 \in DOMAIN s
    BY <1>1, <1>4
  <2> QED BY <2>1 DEF ToSet
<1> QED BY <1>2, <1>3, <1>4

-----------------------------------------------------------------------------
(* Layouts                                                                 *)

Layouts == [panes : [Ws -> Seq(Panes)], hung : SUBSET Panes, pages : [Panes -> Seq(Tabs)],
            cur : [Panes -> Tabs \cup {None}], own : [Ws -> SUBSET Tabs]]

List(x, w) == ToSet(x.panes[w])
Page(x, p) == ToSet(x.pages[p])
On(x) == {t \in Tabs : \E p \in Panes : t \in Page(x, p)}

\* A notebook shows one of its pages, if it has any.
Shows(x, p) == IF x.pages[p] = <<>> THEN x.cur[p] = None ELSE x.cur[p] \in Page(x, p)

\* No tab is in two notebooks.
Leaves(x) ==
    /\ \A p \in Panes : Distinct(x.pages[p], Tabs) /\ Shows(x, p)
    /\ \A p, q \in Panes : p # q => Page(x, p) \cap Page(x, q) = {}

\* No pane is in two workspaces, no terminal has two.
Lists(x) ==
    /\ \A w \in Ws : x.panes[w] # <<>> /\ Distinct(x.panes[w], Panes)
    /\ \A w, v \in Ws : w # v => List(x, w) \cap List(x, v) = {} /\ x.own[w] \cap x.own[v] = {}
    /\ \A p \in x.hung : \E w \in Ws : p \in List(x, w)

Fits(x) ==
    /\ x \in Layouts /\ Leaves(x) /\ Lists(x)
    /\ \A p \in Panes \ x.hung : x.pages[p] = <<>>

\* The page that comes up is one of those that are left.
LEMMA NextUpOK ==
  ASSUME NEW s, Distinct(s, Tabs), NEW t \in ToSet(s)
  PROVE  IF Without(s, t) = <<>> THEN NextUp(s, t) = None
                                 ELSE NextUp(s, t) \in ToSet(Without(s, t))
<1> DEFINE r == Without(s, t)
           i == Index(s, t)
<1>1. s \in Seq(Tabs) /\ DOMAIN s = 1 .. Len(s)
  BY ListOK DEF Distinct
<1>2. i \in 1 .. Len(s)
  <2>1. \E j \in DOMAIN s : s[j] = t
    BY DEF ToSet
  <2> QED BY <1>1, <2>1 DEF Index
<1>3. r \in Seq(Tabs) /\ Len(r) \in Nat /\ DOMAIN r = 1 .. Len(r) /\ (r = <<>> <=> Len(r) = 0)
  <2>1. r \in Seq(Tabs)
    BY WithoutOK DEF Distinct
  <2> QED BY <2>1, ListOK
<1>4. NextUp(s, t) = IF r = <<>> THEN None ELSE IF i <= Len(r) THEN r[i] ELSE r[Len(r)]
  BY DEF NextUp
<1> HIDE DEF r, i
<1>5. ASSUME r # <<>> PROVE NextUp(s, t) \in ToSet(r)
  <2>1. CASE i <= Len(r)
    <3>1. i \in DOMAIN r /\ NextUp(s, t) = r[i]
      BY <1>1, <1>2, <1>3, <1>4, <1>5, <2>1
    <3> QED BY <3>1 DEF ToSet
  <2>2. CASE ~(i <= Len(r))
    <3>1. Len(r) \in DOMAIN r /\ NextUp(s, t) = r[Len(r)]
      BY <1>3, <1>4, <1>5, <2>2
    <3> QED BY <3>1 DEF ToSet
  <2> QED BY <2>1, <2>2
<1> QED BY <1>4, <1>5 DEF r

\* y is x but for what notebook p has.
Elsewhere(x, y, p) ==
    /\ y \in Layouts /\ Leaves(y)
    /\ y.panes = x.panes /\ y.hung = x.hung /\ y.own = x.own
    /\ \A q \in Panes \ {p} : y.pages[q] = x.pages[q]

LEMMA ListIn ==
  ASSUME NEW x, Fits(x)
  PROVE  x.hung \subseteq Panes /\ \A w \in Ws : List(x, w) \subseteq Panes
<1>1. x.hung \subseteq Panes
  BY DEF Fits, Layouts
<1>2. \A w \in Ws : Distinct(x.panes[w], Panes)
  BY DEF Fits, Lists
<1>3. \A w \in Ws : List(x, w) \subseteq Panes
  BY <1>2, ListOK DEF Distinct, List
<1> QED BY <1>1, <1>3

\* Notebook p has s and shows c.
Put(x, p, s, c) == [x EXCEPT !.pages[p] = s, !.cur[p] = c]

LEMMA PutOK ==
  ASSUME NEW x \in Layouts, Leaves(x), NEW p \in Panes, NEW s, Distinct(s, Tabs), NEW c,
         IF s = <<>> THEN c = None ELSE c \in ToSet(s),
         \A q \in Panes \ {p} : Page(x, q) \cap ToSet(s) = {}
  PROVE  /\ Elsewhere(x, Put(x, p, s, c), p)
         /\ Put(x, p, s, c).pages[p] = s /\ Page(Put(x, p, s, c), p) = ToSet(s)
<1> DEFINE y == Put(x, p, s, c)
<1>1. s \in Seq(Tabs) /\ c \in Tabs \cup {None}
  BY ListOK DEF Distinct
<1>2. /\ y \in Layouts
      /\ y.panes = x.panes /\ y.hung = x.hung /\ y.own = x.own
      /\ y.pages = [x.pages EXCEPT ![p] = s] /\ y.cur = [x.cur EXCEPT ![p] = c]
  BY <1>1 DEF Layouts, Put
<1> HIDE DEF y
<1>3. /\ y.pages[p] = s /\ y.cur[p] = c
      /\ \A q \in Panes \ {p} : y.pages[q] = x.pages[q] /\ y.cur[q] = x.cur[q]
  BY <1>2 DEF Layouts
<1>4. Page(y, p) = ToSet(s) /\ \A q \in Panes \ {p} : Page(y, q) = Page(x, q)
  BY <1>3 DEF Page
<1>5. Leaves(y)
  <2>1. ASSUME NEW q \in Panes PROVE Distinct(y.pages[q], Tabs) /\ Shows(y, q)
    <3>1. CASE q = p
      BY <1>3, <1>4, <3>1 DEF Shows
    <3>2. CASE q # p
      BY <1>3, <1>4, <3>2 DEF Shows, Leaves
    <3> QED BY <3>1, <3>2
  <2>2. ASSUME NEW q \in Panes, NEW r \in Panes, q # r
        PROVE  Page(y, q) \cap Page(y, r) = {}
    BY <1>4, <2>2 DEF Leaves
  <2> QED BY <2>1, <2>2 DEF Leaves
<1> QED BY <1>2, <1>3, <1>4, <1>5 DEF Elsewhere, y

LEMMA RemovedOK ==
  ASSUME NEW x \in Layouts, Leaves(x), NEW p \in Panes, NEW t \in Tabs
  PROVE  /\ Elsewhere(x, Removed(x, p, t), p)
         /\ Page(Removed(x, p, t), p) = Page(x, p) \ {t}
<1> DEFINE s == Without(x.pages[p], t)
           c == IF x.cur[p] = t THEN NextUp(x.pages[p], t) ELSE x.cur[p]
<1>1. Removed(x, p, t) = Put(x, p, s, c)
  BY DEF Removed, Put, Layouts
<1>2. Distinct(x.pages[p], Tabs) /\ Shows(x, p) /\ None \notin Tabs
  BY WidgetsAssumption DEF Leaves
<1>3. Distinct(s, Tabs) /\ ToSet(s) = Page(x, p) \ {t}
  BY <1>2, WithoutOK DEF Page
<1>4. x.pages[p] = <<>> <=> Page(x, p) = {}
  BY <1>2, ListOK DEF Page, Distinct
<1>5. s = <<>> <=> ToSet(s) = {}
  BY <1>3, ListOK DEF Distinct
<1>6. IF s = <<>> THEN c = None ELSE c \in ToSet(s)
  <2>1. CASE x.cur[p] = t
    <3>1. t \in ToSet(x.pages[p])
      BY <1>2, <2>1 DEF Shows, Page
    <3> QED BY <1>2, <2>1, <3>1, NextUpOK
  <2>2. CASE x.cur[p] # t
    <3>1. c = x.cur[p]
      BY <2>2
    <3> HIDE DEF s, c
    <3> QED BY <1>2, <1>3, <1>4, <1>5, <2>2, <3>1 DEF Shows
  <2> QED BY <2>1, <2>2
<1> HIDE DEF s, c
<1>7. \A q \in Panes \ {p} : Page(x, q) \cap ToSet(s) = {}
  BY <1>3 DEF Leaves
<1> QED BY <1>1, <1>3, <1>6, <1>7, PutOK

LEMMA AddedOK ==
  ASSUME NEW x \in Layouts, Leaves(x), NEW p \in Panes,
         NEW i \in 1 .. Len(x.pages[p]) + 1, NEW t \in Tabs, t \notin On(x)
  PROVE  /\ Elsewhere(x, Added(x, p, i, t), p)
         /\ Page(Added(x, p, i, t), p) = Page(x, p) \cup {t}
<1> DEFINE s == InsertAt(x.pages[p], i, t)
<1>1. Added(x, p, i, t) = Put(x, p, s, t)
  BY DEF Added, Put, Layouts
<1>2. Distinct(x.pages[p], Tabs) /\ t \notin ToSet(x.pages[p])
  BY DEF Leaves, On, Page
<1>3. Distinct(s, Tabs) /\ ToSet(s) = Page(x, p) \cup {t}
  BY <1>2, InsertOK DEF Page
<1> HIDE DEF s
<1>4. s # <<>> /\ t \in ToSet(s)
  BY <1>3, ListOK DEF Distinct
<1>5. \A q \in Panes \ {p} : Page(x, q) \cap ToSet(s) = {}
  BY <1>3 DEF Leaves, On
<1> QED BY <1>1, <1>3, <1>4, <1>5, PutOK

LEMMA AppendedOK ==
  ASSUME NEW x \in Layouts, Leaves(x), NEW p \in Panes, NEW t \in Tabs, t \notin On(x)
  PROVE  /\ Elsewhere(x, Appended(x, p, t), p)
         /\ Page(Appended(x, p, t), p) = Page(x, p) \cup {t}
<1>1. x.pages[p] \in Seq(Tabs)
  BY DEF Leaves, Distinct
<1>2. Len(x.pages[p]) + 1 \in 1 .. Len(x.pages[p]) + 1
  BY <1>1, ListOK
<1> QED BY <1>2, AddedOK DEF Appended

\* The rest of the layout stays.
LEMMA ElsewhereFits ==
  ASSUME NEW x, Fits(x), NEW y, NEW p \in x.hung, Elsewhere(x, y, p)
  PROVE  Fits(y) /\ \A w \in Ws : List(y, w) = List(x, w)
<1>1. Lists(y) /\ \A w \in Ws : List(y, w) = List(x, w)
  BY DEF Fits, Elsewhere, Lists, List
<1>2. p \in Panes
  BY DEF Fits, Layouts
<1>3. \A q \in Panes \ y.hung : y.pages[q] = <<>>
  BY <1>2 DEF Fits, Elsewhere
<1> QED BY <1>1, <1>3 DEF Fits, Elsewhere

\* The terminals of one workspace change.
PutOwn(x, w, S) == [x EXCEPT !.own[w] = S]

LEMMA PutOwnOK ==
  ASSUME NEW x, Fits(x), NEW w \in Ws, NEW S \in SUBSET Tabs,
         \A v \in Ws \ {w} : S \cap x.own[v] = {}, NEW y, y = PutOwn(x, w, S)
  PROVE  /\ Fits(y) /\ y.panes = x.panes /\ y.hung = x.hung /\ y.pages = x.pages
         /\ y.own[w] = S /\ \A v \in Ws \ {w} : y.own[v] = x.own[v]
<1>1. /\ y \in Layouts /\ y.panes = x.panes /\ y.hung = x.hung /\ y.pages = x.pages
      /\ y.cur = x.cur /\ y.own = [x.own EXCEPT ![w] = S]
  BY DEF Fits, Layouts, PutOwn
<1>2. y.own[w] = S /\ \A v \in Ws \ {w} : y.own[v] = x.own[v]
  BY <1>1 DEF Fits, Layouts
<1>3. Leaves(y) /\ \A p \in Panes \ y.hung : y.pages[p] = <<>>
  BY <1>1 DEF Fits, Leaves, Page, Shows
<1>4. Lists(y)
  <2>1. ASSUME NEW v \in Ws, NEW u \in Ws, v # u PROVE y.own[v] \cap y.own[u] = {}
    BY <1>2, <2>1 DEF Fits, Lists
  <2>2. \A v \in Ws : List(y, v) = List(x, v) /\ y.panes[v] = x.panes[v]
    BY <1>1 DEF List
  <2> QED BY <1>1, <2>1, <2>2 DEF Fits, Lists
<1> QED BY <1>1, <1>2, <1>3, <1>4 DEF Fits

\* y is x without pane p of workspace w.
Closes(x, y, w, p) ==
    /\ Fits(y) /\ y.hung = x.hung \ {p}
    /\ Page(y, p) = {} /\ \A q \in Panes \ {p} : y.pages[q] = x.pages[q]
    /\ \A v \in Ws : List(y, v) = IF v = w THEN List(x, v) \ {p} ELSE List(x, v)
    /\ \A v \in Ws : y.own[v] = IF v = w THEN x.own[v] \ Page(x, p) ELSE x.own[v]

LEMMA ClosesOK ==
  ASSUME NEW x, Fits(x), NEW w \in Ws, NEW p \in Panes, Len(x.panes[w]) > 1, InPaned(x, p)
  PROVE  Closes(x, ClosedPane(x, w, p), w, p)
<1> DEFINE s == Without(x.panes[w], p)
           y == ClosedPane(x, w, p)
<1>1. y = [x EXCEPT !.own[w] = x.own[w] \ Page(x, p), !.panes[w] = s, !.hung = x.hung \ {p},
                    !.pages[p] = <<>>, !.cur[p] = None]
  BY DEF ClosedPane, Page
<1>2. Distinct(x.panes[w], Panes) /\ x \in Layouts
  BY DEF Fits, Lists
<1>3. Distinct(s, Panes) /\ ToSet(s) = List(x, w) \ {p}
  BY <1>2, WithoutOK DEF List
<1>4. s # <<>>
  <2>1. ToSet(s) # {}
    <3>1. CASE p \in List(x, w)
      BY <1>2, <1>3, <3>1, LenOK DEF List
    <3>2. CASE p \notin List(x, w)
      <4>1. x.panes[w] # <<>>
        BY DEF Fits, Lists
      <4>2. x.panes[w][1] \in List(x, w)
        BY <1>2, <4>1, LenOK DEF List
      <4> QED BY <1>3, <3>2, <4>2
    <3> QED BY <3>1, <3>2
  <2> QED BY <1>3, <2>1, ListOK DEF Distinct
<1> HIDE DEF s
<1>5. /\ s \in Seq(Panes) /\ <<>> \in Seq(Tabs) /\ x.own[w] \ Page(x, p) \in SUBSET Tabs
      /\ x.hung \ {p} \in SUBSET Panes
  BY <1>2, <1>3 DEF Distinct, Layouts
<1> HIDE DEF y
<1>6. /\ y \in Layouts
      /\ y.own = [x.own EXCEPT ![w] = x.own[w] \ Page(x, p)]
      /\ y.panes = [x.panes EXCEPT ![w] = s] /\ y.hung = x.hung \ {p}
      /\ y.pages = [x.pages EXCEPT ![p] = <<>>] /\ y.cur = [x.cur EXCEPT ![p] = None]
  BY <1>1, <1>2, <1>5 DEF Layouts
<1>7. /\ \A v \in Ws : y.panes[v] = IF v = w THEN s ELSE x.panes[v]
      /\ \A v \in Ws : y.own[v] = IF v = w THEN x.own[v] \ Page(x, p) ELSE x.own[v]
  <2>1. \A v \in Ws : y.panes[v] = IF v = w THEN s ELSE x.panes[v]
    BY <1>2, <1>6 DEF Layouts
  <2>2. \A v \in Ws : y.own[v] = IF v = w THEN x.own[v] \ Page(x, p) ELSE x.own[v]
    BY <1>2, <1>6 DEF Layouts
  <2> QED BY <2>1, <2>2
<1>8. y.pages[p] = <<>> /\ y.cur[p] = None
  BY <1>2, <1>6 DEF Layouts
<1>9. \A q \in Panes \ {p} : y.pages[q] = x.pages[q] /\ y.cur[q] = x.cur[q]
  BY <1>2, <1>6 DEF Layouts
<1>10. \A v \in Ws : List(y, v) = IF v = w THEN List(x, v) \ {p} ELSE List(x, v)
  BY <1>3, <1>7 DEF List
<1>11. ToSet(<<>>) = {} /\ Distinct(<<>>, Tabs)
  <2>1. <<>> \in Seq(Tabs) /\ IsInjective(<<>>)
    BY DEF IsInjective
  <2> QED BY <2>1, ListOK DEF Distinct
<1>12. Page(y, p) = {} /\ \A q \in Panes \ {p} : Page(y, q) = Page(x, q)
  BY <1>8, <1>9, <1>11 DEF Page
<1>13. Leaves(y)
  <2>1. ASSUME NEW q \in Panes PROVE Distinct(y.pages[q], Tabs) /\ Shows(y, q)
    <3>1. CASE q = p
      BY <1>8, <1>11, <3>1 DEF Shows
    <3>2. CASE q # p
      BY <1>9, <1>12, <3>2 DEF Shows, Leaves, Fits
    <3> QED BY <3>1, <3>2
  <2>2. ASSUME NEW q \in Panes, NEW r \in Panes, q # r
        PROVE  Page(y, q) \cap Page(y, r) = {}
    BY <1>12, <2>2 DEF Leaves, Fits
  <2> QED BY <2>1, <2>2 DEF Leaves
<1>14. Lists(y)
  <2>1. \A v \in Ws : y.panes[v] # <<>> /\ Distinct(y.panes[v], Panes)
    BY <1>3, <1>4, <1>7 DEF Fits, Lists
  <2>2. ASSUME NEW v \in Ws, NEW u \in Ws, v # u
        PROVE  List(y, v) \cap List(y, u) = {} /\ y.own[v] \cap y.own[u] = {}
    <3>1. List(y, v) \subseteq List(x, v) /\ List(y, u) \subseteq List(x, u)
      BY <1>10
    <3>2. y.own[v] \subseteq x.own[v] /\ y.own[u] \subseteq x.own[u]
      BY <1>7
    <3>3. List(x, v) \cap List(x, u) = {} /\ x.own[v] \cap x.own[u] = {}
      BY <2>2 DEF Fits, Lists
    <3> QED BY <3>1, <3>2, <3>3
  <2>3. \A q \in y.hung : \E v \in Ws : q \in List(y, v)
    BY <1>6, <1>10 DEF Fits, Lists
  <2> QED BY <2>1, <2>2, <2>3 DEF Lists
<1>15. \A q \in Panes \ y.hung : y.pages[q] = <<>>
  BY <1>6, <1>8, <1>9 DEF Fits
<1> QED BY <1>6, <1>7, <1>9, <1>10, <1>12, <1>13, <1>14, <1>15 DEF Closes, Fits, y

\* workspace_close_pane closes the pane or does nothing.
LEMMA ClosedPaneOK ==
  ASSUME NEW x, Fits(x), NEW w \in Ws, NEW p \in Panes
  PROVE  ClosedPane(x, w, p) = x \/ Closes(x, ClosedPane(x, w, p), w, p)
<1>1. CASE Len(x.panes[w]) > 1 /\ InPaned(x, p)
  BY <1>1, ClosesOK
<1>2. CASE ~(Len(x.panes[w]) > 1 /\ InPaned(x, p))
  BY <1>2 DEF ClosedPane
<1> QED BY <1>1, <1>2

\* A pane beside another one is closed.
LEMMA ClosesBeside ==
  ASSUME NEW x, Fits(x), NEW w \in Ws, NEW p, NEW q, p # q,
         {p, q} \subseteq List(x, w) \cap x.hung
  PROVE  Closes(x, ClosedPane(x, w, p), w, p)
<1>1. Distinct(x.panes[w], Panes) /\ p \in Panes
  BY DEF Fits, Lists, Layouts
<1>2. Len(x.panes[w]) > 1
  BY <1>1, LenOK DEF List
<1>3. InPaned(x, p)
  BY DEF InPaned, List
<1> QED BY <1>1, <1>2, <1>3, ClosesOK

-----------------------------------------------------------------------------
(* What a layout keeps as long as tabs stay in their workspace             *)

\* The panes of a workspace hang, its terminals are those of its tabs.
Kept(x) ==
    \A w \in Ws : /\ List(x, w) \subseteq x.hung
                  /\ \A t \in Tabs : t \in x.own[w] <=> \E p \in List(x, w) : t \in Page(x, p)

\* Every workspace has a tab, and a pane that has none will be closed.
Full(x, queued) ==
    /\ \A w \in Ws : \E p \in List(x, w) : Page(x, p) # {}
    /\ \A p \in x.hung : Page(x, p) = {} => p \in queued

LEMMA ClosedKept ==
  ASSUME NEW x, Fits(x), NEW w \in Ws, NEW p \in List(x, w), NEW y, Closes(x, y, w, p), Kept(x)
  PROVE  Kept(y)
<1> SUFFICES ASSUME NEW v \in Ws
             PROVE  /\ List(y, v) \subseteq y.hung
                    /\ \A t \in Tabs : t \in y.own[v] <=> \E q \in List(y, v) : t \in Page(y, q)
  BY DEF Kept
<1>1. \A u \in Ws : List(x, u) \subseteq Panes
  BY ListIn
<1>2. \A q \in Panes \ {p} : Page(y, q) = Page(x, q)
  BY DEF Closes, Page
<1>3. List(y, v) = List(x, v) \ {p}
  BY DEF Closes, Fits, Lists
<1>4. List(x, v) \subseteq x.hung /\ List(y, v) \subseteq y.hung
  BY <1>3 DEF Closes, Kept
<1>5. ASSUME NEW t \in Tabs
      PROVE  t \in y.own[v] <=> \E q \in List(y, v) : t \in Page(y, q)
  <2>1. t \in x.own[v] <=> \E q \in List(x, v) : t \in Page(x, q)
    BY DEF Kept
  <2>2. t \in y.own[v] <=> t \in x.own[v] /\ ~(v = w /\ t \in Page(x, p))
    BY DEF Closes
  <2>3. CASE v = w
    <3>1. p \in Panes /\ \A q \in Panes \ {p} : ~(t \in Page(x, p) /\ t \in Page(x, q))
      BY <1>1 DEF Fits, Leaves
    <3> QED BY <1>1, <1>2, <1>3, <2>1, <2>2, <2>3, <3>1
  <2>4. CASE v # w
    <3>1. p \notin List(x, v)
      BY <2>4 DEF Fits, Lists
    <3> QED BY <1>1, <1>2, <1>3, <2>1, <2>2, <2>4, <3>1
  <2> QED BY <2>3, <2>4
<1> QED BY <1>4, <1>5

LEMMA ClosedFull ==
  ASSUME NEW x, Fits(x), NEW w \in Ws, NEW p \in List(x, w), NEW y, Closes(x, y, w, p),
         NEW q \in List(x, w) \ {p}, Page(x, q) # {},
         \A v \in Ws \ {w} : \E r \in List(x, v) : Page(x, r) # {},
         NEW queued, \A r \in x.hung \ {p} : Page(x, r) = {} => r \in queued
  PROVE  Full(y, queued)
<1>1. \A u \in Ws : List(x, u) \subseteq Panes
  BY ListIn
<1>2. x.hung \subseteq Panes /\ \A r \in Panes \ {p} : Page(y, r) = Page(x, r)
  BY DEF Closes, Page, Fits, Layouts
<1>3. ASSUME NEW v \in Ws PROVE \E r \in List(y, v) : Page(y, r) # {}
  <2>1. CASE v = w
    <3>1. q \in List(y, v) /\ Page(y, q) # {}
      BY <1>1, <1>2, <2>1 DEF Closes
    <3> QED BY <3>1
  <2>2. CASE v # w
    <3>1. PICK r \in List(x, v) : Page(x, r) # {}
      BY <2>2
    <3>2. r # p
      BY <2>2 DEF Fits, Lists
    <3>3. r \in List(y, v) /\ Page(y, r) # {}
      BY <1>1, <1>2, <2>2, <3>1, <3>2 DEF Closes
    <3> QED BY <3>3
  <2> QED BY <2>1, <2>2
<1>4. \A r \in y.hung : Page(y, r) = {} => r \in queued
  BY <1>2 DEF Closes
<1> QED BY <1>3, <1>4 DEF Full

-----------------------------------------------------------------------------
(* The state as a layout                                                   *)

LEMMA OpenOK ==
  ASSUME NEW x, Fits(x)
  PROVE  /\ x.hung \cap UNION {ToSet(x.panes[w]) : w \in Ws} = x.hung
         /\ UNION {ToSet(x.pages[p]) : p \in x.hung} = On(x)
         /\ x = [panes |-> x.panes, hung |-> x.hung, pages |-> x.pages, cur |-> x.cur, own |-> x.own]
<1> DEFINE listed == UNION {ToSet(x.panes[w]) : w \in Ws}
<1>1. x.hung \cap listed = x.hung
  <2>1. \A p \in x.hung : \E w \in Ws : p \in ToSet(x.panes[w])
    BY DEF Fits, Lists, List
  <2>2. ASSUME NEW p \in x.hung PROVE p \in listed
    BY <2>1
  <2> HIDE DEF listed
  <2> QED BY <2>2
<1>2. \A p \in Panes : Page(x, p) \subseteq Tabs /\ (p \notin x.hung => Page(x, p) = {})
  BY ListOK DEF Fits, Leaves, Distinct, Page
<1>3. x.hung \subseteq Panes
  BY DEF Fits, Layouts
<1>4. UNION {ToSet(x.pages[p]) : p \in x.hung} = On(x)
  BY <1>2, <1>3 DEF On, Page
<1>5. x = [panes |-> x.panes, hung |-> x.hung, pages |-> x.pages, cur |-> x.cur, own |-> x.own]
  BY DEF Fits, Layouts
<1> QED BY <1>1, <1>4, <1>5 DEF listed

LEMMA NowOK ==
  /\ Now.panes = panes /\ Now.hung = hung /\ Now.pages = pages
  /\ Now.cur = cur /\ Now.own = own
  /\ \A w : List(Now, w) = Listed(w)
BY DEF Now, List, Listed

\* Every pane that hangs has its workspace, every tab that shows its pane.
LEMMA PlacesOK ==
  ASSUME Fits(Now)
  PROVE  /\ Open = hung /\ OnPage = On(Now) /\ hung \subseteq Panes
         /\ \A p \in hung : Home(p) \in Ws /\ p \in List(Now, Home(p))
         /\ \A p \in hung, w \in Ws : p \in List(Now, w) => Home(p) = w
         /\ \A p \in hung : Page(Now, p) \subseteq OnPage
         /\ \A t \in OnPage : t \in Tabs /\ Pane(t) \in hung /\ t \in Page(Now, Pane(t))
         /\ \A p \in hung : \A t \in Page(Now, p) : Pane(t) = p
<1>1. Open = hung /\ OnPage = On(Now)
  BY OpenOK, NowOK DEF Open, OnPage, Listed
<1>2. hung \subseteq Panes
  BY NowOK DEF Fits, Layouts
<1>3. ASSUME NEW p \in hung PROVE Home(p) \in Ws /\ p \in List(Now, Home(p))
  <2>1. \E w \in Ws : p \in Listed(w)
    BY NowOK DEF Fits, Lists
  <2> QED BY <2>1, NowOK DEF Home
<1>4. ASSUME NEW p \in hung, NEW w \in Ws, p \in List(Now, w) PROVE Home(p) = w
  BY <1>3, <1>4 DEF Fits, Lists
<1>5. ASSUME NEW t \in OnPage PROVE t \in Tabs /\ Pane(t) \in hung /\ t \in Page(Now, Pane(t))
  <2>1. \E p \in Open : t \in ToSet(pages[p])
    BY DEF OnPage
  <2>2. Pane(t) \in Open /\ t \in ToSet(pages[Pane(t)])
    BY <2>1 DEF Pane
  <2>3. t \in Tabs
    BY <1>1 DEF On
  <2> QED BY <1>1, <2>2, <2>3, NowOK DEF Page
<1>6. ASSUME NEW p \in hung PROVE Page(Now, p) \subseteq OnPage
  BY <1>1, NowOK DEF OnPage, Page
<1>7. ASSUME NEW p \in hung, NEW t \in Page(Now, p) PROVE Pane(t) = p
  BY <1>2, <1>5, <1>6 DEF Fits, Leaves
<1> QED BY <1>1, <1>2, <1>3, <1>4, <1>5, <1>6, <1>7

\* What x has it has from the layout there was, or it is new.
From(x) ==
    /\ \A w \in Ws : x.own[w] \subseteq own[w] \cup FreshTabs
    /\ \A w \in Ws : List(x, w) \subseteq Listed(w) \cup FreshPanes
    /\ On(x) \subseteq OnPage \cup FreshTabs

-----------------------------------------------------------------------------
(* The invariant                                                           *)

Typed ==
    /\ Fits(Now) /\ current \in Ws
    /\ editing \in OnPage \cup {None} /\ flagged \subseteq Panes
    /\ flash \subseteq Owned /\ ticking \in BOOLEAN
    /\ idles \subseteq Panes /\ past \subseteq Events

\* A dialog names the workspace its tab or its pane is in, if in any.
Asks ==
    \/ asking = NoDialog
    \/ \E w \in Ws, t \in Tabs :
          /\ asking = [kind |-> "tab", ws |-> w, tab |-> t]
          /\ \A v \in Ws : t \in own[v] => v = w
    \/ \E w \in Ws, p \in Panes, n \in Nat :
          /\ asking = [kind |-> "page", ws |-> w, pane |-> p, page |-> n]
          /\ \A v \in Ws : p \in Listed(v) => v = w

Remembered ==
    /\ "crossed" \notin past => Kept(Now)
    /\ past \cap {"crossed", "hasty"} = {} => Full(Now, idles)

IInv == Typed /\ Asks /\ FlashTicks /\ FlagFits /\ Remembered

LEMMA FreshOK ==
  /\ FreshTabs \subseteq Tabs /\ FreshTabs \cap Owned = {} /\ FreshTabs \cap OnPage = {}
  /\ FreshPanes \subseteq Panes /\ \A w \in Ws : Listed(w) \cap FreshPanes = {}
  /\ asking.kind = "tab" => asking.tab \notin FreshTabs
  /\ asking.kind = "page" => asking.pane \notin FreshPanes
<1>1. FreshTabs \subseteq Tabs /\ FreshTabs \cap Owned = {} /\ FreshTabs \cap OnPage = {}
  BY DEF FreshTabs
<1>2. FreshPanes \subseteq Panes /\ \A w \in Ws : Listed(w) \cap FreshPanes = {}
  BY DEF FreshPanes
<1>3. asking.kind = "tab" => asking.tab \notin FreshTabs
  BY DEF FreshTabs
<1>4. ASSUME asking.kind = "page" PROVE asking.pane \notin FreshPanes
  <2> DEFINE held == idles \cup (UNION {Listed(w) : w \in Ws})
  <2>1. FreshPanes = Panes \ (held \cup {asking.pane})
    BY <1>4 DEF FreshPanes
  <2> HIDE DEF held
  <2> QED BY <2>1
<1> QED BY <1>1, <1>2, <1>3, <1>4

\* The layout there was.
LEMMA FromNow ==
  ASSUME Fits(Now)
  PROVE  From(Now)
BY NowOK, PlacesOK DEF From

\* A dialog stays right, whatever happens to the layout.
LEMMA AsksOn ==
  ASSUME Asks, asking' \in {asking, NoDialog},
         NEW x, From(x), own' = x.own, panes' = x.panes
  PROVE  Asks'
<1>1. CASE asking' = NoDialog
  BY <1>1 DEF Asks, NoDialog
<1>2. CASE asking' = asking /\ \E w \in Ws, t \in Tabs :
              /\ asking = [kind |-> "tab", ws |-> w, tab |-> t]
              /\ \A v \in Ws : t \in own[v] => v = w
  <2>1. PICK w \in Ws, t \in Tabs : /\ asking = [kind |-> "tab", ws |-> w, tab |-> t]
                                    /\ \A v \in Ws : t \in own[v] => v = w
    BY <1>2
  <2>2. t \notin FreshTabs
    BY <2>1, FreshOK
  <2>3. \A v \in Ws : t \in own'[v] => v = w
    BY <2>1, <2>2 DEF From
  <2> QED BY <1>2, <2>1, <2>3 DEF Asks
<1>3. CASE asking' = asking /\ \E w \in Ws, p \in Panes, n \in Nat :
              /\ asking = [kind |-> "page", ws |-> w, pane |-> p, page |-> n]
              /\ \A v \in Ws : p \in Listed(v) => v = w
  <2>1. PICK w \in Ws, p \in Panes, n \in Nat :
              /\ asking = [kind |-> "page", ws |-> w, pane |-> p, page |-> n]
              /\ \A v \in Ws : p \in Listed(v) => v = w
    BY <1>3
  <2>2. p \notin FreshPanes
    BY <2>1, FreshOK
  <2>3. \A v \in Ws : p \in Listed(v)' => v = w
    BY <2>1, <2>2 DEF From, List, Listed
  <2> QED BY <1>3, <2>1, <2>3 DEF Asks
<1> QED BY <1>1, <1>2, <1>3 DEF Asks

\* Any step that settles in a layout that fits.
LEMMA Settled ==
  ASSUME IInv, NEW x, Fits(x), From(x),
         NEW events \in SUBSET Events, NEW seen, Settles(x, events, seen),
         asking' \in {asking, NoDialog}, current' \in Ws, idles' \in SUBSET Panes,
         "crossed" \notin past \cup events => Kept(x),
         (past \cup events) \cap {"crossed", "hasty"} = {} => Full(x, idles')
  PROVE  IInv' /\ OnPage' = On(x)
<1>1. /\ panes' = x.panes /\ hung' = x.hung /\ pages' = x.pages /\ cur' = x.cur /\ own' = x.own
      /\ flash' \subseteq flash /\ flash' \subseteq UNION {x.own[w] : w \in Ws}
      /\ editing' = IF \E p \in x.hung : editing \in ToSet(x.pages[p]) THEN editing ELSE None
      /\ flagged' = flagged \cap x.hung /\ ticking' = ticking
      /\ past' = past \cup events \cup (IF Strays(x) THEN {"strayed"} ELSE {})
  BY DEF Settles
<1>2. Now' = x
  BY <1>1, OpenOK DEF Now
<1>3. Open' = x.hung /\ OnPage' = On(x)
  BY <1>1, OpenOK DEF Open, OnPage, Listed
<1>4. Typed'
  <2>1. editing' \in OnPage' \cup {None}
    BY <1>1, <1>3, OpenOK
  <2>2. flash' \subseteq Owned'
    BY <1>1 DEF Owned
  <2>3. past' \subseteq Events
    BY <1>1 DEF IInv, Typed, Events
  <2>4. Fits(Now)'
    BY <1>2
  <2> QED BY <1>1, <2>1, <2>2, <2>3, <2>4 DEF IInv, Typed
<1>5. Asks'
  BY <1>1, AsksOn DEF IInv
<1>6. FlashTicks'
  <2>1. flash' \cap OnPage' \subseteq flash \cap OnPage
    BY <1>1, <1>3, FreshOK DEF IInv, Typed, From
  <2> QED BY <1>1, <2>1 DEF IInv, FlashTicks
<1>7. FlagFits'
  <2> SUFFICES ASSUME "strayed" \notin past', NEW p \in flagged'
               PROVE  p \in x.hung /\ editing' \in ToSet(x.pages[p])
    BY <1>1, <1>3 DEF FlagFits
  <2>1. p \in x.hung /\ p \in flagged /\ "strayed" \notin past /\ ~Strays(x)
    BY <1>1
  <2>2. p \in hung /\ editing \in Page(Now, p)
    BY <2>1, PlacesOK, NowOK DEF IInv, Typed, FlagFits, Page
  <2>3. Pane(editing) = p /\ editing # None
    BY <2>2, PlacesOK, WidgetsAssumption DEF IInv, Typed
  <2>4. editing \in ToSet(x.pages[p])
    BY <2>1, <2>3 DEF Strays
  <2> QED BY <1>1, <2>1, <2>4
<1>8. Remembered'
  <2>1. "crossed" \notin past' => Kept(x)
    BY <1>1
  <2>2. past' \cap {"crossed", "hasty"} = {} => Full(x, idles')
    BY <1>1
  <2> QED BY <1>2, <2>1, <2>2 DEF Remembered
<1> QED BY <1>3, <1>4, <1>5, <1>6, <1>7, <1>8 DEF IInv

\* Such a step that nothing is remembered of.
LEMMA Rests ==
  ASSUME IInv, NEW x, Fits(x), From(x), NEW seen, Settles(x, {}, seen),
         asking' \in {asking, NoDialog}, current' \in Ws, idles' \in SUBSET Panes,
         Kept(Now) => Kept(x), Full(Now, idles) => Full(x, idles')
  PROVE  IInv'
<1>1. {} \in SUBSET Events
  OBVIOUS
<1>2. "crossed" \notin past \cup {} => Kept(x)
  BY DEF IInv, Remembered
<1>3. (past \cup {}) \cap {"crossed", "hasty"} = {} => Full(x, idles')
  BY DEF IInv, Remembered
<1> QED BY <1>1, <1>2, <1>3, Settled

-----------------------------------------------------------------------------
(* Steps that leave the layout alone                                       *)

LEMMA StillOK ==
  ASSUME UNCHANGED layout
  PROVE  /\ Now' = Now /\ Open' = Open /\ OnPage' = OnPage /\ Owned' = Owned
         /\ own' = Now.own /\ panes' = Now.panes
BY NowOK DEF layout, Now, Open, OnPage, Owned, Listed

LEMMA Still ==
  ASSUME IInv, UNCHANGED <<layout, idles, past>>, Asks', current' \in Ws,
         editing' \in OnPage \cup {None}, flagged' \subseteq Panes,
         flash' \subseteq Owned, ticking' \in BOOLEAN,
         flash' \cap OnPage # {} => ticking',
         "strayed" \notin past => \A p \in flagged' : p \in Open /\ editing' \in ToSet(pages[p])
  PROVE  IInv'
<1>1. Now' = Now /\ Open' = Open /\ OnPage' = OnPage /\ Owned' = Owned /\ pages' = pages
  BY StillOK DEF layout
<1>2. Fits(Now)'
  BY <1>1 DEF IInv, Typed
<1>3. Typed'
  BY <1>1, <1>2 DEF IInv, Typed
<1>4. Remembered'
  BY <1>1 DEF IInv, Remembered
<1>5. FlashTicks'
  BY <1>1 DEF FlashTicks
<1>6. FlagFits'
  BY <1>1 DEF FlagFits
<1> QED BY <1>3, <1>4, <1>5, <1>6 DEF IInv

\* What changes is the dialog, the picker or the workspace that is shown.
LEMMA StillOpen ==
  ASSUME IInv, UNCHANGED <<layout, edits, ticking, idles, past>>, flash' \subseteq flash,
         Asks', current' \in Ws
  PROVE  IInv'
<1>1. editing' = editing /\ flagged' = flagged /\ ticking' = ticking
  BY DEF edits
<1>2. flash' \cap OnPage # {} => ticking'
  BY <1>1 DEF IInv, FlashTicks
<1>3. "strayed" \notin past => \A p \in flagged' : p \in Open /\ editing' \in ToSet(pages[p])
  BY <1>1 DEF IInv, FlagFits
<1>4. flash' \subseteq Owned
  BY DEF IInv, Typed
<1> QED BY <1>1, <1>2, <1>3, <1>4, Still DEF IInv, Typed

\* The dialog is as before or goes.
LEMMA AsksStill ==
  ASSUME IInv, UNCHANGED layout, asking' \in {asking, NoDialog}
  PROVE  Asks'
<1>1. From(Now)
  BY FromNow DEF IInv, Typed
<1> QED BY <1>1, AsksOn, StillOK DEF IInv

LEMMA AskButtonOK ==
  ASSUME IInv, NEW t \in Tabs, AskButton(t)
  PROVE  IInv'
<1>1. PICK w \in Ws : t \in own[w] /\ asking' = [kind |-> "tab", ws |-> w, tab |-> t]
  BY DEF AskButton
<1>2. \A v \in Ws : t \in own[v] => v = w
  BY <1>1, NowOK DEF IInv, Typed, Fits, Lists
<1>3. own' = own
  BY DEF AskButton, layout
<1>4. Asks'
  BY <1>1, <1>2, <1>3 DEF Asks
<1>5. UNCHANGED <<layout, edits, ticking, idles, past>> /\ flash' = flash /\ current' = current
  BY DEF AskButton, flashes
<1> QED BY <1>4, <1>5, StillOpen DEF IInv, Typed

LEMMA AskKeyOK ==
  ASSUME IInv, NEW p \in Open, AskKey(p)
  PROVE  IInv'
<1> DEFINE n == Index(pages[p], cur[p])
<1>1. /\ asking' = [kind |-> "page", ws |-> Home(p), pane |-> p, page |-> n]
      /\ pages[p] # <<>>
  BY DEF AskKey
<1>2. Fits(Now) /\ p \in hung /\ p \in Panes /\ Home(p) \in Ws
  BY PlacesOK DEF IInv, Typed
<1>3. n \in Nat
  <2>1. pages[p] \in Seq(Tabs) /\ cur[p] \in ToSet(pages[p])
    BY <1>1, <1>2, NowOK DEF Fits, Leaves, Shows, Distinct, Page
  <2>2. DOMAIN pages[p] = 1 .. Len(pages[p]) /\ \E j \in DOMAIN pages[p] : pages[p][j] = cur[p]
    BY <2>1, ListOK DEF ToSet
  <2> QED BY <2>2 DEF Index
<1> HIDE DEF n
<1>4. \A v \in Ws : p \in Listed(v)' => v = Home(p)
  <2>1. \A v \in Ws : Listed(v)' = Listed(v)
    BY DEF AskKey, layout, Listed
  <2>2. \A v \in Ws : p \in Listed(v) => v = Home(p)
    BY <1>2, PlacesOK, NowOK
  <2> QED BY <2>1, <2>2
<1>5. Asks'
  BY <1>1, <1>2, <1>3, <1>4 DEF Asks
<1>6. UNCHANGED <<layout, edits, ticking, idles, past>> /\ flash' = flash /\ current' = current
  BY DEF AskKey, flashes
<1> QED BY <1>5, <1>6, StillOpen DEF IInv, Typed

\* No dialog, picker or switch changes anything else.
LEMMA QuietOK ==
  ASSUME IInv, \/ Cancel \/ ClosePicker \/ \E p \in Open : OpenPicker(p)
               \/ \E w \in Ws : SwitchWorkspace(w)
  PROVE  IInv' /\ UNCHANGED layout
<1>1. /\ UNCHANGED <<layout, edits, ticking, idles, past>>
      /\ flash' \subseteq flash /\ asking' \in {asking, NoDialog} /\ current' \in Ws
  <2>1. CASE Cancel
    BY <2>1 DEF Cancel, flashes, IInv, Typed
  <2>2. CASE ClosePicker
    BY <2>2 DEF ClosePicker, flashes, IInv, Typed
  <2>3. CASE \E p \in Open : OpenPicker(p)
    BY <2>3 DEF OpenPicker, flashes, IInv, Typed
  <2>4. CASE \E w \in Ws : SwitchWorkspace(w)
    BY <2>4 DEF SwitchWorkspace, asked
  <2> QED BY <2>1, <2>2, <2>3, <2>4
<1>2. Asks'
  BY <1>1, AsksStill
<1> QED BY <1>1, <1>2, StillOpen

LEMMA NotifyOK ==
  ASSUME IInv, NEW w \in Ws, NEW t \in Tabs, Notify(w, t)
  PROVE  IInv'
<1>1. /\ UNCHANGED <<layout, idles, past>> /\ asking' = asking /\ current' = current
      /\ editing' = editing /\ flagged' = flagged /\ ticking' = TRUE
      /\ flash' = flash \cup {t} /\ t \in Owned
  BY DEF Notify, edits, asked, Owned
<1>2. Asks'
  BY <1>1, AsksStill
<1>3. "strayed" \notin past => \A p \in flagged' : p \in Open /\ editing' \in ToSet(pages[p])
  BY <1>1 DEF IInv, FlagFits
<1> QED BY <1>1, <1>2, <1>3, Still DEF IInv, Typed

LEMMA TickOK ==
  ASSUME IInv, Tick
  PROVE  IInv'
<1>1. /\ UNCHANGED <<layout, idles, past>> /\ asking' = asking /\ current' = current
      /\ editing' = editing /\ flagged' = flagged /\ flash' = flash
      /\ ticking' = (flash \cap OnPage # {})
  BY DEF Tick, Blinks, edits, asked
<1>2. Asks'
  BY <1>1, AsksStill
<1>3. "strayed" \notin past => \A p \in flagged' : p \in Open /\ editing' \in ToSet(pages[p])
  BY <1>1 DEF IInv, FlagFits
<1>4. ticking' \in BOOLEAN
  BY <1>1
<1> QED BY <1>1, <1>2, <1>3, <1>4, Still DEF IInv, Typed

\* Before an edit no pane is flagged, and an edit flags the pane of its tab.
LEMMA RenameOK ==
  ASSUME IInv, FinishRename \/ \E t \in Tabs : StartRename(t)
  PROVE  IInv'
<1>1. /\ Fits(Now) /\ flagged \subseteq Panes /\ flash \subseteq Owned /\ ticking \in BOOLEAN
      /\ current \in Ws /\ editing \in OnPage \cup {None}
      /\ flash \cap OnPage # {} => ticking
  BY DEF IInv, Typed, FlashTicks
<1>2. /\ UNCHANGED <<layout, idles, past>> /\ asking' = asking /\ current' = current
      /\ flash' = flash /\ ticking' = ticking
  BY DEF StartRename, FinishRename, flashes, asked
<1>3. Asks'
  BY <1>2, AsksStill
<1>4. "strayed" \notin past =>
         \A p \in flagged : p \in hung /\ editing \in Page(Now, p) /\ Pane(editing) = p
  BY <1>1, PlacesOK, NowOK DEF IInv, FlagFits, Page
<1>5. CASE FinishRename
  <2>1. editing' = None /\ flagged' = flagged \ {Pane(editing)}
    BY <1>5 DEF FinishRename
  <2>2. "strayed" \notin past => flagged' = {}
    BY <1>4, <2>1
  <2> QED BY <1>1, <1>2, <1>3, <2>1, <2>2, Still
<1>6. CASE \E t \in Tabs : StartRename(t)
  <2>1. PICK t \in OnPage : /\ editing = None /\ editing' = t /\ flagged' = flagged \cup {Pane(t)}
    BY <1>6 DEF StartRename
  <2>2. Pane(t) \in Open /\ Pane(t) \in Panes /\ t \in ToSet(pages[Pane(t)])
    BY <1>1, PlacesOK, NowOK DEF Page
  <2>3. "strayed" \notin past => flagged = {}
    BY <1>1, <1>4, <2>1, PlacesOK, WidgetsAssumption
  <2> QED BY <1>1, <1>2, <1>3, <2>1, <2>2, <2>3, Still
<1> QED BY <1>5, <1>6

-----------------------------------------------------------------------------
(* New tabs and panes                                                      *)

LEMMA AppendOK ==
  ASSUME NEW S, NEW s, Distinct(s, S), NEW e \in S, e \notin ToSet(s)
  PROVE  /\ Distinct(Append(s, e), S) /\ ToSet(Append(s, e)) = ToSet(s) \cup {e}
         /\ Append(s, e) # <<>>
<1> DEFINE t == Append(s, e)
           n == Len(s)
<1>1. s \in Seq(S) /\ IsInjective(s) /\ n \in Nat
  BY ListOK DEF Distinct
<1>2. /\ t \in Seq(S) /\ Len(t) = n + 1 /\ t[n + 1] = e
      /\ \A j \in 1 .. n : t[j] = s[j]
  BY <1>1
<1> HIDE DEF t
<1>3. Skips(s, t, n + 1)
  BY <1>1, <1>2 DEF Skips
<1> HIDE DEF n
<1>4. ToSet(t) = ToSet(s) \cup {e} /\ IsInjective(t)
  BY <1>1, <1>2, <1>3, SkipsOK
<1>5. t # <<>>
  BY <1>2, <1>4, ListOK
<1> QED BY <1>2, <1>4, <1>5 DEF Distinct, t

\* y is x with tab t, a terminal of workspace w, in its pane p.
Gains(x, y, w, p, t) ==
    /\ Fits(y) /\ y.hung = x.hung \cup {p}
    /\ Page(y, p) = Page(x, p) \cup {t} /\ \A q \in Panes \ {p} : y.pages[q] = x.pages[q]
    /\ \A v \in Ws : List(y, v) = IF v = w THEN List(x, v) \cup {p} ELSE List(x, v)
    /\ \A v \in Ws : y.own[v] = IF v = w THEN x.own[v] \cup {t} ELSE x.own[v]

LEMMA GainsOK ==
  ASSUME Fits(Now), NEW w \in Ws, NEW p \in Panes, NEW t \in FreshTabs,
         p \in List(Now, w) \cup FreshPanes, NEW x, Gains(Now, x, w, p, t)
  PROVE  /\ From(x)
         /\ Kept(Now) => Kept(x)
         /\ Full(Now, idles) => Full(x, idles)
<1>1. t \in Tabs /\ hung \subseteq Panes /\ \A v \in Ws : Listed(v) \subseteq Panes
  <2>1. \A v \in Ws : List(Now, v) \subseteq Panes
    BY ListIn
  <2> QED BY <2>1, FreshOK, PlacesOK, NowOK
<1>2. \A q \in Panes \ {p} : Page(x, q) = Page(Now, q)
  BY DEF Gains, Page
<1>3. From(x)
  <2>1. On(x) \subseteq OnPage \cup FreshTabs
    BY <1>1, <1>2, PlacesOK DEF Gains, On
  <2>2. \A v \in Ws : List(x, v) \subseteq Listed(v) \cup FreshPanes
    BY NowOK DEF Gains
  <2>3. \A v \in Ws : x.own[v] \subseteq own[v] \cup FreshTabs
    BY NowOK DEF Gains
  <2> QED BY <2>1, <2>2, <2>3 DEF From
<1>4. p \notin List(Now, w) => Page(Now, p) = {}
  <2>1. ASSUME p \in FreshPanes PROVE Now.pages[p] = <<>>
    BY <2>1, FreshOK, PlacesOK, NowOK DEF Fits
  <2> QED BY <2>1, ListOK DEF Fits, Leaves, Distinct, Page
<1>5. \A v \in Ws \ {w} : p \notin List(Now, v)
  BY FreshOK, NowOK DEF Fits, Lists
<1>6. ASSUME Kept(Now), NEW v \in Ws
      PROVE  /\ List(x, v) \subseteq x.hung
             /\ \A u \in Tabs : u \in x.own[v] <=> \E q \in List(x, v) : u \in Page(x, q)
  <2>1. /\ List(Now, v) \subseteq hung
        /\ \A u \in Tabs : u \in own[v] <=> \E q \in List(Now, v) : u \in Page(Now, q)
    BY <1>6, NowOK DEF Kept
  <2>2. CASE v = w
    <3>1. /\ List(x, v) = List(Now, v) \cup {p} /\ x.own[v] = own[v] \cup {t}
          /\ x.hung = hung \cup {p} /\ Page(x, p) = Page(Now, p) \cup {t}
      BY <2>2, NowOK DEF Gains
    <3>2. List(Now, v) \subseteq Panes
      BY <1>1, NowOK
    <3>3. ASSUME NEW u \in Tabs
          PROVE  u \in x.own[v] <=> \E q \in List(x, v) : u \in Page(x, q)
      <4>1. ASSUME NEW q \in List(Now, v), u \in Page(Now, q)
            PROVE  q \in List(x, v) /\ u \in Page(x, q)
        BY <1>2, <3>1, <3>2, <4>1
      <4>2. ASSUME NEW q \in List(x, v), u \in Page(x, q), u # t
            PROVE  q \in List(Now, v) /\ u \in Page(Now, q)
        BY <1>2, <1>4, <2>2, <3>1, <3>2, <4>2
      <4> QED BY <2>1, <3>1, <4>1, <4>2
    <3> QED BY <2>1, <3>1, <3>3
  <2>3. CASE v # w
    <3>1. List(x, v) = List(Now, v) /\ x.own[v] = own[v] /\ hung \subseteq x.hung
      BY <2>3, NowOK DEF Gains
    <3>2. \A q \in List(Now, v) : Page(x, q) = Page(Now, q)
      BY <1>1, <1>2, <1>5, <2>3, NowOK
    <3> QED BY <2>1, <3>1, <3>2
  <2> QED BY <2>2, <2>3
<1>7. ASSUME Full(Now, idles) PROVE Full(x, idles)
  <2>1. \A q \in Panes : Page(Now, q) \subseteq Page(x, q)
    BY <1>2 DEF Gains
  <2>2. ASSUME NEW v \in Ws PROVE \E q \in List(x, v) : Page(x, q) # {}
    <3>1. PICK q \in List(Now, v) : Page(Now, q) # {}
      BY <1>7 DEF Full
    <3>2. q \in List(x, v) /\ q \in Panes
      BY <1>1, NowOK DEF Gains
    <3> QED BY <2>1, <3>1, <3>2
  <2>3. ASSUME NEW q \in x.hung, Page(x, q) = {} PROVE q \in idles
    <3>1. q \in hung /\ Page(Now, q) = {}
      BY <1>1, <2>1, <2>3, NowOK DEF Gains
    <3> QED BY <1>7, <3>1, NowOK DEF Full
  <2> QED BY <2>2, <2>3 DEF Full
<1> QED BY <1>3, <1>6, <1>7 DEF Kept

LEMMA NewTabOK ==
  ASSUME IInv, NEW p \in Open, NewTab(Home(p), p)
  PROVE  IInv'
<1> DEFINE w == Home(p)
           t == CHOOSE t \in FreshTabs : TRUE
           r == Appended(Now, p, t)
           x == [r EXCEPT !.own[w] = @ \cup {t}]
<1>1. /\ t \in FreshTabs /\ Settles(x, {}, {})
      /\ current' = current /\ asking' = asking /\ idles' = idles
  BY DEF NewTab, asked
<1>2. /\ Fits(Now) /\ Open = hung /\ p \in hung /\ p \in Panes /\ w \in Ws
      /\ p \in List(Now, w) /\ OnPage = On(Now)
  BY PlacesOK DEF IInv, Typed
<1>3. t \in Tabs /\ t \notin On(Now) /\ \A v \in Ws : t \notin own[v]
  BY <1>1, <1>2, FreshOK DEF Owned
<1>4. x = PutOwn(r, w, r.own[w] \cup {t})
  BY DEF PutOwn
<1> HIDE DEF t, w, r, x
<1>5. Elsewhere(Now, r, p) /\ Page(r, p) = Page(Now, p) \cup {t}
  BY <1>2, <1>3, AppendedOK DEF Fits, r
<1>6. Fits(r) /\ \A v \in Ws : List(r, v) = List(Now, v)
  BY <1>2, <1>5, ElsewhereFits, NowOK
<1>7. r.own = own /\ r.own[w] \cup {t} \in SUBSET Tabs
  BY <1>2, <1>3, <1>5, <1>6, NowOK DEF Elsewhere, Fits, Layouts
<1>8. \A v \in Ws \ {w} : (r.own[w] \cup {t}) \cap r.own[v] = {}
  BY <1>2, <1>3, <1>6, <1>7 DEF Fits, Lists
<1>9. /\ Fits(x) /\ x.panes = r.panes /\ x.hung = r.hung /\ x.pages = r.pages
      /\ x.own[w] = r.own[w] \cup {t} /\ \A v \in Ws \ {w} : x.own[v] = r.own[v]
  BY <1>2, <1>4, <1>6, <1>7, <1>8, PutOwnOK
<1>10. Gains(Now, x, w, p, t)
  <2>1. x.hung = hung \cup {p} /\ Page(x, p) = Page(Now, p) \cup {t}
    BY <1>2, <1>5, <1>9, NowOK DEF Elsewhere, Page
  <2>2. \A q \in Panes \ {p} : x.pages[q] = Now.pages[q]
    BY <1>5, <1>9 DEF Elsewhere
  <2>3. \A v \in Ws : List(x, v) = IF v = w THEN List(Now, v) \cup {p} ELSE List(Now, v)
    BY <1>2, <1>6, <1>9 DEF List
  <2>4. \A v \in Ws : x.own[v] = IF v = w THEN Now.own[v] \cup {t} ELSE Now.own[v]
    BY <1>7, <1>9, NowOK
  <2> QED BY <1>9, <2>1, <2>2, <2>3, <2>4, NowOK DEF Gains
<1>11. /\ From(x)
       /\ Kept(Now) => Kept(x)
       /\ Full(Now, idles) => Full(x, idles)
  BY <1>1, <1>2, <1>10, GainsOK
<1> QED BY <1>1, <1>9, <1>11, Rests DEF IInv, Typed

LEMMA NewPaneOK ==
  ASSUME IInv, NEW w \in Ws, NewPane(w)
  PROVE  IInv'
<1> DEFINE p == CHOOSE p \in FreshPanes : TRUE
           t == CHOOSE t \in FreshTabs : TRUE
           r == Appended(Now, p, t)
           s == Append(panes[w], p)
           x == [r EXCEPT !.own[w] = @ \cup {t}, !.panes[w] = Append(@, p), !.hung = @ \cup {p}]
<1>1. /\ p \in FreshPanes /\ t \in FreshTabs /\ Settles(x, {}, {})
      /\ current' = current /\ asking' = asking /\ idles' = idles
  BY DEF NewPane, asked
<1>2. Fits(Now) /\ OnPage = On(Now)
  BY PlacesOK DEF IInv, Typed
<1>3. /\ t \in Tabs /\ t \notin On(Now) /\ \A v \in Ws : t \notin own[v]
      /\ p \in Panes /\ \A v \in Ws : p \notin List(Now, v)
  BY <1>1, <1>2, FreshOK, NowOK DEF Owned
<1> HIDE DEF t, p, r
<1>4. Elsewhere(Now, r, p) /\ Page(r, p) = Page(Now, p) \cup {t}
  BY <1>2, <1>3, AppendedOK DEF Fits, r
<1>5. Distinct(s, Panes) /\ ToSet(s) = List(Now, w) \cup {p} /\ s # <<>>
  BY <1>2, <1>3, AppendOK, NowOK DEF Fits, Lists, List
<1>6. /\ r \in Layouts /\ r.panes = panes /\ r.own = own /\ r.hung = hung
      /\ panes[w] \in Seq(Panes) /\ own[w] \in SUBSET Tabs
  BY <1>2, <1>4, NowOK DEF Elsewhere, Fits, Layouts
<1>7. s \in Seq(Panes) /\ x = [r EXCEPT !.own[w] = own[w] \cup {t}, !.panes[w] = s, !.hung = hung \cup {p}]
  BY <1>5, <1>6 DEF Distinct, Layouts
<1> HIDE DEF s, x
<1>8. /\ x \in Layouts /\ x.hung = hung \cup {p} /\ x.pages = r.pages /\ x.cur = r.cur
      /\ x.panes = [panes EXCEPT ![w] = s] /\ x.own = [own EXCEPT ![w] = own[w] \cup {t}]
  BY <1>3, <1>6, <1>7 DEF Layouts
<1>9. /\ \A v \in Ws : x.panes[v] = IF v = w THEN s ELSE panes[v]
      /\ \A v \in Ws : x.own[v] = IF v = w THEN own[v] \cup {t} ELSE own[v]
  BY <1>6, <1>8 DEF Layouts
<1>10. \A v \in Ws : List(x, v) = IF v = w THEN List(Now, v) \cup {p} ELSE List(Now, v)
  BY <1>5, <1>9, NowOK DEF List
<1>11. Leaves(x)
  BY <1>4, <1>8 DEF Elsewhere, Leaves, Shows, Page
<1>12. Lists(x)
  <2>1. \A v \in Ws : x.panes[v] # <<>> /\ Distinct(x.panes[v], Panes)
    BY <1>2, <1>5, <1>9, NowOK DEF Fits, Lists
  <2>2. ASSUME NEW v \in Ws, NEW u \in Ws, v # u
        PROVE  List(x, v) \cap List(x, u) = {} /\ x.own[v] \cap x.own[u] = {}
    <3>1. List(Now, v) \cap List(Now, u) = {} /\ own[v] \cap own[u] = {}
      BY <1>2, <2>2, NowOK DEF Fits, Lists
    <3>2. List(x, v) \cap List(x, u) = {}
      BY <1>3, <1>10, <2>2, <3>1
    <3>3. x.own[v] \cap x.own[u] = {}
      BY <1>3, <1>9, <2>2, <3>1
    <3> QED BY <3>2, <3>3
  <2>3. \A q \in x.hung : \E v \in Ws : q \in List(x, v)
    BY <1>2, <1>8, <1>10, NowOK DEF Fits, Lists
  <2> QED BY <2>1, <2>2, <2>3 DEF Lists
<1>13. Fits(x)
  <2>1. \A q \in Panes \ x.hung : x.pages[q] = <<>>
    BY <1>2, <1>4, <1>8, NowOK DEF Fits, Elsewhere
  <2> QED BY <1>8, <1>11, <1>12, <2>1 DEF Fits
<1>14. Gains(Now, x, w, p, t)
  <2>1. Page(x, p) = Page(Now, p) \cup {t} /\ \A q \in Panes \ {p} : x.pages[q] = Now.pages[q]
    BY <1>4, <1>8 DEF Elsewhere, Page
  <2> QED BY <1>8, <1>9, <1>10, <1>13, <2>1, NowOK DEF Gains
<1>15. /\ From(x)
       /\ Kept(Now) => Kept(x)
       /\ Full(Now, idles) => Full(x, idles)
  BY <1>1, <1>2, <1>3, <1>14, GainsOK
<1> QED BY <1>1, <1>13, <1>15, Rests DEF IInv, Typed

-----------------------------------------------------------------------------
(* Tabs and panes close                                                    *)

LEMMA EmptiedOK ==
  ASSUME NEW x, NEW p \in Panes, idles \subseteq Panes
  PROVE  /\ idles \subseteq Emptied(x, p) /\ Emptied(x, p) \subseteq Panes
         /\ x.pages[p] = <<>> /\ Len(x.panes[Home(p)]) > 1 => p \in Emptied(x, p)
BY DEF Emptied

\* A layout that lost something is from what there was.
LEMMA FromLess ==
  ASSUME Fits(Now), NEW x,
         \A v \in Ws : x.own[v] \subseteq own[v] /\ List(x, v) \subseteq Listed(v),
         \A q \in Panes : Page(x, q) \subseteq Page(Now, q)
  PROVE  From(x)
BY PlacesOK DEF From, On

LEMMA FromClosed ==
  ASSUME Fits(Now), NEW w \in Ws, NEW p \in Panes, NEW x, Closes(Now, x, w, p)
  PROVE  From(x)
<1>1. \A v \in Ws : x.own[v] \subseteq own[v]
  BY NowOK DEF Closes
<1>2. \A v \in Ws : List(x, v) \subseteq List(Now, v)
  BY DEF Closes
<1>3. \A q \in Panes : Page(x, q) \subseteq Page(Now, q)
  BY DEF Closes, Page
<1> QED BY <1>1, <1>2, <1>3, FromLess, NowOK

LEMMA ClosePaneOK ==
  ASSUME IInv, NEW p \in Open, ClosePane(Home(p), p)
  PROVE  IInv'
<1> DEFINE w == Home(p)
           x == ClosedPane(Now, w, p)
<1>1. /\ Len(panes[w]) > 1 /\ Settles(x, Hastes, {})
      /\ current' = current /\ asking' = asking /\ idles' = idles
  BY DEF ClosePane, asked
<1>2. Fits(Now) /\ Open = hung /\ p \in hung /\ p \in Panes /\ w \in Ws /\ p \in List(Now, w)
  BY PlacesOK DEF IInv, Typed
<1> HIDE DEF w, x
<1>3. x = Now \/ Closes(Now, x, w, p)
  BY <1>2, ClosedPaneOK DEF x
<1>4. Fits(x)
  BY <1>2, <1>3 DEF Closes
<1>5. From(x)
  BY <1>2, <1>3, FromNow, FromClosed
<1>6. "crossed" \notin past => Kept(x)
  BY <1>2, <1>3, ClosedKept DEF IInv, Remembered
<1>7. ASSUME (past \cup Hastes) \cap {"crossed", "hasty"} = {}
      PROVE  Full(x, idles)
  <2>1. /\ Kept(Now) /\ Full(Now, idles) /\ idles \cap hung = {}
    BY <1>2, <1>7 DEF IInv, Remembered, Hastes
  <2>2. \A q \in hung : Page(Now, q) # {}
    BY <2>1, NowOK DEF Full
  <2>3. Distinct(panes[w], Panes) /\ List(Now, w) \subseteq hung /\ List(Now, w) = ToSet(panes[w])
    BY <1>2, <2>1, NowOK DEF Fits, Lists, Kept, List
  <2>4. PICK q \in List(Now, w) : q # p
    BY <1>1, <1>2, <2>3, LenOK
  <2>5. Closes(Now, x, w, p)
    BY <1>2, <2>3, <2>4, ClosesBeside, NowOK DEF x
  <2>6. \A v \in Ws \ {w} : \E r \in List(Now, v) : Page(Now, r) # {}
    BY <2>1 DEF Full
  <2>7. Page(Now, q) # {} /\ \A r \in Now.hung \ {p} : Page(Now, r) = {} => r \in idles
    BY <2>2, <2>3, <2>4, NowOK
  <2> QED BY <1>2, <2>4, <2>5, <2>6, <2>7, ClosedFull
<1>8. Hastes \in SUBSET Events
  BY DEF Hastes, Events
<1>9. "crossed" \notin past \cup Hastes => Kept(x)
  BY <1>6
<1> QED BY <1>1, <1>4, <1>5, <1>7, <1>8, <1>9, Settled DEF IInv, Typed

LEMMA ClosePaneIdleOK ==
  ASSUME IInv, NEW p \in Panes, ClosePaneIdle(p)
  PROVE  IInv'
<1> DEFINE w == Home(p)
           x == IF p \in Open /\ pages[p] = <<>> THEN ClosedPane(Now, w, p) ELSE Now
<1>1. /\ idles' = idles \ {p} /\ Settles(x, {}, {})
      /\ current' = current /\ asking' = asking
  BY DEF ClosePaneIdle, asked
<1>2. Fits(Now) /\ Open = hung
  BY PlacesOK DEF IInv, Typed
<1>3. CASE ~(p \in Open /\ pages[p] = <<>>)
  <2>1. x = Now
    BY <1>3
  <2> HIDE DEF x
  <2>2. Page(Now, p) # {} \/ p \notin hung
    BY <1>2, <1>3, ListOK, NowOK DEF Fits, Leaves, Distinct, Page
  <2>3. Full(Now, idles) => Full(Now, idles \ {p})
    BY <2>2, NowOK DEF Full
  <2>4. From(Now)
    BY <1>2, FromNow
  <2> QED BY <1>1, <1>2, <2>1, <2>3, <2>4, Rests DEF IInv, Typed
<1>4. CASE p \in Open /\ pages[p] = <<>>
  <2>1. x = ClosedPane(Now, w, p)
    BY <1>4
  <2>2. p \in hung /\ w \in Ws /\ p \in List(Now, w) /\ Page(Now, p) = {}
    <3>1. Page(Now, p) = {}
      BY <1>2, <1>4, ListOK, NowOK DEF Fits, Leaves, Distinct, Page
    <3> QED BY <1>2, <1>4, <3>1, PlacesOK
  <2> HIDE DEF w, x
  <2>3. x = Now \/ Closes(Now, x, w, p)
    BY <1>2, <2>1, <2>2, ClosedPaneOK
  <2>4. Fits(x)
    BY <1>2, <2>3 DEF Closes
  <2>5. From(x)
    BY <1>2, <2>2, <2>3, FromNow, FromClosed
  <2>6. "crossed" \notin past => Kept(x)
    BY <1>2, <2>2, <2>3, ClosedKept DEF IInv, Remembered
  <2>7. ASSUME past \cap {"crossed", "hasty"} = {}
        PROVE  Full(x, idles \ {p})
    <3>1. Kept(Now) /\ Full(Now, idles) /\ List(Now, w) \subseteq hung
      BY <2>2, <2>7, NowOK DEF IInv, Remembered, Kept
    <3>2. PICK q \in List(Now, w) : Page(Now, q) # {}
      BY <2>2, <3>1 DEF Full
    <3>3. q # p
      BY <2>2, <3>2
    <3>4. Closes(Now, x, w, p)
      BY <1>2, <2>1, <2>2, <3>1, <3>3, ClosesBeside, NowOK
    <3>5. \A r \in hung \ {p} : Page(Now, r) = {} => r \in idles \ {p}
      BY <3>1, NowOK DEF Full
    <3>6. \A v \in Ws \ {w} : \E r \in List(Now, v) : Page(Now, r) # {}
      BY <3>1 DEF Full
    <3>7. \A r \in Now.hung \ {p} : Page(Now, r) = {} => r \in idles \ {p}
      BY <3>5, NowOK
    <3> QED BY <1>2, <2>2, <3>2, <3>3, <3>4, <3>6, <3>7, ClosedFull
  <2> QED BY <1>1, <2>4, <2>5, <2>6, <2>7, Settled DEF IInv, Typed
<1> QED BY <1>3, <1>4

\* workspace_close_tab_at takes one tab, and its pane if it was the last one there.
LEMMA CloseTabAtOK ==
  ASSUME IInv, NEW w \in Ws, NEW p \in hung, NEW t \in Page(Now, p), CloseTabAt(w, p, t),
         "crossed" \notin past => p \in List(Now, w),
         asking' \in {asking, NoDialog}, current' = current
  PROVE  IInv' /\ OnPage' = OnPage \ {t}
<1> DEFINE r == Removed(Now, p, t)
           y == [r EXCEPT !.own[w] = @ \ {t}]
           x == IF y.pages[p] = <<>> THEN ClosedPane(y, w, p) ELSE y
<1>1. /\ ~OnlyTab(w, p) /\ Settles(x, Hastes, {}) /\ idles' = Emptied(y, p)
  BY DEF CloseTabAt
<1>2. /\ Fits(Now) /\ Open = hung /\ p \in Panes /\ t \in Tabs /\ OnPage = On(Now)
      /\ idles \subseteq Panes
  BY PlacesOK DEF IInv, Typed
<1>3. y = PutOwn(r, w, r.own[w] \ {t})
  BY DEF PutOwn
<1> HIDE DEF r, y, x
<1>4. Elsewhere(Now, r, p) /\ Page(r, p) = Page(Now, p) \ {t}
  BY <1>2, RemovedOK DEF Fits, r
<1>5. Fits(r) /\ \A v \in Ws : List(r, v) = List(Now, v)
  BY <1>2, <1>4, ElsewhereFits, NowOK
<1>6. r.own = own /\ r.own[w] \ {t} \in SUBSET Tabs
  BY <1>4, <1>5, NowOK DEF Elsewhere, Fits, Layouts
<1>7. \A v \in Ws \ {w} : (r.own[w] \ {t}) \cap r.own[v] = {}
  BY <1>5 DEF Fits, Lists
<1>8. /\ Fits(y) /\ y.panes = r.panes /\ y.hung = r.hung /\ y.pages = r.pages
      /\ y.own[w] = r.own[w] \ {t} /\ \A v \in Ws \ {w} : y.own[v] = r.own[v]
  BY <1>3, <1>5, <1>6, <1>7, PutOwnOK
<1>9. /\ y.hung = hung /\ y.panes = panes /\ \A v \in Ws : List(y, v) = List(Now, v)
      /\ Page(y, p) = Page(Now, p) \ {t} /\ \A q \in Panes \ {p} : Page(y, q) = Page(Now, q)
  BY <1>4, <1>5, <1>8, NowOK DEF Elsewhere, List, Page
<1>10. y.pages[p] = <<>> <=> Page(y, p) = {}
  BY <1>2, <1>8, ListOK DEF Fits, Leaves, Distinct, Page
<1>11. y.pages[p] # <<>> => x = y
  BY DEF x
<1>12. x = y \/ (Page(y, p) = {} /\ Closes(y, x, w, p))
  BY <1>2, <1>8, <1>10, <1>11, ClosedPaneOK DEF x
<1>13. /\ Fits(x) /\ \A q \in Panes : Page(x, q) = Page(y, q)
       /\ \A v \in Ws : x.own[v] \subseteq y.own[v] /\ List(x, v) \subseteq List(y, v)
  <2>1. CASE x = y
    BY <1>8, <2>1
  <2>2. CASE Page(y, p) = {} /\ Closes(y, x, w, p)
    BY <2>2 DEF Closes, Page
  <2> QED BY <1>12, <2>1, <2>2
<1>14. From(x)
  <2>1. \A v \in Ws : x.own[v] \subseteq own[v] /\ List(x, v) \subseteq Listed(v)
    BY <1>6, <1>8, <1>9, <1>13, NowOK
  <2>2. \A q \in Panes : Page(x, q) \subseteq Page(Now, q)
    BY <1>9, <1>13
  <2> QED BY <1>2, <2>1, <2>2, FromLess
<1>15. On(x) = OnPage \ {t}
  <2>1. \A q \in Panes \ {p} : t \notin Page(Now, q)
    BY <1>2 DEF Fits, Leaves
  <2>2. \A q \in Panes : Page(x, q) = Page(Now, q) \ {t}
    BY <1>9, <1>13, <2>1
  <2> QED BY <1>2, <2>2 DEF On
<1>16. ASSUME "crossed" \notin past PROVE Kept(y) /\ Kept(x)
  <2>1. p \in List(Now, w) /\ Kept(Now)
    BY <1>16 DEF IInv, Remembered
  <2>2. \A v \in Ws : List(Now, v) \subseteq Panes
    BY <1>2, ListIn
  <2>3. ASSUME NEW v \in Ws, NEW u \in Tabs
        PROVE  u \in y.own[v] <=> \E q \in List(y, v) : u \in Page(y, q)
    <3>1. u \in own[v] <=> \E q \in List(Now, v) : u \in Page(Now, q)
      BY <2>1, NowOK DEF Kept
    <3>2. \A q \in Panes : u \in Page(y, q) <=> u \in Page(Now, q) /\ ~(q = p /\ u = t)
      BY <1>9
    <3>3. u \in y.own[v] <=> u \in own[v] /\ ~(v = w /\ u = t)
      BY <1>6, <1>8
    <3>4. CASE u # t
      BY <1>9, <2>2, <3>1, <3>2, <3>3, <3>4
    <3>5. CASE u = t
      <4>1. \A q \in Panes : t \in Page(Now, q) => q = p
        BY <1>2 DEF Fits, Leaves
      <4>2. v # w => p \notin List(Now, v)
        BY <1>2, <2>1 DEF Fits, Lists
      <4>3. t \notin own[v] \/ v = w
        BY <2>2, <3>1, <3>5, <4>1, <4>2
      <4>4. ~(\E q \in List(y, v) : t \in Page(y, q))
        BY <1>9, <2>2, <3>2, <3>5, <4>1
      <4> QED BY <3>3, <3>5, <4>3, <4>4
    <3> QED BY <3>4, <3>5
  <2>4. Kept(y)
    BY <1>9, <2>1, <2>3, NowOK DEF Kept
  <2>5. Kept(x)
    BY <1>8, <1>9, <1>12, <2>1, <2>4, ClosedKept
  <2> QED BY <2>4, <2>5
<1>17. idles \subseteq idles' /\ idles' \in SUBSET Panes
  BY <1>1, <1>2, EmptiedOK
<1>18. ASSUME (past \cup Hastes) \cap {"crossed", "hasty"} = {}
       PROVE  Full(x, idles')
  <2>1. /\ Kept(Now) /\ Full(Now, idles) /\ idles \cap hung = {} /\ p \in List(Now, w)
    BY <1>2, <1>18 DEF IInv, Remembered, Hastes
  <2>2. \A q \in hung : Page(Now, q) # {}
    BY <2>1, NowOK DEF Full
  <2>3. \A v \in Ws : List(Now, v) \subseteq hung
    BY <2>1, NowOK DEF Kept
  <2>4. hung \subseteq Panes
    BY <1>2, PlacesOK
  <2>5. ASSUME NEW v \in Ws \ {w} PROVE \E q \in List(y, v) : Page(y, q) # {}
    <3>1. PICK q \in List(Now, v) : Page(Now, q) # {}
      BY <2>1 DEF Full
    <3>2. q # p
      BY <1>2, <2>1 DEF Fits, Lists
    <3>3. q \in List(y, v) /\ Page(y, q) = Page(Now, q)
      BY <1>9, <2>3, <2>4, <3>1, <3>2
    <3> QED BY <3>1, <3>3
  <2>6. CASE y.pages[p] # <<>>
    <3>1. x = y /\ Page(y, p) # {}
      BY <1>10, <1>11, <2>6
    <3>2. \A q \in y.hung : Page(y, q) # {}
      BY <1>9, <2>2, <2>4, <3>1
    <3>3. \A v \in Ws : \E q \in List(y, v) : Page(y, q) # {}
      BY <1>9, <2>1, <2>5, <3>1
    <3> QED BY <3>1, <3>2, <3>3 DEF Full
  <2>7. CASE y.pages[p] = <<>>
    <3>1. Distinct(pages[p], Tabs) /\ Page(Now, p) = ToSet(pages[p])
      BY <1>2, NowOK DEF Fits, Leaves, Page
    <3>2. Page(Now, p) \ {t} = {}
      BY <1>9, <1>10, <2>7
    <3>3. ~(Len(pages[p]) > 1) /\ Len(pages[p]) \in Nat
      BY <3>1, <3>2, LenOK, ListOK DEF Distinct
    <3>4. Distinct(panes[w], Panes) /\ List(Now, w) = ToSet(panes[w])
      BY <1>2, NowOK DEF Fits, Lists, List
    <3>5. Len(panes[w]) > 1
      <4>1. Len(panes[w]) \in Nat
        BY <3>4, ListOK DEF Distinct
      <4> QED BY <1>1, <3>3, <4>1 DEF OnlyTab
    <3>6. PICK q \in List(Now, w) : q # p
      BY <2>1, <3>4, <3>5, LenOK
    <3>7. x = ClosedPane(y, w, p)
      BY <2>7 DEF x
    <3>8. Closes(y, x, w, p)
      BY <1>8, <1>9, <2>1, <2>3, <3>6, <3>7, ClosesBeside
    <3>9. q \in List(y, w) \ {p} /\ Page(y, q) # {}
      BY <1>9, <2>2, <2>3, <2>4, <3>6
    <3>10. \A r_1 \in y.hung \ {p} : Page(y, r_1) = {} => r_1 \in idles'
      BY <1>9, <2>2, <2>4
    <3>11. p \in List(y, w)
      BY <1>9, <2>1
    <3> QED BY <1>8, <2>5, <3>8, <3>9, <3>10, <3>11, ClosedFull
  <2> QED BY <2>6, <2>7
<1>19. Hastes \in SUBSET Events
  BY DEF Hastes, Events
<1>20. "crossed" \notin past \cup Hastes => Kept(x)
  BY <1>16
<1>21. IInv' /\ OnPage' = On(x)
  BY <1>1, <1>13, <1>14, <1>17, <1>18, <1>19, <1>20, Settled DEF IInv, Typed
<1> QED BY <1>15, <1>21

\* on_tab_close_confirmed: the workspace it closes in is the tab's, unless the
\* tab crossed.
LEMMA ConfirmOK ==
  ASSUME IInv, Confirm
  PROVE  IInv' /\ (asking.kind = "tab" => OnPage \ OnPage' \subseteq {asking.tab})
<1>1. /\ asking # NoDialog /\ asking' = NoDialog /\ current' = current
  BY DEF Confirm
<1> DEFINE found == IF asking.kind = "tab" THEN Meant ELSE MeantPage
<1>2. Fits(Now) /\ current \in Ws /\ Open = hung /\ hung \subseteq Panes
  BY PlacesOK DEF IInv, Typed
<1>3. /\ asking.ws \in Ws
      /\ asking.kind = "tab" =>
            asking.tab \in Tabs /\ \A v \in Ws : asking.tab \in own[v] => v = asking.ws
      /\ asking.kind # "tab" =>
            asking.pane \in Panes /\ \A v \in Ws : asking.pane \in Listed(v) => v = asking.ws
  BY <1>1 DEF IInv, Asks
<1>4. CASE \E pt \in found : CloseTabAt(asking.ws, pt[1], pt[2])
  <2>1. PICK pt \in found : CloseTabAt(asking.ws, pt[1], pt[2])
    BY <1>4
  <2>2. CASE asking.kind = "tab"
    <3>1. asking.tab \in OnPage /\ pt = <<Pane(asking.tab), asking.tab>>
      BY <2>1, <2>2 DEF Meant
    <3>2. Pane(asking.tab) \in hung /\ asking.tab \in Page(Now, Pane(asking.tab))
      BY <1>2, <3>1, PlacesOK
    <3>3. ASSUME "crossed" \notin past PROVE Pane(asking.tab) \in List(Now, asking.ws)
      <4>1. Kept(Now)
        BY <3>3 DEF IInv, Remembered
      <4>2. PICK v \in Ws : Pane(asking.tab) \in List(Now, v)
        BY <1>2, <3>2, PlacesOK
      <4>3. asking.tab \in own[v]
        BY <1>3, <2>2, <3>2, <4>1, <4>2, NowOK DEF Kept
      <4> QED BY <1>3, <2>2, <4>2, <4>3
    <3>4. CloseTabAt(asking.ws, Pane(asking.tab), asking.tab)
      BY <2>1, <3>1
    <3>5. IInv' /\ OnPage' = OnPage \ {asking.tab}
      BY <1>1, <1>3, <3>2, <3>3, <3>4, CloseTabAtOK
    <3> QED BY <3>5
  <2>3. CASE asking.kind # "tab"
    <3>1. PICK p \in {q \in {asking.pane} \cap Open : asking.page \in DOMAIN pages[q]} :
              pt = <<p, pages[p][asking.page]>>
      BY <2>1, <2>3 DEF MeantPage
    <3>2. p = asking.pane /\ p \in hung /\ asking.page \in DOMAIN pages[p]
      BY <1>2, <3>1
    <3>3. pages[p][asking.page] \in Page(Now, p)
      BY <3>2, NowOK DEF Page, ToSet
    <3>4. p \in List(Now, asking.ws)
      <4>1. PICK v \in Ws : p \in List(Now, v)
        BY <1>2, <3>2, PlacesOK
      <4> QED BY <1>3, <2>3, <3>2, <4>1, NowOK
    <3>5. CloseTabAt(asking.ws, p, pages[p][asking.page])
      BY <2>1, <3>1
    <3>6. IInv'
      BY <1>1, <1>3, <3>2, <3>3, <3>4, <3>5, CloseTabAtOK
    <3> QED BY <2>3, <3>6
  <2> QED BY <2>2, <2>3
<1>5. CASE UNCHANGED <<layout, edits, flashes, idles, past>>
  <2>1. UNCHANGED <<layout, edits, ticking, idles, past>> /\ flash' = flash
    BY <1>5 DEF flashes
  <2>2. Asks'
    BY <1>1, <2>1, AsksStill
  <2>3. IInv'
    BY <1>1, <1>2, <2>1, <2>2, StillOpen
  <2>4. OnPage' = OnPage
    BY <2>1, StillOK
  <2> QED BY <2>3, <2>4
<1> QED BY <1>4, <1>5 DEF Confirm

-----------------------------------------------------------------------------
(* Tabs move                                                               *)

\* Tab t goes from pane p, which may be closed for it, to place i of pane q.
LEMMA MovedOK ==
  ASSUME Fits(Now), NEW p \in hung, NEW q \in hung, p # q, NEW t \in Page(Now, p),
         NEW y, y = Removed(Now, p, t),
         NEW z, z = y \/ (y.pages[p] = <<>> /\ Closes(y, z, Home(p), p)),
         NEW i \in 1 .. Len(z.pages[q]) + 1, NEW x, x = Added(z, q, i, t)
  PROVE  /\ Fits(x) /\ From(x)
         /\ Home(p) = Home(q) /\ Kept(Now) => Kept(x)
         /\ Home(p) = Home(q) /\ Full(Now, idles) => Full(x, Emptied(y, p))
<1> DEFINE w == Home(p)
<1>1. /\ p \in Panes /\ q \in Panes /\ hung \subseteq Panes /\ t \in Tabs /\ OnPage = On(Now)
      /\ w \in Ws /\ p \in List(Now, w) /\ Home(q) \in Ws /\ q \in List(Now, Home(q))
      /\ \A v \in Ws : p \in List(Now, v) => v = w
  BY PlacesOK
<1> HIDE DEF w
<1>2. Elsewhere(Now, y, p) /\ Page(y, p) = Page(Now, p) \ {t}
  BY <1>1, RemovedOK DEF Fits
<1>3. Fits(y) /\ \A v \in Ws : List(y, v) = List(Now, v)
  BY <1>2, ElsewhereFits, NowOK
<1>4. /\ y.hung = hung /\ y.own = own
      /\ \A r \in Panes \ {p} : Page(y, r) = Page(Now, r)
  BY <1>2, NowOK DEF Elsewhere, Page
<1>5. y.pages[p] = <<>> <=> Page(y, p) = {}
  BY <1>1, <1>3, ListOK DEF Fits, Leaves, Distinct, Page
<1>6. /\ Fits(z) /\ q \in z.hung
      /\ \A r \in Panes : Page(z, r) = Page(y, r)
      /\ \A v \in Ws : z.own[v] = own[v]
      /\ z.hung \subseteq hung
      /\ \A v \in Ws : List(z, v) \subseteq List(Now, v) /\ List(Now, v) \ {p} \subseteq List(z, v)
      /\ \A v \in Ws : p \in List(Now, v) \ List(z, v) => Page(y, p) = {}
      /\ hung \ {p} \subseteq z.hung /\ \A v \in Ws : p \in List(z, v) => p \in z.hung
  <2>1. CASE z = y
    BY <1>3, <1>4, <2>1
  <2>2. CASE y.pages[p] = <<>> /\ Closes(y, z, w, p)
    <3>1. Fits(z) /\ z.hung = hung \ {p} /\ Page(y, p) = {}
      BY <1>4, <1>5, <2>2 DEF Closes
    <3>2. \A r \in Panes : Page(z, r) = Page(y, r)
      BY <2>2, <3>1 DEF Closes, Page
    <3>3. \A v \in Ws : z.own[v] = own[v]
      BY <1>4, <2>2, <3>1 DEF Closes
    <3>4. \A v \in Ws : List(z, v) = IF v = w THEN List(Now, v) \ {p} ELSE List(Now, v)
      BY <1>3, <2>2 DEF Closes
    <3>5. \A v \in Ws : p \notin List(z, v)
      BY <1>1, <3>4
    <3> QED BY <3>1, <3>2, <3>3, <3>4, <3>5
  <2> QED BY <2>1, <2>2 DEF w
<1>7. \A r \in Panes : t \notin Page(z, r)
  <2>1. \A r \in Panes \ {p} : t \notin Page(Now, r)
    BY <1>1 DEF Fits, Leaves
  <2> QED BY <1>2, <1>4, <1>6, <2>1
<1>8. Elsewhere(z, x, q) /\ Page(x, q) = Page(z, q) \cup {t}
  BY <1>1, <1>6, <1>7, AddedOK DEF Fits, On
<1>9. Fits(x) /\ \A v \in Ws : List(x, v) = List(z, v)
  BY <1>6, <1>8, ElsewhereFits
<1>10. /\ Page(x, p) = Page(Now, p) \ {t} /\ Page(x, q) = Page(Now, q) \cup {t}
       /\ \A r \in Panes \ {p, q} : Page(x, r) = Page(Now, r)
       /\ \A v \in Ws : x.own[v] = own[v]
       /\ x.hung = z.hung
  <2>1. \A r \in Panes \ {q} : Page(x, r) = Page(z, r)
    BY <1>8 DEF Elsewhere, Page
  <2>2. x.hung = z.hung /\ x.own = z.own
    BY <1>8 DEF Elsewhere
  <2>3. Page(x, p) = Page(Now, p) \ {t}
    BY <1>1, <1>2, <1>6, <2>1
  <2>4. Page(x, q) = Page(Now, q) \cup {t}
    BY <1>1, <1>4, <1>6, <1>8
  <2>5. \A r \in Panes \ {p, q} : Page(x, r) = Page(Now, r)
    BY <1>4, <1>6, <2>1
  <2> QED BY <1>6, <2>2, <2>3, <2>4, <2>5
<1>11. From(x)
  <2>1. On(x) \subseteq OnPage
    BY <1>1, <1>10 DEF On
  <2>2. \A v \in Ws : x.own[v] \subseteq own[v] /\ List(x, v) \subseteq Listed(v)
    BY <1>6, <1>9, <1>10, NowOK
  <2> QED BY <2>1, <2>2 DEF From
<1>12. \A v \in Ws : List(Now, v) \subseteq Panes
  BY ListIn
<1>13. ASSUME w = Home(q), Kept(Now), NEW v \in Ws
       PROVE  /\ List(x, v) \subseteq x.hung
              /\ \A u \in Tabs : u \in x.own[v] <=> \E r \in List(x, v) : u \in Page(x, r)
  <2>1. /\ List(Now, v) \subseteq hung
        /\ \A u \in Tabs : u \in own[v] <=> \E r \in List(Now, v) : u \in Page(Now, r)
    BY <1>13, NowOK DEF Kept
  <2>2. List(x, v) \subseteq x.hung
    BY <1>6, <1>9, <1>10, <2>1
  <2>3. ASSUME NEW u \in Tabs
        PROVE  (\E r \in List(x, v) : u \in Page(x, r)) <=> \E r \in List(Now, v) : u \in Page(Now, r)
    <3>1. ASSUME NEW r \in List(x, v), u \in Page(x, r)
          PROVE  \E s \in List(Now, v) : u \in Page(Now, s)
      <4>1. r \in List(Now, v) /\ r \in Panes
        BY <1>6, <1>9, <1>12
      <4>2. CASE u \in Page(Now, r)
        BY <4>1, <4>2
      <4>3. CASE u \notin Page(Now, r)
        <5>1. r = q /\ u = t
          BY <1>1, <1>10, <3>1, <4>1, <4>3
        <5>2. v = w
          BY <1>1, <1>13, <4>1, <5>1, PlacesOK
        <5> QED BY <1>1, <5>1, <5>2
      <4> QED BY <4>2, <4>3
    <3>2. ASSUME NEW r \in List(Now, v), u \in Page(Now, r)
          PROVE  \E s \in List(x, v) : u \in Page(x, s)
      <4>1. r \in Panes
        BY <1>12
      <4>2. CASE u = t /\ r = p
        <5>1. v = w
          BY <1>1, <4>2
        <5>2. q \in List(x, v) /\ u \in Page(x, q)
          BY <1>1, <1>6, <1>9, <1>10, <1>13, <4>2, <5>1
        <5> QED BY <5>2
      <4>3. CASE ~(u = t /\ r = p)
        <5>1. u \in Page(x, r)
          BY <1>10, <3>2, <4>1, <4>3
        <5>2. r \in List(x, v)
          BY <1>2, <1>6, <1>9, <1>10, <5>1
        <5> QED BY <5>1, <5>2
      <4> QED BY <4>2, <4>3
    <3> QED BY <3>1, <3>2
  <2> QED BY <1>10, <2>1, <2>2, <2>3
<1>14. ASSUME w = Home(q), Full(Now, idles)
       PROVE  Full(x, Emptied(y, p))
  <2>1. ASSUME NEW v \in Ws PROVE \E r \in List(x, v) : Page(x, r) # {}
    <3>1. CASE v = w
      <4>1. q \in List(x, v) /\ Page(x, q) # {}
        BY <1>1, <1>6, <1>9, <1>10, <1>14, <3>1
      <4> QED BY <4>1
    <3>2. CASE v # w
      <4>1. PICK r \in List(Now, v) : Page(Now, r) # {}
        BY <1>14 DEF Full
      <4>2. r # p /\ r # q
        BY <1>1, <1>14, <3>2, PlacesOK
      <4>3. r \in List(x, v) /\ Page(x, r) = Page(Now, r)
        BY <1>6, <1>9, <1>10, <1>12, <4>1, <4>2
      <4> QED BY <4>1, <4>3
    <3> QED BY <3>1, <3>2
  <2>2. ASSUME NEW r \in x.hung, Page(x, r) = {} PROVE r \in Emptied(y, p)
    <3>1. r \in hung /\ r \in Panes /\ r # q
      BY <1>1, <1>6, <1>10, <2>2
    <3>2. CASE r = p
      <4>1. y.pages[p] = <<>>
        BY <1>2, <1>5, <1>10, <2>2, <3>2
      <4>2. Distinct(y.panes[w], Panes) /\ p \in ToSet(y.panes[w]) /\ q \in ToSet(y.panes[w])
        BY <1>1, <1>3, <1>14 DEF Fits, Lists, List
      <4>3. Len(y.panes[w]) > 1
        BY <4>2, LenOK
      <4> QED BY <3>2, <4>1, <4>3 DEF Emptied, w
    <3>3. CASE r # p
      <4>1. r \in idles
        BY <1>10, <1>14, <2>2, <3>1, <3>3, NowOK DEF Full
      <4> QED BY <4>1 DEF Emptied
    <3> QED BY <3>2, <3>3
  <2> QED BY <2>1, <2>2 DEF Full
<1> QED BY <1>9, <1>11, <1>13, <1>14 DEF Kept, w

LEMMA MovesOK ==
  ASSUME IInv, NEW p \in Open, NEW q \in Panes, NEW t \in ToSet(pages[p]), NEW seen,
         Moves(p, t, q, seen), asking' = asking, current' \in Ws
  PROVE  IInv'
<1> DEFINE y == Removed(Now, p, t)
           z == IF y.pages[p] = <<>> THEN ClosedPane(y, Home(p), p) ELSE y
           x == Moved(p, t, q)
<1>1. p # q /\ q \in Open /\ Settles(x, Crosses(p, q), seen) /\ idles' = Emptied(y, p)
  BY DEF Moves
<1>2. /\ Fits(Now) /\ Open = hung /\ p \in hung /\ q \in hung /\ p \in Panes /\ t \in Page(Now, p)
      /\ t \in Tabs /\ Home(p) \in Ws /\ idles \subseteq Panes
  <2>1. t \in Page(Now, p)
    BY NowOK DEF Page
  <2> QED BY <1>1, <2>1, PlacesOK DEF IInv, Typed
<1>3. x = Added(z, q, Len(z.pages[q]) + 1, t)
  BY DEF Moved, Appended
<1> HIDE DEF y, z, x
<1>4. Fits(y)
  <2>1. Elsewhere(Now, y, p)
    BY <1>2, RemovedOK DEF Fits, y
  <2> QED BY <1>2, <2>1, ElsewhereFits, NowOK
<1>5. z = y \/ (y.pages[p] = <<>> /\ Closes(y, z, Home(p), p))
  BY <1>2, <1>4, ClosedPaneOK DEF z
<1>6. Len(z.pages[q]) + 1 \in 1 .. Len(z.pages[q]) + 1
  <2>1. Fits(z) /\ q \in Panes
    BY <1>4, <1>5 DEF Closes
  <2>2. z.pages[q] \in Seq(Tabs)
    BY <2>1 DEF Fits, Leaves, Distinct
  <2> QED BY <2>2, ListOK
<1>7. /\ Fits(x) /\ From(x)
      /\ Home(p) = Home(q) /\ Kept(Now) => Kept(x)
      /\ Home(p) = Home(q) /\ Full(Now, idles) => Full(x, Emptied(y, p))
  BY <1>1, <1>2, <1>3, <1>5, <1>6, MovedOK DEF y
<1>8. Crosses(p, q) \in SUBSET Events /\ ("crossed" \notin Crosses(p, q) => Home(p) = Home(q))
  BY DEF Crosses, Events
<1>9. "crossed" \notin past \cup Crosses(p, q) => Kept(x)
  BY <1>7, <1>8 DEF IInv, Remembered
<1>10. (past \cup Crosses(p, q)) \cap {"crossed", "hasty"} = {} => Full(x, idles')
  BY <1>1, <1>7, <1>8 DEF IInv, Remembered
<1>11. idles' \in SUBSET Panes
  BY <1>1, <1>2, EmptiedOK
<1> QED BY <1>1, <1>7, <1>8, <1>9, <1>10, <1>11, Settled

LEMMA DragTabOK ==
  ASSUME IInv, NEW p \in Open, NEW q \in Open, DragTab(p, q)
  PROVE  IInv'
<1> DEFINE t == cur[p]
           y == Removed(Now, p, t)
<1>1. /\ p # q /\ Home(q) = Home(p) /\ pages[p] # <<>> /\ idles' = Emptied(y, p)
      /\ asking' = asking /\ current' = current
  BY DEF DragTab, asked
<1>2. PICK i \in 1 .. Len(pages[q]) + 1 : Settles(Added(y, q, i, t), {}, {})
  BY DEF DragTab
<1>3. /\ Fits(Now) /\ p \in hung /\ q \in hung /\ p \in Panes /\ q \in Panes /\ t \in Page(Now, p)
      /\ t \in Tabs /\ idles \subseteq Panes
  <2>1. Fits(Now) /\ p \in hung /\ q \in hung /\ p \in Panes /\ q \in Panes /\ idles \subseteq Panes
    BY PlacesOK DEF IInv, Typed
  <2>2. t \in Page(Now, p)
    BY <1>1, <2>1, NowOK DEF Fits, Leaves, Shows
  <2> QED BY <2>1, <2>2, PlacesOK
<1> HIDE DEF y, t
<1>4. y.pages[q] = pages[q]
  <2>1. Elsewhere(Now, y, p)
    BY <1>3, RemovedOK DEF Fits, y
  <2> QED BY <1>1, <1>3, <2>1, NowOK DEF Elsewhere
<1> DEFINE x == Added(y, q, i, t)
<1>5. i \in 1 .. Len(y.pages[q]) + 1
  BY <1>4
<1> HIDE DEF x
<1>6. /\ Fits(x) /\ From(x)
      /\ Kept(Now) => Kept(x)
      /\ Full(Now, idles) => Full(x, Emptied(y, p))
  BY <1>1, <1>3, <1>5, MovedOK DEF x, y
<1>7. idles' \in SUBSET Panes
  BY <1>1, <1>3, EmptiedOK
<1>8. Settles(x, {}, {}) /\ current' \in Ws
  BY <1>1, <1>2 DEF IInv, Typed, x
<1> QED BY <1>1, <1>6, <1>7, <1>8, Rests

\* on_notebook_page_reordered: the tabs are those there were.
LEMMA ReorderOK ==
  ASSUME IInv, NEW p \in Open, Reorder(p)
  PROVE  IInv'
<1> DEFINE c == cur[p]
           rest == Without(pages[p], c)
<1>1. PICK i \in DOMAIN pages[p] : pages' = [pages EXCEPT ![p] = InsertAt(rest, i, c)]
  BY DEF Reorder
<1>2. /\ panes' = panes /\ hung' = hung /\ cur' = cur /\ own' = own /\ current' = current
      /\ asking' = asking /\ editing' = editing /\ flagged' = flagged /\ flash' = flash
      /\ ticking' = ticking /\ idles' = idles /\ past' = past /\ Len(pages[p]) > 1
  BY DEF Reorder, edits, flashes, asked
<1>3. /\ Fits(Now) /\ Open = hung /\ OnPage = On(Now) /\ p \in hung /\ p \in Panes
      /\ Distinct(pages[p], Tabs) /\ Shows(Now, p)
  BY PlacesOK, NowOK DEF IInv, Typed, Fits, Leaves
<1>4. pages[p] \in Seq(Tabs) /\ Len(pages[p]) \in Nat /\ DOMAIN pages[p] = 1 .. Len(pages[p])
  BY <1>3, ListOK DEF Distinct
<1>5. c \in ToSet(pages[p]) /\ c \in Tabs
  <2>1. pages[p] # <<>>
    BY <1>2, <1>4, ListOK
  <2>2. c \in ToSet(pages[p])
    BY <1>3, <2>1, NowOK DEF Shows, Page
  <2> QED BY <1>4, <2>2, ListOK
<1>6. Distinct(rest, Tabs) /\ ToSet(rest) = ToSet(pages[p]) \ {c} /\ Len(pages[p]) = Len(rest) + 1
  BY <1>3, <1>5, WithoutOK
<1> DEFINE s == InsertAt(rest, i, c)
<1> HIDE DEF rest, c
<1>7. Distinct(s, Tabs) /\ ToSet(s) = ToSet(pages[p])
  <2>1. i \in 1 .. Len(rest) + 1
    BY <1>4, <1>6
  <2>2. Distinct(s, Tabs) /\ ToSet(s) = ToSet(rest) \cup {c}
    BY <1>5, <1>6, <2>1, InsertOK
  <2> QED BY <1>5, <1>6, <2>2
<1> HIDE DEF s
<1> DEFINE x == Put(Now, p, s, c)
<1>8. Elsewhere(Now, x, p) /\ x.pages[p] = s /\ Page(x, p) = Page(Now, p)
  <2>1. s # <<>> /\ c \in ToSet(s)
    BY <1>5, <1>7, ListOK DEF Distinct
  <2>2. \A q \in Panes \ {p} : Page(Now, q) \cap ToSet(s) = {}
    BY <1>3, <1>7, NowOK DEF Fits, Leaves, Page
  <2>3. Now \in Layouts /\ Leaves(Now) /\ Page(Now, p) = ToSet(pages[p])
    BY <1>3, NowOK DEF Fits, Page
  <2> QED BY <1>3, <1>7, <2>1, <2>2, <2>3, PutOK
<1>9. /\ Fits(x) /\ \A w \in Ws : List(x, w) = List(Now, w)
      /\ \A q \in Panes : Page(x, q) = Page(Now, q)
      /\ x.own = own /\ x.panes = panes /\ x.hung = hung
  <2>1. \A q \in Panes : Page(x, q) = Page(Now, q)
    BY <1>8 DEF Elsewhere, Page
  <2> QED BY <1>3, <1>8, <2>1, ElsewhereFits, NowOK DEF Elsewhere
<1>10. x.pages = pages' /\ x.cur = cur'
  <2>1. Now \in Layouts /\ pages \in [Panes -> Seq(Tabs)] /\ cur \in [Panes -> Tabs \cup {None}]
    BY <1>3, NowOK DEF Fits, Layouts
  <2>2. x.pages = [pages EXCEPT ![p] = s] /\ x.cur = [cur EXCEPT ![p] = c]
    BY <2>1, NowOK DEF Layouts, Put
  <2>3. [cur EXCEPT ![p] = c] = cur
    BY <2>1 DEF c
  <2> QED BY <1>1, <1>2, <2>2, <2>3 DEF s
<1> HIDE DEF x
<1>11. Now' = x
  BY <1>2, <1>9, <1>10, OpenOK DEF Now
<1>12. Open' = Open /\ OnPage' = OnPage /\ Owned' = Owned
  <2>1. On(x) = On(Now)
    BY <1>9 DEF On
  <2>2. Open' = x.hung /\ OnPage' = On(x)
    BY <1>2, <1>9, <1>10, OpenOK DEF Open, OnPage, Listed
  <2> QED BY <1>2, <1>3, <1>9, <2>1, <2>2 DEF Owned
<1>13. Typed'
  <2>1. Fits(Now)'
    BY <1>9, <1>11
  <2> QED BY <1>2, <1>12, <2>1 DEF IInv, Typed
<1>14. Asks'
  BY <1>2, <1>3, AsksOn, FromNow, NowOK DEF IInv
<1>15. FlashTicks'
  BY <1>2, <1>12 DEF IInv, FlashTicks
<1>16. FlagFits'
  <2> SUFFICES ASSUME "strayed" \notin past, NEW q \in flagged
               PROVE  q \in Open /\ editing \in ToSet(x.pages[q])
    BY <1>2, <1>10, <1>12 DEF FlagFits
  <2>1. q \in Open /\ editing \in Page(Now, q)
    BY NowOK DEF IInv, FlagFits, Page
  <2>2. q \in Panes
    BY <1>3, <2>1, PlacesOK
  <2> QED BY <1>9, <2>1, <2>2 DEF Page
<1>17. Kept(Now) => Kept(x)
  <2>1. \A w \in Ws : List(Now, w) \subseteq Panes
    BY <1>3, ListIn
  <2> QED BY <1>9, <2>1, NowOK DEF Kept
<1>18. Full(Now, idles) => Full(x, idles)
  <2>1. hung \subseteq Panes /\ \A w \in Ws : List(Now, w) \subseteq Panes
    BY <1>3, ListIn, NowOK
  <2> QED BY <1>9, <2>1, NowOK DEF Full
<1>19. Remembered'
  BY <1>2, <1>11, <1>17, <1>18 DEF IInv, Remembered
<1> QED BY <1>13, <1>14, <1>15, <1>16, <1>19 DEF IInv

-----------------------------------------------------------------------------
(* Tabs are shown                                                          *)

LEMMA ShownOK ==
  ASSUME IInv, NEW p \in Open, NEW t \in ToSet(pages[p]), NEW seen,
         Settles([Now EXCEPT !.cur[p] = t], {}, seen),
         idles' = idles, asking' = asking, current' \in Ws
  PROVE  IInv'
<1> DEFINE x == [Now EXCEPT !.cur[p] = t]
<1>1. /\ Fits(Now) /\ p \in Panes /\ t \in Page(Now, p) /\ t \in Tabs /\ OnPage = On(Now)
      /\ idles \subseteq Panes
  <2>1. t \in Page(Now, p)
    BY NowOK DEF Page
  <2> QED BY <2>1, PlacesOK DEF IInv, Typed
<1>2. /\ x \in Layouts /\ x.panes = panes /\ x.hung = hung /\ x.pages = pages /\ x.own = own
      /\ x.cur = [cur EXCEPT ![p] = t]
  BY <1>1, NowOK DEF Fits, Layouts
<1>3. \A q \in Panes : x.cur[q] = IF q = p THEN t ELSE cur[q]
  BY <1>1, <1>2, NowOK DEF Fits, Layouts
<1> HIDE DEF x
<1>4. /\ \A q \in Panes : Page(x, q) = Page(Now, q)
      /\ \A w \in Ws : List(x, w) = List(Now, w)
  BY <1>2, NowOK DEF Page, List
<1>5. Leaves(x)
  <2>1. ASSUME NEW q \in Panes PROVE Shows(x, q)
    <3>1. CASE q = p
      <4>1. x.pages[p] # <<>>
        BY <1>1, <1>2, ListOK, NowOK DEF Page, Fits, Leaves, Distinct
      <4> QED BY <1>1, <1>3, <1>4, <3>1, <4>1 DEF Shows
    <3>2. CASE q # p
      BY <1>1, <1>2, <1>3, <1>4, <3>2, NowOK DEF Shows, Fits, Leaves
    <3> QED BY <3>1, <3>2
  <2> QED BY <1>1, <1>2, <1>4, <2>1, NowOK DEF Fits, Leaves
<1>6. Fits(x)
  BY <1>1, <1>2, <1>4, <1>5, NowOK DEF Fits, Lists
<1>7. From(x)
  <2>1. \A v \in Ws : x.own[v] \subseteq own[v] /\ List(x, v) \subseteq Listed(v)
    BY <1>2, <1>4, NowOK
  <2> QED BY <1>1, <1>4, <2>1, FromLess
<1>8. Kept(Now) => Kept(x)
  <2>1. \A w \in Ws : List(Now, w) \subseteq Panes
    BY <1>1, ListIn
  <2> QED BY <1>2, <1>4, <2>1, NowOK DEF Kept
<1>9. Full(Now, idles) => Full(x, idles)
  <2>1. hung \subseteq Panes /\ \A w \in Ws : List(Now, w) \subseteq Panes
    BY <1>1, ListIn, NowOK
  <2> QED BY <1>2, <1>4, <2>1, NowOK DEF Full
<1>10. Settles(x, {}, seen)
  BY DEF x
<1> QED BY <1>1, <1>6, <1>7, <1>8, <1>9, <1>10, Rests

-----------------------------------------------------------------------------
(* The theorems                                                            *)

LEMMA InitOK == Init => IInv
<1> SUFFICES ASSUME Init PROVE IInv
  OBVIOUS
<1> DEFINE f == CHOOSE f \in [Ws -> Panes] : IsInjective(f)
           g == CHOOSE g \in [Ws -> Tabs] : IsInjective(g)
<1>1. /\ f \in [Ws -> Panes] /\ IsInjective(f) /\ g \in [Ws -> Tabs] /\ IsInjective(g)
      /\ None \notin Tabs
  BY WidgetsAssumption
<1>2. /\ panes = [w \in Ws |-> <<f[w]>>] /\ hung = {f[w] : w \in Ws}
      /\ pages = [q \in Panes |-> IF \E w \in Ws : f[w] = q
                                  THEN <<g[CHOOSE w \in Ws : f[w] = q]>> ELSE <<>>]
      /\ own = [w \in Ws |-> {g[w]}]
      /\ cur = [q \in Panes |-> IF pages[q] = <<>> THEN None ELSE pages[q][1]]
      /\ current \in Ws /\ editing = None /\ flagged = {} /\ flash = {} /\ ticking = FALSE
      /\ asking = NoDialog /\ idles = {} /\ past = {}
  BY DEF Init
<1> HIDE DEF f, g
<1>3. \A w \in Ws, v \in Ws : (f[w] = f[v] => w = v) /\ (g[w] = g[v] => w = v)
  BY <1>1 DEF IsInjective
<1>4. ASSUME NEW S, NEW e \in S
      PROVE  Distinct(<<e>>, S) /\ ToSet(<<e>>) = {e} /\ <<e>> # <<>> /\ <<e>>[1] = e
  <2>1. <<e>> \in Seq(S) /\ DOMAIN <<e>> = {1} /\ <<e>>[1] = e
    OBVIOUS
  <2> QED BY <2>1 DEF Distinct, IsInjective, ToSet
<1>5. Distinct(<<>>, Tabs) /\ ToSet(<<>>) = {}
  <2>1. <<>> \in Seq(Tabs) /\ IsInjective(<<>>)
    BY DEF IsInjective
  <2> QED BY <2>1, ListOK DEF Distinct
<1>6. \A w \in Ws : /\ f[w] \in Panes /\ g[w] \in Tabs
                    /\ pages[f[w]] = <<g[w]>> /\ cur[f[w]] = g[w]
  <2> SUFFICES ASSUME NEW w \in Ws
               PROVE  /\ f[w] \in Panes /\ g[w] \in Tabs
                      /\ pages[f[w]] = <<g[w]>> /\ cur[f[w]] = g[w]
    OBVIOUS
  <2>1. f[w] \in Panes /\ g[w] \in Tabs
    BY <1>1
  <2>2. (CHOOSE v \in Ws : f[v] = f[w]) = w
    BY <1>3
  <2>3. pages[f[w]] = <<g[w]>>
    BY <1>2, <2>1, <2>2
  <2>4. cur[f[w]] = g[w]
    BY <1>2, <1>4, <2>1, <2>3
  <2> QED BY <2>1, <2>3, <2>4
<1>7. \A q \in Panes : (\A w \in Ws : f[w] # q) => pages[q] = <<>> /\ cur[q] = None
  BY <1>2
<1>8. \A w \in Ws : List(Now, w) = {f[w]} /\ Page(Now, f[w]) = {g[w]} /\ own[w] = {g[w]}
  <2> SUFFICES ASSUME NEW w \in Ws
               PROVE  List(Now, w) = {f[w]} /\ Page(Now, f[w]) = {g[w]} /\ own[w] = {g[w]}
    OBVIOUS
  <2>1. panes[w] = <<f[w]>> /\ own[w] = {g[w]}
    BY <1>2
  <2>2. ToSet(<<f[w]>>) = {f[w]} /\ ToSet(<<g[w]>>) = {g[w]}
    BY <1>4
  <2> QED BY <1>6, <2>1, <2>2, NowOK DEF List, Page
<1>9. \A q \in Panes : (\A w \in Ws : f[w] # q) => Page(Now, q) = {}
  BY <1>5, <1>7, NowOK DEF Page
<1>10. \A q \in Panes : Distinct(pages[q], Tabs) /\ Shows(Now, q)
  <2> SUFFICES ASSUME NEW q \in Panes PROVE Distinct(pages[q], Tabs) /\ Shows(Now, q)
    OBVIOUS
  <2>1. CASE \E w \in Ws : f[w] = q
    <3>1. PICK w \in Ws : f[w] = q
      BY <2>1
    <3>2. Distinct(pages[q], Tabs) /\ pages[q] # <<>> /\ cur[q] \in Page(Now, q)
      <4>1. g[w] \in Tabs /\ pages[q] = <<g[w]>> /\ cur[q] = g[w] /\ Page(Now, q) = {g[w]}
        BY <1>6, <1>8, <3>1
      <4> QED BY <1>4, <4>1
    <3> QED BY <3>2, NowOK DEF Shows
  <2>2. CASE \A w \in Ws : f[w] # q
    BY <1>5, <1>7, <2>2, NowOK DEF Shows
  <2> QED BY <2>1, <2>2
<1>11. Fits(Now)
  <2>1. Now \in Layouts
    <3>1. panes \in [Ws -> Seq(Panes)] /\ own \in [Ws -> SUBSET Tabs] /\ hung \in SUBSET Panes
      <4>1. \A w \in Ws : <<f[w]>> \in Seq(Panes) /\ {g[w]} \in SUBSET Tabs
        BY <1>6
      <4> QED BY <1>2, <1>6, <4>1
    <3>2. pages \in [Panes -> Seq(Tabs)]
      BY <1>2, <1>10 DEF Distinct
    <3>3. cur \in [Panes -> Tabs \cup {None}]
      <4>1. \A q \in Panes : cur[q] \in Tabs \cup {None}
        BY <1>6, <1>7
      <4> QED BY <1>2, <4>1
    <3> QED BY <3>1, <3>2, <3>3 DEF Layouts, Now
  <2>2. Leaves(Now)
    <3>1. ASSUME NEW q \in Panes, NEW r \in Panes, q # r
          PROVE  Page(Now, q) \cap Page(Now, r) = {}
      BY <1>3, <1>8, <1>9, <3>1
    <3> QED BY <1>10, <3>1, NowOK DEF Leaves
  <2>3. Lists(Now)
    <3>1. \A w \in Ws : panes[w] # <<>> /\ Distinct(panes[w], Panes)
      BY <1>2, <1>4, <1>6
    <3>2. \A w, v \in Ws : w # v => List(Now, w) \cap List(Now, v) = {} /\ own[w] \cap own[v] = {}
      BY <1>3, <1>8
    <3>3. \A q \in hung : \E w \in Ws : q \in List(Now, w)
      BY <1>2, <1>8
    <3> QED BY <3>1, <3>2, <3>3, NowOK DEF Lists
  <2>4. \A q \in Panes \ hung : pages[q] = <<>>
    BY <1>2, <1>7
  <2> QED BY <2>1, <2>2, <2>3, <2>4, NowOK DEF Fits
<1>12. Kept(Now) /\ Full(Now, idles)
  <2>1. ASSUME NEW w \in Ws
        PROVE  /\ List(Now, w) \subseteq hung
               /\ \A t \in Tabs : t \in own[w] <=> \E p \in List(Now, w) : t \in Page(Now, p)
               /\ \E p \in List(Now, w) : Page(Now, p) # {}
    <3>1. List(Now, w) = {f[w]} /\ Page(Now, f[w]) = {g[w]} /\ own[w] = {g[w]} /\ f[w] \in hung
      BY <1>2, <1>8
    <3> QED BY <3>1
  <2>2. \A p \in hung : Page(Now, p) # {}
    BY <1>2, <1>8
  <2> QED BY <2>1, <2>2, NowOK DEF Kept, Full
<1>13. Typed /\ Asks /\ FlashTicks /\ FlagFits
  BY <1>2, <1>11 DEF Typed, Asks, FlashTicks, FlagFits
<1> QED BY <1>12, <1>13 DEF IInv, Remembered

\* The dialog of the close button is confirmed, or closes nothing.
ButtonStep ==
    asking.kind = "tab" /\ asking'.kind = "none" => OnPage \ OnPage' \subseteq {asking.tab}

LEMMA NextOK ==
  ASSUME IInv, Next
  PROVE  IInv' /\ ButtonStep
<1>1. Fits(Now) /\ Open = hung /\ current \in Ws /\ \A p \in Open : Home(p) \in Ws /\ p \in Panes
  BY PlacesOK DEF IInv, Typed
<1>2. ASSUME asking' = asking \/ asking = NoDialog PROVE ButtonStep
  BY <1>2 DEF ButtonStep, NoDialog
<1>3. ASSUME NEW p \in Open, NewTab(Home(p), p) PROVE IInv' /\ ButtonStep
  BY <1>2, <1>3, NewTabOK DEF NewTab, asked
<1>4. ASSUME NEW p \in Open, ClosePane(Home(p), p) PROVE IInv' /\ ButtonStep
  BY <1>2, <1>4, ClosePaneOK DEF ClosePane, asked
<1>5. ASSUME NEW p \in Open, AskKey(p) PROVE IInv' /\ ButtonStep
  BY <1>2, <1>5, AskKeyOK DEF AskKey, Hands
<1>6. ASSUME NEW p \in Open, Reorder(p) PROVE IInv' /\ ButtonStep
  BY <1>2, <1>6, ReorderOK DEF Reorder, asked
<1>7. ASSUME \/ Cancel \/ ClosePicker \/ \E p \in Open : OpenPicker(p)
             \/ \E w \in Ws : SwitchWorkspace(w)
      PROVE  IInv' /\ ButtonStep
  <2>1. IInv' /\ OnPage' = OnPage
    BY <1>7, QuietOK, StillOK
  <2> QED BY <2>1 DEF ButtonStep
<1>8. ASSUME NEW p \in Open, SelectTab(p) PROVE IInv' /\ ButtonStep
  <2>1. PICK t \in ToSet(pages[p]) : Settles([Now EXCEPT !.cur[p] = t], {}, {})
    BY <1>8 DEF SelectTab
  <2>2. current' = current /\ asking' = asking /\ idles' = idles
    BY <1>8 DEF SelectTab, asked
  <2> QED BY <1>1, <1>2, <2>1, <2>2, ShownOK
<1>9. ASSUME NEW p \in Open, SelectElsewhere(p) PROVE IInv' /\ ButtonStep
  <2>1. PICK t \in ToSet(pages[p]), s \in Seen(Home(p)) :
            Settles([Now EXCEPT !.cur[p] = t], {}, {s})
    BY <1>9 DEF SelectElsewhere
  <2>2. current' = Home(p) /\ asking' = asking /\ idles' = idles
    BY <1>9 DEF SelectElsewhere, asked
  <2> QED BY <1>1, <1>2, <2>1, <2>2, ShownOK
<1>10. ASSUME NEW q \in Open, Pick(q) PROVE IInv' /\ ButtonStep
  <2>1. /\ Source \in Open /\ picker.tab \in DOMAIN pages[Source]
        /\ Moves(Source, PickedTab, q, {PickedTab})
        /\ current' = Home(q) /\ asking' = asking
    BY <1>10 DEF Pick
  <2>2. PickedTab \in ToSet(pages[Source])
    BY <2>1 DEF PickedTab, ToSet
  <2> QED BY <1>1, <1>2, <2>1, <2>2, MovesOK
<1>11. ASSUME NEW p \in Open, NEW q \in Open, MoveTab(p, q) PROVE IInv' /\ ButtonStep
  <2>1. PICK t \in ToSet(pages[p]) : Moves(p, t, q, {})
    BY <1>11 DEF MoveTab
  <2>2. current' = current /\ asking' = asking
    BY <1>11 DEF MoveTab, asked
  <2> QED BY <1>1, <1>2, <2>1, <2>2, MovesOK
<1>12. ASSUME NEW p \in Open, NEW q \in Open, DragTab(p, q) PROVE IInv' /\ ButtonStep
  BY <1>2, <1>12, DragTabOK DEF DragTab, asked
<1>13. ASSUME NEW p \in Open, NEW w \in Ws, DropOnRow(p, w) PROVE IInv' /\ ButtonStep
  <2>1. PICK t \in ToSet(pages[p]), s \in Seen(w) : Moves(p, t, panes[w][1], {s})
    BY <1>13 DEF DropOnRow
  <2>2. panes[w][1] \in Open /\ current' = w /\ asking' = asking
    BY <1>13 DEF DropOnRow, asked
  <2> QED BY <1>1, <1>2, <2>1, <2>2, MovesOK
<1>14. ASSUME NEW p \in Panes, ClosePaneIdle(p) PROVE IInv' /\ ButtonStep
  BY <1>2, <1>14, ClosePaneIdleOK DEF ClosePaneIdle, asked
<1>15. ASSUME NEW w \in Ws, NewPane(w) PROVE IInv' /\ ButtonStep
  BY <1>2, <1>15, NewPaneOK DEF NewPane, asked
<1>16. ASSUME NEW w \in Ws, NEW t \in Tabs, Notify(w, t) PROVE IInv' /\ ButtonStep
  BY <1>2, <1>16, NotifyOK DEF Notify, asked
<1>17. ASSUME NEW t \in Tabs, AskButton(t) PROVE IInv' /\ ButtonStep
  BY <1>2, <1>17, AskButtonOK DEF AskButton, Hands
<1>18. ASSUME FinishRename \/ \E t \in Tabs : StartRename(t) PROVE IInv' /\ ButtonStep
  <2>1. asking' = asking
    BY <1>18 DEF FinishRename, StartRename, asked
  <2> QED BY <1>2, <1>18, <2>1, RenameOK
<1>19. ASSUME Tick PROVE IInv' /\ ButtonStep
  BY <1>2, <1>19, TickOK DEF Tick, asked
<1>20. ASSUME Confirm PROVE IInv' /\ ButtonStep
  BY <1>20, ConfirmOK DEF ButtonStep
<1> QED
  BY <1>3, <1>4, <1>5, <1>6, <1>7, <1>8, <1>9, <1>10, <1>11, <1>12, <1>13, <1>14, <1>15, <1>16,
     <1>17, <1>18, <1>19, <1>20 DEF Next

LEMMA StutterOK ==
  ASSUME IInv, UNCHANGED vars
  PROVE  IInv' /\ ButtonStep
<1>1. /\ UNCHANGED <<layout, edits, ticking, idles, past>> /\ flash' = flash
      /\ asking' = asking /\ current' = current
  BY DEF vars, flashes, asked
<1>2. Asks'
  BY <1>1, AsksStill
<1>3. OnPage' = OnPage
  BY <1>1, StillOK
<1> QED BY <1>1, <1>2, <1>3, StillOpen DEF IInv, Typed, ButtonStep

\* The inductive invariant: no pane and no terminal has two workspaces, no tab
\* two panes; an open dialog names the workspace of its tab, and what the panes
\* show is what their workspaces own as long as no tab crossed.
THEOREM Invariant == Spec => []IInv
<1>1. IInv /\ [Next]_vars => IInv'
  BY NextOK, StutterOK
<1> QED BY InitOK, <1>1, PTL DEF Spec

\* The types of Tabs, with what a layout must be: no tab twice, no pane twice,
\* and a notebook shows one of its pages.
THEOREM TypeCorrect == Spec => []TypeOK
<1>1. IInv => TypeOK
  <2> SUFFICES ASSUME IInv PROVE TypeOK
    OBVIOUS
  <2>1. Fits(Now) /\ Open = hung
    BY PlacesOK DEF IInv, Typed
  <2>2. /\ panes \in [Ws -> Seq(Panes)] /\ pages \in [Panes -> Seq(Tabs)]
        /\ hung \in SUBSET Panes /\ cur \in [Panes -> Tabs \cup {None}]
        /\ own \in [Ws -> SUBSET Tabs]
    BY <2>1, NowOK DEF Fits, Layouts
  <2>3. \A p, q \in Panes : p # q => ToSet(pages[p]) \cap ToSet(pages[q]) = {}
    BY <2>1, NowOK DEF Fits, Leaves, Page
  <2>4. ASSUME NEW p \in Panes
        PROVE  /\ IsInjective(pages[p])
               /\ IF pages[p] = <<>> THEN cur[p] = None ELSE cur[p] \in ToSet(pages[p])
               /\ p \notin Open => pages[p] = <<>>
    BY <2>1, NowOK DEF Fits, Leaves, Distinct, Shows, Page
  <2>5. \A w \in Ws : IsInjective(panes[w]) /\ ("crossed" \notin past => Listed(w) \subseteq hung)
    BY <2>1, NowOK DEF Fits, Lists, Distinct, IInv, Remembered, Kept
  <2>6. \A w, v \in Ws : w # v => Listed(w) \cap Listed(v) = {} /\ own[w] \cap own[v] = {}
    BY <2>1, NowOK DEF Fits, Lists
  <2> QED BY <2>2, <2>3, <2>4, <2>5, <2>6 DEF IInv, Typed, TypeOK
<1> QED BY Invariant, <1>1, PTL

\* As long as tabs stay in their workspace and no close overtakes a queued one,
\* every workspace keeps its terminals and a tab, and an emptied pane has its
\* close queued: for any number of workspaces, panes and tabs, whatever dialogs,
\* drags, pickers and commands come in between.
THEOREM KeepsTabs == Spec => []PanesFilled
<1>1. IInv => PanesFilled
  <2> SUFFICES ASSUME IInv, past \cap {"crossed", "hasty"} = {}
               PROVE  /\ TabsTracked /\ \A w \in Ws : Shown(w) # {}
                      /\ {p \in Open : pages[p] = <<>>} \subseteq idles
    BY DEF PanesFilled
  <2>1. Kept(Now) /\ Full(Now, idles) /\ Fits(Now)
    BY DEF IInv, Remembered, Typed
  <2>2. \A w \in Ws : List(Now, w) \subseteq Panes
    BY <2>1, ListIn
  <2>3. \A p \in Panes : Page(Now, p) \subseteq Tabs /\ (pages[p] = <<>> => Page(Now, p) = {})
    BY <2>1, ListOK, NowOK DEF Fits, Leaves, Distinct, Page
  <2>4. \A w \in Ws : Shown(w) = UNION {Page(Now, p) : p \in List(Now, w)}
    BY NowOK DEF Shown, Page
  <2>5. ASSUME NEW w \in Ws PROVE own[w] = Shown(w)
    <3>1. own[w] \subseteq Tabs /\ Shown(w) \subseteq Tabs
      BY <2>1, <2>2, <2>3, <2>4, NowOK DEF Fits, Layouts
    <3>2. \A t \in Tabs : t \in own[w] <=> t \in Shown(w)
      BY <2>1, <2>4, NowOK DEF Kept
    <3> QED BY <3>1, <3>2
  <2>6. \A w \in Ws : Shown(w) # {}
    BY <2>1, <2>4 DEF Full
  <2>7. {p \in Open : pages[p] = <<>>} \subseteq idles
    BY <2>1, <2>3, PlacesOK, NowOK DEF Full
  <2> QED BY <2>5, <2>6, <2>7 DEF TabsTracked
<1> QED BY Invariant, <1>1, PTL

\* The timer runs as long as a tab that is on a page should blink.
THEOREM KeepsBlinking == Spec => []FlashTicks
<1>1. IInv => FlashTicks
  BY DEF IInv
<1> QED BY Invariant, <1>1, PTL

\* A flagged notebook is the one with the edited tab, unless that tab left.
THEOREM FlagsFollow == Spec => []FlagFits
<1>1. IInv => FlagFits
  BY DEF IInv
<1> QED BY Invariant, <1>1, PTL

\* Whatever moves while the dialog of a close button is up, its answer closes the
\* tab it was asked about or none.
THEOREM ClosesWhatWasAsked == Spec => ButtonClosesAsked
<1>1. IInv /\ [Next]_vars => [asking.kind = "tab" /\ asking'.kind = "none"
                                => OnPage \ OnPage' \subseteq {asking.tab}]_<<panes, hung, pages, asking>>
  BY NextOK, StutterOK DEF ButtonStep
<1> QED BY Invariant, <1>1, PTL DEF Spec, ButtonClosesAsked

=============================================================================
