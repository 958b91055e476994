-------------------------- MODULE PanedTree_proofs --------------------------
(***************************************************************************)
(* Lemmas about lists and about the operators of PanedTree: what an insert  *)
(* and a remove do to a sequence, that splits, closes and chains give every *)
(* pane a place, that they keep a tree whole and the panes that stay in     *)
(* their order, and that Before orders the panes of a tree.                 *)
(***************************************************************************)
EXTENDS PanedTree, SequenceTheorems, WellFoundedInduction, FiniteSetTheorems, TLAPS

-----------------------------------------------------------------------------
(* Lists, and the trees of PanedTree                                       *)

LEMMA InsertAtOK ==
  ASSUME NEW S, NEW s \in Seq(S), NEW i \in 1 .. Len(s) + 1, NEW e \in S
  PROVE  /\ InsertAt(s, i, e) \in Seq(S)
         /\ Len(InsertAt(s, i, e)) = Len(s) + 1
         /\ \A j \in 1 .. Len(s) + 1 :
               InsertAt(s, i, e)[j] =
                  IF j < i THEN s[j] ELSE IF j = i THEN e ELSE s[j - 1]
<1> DEFINE a == SubSeq(s, 1, i - 1)
           b == SubSeq(s, i, Len(s))
<1>1. a \in Seq(S) /\ Len(a) = i - 1 /\ \A j \in 1 .. i - 1 : a[j] = s[j]
  BY SubSeqProperties
<1>2. /\ b \in Seq(S) /\ Len(b) = Len(s) - i + 1
      /\ \A j \in 1 .. Len(s) - i + 1 : b[j] = s[i + j - 1]
  BY SubSeqProperties
<1> HIDE DEF a, b
<1>3. <<e>> \in Seq(S) /\ Len(<<e>>) = 1 /\ <<e>>[1] = e
  OBVIOUS
<1> DEFINE ae == a \o <<e>>
<1>4. /\ ae \in Seq(S) /\ Len(ae) = i
      /\ \A j \in 1 .. i : ae[j] = IF j < i THEN s[j] ELSE e
  <2>1. /\ ae \in Seq(S) /\ Len(ae) = Len(a) + 1
        /\ \A j \in 1 .. Len(a) + 1 :
              ae[j] = IF j <= Len(a) THEN a[j] ELSE <<e>>[j - Len(a)]
    BY <1>1, <1>3, ConcatProperties
  <2> HIDE DEF ae
  <2> QED
    BY <2>1, <1>1, <1>3
<1>5. InsertAt(s, i, e) = ae \o b
  BY DEF InsertAt, a, b
<1> HIDE DEF ae
<1>6. /\ ae \o b \in Seq(S) /\ Len(ae \o b) = Len(ae) + Len(b)
      /\ \A j \in 1 .. Len(ae) + Len(b) :
            (ae \o b)[j] = IF j <= Len(ae) THEN ae[j] ELSE b[j - Len(ae)]
  BY <1>2, <1>4, ConcatProperties
<1> QED
  BY <1>2, <1>4, <1>5, <1>6

LEMMA RemoveAtOK ==
  ASSUME NEW S, NEW s \in Seq(S), NEW i \in 1 .. Len(s)
  PROVE  /\ RemoveAt(s, i) \in Seq(S)
         /\ Len(RemoveAt(s, i)) = Len(s) - 1
         /\ \A j \in 1 .. Len(s) - 1 :
               RemoveAt(s, i)[j] = IF j < i THEN s[j] ELSE s[j + 1]
<1> DEFINE a == SubSeq(s, 1, i - 1)
           b == SubSeq(s, i + 1, Len(s))
<1>1. a \in Seq(S) /\ Len(a) = i - 1 /\ \A j \in 1 .. i - 1 : a[j] = s[j]
  BY SubSeqProperties
<1>2. /\ b \in Seq(S) /\ Len(b) = Len(s) - i
      /\ \A j \in 1 .. Len(s) - i : b[j] = s[i + j]
  BY SubSeqProperties
<1> HIDE DEF a, b
<1>3. /\ a \o b \in Seq(S) /\ Len(a \o b) = Len(a) + Len(b)
      /\ \A j \in 1 .. Len(a) + Len(b) :
            (a \o b)[j] = IF j <= Len(a) THEN a[j] ELSE b[j - Len(a)]
  BY <1>1, <1>2, ConcatProperties
<1>4. RemoveAt(s, i) = a \o b
  BY DEF RemoveAt, a, b
<1> DEFINE ab == a \o b
<1>5. ab \in Seq(S) /\ Len(ab) = Len(s) - 1
  BY <1>1, <1>2, <1>3
<1>6. ASSUME NEW j \in 1 .. Len(s) - 1
      PROVE  ab[j] = IF j < i THEN s[j] ELSE s[j + 1]
  <2>1. ab[j] = IF j <= Len(a) THEN a[j] ELSE b[j - Len(a)]
    BY <1>1, <1>2, <1>3
  <2> HIDE DEF ab
  <2>2. CASE j < i
    <3>1. j \in 1 .. i - 1 /\ j <= Len(a)
      BY <1>1, <2>2
    <3> QED
      BY <1>1, <2>1, <2>2, <3>1
  <2>3. CASE ~(j < i)
    <3>1. /\ ~(j <= Len(a)) /\ j - Len(a) \in 1 .. Len(s) - i
          /\ i + (j - Len(a)) = j + 1
      BY <1>1, <2>3
    <3> QED
      BY <1>2, <2>1, <2>3, <3>1
  <2> QED
    BY <2>2, <2>3
<1> HIDE DEF ab
<1>7. RemoveAt(s, i) = ab
  BY <1>4 DEF ab
<1> QED
  BY <1>5, <1>6, <1>7

LEMMA AppendOK ==
  ASSUME NEW S, NEW s \in Seq(S), NEW e \in S
  PROVE  /\ Append(s, e) \in Seq(S)
         /\ Len(Append(s, e)) = Len(s) + 1
         /\ \A j \in 1 .. Len(s) + 1 :
               Append(s, e)[j] = IF j <= Len(s) THEN s[j] ELSE e
OBVIOUS

LEMMA ToSetOK ==
  ASSUME NEW S, NEW s \in Seq(S)
  PROVE  ToSet(s) \subseteq S /\ \A i \in 1 .. Len(s) : s[i] \in ToSet(s)
BY DEF ToSet

-----------------------------------------------------------------------------
(* Places *)

LEMMA PlaceOK ==
  ASSUME NEW R, NEW r \in R, NEW path \in Path
  PROVE  At(r, path) \in Place(R)
BY DEF At, Place

LEMMA PlaceFields ==
  ASSUME NEW R, NEW x \in Place(R)
  PROVE  x.root \in R /\ x.path \in Path
BY DEF Place

LEMMA SplitLeafOK ==
  ASSUME NEW R, NEW S, NEW pl \in [S -> Place(R)], NEW p \in S, NEW q
  PROVE  SplitLeaf(pl, p, q) \in [S \cup {q} -> Place(R)]
<1>1. \A x \in S : pl[x] \in Place(R) /\ pl[x].root \in R /\ pl[x].path \in Path
  BY PlaceFields
<1>2. \A side \in {"s", "e"} : Append(pl[p].path, side) \in Path
  BY <1>1 DEF Path
<1>3. \A side \in {"s", "e"} : At(pl[p].root, Append(pl[p].path, side)) \in Place(R)
  BY <1>1, <1>2, PlaceOK
<1> QED
  BY <1>1, <1>3 DEF SplitLeaf

LEMMA CloseLeafOK ==
  ASSUME NEW R, NEW S, NEW pl \in [S -> Place(R)], NEW p \in S,
         pl[p].path # <<>>
  PROVE  CloseLeaf(pl, p) \in [S \ {p} -> Place(R)]
<1> DEFINE r  == pl[p].root
           up == Front(pl[p].path)
           low(x) == SubSeq(pl[x].path, Len(up) + 2, Len(pl[x].path))
<1>1. \A x \in S : pl[x] \in Place(R) /\ pl[x].root \in R /\ pl[x].path \in Path
  BY PlaceFields
<1>2. up \in Path
  <2>1. pl[p].path \in Seq({"s", "e"}) /\ Len(pl[p].path) \in Nat
    BY <1>1 DEF Path
  <2>2. up = SubSeq(pl[p].path, 1, Len(pl[p].path) - 1)
    BY DEF Front
  <2> HIDE DEF up
  <2> QED
    BY <2>1, <2>2, SubSeqProperties DEF Path
<1>3. ASSUME NEW x \in S
      PROVE  At(r, up \o low(x)) \in Place(R)
  <2>1. low(x) \in Path
    <3>1. pl[x].path \in Seq({"s", "e"}) /\ Len(up) \in Nat
      BY <1>1, <1>2 DEF Path
    <3> HIDE DEF up
    <3> QED
      BY <3>1, SubSeqProperties DEF Path
  <2> HIDE DEF low, up
  <2>2. up \o low(x) \in Path
    BY <1>2, <2>1, ConcatProperties DEF Path
  <2> QED
    BY <1>1, <2>2, PlaceOK
<1> QED
  BY <1>1, <1>3 DEF CloseLeaf

LEMMA ChainPathOK ==
  ASSUME NEW n \in Nat, NEW i \in 1 .. n
  PROVE  ChainPath(i, n) \in Path
<1> DEFINE m == IF i = 1 THEN n - 1 ELSE n - i + 1
<1>1. m \in Nat
  OBVIOUS
<1>2. ChainPath(i, n) \in [1 .. m -> {"s", "e"}]
  BY DEF ChainPath
<1> QED
  BY <1>1, <1>2 DEF Path

LEMMA ChainOK ==
  ASSUME NEW R, NEW S, NEW pl \in [S -> Place(R)], NEW r \in R,
         NEW T, NEW list \in Seq(T)
  PROVE  /\ DOMAIN Chain(pl, r, list) \subseteq S \cup ToSet(list)
         /\ ToSet(list) \subseteq DOMAIN Chain(pl, r, list)
         /\ Chain(pl, r, list) \in [DOMAIN Chain(pl, r, list) -> Place(R)]
<1> DEFINE D == (DOMAIN pl \ InRoot(pl, r)) \cup ToSet(list)
           k(x) == CHOOSE i \in DOMAIN list : list[i] = x
<1>1. \A x \in ToSet(list) : k(x) \in 1 .. Len(list)
  BY DEF ToSet
<1> HIDE DEF k
<1>2. ASSUME NEW x \in ToSet(list)
      PROVE  At(r, ChainPath(k(x), Len(list))) \in Place(R)
  BY <1>1, ChainPathOK, PlaceOK
<1>3. Chain(pl, r, list) \in [D -> Place(R)]
  BY <1>2 DEF Chain, k
<1> QED
  BY <1>3

\* Two paths part at their k-th step.
Splits(a, b, k) ==
    /\ k \in 1 .. Len(a) /\ k \in 1 .. Len(b)
    /\ \A j \in 1 .. k - 1 : a[j] = b[j]
    /\ a[k] # b[k]

\* WellFormed, step by step of the paths: something hangs on the other side of
\* each GtkPaned above a pane, and the ways to any two panes part.
Whole(pl) ==
    \A x \in DOMAIN pl :
        /\ \A n \in 1 .. Len(pl[x].path) :
              \E y \in InRoot(pl, pl[x].root) : Splits(pl[x].path, pl[y].path, n)
        /\ \A y \in InRoot(pl, pl[x].root) \ {x} : \E k \in Nat : Splits(pl[x].path, pl[y].path, k)

\* What a path is made of.
LEMMA PathOK ==
  ASSUME NEW a \in Path
  PROVE  /\ a \in Seq({"s", "e"}) /\ Len(a) \in Nat /\ DOMAIN a = 1 .. Len(a)
         /\ \A k \in 1 .. Len(a) : a[k] \in {"s", "e"}
BY DEF Path

\* Paths that part do so for both.
LEMMA SplitsSym ==
  ASSUME NEW a, NEW b, NEW k, Splits(a, b, k)
  PROVE  Splits(b, a, k)
BY DEF Splits

\* A path is a prefix of another when they are equal as far as it goes.
LEMMA PrefixOK ==
  ASSUME NEW a \in Path, NEW b \in Path
  PROVE  IsPrefix(a, b) <=> Len(a) <= Len(b) /\ \A k \in 1 .. Len(a) : a[k] = b[k]
<1>1. /\ a \in Seq({"s", "e"}) /\ b \in Seq({"s", "e"}) /\ Len(a) \in Nat /\ Len(b) \in Nat
      /\ \A k \in 1 .. Len(a) : a[k] \in {"s", "e"}
      /\ \A k \in 1 .. Len(b) : b[k] \in {"s", "e"}
  BY PathOK
<1> DEFINE p == SubSeq(a, 1, Len(a))
           q == SubSeq(b, 1, Len(a))
<1>2. /\ p \in Seq({"s", "e"}) /\ Len(p) = Len(a)
      /\ \A k \in 1 .. Len(a) : p[k] = a[k]
  BY <1>1, SubSeqProperties
<1>3. ASSUME Len(a) <= Len(b)
      PROVE  /\ q \in Seq({"s", "e"}) /\ Len(q) = Len(a)
             /\ \A k \in 1 .. Len(a) : q[k] = b[k]
  <2>1. \A k \in 1 .. Len(a) : b[k] \in {"s", "e"}
    BY <1>1, <1>3
  <2> QED BY <1>1, <2>1, SubSeqProperties
<1>4. IsPrefix(a, b) <=> Len(a) <= Len(b) /\ p = q
  BY DEF IsPrefix
<1> HIDE DEF p, q
<1>5. ASSUME Len(a) <= Len(b), \A k \in 1 .. Len(a) : a[k] = b[k]
      PROVE  p = q
  <2>1. Len(p) = Len(q) /\ \A k \in 1 .. Len(p) : p[k] = q[k]
    BY <1>2, <1>3, <1>5
  <2> QED BY <1>2, <1>3, <1>5, <2>1, SeqEqual
<1>6. ASSUME Len(a) <= Len(b), p = q
      PROVE  \A k \in 1 .. Len(a) : a[k] = b[k]
  BY <1>2, <1>3, <1>6
<1> QED BY <1>4, <1>5, <1>6

\* The sibling of the n-th node of a path.
LEMMA SiblingOK ==
  ASSUME NEW a \in Path, NEW n \in 1 .. Len(a)
  PROVE  LET s == SiblingPath(SubSeq(a, 1, n))
         IN  /\ s \in Path /\ Len(s) = n /\ s[n] # a[n]
             /\ \A k \in 1 .. n - 1 : s[k] = a[k]
<1>1. a \in Seq({"s", "e"}) /\ Len(a) \in Nat /\ \A k \in 1 .. Len(a) : a[k] \in {"s", "e"}
  BY PathOK
<1> DEFINE b == SubSeq(a, 1, n)
           f == SubSeq(b, 1, Len(b) - 1)
           o == Other(b[Len(b)])
<1>2. /\ b \in Seq({"s", "e"}) /\ Len(b) = n
      /\ \A k \in 1 .. n : b[k] = a[k]
  BY <1>1, SubSeqProperties
<1> HIDE DEF b
<1>3. /\ f \in Seq({"s", "e"}) /\ Len(f) = n - 1
      /\ \A k \in 1 .. n - 1 : f[k] = b[k]
  BY <1>2, SubSeqProperties
<1>4. o \in {"s", "e"} /\ o # a[n]
  BY <1>1, <1>2 DEF Other
<1> HIDE DEF f, o
<1>5. /\ Append(f, o) \in Seq({"s", "e"}) /\ Len(Append(f, o)) = n
      /\ \A j \in 1 .. n : Append(f, o)[j] = IF j <= n - 1 THEN f[j] ELSE o
  BY <1>3, <1>4, AppendOK
<1>6. SiblingPath(b) = Append(f, o)
  BY DEF SiblingPath, Front, Last, f, o
<1>7. /\ SiblingPath(b) \in Path /\ Len(SiblingPath(b)) = n /\ SiblingPath(b)[n] # a[n]
      /\ \A k \in 1 .. n - 1 : SiblingPath(b)[k] = a[k]
  BY <1>2, <1>3, <1>4, <1>5, <1>6 DEF Path
<1> QED BY <1>7 DEF b

\* What hangs beside the n-th node of a path.
LEMMA UnderSibling ==
  ASSUME NEW a \in Path, NEW b \in Path, NEW n \in 1 .. Len(a)
  PROVE  IsPrefix(SiblingPath(SubSeq(a, 1, n)), b) <=> Splits(a, b, n)
<1> DEFINE s == SiblingPath(SubSeq(a, 1, n))
<1>1. /\ s \in Path /\ Len(s) = n /\ s[n] # a[n]
      /\ \A k \in 1 .. n - 1 : s[k] = a[k]
  BY SiblingOK
<1> HIDE DEF s
<1>2. IsPrefix(s, b) <=> Len(s) <= Len(b) /\ \A k \in 1 .. Len(s) : s[k] = b[k]
  BY <1>1, PrefixOK
<1>3. /\ Len(b) \in Nat /\ Len(a) \in Nat /\ \A k \in 1 .. Len(a) : a[k] \in {"s", "e"}
      /\ \A k \in 1 .. Len(b) : b[k] \in {"s", "e"}
      /\ s[n] \in {"s", "e"}
  BY <1>1, PathOK
<1>4. IsPrefix(s, b) => Splits(a, b, n)
  BY <1>1, <1>2, <1>3 DEF Splits
<1>5. ASSUME Splits(a, b, n) PROVE IsPrefix(s, b)
  <2>1. n <= Len(b) /\ s[n] = b[n]
    BY <1>1, <1>3, <1>5 DEF Splits
  <2>2. \A k \in 1 .. n : s[k] = b[k]
    BY <1>1, <1>5, <2>1 DEF Splits
  <2> QED BY <1>1, <1>2, <2>1, <2>2
<1> QED BY <1>4, <1>5 DEF s

\* Of two paths one is a prefix of the other, or they part somewhere.
LEMMA PartOK ==
  ASSUME NEW a \in Path, NEW b \in Path
  PROVE  ~IsPrefix(a, b) /\ ~IsPrefix(b, a) <=> \E k \in Nat : Splits(a, b, k)
<1>1. Len(a) \in Nat /\ Len(b) \in Nat
  BY PathOK
<1>2. ASSUME NEW k \in Nat, Splits(a, b, k)
      PROVE  ~IsPrefix(a, b) /\ ~IsPrefix(b, a)
  BY <1>2, PrefixOK DEF Splits
<1>3. ASSUME ~IsPrefix(a, b), ~IsPrefix(b, a)
      PROVE  \E k \in Nat : Splits(a, b, k)
  <2> DEFINE D == {k \in Nat : k \in 1 .. Len(a) /\ k \in 1 .. Len(b) /\ a[k] # b[k]}
             R == OpToRel(<, Nat)
  <2>1. D \subseteq Nat /\ D # {}
    BY <1>1, <1>3, PrefixOK
  <2>2. IsWellFoundedOn(R, Nat)
    BY NatLessThanWellFounded, Zenon
  <2>3. \A x, y \in Nat : x < y => <<x, y>> \in R
    BY DEF OpToRel
  <2> HIDE DEF R
  <2>4. \A k \in D : k \in Nat /\ k \in 1 .. Len(a) /\ k \in 1 .. Len(b) /\ a[k] # b[k]
    OBVIOUS
  <2>5. \A k \in Nat : k \in 1 .. Len(a) /\ k \in 1 .. Len(b) /\ a[k] # b[k] => k \in D
    OBVIOUS
  <2> HIDE DEF D
  <2>6. PICK k \in D : \A m \in D : ~(<<m, k>> \in R)
    BY <2>1, <2>2, WFMin
  <2>7. \A m \in D : ~(m < k)
    BY <2>1, <2>3, <2>6
  <2>8. \A j \in 1 .. k - 1 : a[j] = b[j]
    BY <1>1, <2>4, <2>5, <2>7
  <2> QED BY <2>4, <2>8 DEF Splits
<1> QED BY <1>2, <1>3

\* WellFormed is Whole.
LEMMA WholeOK ==
  ASSUME NEW R, NEW pl, pl \in [DOMAIN pl -> Place(R)]
  PROVE  WellFormed(pl) <=> Whole(pl)
<1>1. \A x \in DOMAIN pl : pl[x].path \in Path
  BY PlaceFields
<1>2. ASSUME NEW x \in DOMAIN pl, NEW n \in 1 .. Len(pl[x].path)
      PROVE  Under(pl, pl[x].root, SiblingPath(SubSeq(pl[x].path, 1, n))) # {}
             <=> \E y \in InRoot(pl, pl[x].root) : Splits(pl[x].path, pl[y].path, n)
  <2>1. \A y \in InRoot(pl, pl[x].root) :
           IsPrefix(SiblingPath(SubSeq(pl[x].path, 1, n)), pl[y].path)
             <=> Splits(pl[x].path, pl[y].path, n)
    BY <1>1, <1>2, UnderSibling DEF InRoot
  <2> QED BY <2>1 DEF Under
<1>3. ASSUME NEW x \in DOMAIN pl
      PROVE  x \in Under(pl, pl[x].root, pl[x].path)
  <2>1. IsPrefix(pl[x].path, pl[x].path)
    BY <1>1, PrefixOK, PathOK
  <2> QED BY <2>1 DEF Under, InRoot
<1>4. ASSUME WellFormed(pl) PROVE Whole(pl)
  <2> SUFFICES ASSUME NEW x \in DOMAIN pl, NEW y \in InRoot(pl, pl[x].root) \ {x}
               PROVE  \E k \in Nat : Splits(pl[x].path, pl[y].path, k)
    BY <1>2, <1>4 DEF Whole, WellFormed
  <2>1. y \in DOMAIN pl /\ pl[y].root = pl[x].root /\ y # x
    BY DEF InRoot
  <2>2. /\ Under(pl, pl[x].root, pl[x].path) = {x}
        /\ Under(pl, pl[y].root, pl[y].path) = {y}
    BY <1>4, <2>1 DEF WellFormed
  <2>3. ~IsPrefix(pl[x].path, pl[y].path) /\ ~IsPrefix(pl[y].path, pl[x].path)
    BY <2>1, <2>2 DEF Under, InRoot
  <2> QED BY <1>1, <2>1, <2>3, PartOK
<1>5. ASSUME Whole(pl) PROVE WellFormed(pl)
  <2> SUFFICES ASSUME NEW x \in DOMAIN pl
               PROVE  Under(pl, pl[x].root, pl[x].path) = {x}
    BY <1>2, <1>5 DEF Whole, WellFormed
  <2>1. ASSUME NEW y \in InRoot(pl, pl[x].root), y # x
        PROVE  ~IsPrefix(pl[x].path, pl[y].path)
    <3>1. \E k \in Nat : Splits(pl[x].path, pl[y].path, k)
      BY <1>5, <2>1 DEF Whole
    <3>2. y \in DOMAIN pl
      BY DEF InRoot
    <3> QED BY <1>1, <3>1, <3>2, PartOK
  <2> QED BY <1>3, <2>1 DEF Under
<1> QED BY <1>4, <1>5

\* The places after a split, step by step of the paths.
LEMMA SplitLeafPaths ==
  ASSUME NEW R, NEW pl, pl \in [DOMAIN pl -> Place(R)], NEW p \in DOMAIN pl,
         NEW q, q \notin DOMAIN pl
  PROVE  LET v == SplitLeaf(pl, p, q)
             a == pl[p].path
         IN  /\ DOMAIN v = DOMAIN pl \cup {q}
             /\ v[p].root = pl[p].root /\ v[q].root = pl[p].root
             /\ v[p].path = Append(a, "s") /\ v[q].path = Append(a, "e")
             /\ \A x \in DOMAIN pl \ {p} : v[x] = pl[x]
             /\ \A side \in {"s", "e"} :
                   /\ Append(a, side) \in Path
                   /\ Len(Append(a, side)) = Len(a) + 1 /\ Append(a, side)[Len(a) + 1] = side
                   /\ \A k \in 1 .. Len(a) : Append(a, side)[k] = a[k]
<1> DEFINE a == pl[p].path
<1>1. a \in Path /\ a \in Seq({"s", "e"}) /\ Len(a) \in Nat
  BY PlaceFields, PathOK
<1>2. ASSUME NEW side \in {"s", "e"}
      PROVE  /\ Append(a, side) \in Path
             /\ Len(Append(a, side)) = Len(a) + 1 /\ Append(a, side)[Len(a) + 1] = side
             /\ \A k \in 1 .. Len(a) : Append(a, side)[k] = a[k]
  BY <1>1, AppendOK DEF Path
<1>3. LET v == SplitLeaf(pl, p, q)
      IN  /\ DOMAIN v = DOMAIN pl \cup {q}
          /\ v[p] = At(pl[p].root, Append(a, "s"))
          /\ v[q] = At(pl[p].root, Append(a, "e"))
          /\ \A x \in DOMAIN pl \ {p} : v[x] = pl[x]
  BY DEF SplitLeaf
<1> HIDE DEF a
<1>4. /\ At(pl[p].root, Append(a, "s")).root = pl[p].root
      /\ At(pl[p].root, Append(a, "s")).path = Append(a, "s")
      /\ At(pl[p].root, Append(a, "e")).root = pl[p].root
      /\ At(pl[p].root, Append(a, "e")).path = Append(a, "e")
  BY DEF At
<1> QED BY <1>2, <1>3, <1>4 DEF a

\* A split keeps the trees whole.
LEMMA SplitLeafWhole ==
  ASSUME NEW R, NEW pl, pl \in [DOMAIN pl -> Place(R)], NEW p \in DOMAIN pl,
         NEW q, q \notin DOMAIN pl, Whole(pl)
  PROVE  Whole(SplitLeaf(pl, p, q))
<1> DEFINE v == SplitLeaf(pl, p, q)
           a == pl[p].path
           s == Append(a, "s")
           e == Append(a, "e")
           r == pl[p].root
<1>1. /\ DOMAIN v = DOMAIN pl \cup {q} /\ v[p].root = r /\ v[q].root = r
      /\ v[p].path = s /\ v[q].path = e
      /\ \A x \in DOMAIN pl \ {p} : v[x] = pl[x]
      /\ Len(s) = Len(a) + 1 /\ s[Len(a) + 1] = "s" /\ \A k \in 1 .. Len(a) : s[k] = a[k]
      /\ Len(e) = Len(a) + 1 /\ e[Len(a) + 1] = "e" /\ \A k \in 1 .. Len(a) : e[k] = a[k]
  BY SplitLeafPaths DEF SplitLeaf
<1>2. Len(a) \in Nat /\ \A x \in DOMAIN pl : Len(pl[x].path) \in Nat
  BY PlaceFields, PathOK
<1> HIDE DEF v, s, e, a, r
<1>3. p # q /\ pl[p].path = a /\ pl[p].root = r
  BY DEF a, r
\* A path that parts from p's does so from the two longer ones, at the same step.
<1>4. ASSUME NEW b, NEW k, Len(b) \in Nat
      PROVE  /\ Splits(a, b, k) => Splits(s, b, k) /\ Splits(e, b, k)
             /\ Splits(b, a, k) => Splits(b, s, k) /\ Splits(b, e, k)
  BY <1>1, <1>2 DEF Splits
<1>5. Splits(s, e, Len(a) + 1) /\ Splits(e, s, Len(a) + 1)
  BY <1>1, <1>2 DEF Splits
<1>6. \A x, y \in DOMAIN pl : x # y /\ pl[x].root = pl[y].root =>
         \E k \in Nat : Splits(pl[x].path, pl[y].path, k)
  BY DEF Whole, InRoot
<1>7. \A x \in DOMAIN pl : \A n \in 1 .. Len(pl[x].path) :
         \E y \in DOMAIN pl : pl[y].root = pl[x].root /\ Splits(pl[x].path, pl[y].path, n)
  BY DEF Whole, InRoot
<1>8. ASSUME NEW x \in DOMAIN v, NEW n \in 1 .. Len(v[x].path)
      PROVE  \E y \in DOMAIN v : v[y].root = v[x].root /\ Splits(v[x].path, v[y].path, n)
  <2>1. CASE x \in {p, q}
    <3>1. v[x].path \in {s, e} /\ v[x].root = r
      BY <1>1, <2>1
    <3>2. CASE n = Len(a) + 1
      BY <1>1, <1>3, <1>5, <2>1, <3>2
    <3>3. CASE n # Len(a) + 1
      <4>1. n \in 1 .. Len(a)
        BY <1>1, <1>2, <3>1, <3>3
      <4>2. PICK y \in DOMAIN pl : pl[y].root = r /\ Splits(a, pl[y].path, n)
        BY <1>3, <1>7, <4>1
      <4>3. y # p
        BY <1>3, <4>2 DEF Splits
      <4>4. v[y] = pl[y] /\ y \in DOMAIN v
        BY <1>1, <4>3
      <4>5. Splits(s, pl[y].path, n) /\ Splits(e, pl[y].path, n)
        BY <1>2, <1>4, <4>2
      <4> QED BY <3>1, <4>2, <4>4, <4>5
    <3> QED BY <3>2, <3>3
  <2>2. CASE x \notin {p, q}
    <3>1. x \in DOMAIN pl /\ v[x] = pl[x]
      BY <1>1, <2>2
    <3>2. PICK y \in DOMAIN pl : pl[y].root = pl[x].root /\ Splits(pl[x].path, pl[y].path, n)
      BY <1>7, <3>1
    <3>3. CASE y # p
      BY <1>1, <3>1, <3>2, <3>3
    <3>4. CASE y = p
      BY <1>1, <1>2, <1>3, <1>4, <3>1, <3>2, <3>4
    <3> QED BY <3>3, <3>4
  <2> QED BY <2>1, <2>2
<1>9. ASSUME NEW x \in DOMAIN v, NEW y \in DOMAIN v, x # y, v[x].root = v[y].root
      PROVE  \E k \in Nat : Splits(v[x].path, v[y].path, k)
  <2>1. CASE x \in {p, q} /\ y \in {p, q}
    <3>1. (v[x].path = s /\ v[y].path = e) \/ (v[x].path = e /\ v[y].path = s)
      BY <1>1, <1>9, <2>1
    <3> QED BY <1>2, <1>5, <3>1
  <2>2. CASE x \in {p, q} /\ y \notin {p, q}
    <3>1. y \in DOMAIN pl /\ v[y] = pl[y] /\ pl[y].root = r /\ v[x].path \in {s, e}
      BY <1>1, <1>9, <2>2
    <3>2. PICK k \in Nat : Splits(a, pl[y].path, k)
      BY <1>3, <1>6, <2>2, <3>1
    <3> QED BY <1>2, <1>4, <3>1, <3>2
  <2>3. CASE x \notin {p, q} /\ y \in {p, q}
    <3>1. x \in DOMAIN pl /\ v[x] = pl[x] /\ pl[x].root = r /\ v[y].path \in {s, e}
      BY <1>1, <1>9, <2>3
    <3>2. PICK k \in Nat : Splits(pl[x].path, a, k)
      BY <1>3, <1>6, <2>3, <3>1
    <3> QED BY <1>2, <1>4, <3>1, <3>2
  <2>4. CASE x \notin {p, q} /\ y \notin {p, q}
    <3>1. x \in DOMAIN pl /\ y \in DOMAIN pl /\ v[x] = pl[x] /\ v[y] = pl[y]
      BY <1>1, <2>4
    <3> QED BY <1>6, <1>9, <3>1
  <2> QED BY <2>1, <2>2, <2>3, <2>4
<1> QED BY <1>8, <1>9 DEF Whole, InRoot, v

\* What is left of a path when the m-th step, taken against that of up's, goes.
LEMMA MoveUpOK ==
  ASSUME NEW up \in Path, NEW b \in Path, NEW m \in 1 .. Len(b), Len(up) = m - 1,
         \A k \in 1 .. m - 1 : up[k] = b[k]
  PROVE  LET u == up \o SubSeq(b, Len(up) + 2, Len(b))
         IN  /\ u \in Path /\ Len(u) = Len(b) - 1
             /\ \A k \in 1 .. Len(u) : u[k] = IF k < m THEN b[k] ELSE b[k + 1]
<1> DEFINE n == Len(b)
           l == SubSeq(b, m + 1, n)
           u == up \o l
<1>1. /\ b \in Seq({"s", "e"}) /\ up \in Seq({"s", "e"}) /\ n \in Nat /\ m <= n /\ m \in Nat
      /\ \A k \in 1 .. n : b[k] \in {"s", "e"}
  BY PathOK
<1>2. Len(up) + 2 = m + 1
  BY <1>1
<1> HIDE DEF n
<1>3. /\ l \in Seq({"s", "e"}) /\ Len(l) = n - m
      /\ \A k \in 1 .. n - m : l[k] = b[m + k]
  <2> DEFINE j == m + 1
  <2>1. j \in Int /\ n \in Int /\ \A k \in j .. n : b[k] \in {"s", "e"}
    BY <1>1
  <2>2. j \in Nat /\ j = m + 1
    BY <1>1
  <2> HIDE DEF j
  <2>3. /\ SubSeq(b, j, n) \in Seq({"s", "e"})
        /\ Len(SubSeq(b, j, n)) = IF j <= n THEN n - j + 1 ELSE 0
        /\ \A k \in 1 .. n - j + 1 : SubSeq(b, j, n)[k] = b[j + k - 1]
    BY <2>1, SubSeqProperties
  <2>4. l = SubSeq(b, j, n)
    BY DEF j
  <2> HIDE DEF l
  <2> QED BY <1>1, <2>2, <2>3, <2>4
<1>4. u = up \o SubSeq(b, Len(up) + 2, Len(b))
  BY <1>2 DEF n
<1> HIDE DEF l
<1>5. /\ u \in Seq({"s", "e"}) /\ Len(u) = Len(up) + Len(l)
      /\ \A k \in 1 .. Len(up) + Len(l) :
            u[k] = IF k <= Len(up) THEN up[k] ELSE l[k - Len(up)]
  BY <1>1, <1>3, ConcatProperties
<1> HIDE DEF u
<1>6. Len(u) = n - 1
  BY <1>1, <1>3, <1>5
<1>7. ASSUME NEW k \in 1 .. n - 1
      PROVE  u[k] = IF k < m THEN b[k] ELSE b[k + 1]
  <2>1. u[k] = IF k <= m - 1 THEN up[k] ELSE l[k - (m - 1)]
    BY <1>1, <1>3, <1>5
  <2>2. CASE k < m
    BY <1>1, <2>1, <2>2
  <2>3. CASE ~(k < m)
    <3>1. k - (m - 1) \in 1 .. n - m /\ m + (k - (m - 1)) = k + 1 /\ ~(k <= m - 1)
      BY <1>1, <2>3
    <3> QED BY <1>3, <2>1, <2>3, <3>1
  <2> QED BY <2>2, <2>3
<1> QED BY <1>4, <1>5, <1>6, <1>7 DEF Path, n

\* b2 is b without its m-th step.
Lifted(b, b2, m) ==
    /\ m \in 1 .. Len(b)
    /\ Len(b2) = Len(b) - 1
    /\ \A k \in 1 .. Len(b2) : b2[k] = IF k < m THEN b[k] ELSE b[k + 1]

\* x hangs beside p, so a close of p moves it up.
Rises(pl, p, x) ==
    pl[x].root = pl[p].root /\ Splits(pl[p].path, pl[x].path, Len(pl[p].path))

\* A close of p lifts the panes beside it and leaves the others where they are.
LEMMA CloseLeafLifts ==
  ASSUME NEW R, NEW pl, pl \in [DOMAIN pl -> Place(R)], NEW p \in DOMAIN pl,
         pl[p].path # <<>>, NEW v, v = CloseLeaf(pl, p)
  PROVE  /\ DOMAIN v = DOMAIN pl \ {p}
         /\ \A x \in DOMAIN v :
               /\ v[x].root = pl[x].root
               /\ ~Rises(pl, p, x) => v[x] = pl[x]
               /\ Rises(pl, p, x) => /\ v[x].path \in Path
                                     /\ Lifted(pl[x].path, v[x].path, Len(pl[p].path))
<1> DEFINE a == pl[p].path
           m == Len(a)
           r == pl[p].root
           up == Front(a)
           low(x) == SubSeq(pl[x].path, Len(up) + 2, Len(pl[x].path))
           moved(x) == pl[x].root = r /\ Splits(a, pl[x].path, m)
<1>1. /\ a \in Seq({"s", "e"}) /\ a \in Path /\ m \in Nat /\ m > 0
      /\ \A x \in DOMAIN pl : pl[x] \in Place(R) /\ pl[x].path \in Path
  BY PlaceFields, PathOK
<1>2. SiblingPath(a) = SiblingPath(SubSeq(a, 1, m))
  <2>1. SubSeq(a, 1, m) = a
    BY <1>1, SubSeqFull
  <2> QED BY <2>1
<1>3. \A x \in DOMAIN pl : x \in Under(pl, r, SiblingPath(a)) <=> moved(x)
  <2>1. m \in 1 .. Len(a)
    BY <1>1
  <2>2. \A x \in DOMAIN pl : IsPrefix(SiblingPath(a), pl[x].path) <=> Splits(a, pl[x].path, m)
    BY <1>1, <1>2, <2>1, UnderSibling
  <2> HIDE DEF m, a, r
  <2> QED BY <2>2 DEF Under, InRoot
<1>4. /\ up \in Seq({"s", "e"}) /\ Len(up) = m - 1
      /\ \A k \in 1 .. m - 1 : up[k] = a[k]
  <2>1. up = SubSeq(a, 1, m - 1)
    BY DEF Front
  <2> HIDE DEF up
  <2>2. \A k \in 1 .. m - 1 : a[k] \in {"s", "e"}
    BY <1>1
  <2> QED BY <1>1, <2>1, <2>2, SubSeqProperties
<1>5. /\ DOMAIN v = DOMAIN pl \ {p}
      /\ \A x \in DOMAIN pl \ {p} :
            v[x] = IF x \in Under(pl, r, SiblingPath(a)) THEN At(r, up \o low(x)) ELSE pl[x]
  BY DEF CloseLeaf
<1>6. ASSUME NEW x \in DOMAIN pl \ {p}, Splits(a, pl[x].path, m)
      PROVE  /\ up \o low(x) \in Path
             /\ Len(up \o low(x)) = Len(pl[x].path) - 1
             /\ \A k \in 1 .. Len(up \o low(x)) :
                   (up \o low(x))[k] = IF k < m THEN pl[x].path[k] ELSE pl[x].path[k + 1]
  <2>1. /\ up \in Path /\ pl[x].path \in Path /\ m \in 1 .. Len(pl[x].path) /\ Len(up) = m - 1
        /\ \A k \in 1 .. m - 1 : up[k] = pl[x].path[k]
    <3> HIDE DEF up, m, a
    <3> QED BY <1>1, <1>4, <1>6 DEF Path, Splits
  <2> QED BY ONLY <2>1, MoveUpOK DEF low
<1>7. m \in 1 .. Len(a)
  BY <1>1
<1> HIDE DEF a, m, r, up, low
<1>8. \A x \in DOMAIN pl \ {p} :
         /\ moved(x) => v[x].root = r /\ v[x].path = up \o low(x)
         /\ ~moved(x) => v[x] = pl[x]
  BY <1>3, <1>5 DEF At
<1>9. /\ DOMAIN v = DOMAIN pl \ {p}
      /\ m \in 1 .. Len(a)
      /\ \A x \in DOMAIN v :
            /\ v[x].root = pl[x].root
            /\ ~moved(x) => v[x] = pl[x]
            /\ moved(x) =>
                  /\ v[x].path \in Path
                  /\ Len(v[x].path) = Len(pl[x].path) - 1
                  /\ \A k \in 1 .. Len(v[x].path) :
                        v[x].path[k] = IF k < m THEN pl[x].path[k] ELSE pl[x].path[k + 1]
  <2> SUFFICES ASSUME NEW x \in DOMAIN v
               PROVE  /\ v[x].root = pl[x].root
                      /\ ~moved(x) => v[x] = pl[x]
                      /\ moved(x) =>
                            /\ v[x].path \in Path
                            /\ Len(v[x].path) = Len(pl[x].path) - 1
                            /\ \A k \in 1 .. Len(v[x].path) :
                                  v[x].path[k] = IF k < m THEN pl[x].path[k] ELSE pl[x].path[k + 1]
    BY <1>5, <1>7
  <2>1. x \in DOMAIN pl \ {p}
    BY <1>5
  <2>2. CASE ~moved(x)
    BY <1>8, <2>1, <2>2
  <2>3. CASE moved(x)
    <3> DEFINE u == up \o low(x)
    <3>1. v[x].root = r /\ v[x].path = u
      BY <1>8, <2>1, <2>3
    <3>2. pl[x].root = r /\ Splits(a, pl[x].path, m)
      BY <2>3
    <3>3. /\ u \in Path /\ Len(u) = Len(pl[x].path) - 1
          /\ \A k \in 1 .. Len(u) : u[k] = IF k < m THEN pl[x].path[k] ELSE pl[x].path[k + 1]
      BY <1>6, <2>1, <3>2
    <3> HIDE DEF u
    <3> QED BY <2>3, <3>1, <3>2, <3>3
  <2> QED BY <2>2, <2>3
<1>10. ASSUME NEW x \in DOMAIN v
       PROVE  /\ moved(x) <=> Rises(pl, p, x)
              /\ moved(x) => m \in 1 .. Len(pl[x].path)
              /\ m = Len(pl[p].path)
  BY DEF Rises, Splits, a, r, m
<1> HIDE DEF moved
<1> QED BY <1>9, <1>10 DEF Lifted

\* Two paths part at one step only.
LEMMA SplitsOnce ==
  ASSUME NEW a, NEW b, NEW j \in Nat, NEW k \in Nat, Splits(a, b, j), Splits(a, b, k)
  PROVE  j = k
<1>1. ~(j < k) /\ ~(k < j)
  BY DEF Splits
<1> QED BY <1>1

\* A path that parts from a at a step n parts there from every path that stays
\* with a for longer.
LEMMA SplitsAlong ==
  ASSUME NEW a, NEW b, NEW c, NEW m \in Nat, NEW n \in Nat, n < m,
         Splits(a, b, m)
  PROVE  /\ Splits(a, c, n) <=> Splits(b, c, n)
         /\ Splits(c, a, n) <=> Splits(c, b, n)
<1>1. /\ m \in 1 .. Len(a) /\ m \in 1 .. Len(b) /\ \A j \in 1 .. m - 1 : a[j] = b[j]
  BY DEF Splits
<1>2. n \in 1 .. Len(a) => n \in 1 .. Len(b) /\ a[n] = b[n] /\ \A j \in 1 .. n - 1 : a[j] = b[j]
  BY <1>1
<1>3. n \in 1 .. Len(b) => n \in 1 .. Len(a) /\ a[n] = b[n] /\ \A j \in 1 .. n - 1 : a[j] = b[j]
  BY <1>1
<1> QED BY <1>2, <1>3 DEF Splits

\* Above the step that goes, a path parts from others where it did.
LEMMA LiftedAbove ==
  ASSUME NEW b \in Path, NEW b2 \in Path, NEW m \in Nat, Lifted(b, b2, m), NEW c, NEW n \in Nat, n < m
  PROVE  /\ Splits(b, c, n) <=> Splits(b2, c, n)
         /\ Splits(c, b, n) <=> Splits(c, b2, n)
<1>1. /\ m \in 1 .. Len(b) /\ Len(b2) = Len(b) - 1 /\ Len(b) \in Nat
      /\ \A k \in 1 .. Len(b2) : k < m => b2[k] = b[k]
  BY PathOK DEF Lifted
<1>2. /\ n \in 1 .. Len(b) <=> n \in 1 .. Len(b2)
      /\ n \in 1 .. Len(b) => b2[n] = b[n] /\ \A j \in 1 .. n - 1 : b2[j] = b[j]
  BY <1>1
<1> QED BY <1>2 DEF Splits

\* Below it, two paths that lose the same step part one step earlier.
LEMMA LiftedBelow ==
  ASSUME NEW b \in Path, NEW b2 \in Path, NEW c \in Path, NEW c2 \in Path, NEW m \in Nat,
         Lifted(b, b2, m), Lifted(c, c2, m), NEW n \in Nat, n >= m, Splits(b, c, n + 1)
  PROVE  Splits(b2, c2, n)
<1>1. /\ m \in 1 .. Len(b) /\ Len(b2) = Len(b) - 1 /\ Len(b) \in Nat
      /\ m \in 1 .. Len(c) /\ Len(c2) = Len(c) - 1 /\ Len(c) \in Nat
  BY PathOK DEF Lifted
<1>2. /\ n + 1 \in 1 .. Len(b) /\ n + 1 \in 1 .. Len(c) /\ b[n + 1] # c[n + 1]
      /\ \A j \in 1 .. n : b[j] = c[j]
  BY DEF Splits
<1>3. n \in 1 .. Len(b2) /\ n \in 1 .. Len(c2)
  BY <1>1, <1>2
<1>4. b2[n] = b[n + 1] /\ c2[n] = c[n + 1]
  BY <1>3 DEF Lifted
<1>5. ASSUME NEW j \in 1 .. n - 1
      PROVE  b2[j] = c2[j]
  <2>1. j \in 1 .. Len(b2) /\ j \in 1 .. Len(c2) /\ j \in 1 .. n /\ j + 1 \in 1 .. n
    BY <1>3
  <2>2. b2[j] = (IF j < m THEN b[j] ELSE b[j + 1]) /\ c2[j] = (IF j < m THEN c[j] ELSE c[j + 1])
    BY <2>1 DEF Lifted
  <2> QED BY <1>2, <2>1, <2>2
<1> QED BY <1>2, <1>3, <1>4, <1>5 DEF Splits

\* A close keeps the trees whole.
LEMMA CloseLeafWhole ==
  ASSUME NEW R, NEW pl, pl \in [DOMAIN pl -> Place(R)], NEW p \in DOMAIN pl,
         pl[p].path # <<>>, Whole(pl)
  PROVE  Whole(CloseLeaf(pl, p))
<1> DEFINE v == CloseLeaf(pl, p)
           a == pl[p].path
           m == Len(a)
           r == pl[p].root
           moved(x) == pl[x].root = r /\ Splits(a, pl[x].path, m)
<1>0. /\ DOMAIN v = DOMAIN pl \ {p}
      /\ \A x \in DOMAIN v :
            /\ v[x].root = pl[x].root
            /\ ~Rises(pl, p, x) => v[x] = pl[x]
            /\ Rises(pl, p, x) => v[x].path \in Path /\ Lifted(pl[x].path, v[x].path, m)
  BY CloseLeafLifts
<1>2. /\ a \in Path /\ m \in Nat /\ \A k \in 1 .. m : a[k] \in {"s", "e"}
      /\ a # <<>>
      /\ \A x \in DOMAIN pl : pl[x].path \in Path /\ Len(pl[x].path) \in Nat
                               /\ \A k \in 1 .. Len(pl[x].path) : pl[x].path[k] \in {"s", "e"}
  BY PlaceFields, PathOK
<1>a. m \in 1 .. Len(a)
  BY <1>2, PathOK
<1> HIDE DEF v
<1>3. \A x : moved(x) <=> Rises(pl, p, x)
  BY DEF Rises
<1> HIDE DEF a, m, r
<1>1. /\ DOMAIN v = DOMAIN pl \ {p} /\ m \in 1 .. Len(a)
      /\ \A x \in DOMAIN v :
            /\ v[x].root = pl[x].root
            /\ ~moved(x) => v[x] = pl[x]
            /\ moved(x) => v[x].path \in Path /\ Lifted(pl[x].path, v[x].path, m)
                           /\ Len(v[x].path) = Len(pl[x].path) - 1
  <2> HIDE DEF moved
  <2> QED BY <1>a, <1>0, <1>3 DEF Lifted
<1>4. pl[p].path = a /\ pl[p].root = r /\ m = Len(a)
  BY DEF a, r, m
<1>5. \A x, y \in DOMAIN pl : x # y /\ pl[x].root = pl[y].root =>
         \E k \in Nat : Splits(pl[x].path, pl[y].path, k)
  BY DEF Whole, InRoot
<1>6. \A x \in DOMAIN pl : \A n \in 1 .. Len(pl[x].path) :
         \E y \in DOMAIN pl : pl[y].root = pl[x].root /\ Splits(pl[x].path, pl[y].path, n)
  BY DEF Whole, InRoot
\* A pane of the tree that does not move parts from p before the last step.
<1>7. ASSUME NEW x \in DOMAIN v, ~moved(x), pl[x].root = r
      PROVE  \E k \in Nat : k < m /\ Splits(a, pl[x].path, k) /\ Splits(pl[x].path, a, k)
  <2>1. x \in DOMAIN pl /\ x # p
    BY <1>1
  <2>2. PICK k \in Nat : Splits(a, pl[x].path, k)
    BY <1>4, <1>5, <1>7, <2>1
  <2>3. k \in 1 .. m /\ k # m
    BY <1>4, <1>7, <2>2 DEF Splits
  <2> QED BY <1>2, <2>2, <2>3, SplitsSym
\* A pane that moves parts from whatever parts from p before the last step.
<1>8. ASSUME NEW x \in DOMAIN v, moved(x), NEW c, NEW n \in Nat, n < m
      PROVE  /\ Splits(a, c, n) <=> Splits(v[x].path, c, n)
             /\ Splits(c, a, n) <=> Splits(c, v[x].path, n)
  <2>1. /\ pl[x].path \in Path /\ v[x].path \in Path /\ Lifted(pl[x].path, v[x].path, m)
        /\ Splits(a, pl[x].path, m) /\ m \in Nat
    BY <1>1, <1>2, <1>3, <1>8
  <2>2. /\ Splits(a, c, n) <=> Splits(pl[x].path, c, n)
        /\ Splits(c, a, n) <=> Splits(c, pl[x].path, n)
    BY <1>8, <2>1, SplitsAlong
  <2>3. /\ Splits(pl[x].path, c, n) <=> Splits(v[x].path, c, n)
        /\ Splits(c, pl[x].path, n) <=> Splits(c, v[x].path, n)
    BY <1>8, <2>1, LiftedAbove
  <2> QED BY <2>2, <2>3
\* Two panes that move part below the step that goes.
<1>9. ASSUME NEW x \in DOMAIN v, NEW y \in DOMAIN v, moved(x), moved(y), NEW n \in Nat,
             Splits(pl[x].path, pl[y].path, n)
      PROVE  n > m /\ n - 1 \in Nat /\ Splits(v[x].path, v[y].path, n - 1)
  <2>1. x \in DOMAIN pl /\ y \in DOMAIN pl
    BY <1>1
  <2>2. /\ m \in 1 .. Len(pl[x].path) /\ m \in 1 .. Len(pl[y].path)
        /\ \A j \in 1 .. m - 1 : pl[x].path[j] = pl[y].path[j]
        /\ pl[x].path[m] # a[m] /\ pl[y].path[m] # a[m]
    BY <1>9 DEF Splits
  <2>3. pl[x].path[m] = pl[y].path[m]
    <3>1. a[m] \in {"s", "e"} /\ pl[x].path[m] \in {"s", "e"} /\ pl[y].path[m] \in {"s", "e"}
      BY <1>1, <1>2, <1>4, <2>1, <2>2
    <3> QED BY <2>2, <3>1
  <2>4. \A j \in 1 .. m : pl[x].path[j] = pl[y].path[j]
    BY <1>2, <2>2, <2>3
  <2>5. n > m
    BY <1>2, <1>9, <2>4 DEF Splits
  <2> DEFINE k == n - 1
  <2>6. k \in Nat /\ k >= m /\ k + 1 = n
    BY <1>2, <2>5
  <2> HIDE DEF k
  <2>7. Splits(pl[x].path, pl[y].path, k + 1)
    BY <1>9, <2>6
  <2>8. Splits(v[x].path, v[y].path, k)
    BY <1>1, <1>2, <1>9, <2>1, <2>6, <2>7, LiftedBelow, SMTT(30)
  <2> QED BY <2>5, <2>6, <2>8 DEF k
<1>10. PICK z \in DOMAIN v : moved(z)
  <2>1. m \in 1 .. Len(pl[p].path)
    BY <1>1, <1>4
  <2>2. PICK y \in DOMAIN pl : pl[y].root = pl[p].root /\ Splits(pl[p].path, pl[y].path, m)
    BY <1>6, <2>1
  <2>3. y # p
    BY <2>2 DEF Splits
  <2> QED BY <1>1, <1>4, <2>2, <2>3
<1>11. ASSUME NEW x \in DOMAIN v, NEW n \in 1 .. Len(v[x].path)
       PROVE  \E y \in DOMAIN v : v[y].root = v[x].root /\ Splits(v[x].path, v[y].path, n)
  <2>0. x \in DOMAIN pl /\ x # p /\ v[x].root = pl[x].root /\ n \in Nat
    BY <1>1
  <2>1. CASE moved(x) /\ n < m
    <3>1. n \in 1 .. Len(pl[p].path)
      BY <1>1, <1>4, <2>1
    <3>2. PICK y \in DOMAIN pl : pl[y].root = r /\ Splits(a, pl[y].path, n)
      BY <1>4, <1>6, <3>1
    <3>3. y # p /\ y \in DOMAIN v
      BY <1>1, <1>4, <3>2 DEF Splits
    <3>4. ~moved(y)
      BY <1>2, <2>0, <2>1, <3>2, SplitsOnce
    <3>5. v[y] = pl[y]
      BY <1>1, <3>3, <3>4
    <3>6. Splits(v[x].path, pl[y].path, n)
      BY <1>8, <2>0, <2>1, <3>2
    <3> QED BY <2>0, <2>1, <3>2, <3>3, <3>5, <3>6
  <2>2. CASE moved(x) /\ ~(n < m)
    <3>1. n + 1 \in 1 .. Len(pl[x].path) /\ n + 1 \in Nat
      BY <1>1, <1>2, <2>0, <2>2
    <3>2. PICK y \in DOMAIN pl : pl[y].root = pl[x].root /\ Splits(pl[x].path, pl[y].path, n + 1)
      BY <1>6, <2>0, <3>1
    <3>3. y # p
      BY <1>2, <1>4, <2>0, <2>2, <3>2 DEF Splits
    <3>4. moved(y)
      <4>1. m \in 1 .. Len(pl[y].path) /\ \A j \in 1 .. m : pl[y].path[j] = pl[x].path[j]
        BY <1>1, <1>2, <2>0, <2>2, <3>2 DEF Splits
      <4>2. Splits(a, pl[x].path, m) /\ pl[x].root = r
        BY <2>2
      <4>3. Splits(a, pl[y].path, m)
        BY <1>2, <1>4, <4>1, <4>2 DEF Splits
      <4> QED BY <3>2, <4>2, <4>3
    <3>5. y \in DOMAIN v
      BY <1>1, <3>3
    <3>6. Splits(v[x].path, v[y].path, (n + 1) - 1)
      BY <1>9, <2>2, <3>1, <3>2, <3>4, <3>5
    <3>7. (n + 1) - 1 = n
      BY <2>0
    <3> QED BY <1>1, <2>0, <3>2, <3>5, <3>6, <3>7
  <2>3. CASE ~moved(x) /\ pl[x].root = r
    <3>1. v[x] = pl[x]
      BY <1>1, <2>3
    <3>2. PICK k \in Nat : k < m /\ Splits(a, pl[x].path, k) /\ Splits(pl[x].path, a, k)
      BY <1>7, <2>3
    <3>3. PICK y \in DOMAIN pl : pl[y].root = r /\ Splits(pl[x].path, pl[y].path, n)
      BY <1>6, <2>0, <2>3, <3>1
    <3>4. CASE y # p /\ ~moved(y)
      BY <1>1, <2>0, <2>3, <3>1, <3>3, <3>4
    <3>5. CASE y = p
      <4>1. Splits(pl[x].path, a, n)
        BY <1>4, <3>3, <3>5
      <4>2. n < m
        BY <2>0, <3>2, <4>1, SplitsOnce
      <4>3. Splits(pl[x].path, v[z].path, n)
        BY <1>8, <1>10, <2>0, <4>1, <4>2
      <4> QED BY <1>1, <1>10, <2>0, <2>3, <3>1, <4>3
    <3>6. CASE moved(y) /\ y # p
      <4>1. y \in DOMAIN v
        BY <1>1, <3>6
      <4>2. Splits(pl[x].path, pl[y].path, k)
        BY <1>2, <3>2, <3>6, SplitsAlong
      <4>3. n < m /\ Splits(pl[x].path, a, n)
        BY <2>0, <3>2, <3>3, <4>2, SplitsOnce
      <4>4. Splits(pl[x].path, v[y].path, n)
        BY <1>8, <2>0, <3>6, <4>1, <4>3
      <4> QED BY <1>1, <2>0, <2>3, <3>1, <3>3, <4>1, <4>4
    <3> QED BY <3>4, <3>5, <3>6
  <2>4. CASE pl[x].root # r
    <3>1. v[x] = pl[x]
      BY <1>1, <2>4
    <3>2. PICK y \in DOMAIN pl : pl[y].root = pl[x].root /\ Splits(pl[x].path, pl[y].path, n)
      BY <1>6, <2>0, <3>1
    <3>3. y # p /\ ~moved(y)
      BY <1>4, <2>4, <3>2
    <3> QED BY <1>1, <3>1, <3>2, <3>3
  <2> QED BY <2>1, <2>2, <2>3, <2>4
<1>12. ASSUME NEW x \in DOMAIN v, NEW y \in DOMAIN v, x # y, v[x].root = v[y].root
       PROVE  \E k \in Nat : Splits(v[x].path, v[y].path, k)
  <2>1. x \in DOMAIN pl /\ y \in DOMAIN pl /\ pl[x].root = pl[y].root
    BY <1>1, <1>12
  <2>2. PICK k \in Nat : Splits(pl[x].path, pl[y].path, k)
    BY <1>5, <1>12, <2>1
  <2>3. CASE ~moved(x) /\ ~moved(y)
    BY <1>1, <2>2, <2>3
  <2>4. CASE moved(x) /\ moved(y)
    BY <1>9, <2>2, <2>4
  <2>5. CASE moved(x) /\ ~moved(y)
    <3>1. v[y] = pl[y]
      BY <1>1, <2>5
    <3>2. PICK j \in Nat : j < m /\ Splits(a, pl[y].path, j)
      BY <1>7, <2>1, <2>5
    <3> QED BY <1>8, <2>5, <3>1, <3>2
  <2>6. CASE ~moved(x) /\ moved(y)
    <3>1. v[x] = pl[x]
      BY <1>1, <2>6
    <3>2. PICK j \in Nat : j < m /\ Splits(pl[x].path, a, j)
      BY <1>7, <2>1, <2>6
    <3> QED BY <1>8, <2>6, <3>1, <3>2
  <2> QED BY <2>3, <2>4, <2>5, <2>6
<1> QED BY <1>11, <1>12 DEF Whole, InRoot, v

\* No pane is listed twice.
Distinct(s) == \A i, j \in DOMAIN s : s[i] = s[j] => i = j

\* Where two panes of a chain part.
LEMMA ChainSplits ==
  ASSUME NEW n \in Nat, NEW i \in 1 .. n, NEW j \in 1 .. n, i < j
  PROVE  /\ n - j + 1 \in Nat
         /\ Splits(ChainPath(i, n), ChainPath(j, n), n - j + 1)
         /\ Splits(ChainPath(j, n), ChainPath(i, n), n - j + 1)
         /\ ChainPath(i, n)[n - j + 1] = "s"
<1> DEFINE a == ChainPath(i, n)
           b == ChainPath(j, n)
           k == n - j + 1
           la == IF i = 1 THEN n - 1 ELSE n - i + 1
<1>1. /\ la \in Nat /\ k \in Nat /\ k \in 1 .. la /\ j # 1
      /\ i # 1 => k < n - i + 1
  OBVIOUS
<1>2. /\ a = [x \in 1 .. la |-> IF i # 1 /\ x = n - i + 1 THEN "e" ELSE "s"]
      /\ b = [x \in 1 .. k |-> IF j # 1 /\ x = n - j + 1 THEN "e" ELSE "s"]
  BY <1>1 DEF ChainPath
<1> HIDE DEF a, b
<1>3. Len(a) = la /\ Len(b) = k
  <2>1. a \in [1 .. la -> {"s", "e"}] /\ b \in [1 .. k -> {"s", "e"}]
    BY <1>2
  <2> HIDE DEF la, k
  <2> QED BY <1>1, <2>1, LenProperties
<1>4. a[k] = "s" /\ b[k] = "e"
  BY <1>1, <1>2
<1>5. \A x \in 1 .. k - 1 : a[x] = "s" /\ b[x] = "s"
  BY <1>1, <1>2
<1>6. Splits(a, b, k) /\ Splits(b, a, k)
  <2> HIDE DEF la, k
  <2>1. k \in 1 .. k
    BY <1>1
  <2>2. "s" # "e"
    OBVIOUS
  <2> QED BY <1>1, <1>3, <1>4, <1>5, <2>1, <2>2 DEF Splits
<1> QED BY <1>1, <1>4, <1>6 DEF a, b, k

\* Beside every node of a chain hangs a pane of it.
LEMMA ChainBeside ==
  ASSUME NEW n \in Nat, NEW i \in 1 .. n, NEW k \in 1 .. Len(ChainPath(i, n))
  PROVE  \E j \in 1 .. n : Splits(ChainPath(i, n), ChainPath(j, n), k)
<1> DEFINE la == IF i = 1 THEN n - 1 ELSE n - i + 1
<1>1. k \in 1 .. la
  <2>1. ChainPath(i, n) = [x \in 1 .. la |-> IF i # 1 /\ x = n - i + 1 THEN "e" ELSE "s"]
    BY DEF ChainPath
  <2>2. la \in Nat
    OBVIOUS
  <2> HIDE DEF la
  <2>3. ChainPath(i, n) \in [1 .. la -> {"s", "e"}]
    BY <2>1
  <2> QED BY <2>2, <2>3, LenProperties
<1>2. CASE i # 1 /\ k = n - i + 1
  <2>1. 1 \in 1 .. n /\ 1 < i
    BY <1>2
  <2>2. Splits(ChainPath(i, n), ChainPath(1, n), n - i + 1)
    BY <2>1, ChainSplits
  <2> QED BY <1>2, <2>1, <2>2
<1>3. CASE ~(i # 1 /\ k = n - i + 1)
  <2> DEFINE j == n - k + 1
  <2>1. j \in 1 .. n /\ i < j /\ n - j + 1 = k
    BY <1>1, <1>3
  <2> HIDE DEF j
  <2>2. Splits(ChainPath(i, n), ChainPath(j, n), n - j + 1)
    BY <2>1, ChainSplits
  <2> QED BY <2>1, <2>2
<1> QED BY <1>2, <1>3

\* The places v, when the listed panes are chained under r.
Chained(v, pl, r, list) ==
    /\ DOMAIN v = (DOMAIN pl \ InRoot(pl, r)) \cup ToSet(list)
    /\ \A i \in 1 .. Len(list) : v[list[i]] = At(r, ChainPath(i, Len(list)))
    /\ \A x \in DOMAIN v : x \notin ToSet(list) => v[x] = pl[x]

LEMMA ChainPlaces ==
  ASSUME NEW pl, NEW r, NEW T, NEW list \in Seq(T), Distinct(list)
  PROVE  Chained(Chain(pl, r, list), pl, r, list)
<1> DEFINE k(x) == CHOOSE i \in DOMAIN list : list[i] = x
           v == Chain(pl, r, list)
<1>1. ASSUME NEW i \in 1 .. Len(list)
      PROVE  list[i] \in ToSet(list) /\ k(list[i]) = i
  BY DEF ToSet, Distinct
<1>2. /\ DOMAIN v = (DOMAIN pl \ InRoot(pl, r)) \cup ToSet(list)
      /\ \A x \in ToSet(list) : v[x] = At(r, ChainPath(k(x), Len(list)))
      /\ \A x \in DOMAIN v : x \notin ToSet(list) => v[x] = pl[x]
  BY DEF Chain
<1> HIDE DEF k, v
<1>3. \A i \in 1 .. Len(list) : v[list[i]] = At(r, ChainPath(i, Len(list)))
  BY <1>1, <1>2
<1> QED BY <1>2, <1>3 DEF v, Chained

\* A chain put where there was room for it keeps the trees whole.
LEMMA ChainWhole ==
  ASSUME NEW pl, NEW r, NEW T, NEW list \in Seq(T), Distinct(list), Whole(pl),
         ToSet(list) \cap DOMAIN pl \subseteq InRoot(pl, r)
  PROVE  Whole(Chain(pl, r, list))
<1> DEFINE n == Len(list)
           v == Chain(pl, r, list)
<1>0. Chained(v, pl, r, list)
  BY ChainPlaces
<1> HIDE DEF v
<1>1. /\ DOMAIN v = (DOMAIN pl \ InRoot(pl, r)) \cup ToSet(list)
      /\ \A i \in 1 .. n : v[list[i]].root = r /\ v[list[i]].path = ChainPath(i, n)
      /\ \A x \in DOMAIN v : x \notin ToSet(list) => v[x] = pl[x]
  <2>1. ASSUME NEW i \in 1 .. n
        PROVE  v[list[i]].root = r /\ v[list[i]].path = ChainPath(i, n)
    <3>1. v[list[i]] = At(r, ChainPath(i, n))
      BY <1>0 DEF Chained
    <3> QED BY <3>1 DEF At
  <2> QED BY <1>0, <2>1 DEF Chained
<1>2. /\ n \in Nat /\ \A x \in ToSet(list) : \E i \in 1 .. n : x = list[i]
      /\ \A i \in 1 .. n : list[i] \in ToSet(list)
  BY DEF ToSet
<1> HIDE DEF n
<1>3. ASSUME NEW x \in DOMAIN v
      PROVE  /\ x \in ToSet(list) => v[x].root = r
             /\ x \notin ToSet(list) => x \in DOMAIN pl /\ v[x] = pl[x] /\ pl[x].root # r
  BY <1>1, <1>2 DEF InRoot
<1>4. ASSUME NEW x \in DOMAIN pl, pl[x].root # r
      PROVE  x \in DOMAIN v /\ v[x] = pl[x] /\ x \notin ToSet(list)
  BY <1>1, <1>4 DEF InRoot
<1>5. ASSUME NEW x \in DOMAIN v, NEW k \in 1 .. Len(v[x].path)
      PROVE  \E y \in DOMAIN v : v[y].root = v[x].root /\ Splits(v[x].path, v[y].path, k)
  <2>1. CASE x \in ToSet(list)
    <3>1. PICK i \in 1 .. n : x = list[i]
      BY <1>2, <2>1
    <3>2. v[x].path = ChainPath(i, n) /\ v[x].root = r
      BY <1>1, <3>1
    <3>3. PICK j \in 1 .. n : Splits(ChainPath(i, n), ChainPath(j, n), k)
      BY <1>2, <1>5, <3>2, ChainBeside
    <3> QED BY <1>1, <1>2, <3>2, <3>3
  <2>2. CASE x \notin ToSet(list)
    <3>1. x \in DOMAIN pl /\ v[x] = pl[x] /\ pl[x].root # r
      BY <1>3, <2>2
    <3>2. PICK y \in InRoot(pl, pl[x].root) : Splits(pl[x].path, pl[y].path, k)
      BY <1>5, <3>1 DEF Whole
    <3>3. y \in DOMAIN pl /\ pl[y].root = pl[x].root
      BY <3>2 DEF InRoot
    <3> QED BY <1>4, <3>1, <3>2, <3>3
  <2> QED BY <2>1, <2>2
<1>6. ASSUME NEW x \in DOMAIN v, NEW y \in DOMAIN v, x # y, v[x].root = v[y].root
      PROVE  \E k \in Nat : Splits(v[x].path, v[y].path, k)
  <2>1. CASE x \in ToSet(list) /\ y \in ToSet(list)
    <3>1. PICK i \in 1 .. n : x = list[i]
      BY <1>2, <2>1
    <3>2. PICK j \in 1 .. n : y = list[j]
      BY <1>2, <2>1
    <3>3. v[x].path = ChainPath(i, n) /\ v[y].path = ChainPath(j, n)
      BY <1>1, <3>1, <3>2
    <3>4. i < j \/ j < i
      BY <1>2, <1>6, <3>1, <3>2
    <3> QED BY <1>2, <3>3, <3>4, ChainSplits
  <2>2. CASE x \notin ToSet(list) /\ y \notin ToSet(list)
    <3>1. /\ x \in DOMAIN pl /\ v[x] = pl[x] /\ y \in DOMAIN pl /\ v[y] = pl[y]
          /\ y \in InRoot(pl, pl[x].root) \ {x}
      BY <1>3, <1>6, <2>2 DEF InRoot
    <3> QED BY <3>1 DEF Whole
  <2> QED BY <1>3, <1>6, <2>1, <2>2
<1> QED BY <1>5, <1>6 DEF Whole, InRoot, v

\* So does dropping a whole tree.
LEMMA DropWhole ==
  ASSUME NEW pl, NEW r, Whole(pl), NEW v, DOMAIN v = DOMAIN pl \ InRoot(pl, r),
         \A x \in DOMAIN v : v[x] = pl[x]
  PROVE  Whole(v)
<1>1. \A x \in DOMAIN v : InRoot(v, v[x].root) = InRoot(pl, pl[x].root)
  BY DEF InRoot
<1>2. \A x \in DOMAIN v : \A y \in InRoot(v, v[x].root) : v[y] = pl[y]
  BY DEF InRoot
<1> QED BY <1>1, <1>2 DEF Whole

\* A pane alone under each root.
LEMMA AloneWhole ==
  ASSUME NEW v, \A x \in DOMAIN v : v[x].root = x /\ v[x].path = <<>>
  PROVE  Whole(v)
<1>1. Len(<<>>) = 0
  OBVIOUS
<1> QED BY <1>1 DEF Whole, InRoot

-----------------------------------------------------------------------------
(* The order of a walk *)

\* A pane comes before another when their ways part and its own goes to the start.
LEMMA BeforeOK ==
  ASSUME NEW a \in Path, NEW b \in Path
  PROVE  Before(a, b) <=> \E k \in Nat : Splits(a, b, k) /\ a[k] = "s"
<1>1. /\ a \in Seq({"s", "e"}) /\ b \in Seq({"s", "e"})
      /\ Len(a) \in Nat /\ Len(b) \in Nat
      /\ \A k \in 1 .. Len(a) : a[k] \in {"s", "e"}
      /\ \A k \in 1 .. Len(b) : b[k] \in {"s", "e"}
      /\ DOMAIN a = 1 .. Len(a) /\ DOMAIN b = 1 .. Len(b)
  BY PathOK
<1>2. ASSUME NEW k \in 1 .. Len(a), k \in 1 .. Len(b)
      PROVE  SubSeq(a, 1, k - 1) = SubSeq(b, 1, k - 1) <=> \A j \in 1 .. k - 1 : a[j] = b[j]
  <2> DEFINE p == SubSeq(a, 1, k - 1)
             q == SubSeq(b, 1, k - 1)
  <2>1. /\ p \in Seq({"s", "e"}) /\ Len(p) = k - 1
        /\ \A j \in 1 .. k - 1 : p[j] = a[j]
    <3>1. \A j \in 1 .. k - 1 : a[j] \in {"s", "e"}
      BY <1>1
    <3> QED BY <1>1, <3>1, SubSeqProperties
  <2>2. /\ q \in Seq({"s", "e"}) /\ Len(q) = k - 1
        /\ \A j \in 1 .. k - 1 : q[j] = b[j]
    <3>1. \A j \in 1 .. k - 1 : b[j] \in {"s", "e"}
      BY <1>1, <1>2
    <3> QED BY <1>1, <1>2, <3>1, SubSeqProperties
  <2> HIDE DEF p, q
  <2>3. ASSUME \A j \in 1 .. k - 1 : a[j] = b[j] PROVE p = q
    BY <2>1, <2>2, <2>3, SeqEqual
  <2>4. ASSUME p = q PROVE \A j \in 1 .. k - 1 : a[j] = b[j]
    BY <2>1, <2>2, <2>4
  <2> QED BY <2>3, <2>4 DEF p, q
<1>3. ASSUME Before(a, b) PROVE \E k \in Nat : Splits(a, b, k) /\ a[k] = "s"
  <2>1. PICK k \in 1 .. Len(a) : /\ k \in 1 .. Len(b)
                                 /\ SubSeq(a, 1, k - 1) = SubSeq(b, 1, k - 1)
                                 /\ a[k] = "s" /\ b[k] = "e"
    BY <1>1, <1>3 DEF Before
  <2> QED BY <1>2, <2>1 DEF Splits
<1>4. ASSUME NEW k \in Nat, Splits(a, b, k), a[k] = "s" PROVE Before(a, b)
  <2>1. k \in 1 .. Len(a) /\ k \in 1 .. Len(b) /\ b[k] = "e" /\ \A j \in 1 .. k - 1 : a[j] = b[j]
    BY <1>1, <1>4 DEF Splits
  <2>2. k \in DOMAIN a \cap DOMAIN b
    BY <1>1, <2>1
  <2> QED BY <1>2, <1>4, <2>1, <2>2 DEF Before
<1> QED BY <1>3, <1>4

\* Panes whose ways part come one before the other.
LEMMA BeforeTotal ==
  ASSUME NEW a \in Path, NEW b \in Path, NEW k \in Nat, Splits(a, b, k)
  PROVE  Before(a, b) \/ Before(b, a)
<1>1. a[k] = "s" \/ b[k] = "s"
  BY PathOK DEF Splits
<1> QED BY <1>1, BeforeOK, SplitsSym

LEMMA BeforeTransitive ==
  ASSUME NEW a \in Path, NEW b \in Path, NEW c \in Path, Before(a, b), Before(b, c)
  PROVE  Before(a, c)
<1>1. PICK j \in Nat : Splits(a, b, j) /\ a[j] = "s"
  BY BeforeOK
<1>2. PICK k \in Nat : Splits(b, c, k) /\ b[k] = "s"
  BY BeforeOK
<1>3. CASE j < k
  <2>1. Splits(a, c, j)
    <3>1. Splits(a, b, j) <=> Splits(a, c, j)
      BY <1>2, <1>3, SplitsAlong
    <3> QED BY <1>1, <3>1
  <2> QED BY <1>1, <2>1, BeforeOK
<1>4. CASE k < j
  <2>1. Splits(b, a, j)
    BY <1>1, SplitsSym
  <2>2. Splits(a, c, k)
    BY <1>2, <1>4, <2>1, SplitsAlong
  <2>3. a[k] = "s"
    BY <1>1, <1>2, <1>4 DEF Splits
  <2> QED BY <2>2, <2>3, BeforeOK
<1>5. CASE j = k
  BY <1>1, <1>2, <1>5 DEF Splits
<1> QED BY <1>3, <1>4, <1>5

LEMMA BeforeStrict ==
  ASSUME NEW a \in Path
  PROVE  ~Before(a, a)
BY BeforeOK DEF Splits

\* The panes of a chain come in the order of its list.
LEMMA ChainOrder ==
  ASSUME NEW n \in Nat, NEW i \in 1 .. n, NEW j \in 1 .. n, i < j
  PROVE  Before(ChainPath(i, n), ChainPath(j, n))
BY ChainSplits, ChainPathOK, BeforeOK

\* A split keeps the order of the panes that were there.
LEMMA SplitLeafOrder ==
  ASSUME NEW R, NEW pl, pl \in [DOMAIN pl -> Place(R)], NEW p \in DOMAIN pl,
         NEW q, q \notin DOMAIN pl, NEW x \in DOMAIN pl, NEW y \in DOMAIN pl,
         Before(pl[x].path, pl[y].path)
  PROVE  Before(SplitLeaf(pl, p, q)[x].path, SplitLeaf(pl, p, q)[y].path)
<1> DEFINE a == pl[p].path
           s == Append(a, "s")
<1> SUFFICES ASSUME NEW v, v = SplitLeaf(pl, p, q)
             PROVE  Before(v[x].path, v[y].path)
  OBVIOUS
<1>1. \A z \in DOMAIN pl : pl[z].path \in Path /\ Len(pl[z].path) \in Nat
  BY PlaceFields, PathOK
<1>2. /\ v[p].path = s /\ \A z \in DOMAIN pl \ {p} : v[z] = pl[z]
  BY DEF SplitLeaf, At
<1>3. /\ s \in Path /\ Len(s) = Len(a) + 1 /\ \A k \in 1 .. Len(a) : s[k] = a[k]
  BY <1>1, AppendOK DEF Path
<1>4. x # y
  BY <1>1, BeforeStrict
<1>5. PICK k \in Nat : Splits(pl[x].path, pl[y].path, k) /\ pl[x].path[k] = "s"
  BY <1>1, BeforeOK
<1>6. CASE x = p
  <2>1. v[y] = pl[y] /\ pl[x].path = a /\ Len(a) \in Nat
    BY <1>1, <1>2, <1>4, <1>6
  <2> HIDE DEF a, s
  <2>2. Splits(s, pl[y].path, k) /\ s[k] = "s"
    BY <1>3, <1>5, <2>1 DEF Splits
  <2> QED BY <1>1, <1>2, <1>3, <1>6, <2>1, <2>2, BeforeOK
<1>7. CASE y = p
  <2>1. v[x] = pl[x] /\ pl[y].path = a /\ Len(a) \in Nat
    BY <1>1, <1>2, <1>4, <1>7
  <2> HIDE DEF a, s
  <2>2. Splits(pl[x].path, s, k)
    BY <1>3, <1>5, <2>1 DEF Splits
  <2> QED BY <1>1, <1>2, <1>3, <1>5, <1>7, <2>1, <2>2, BeforeOK
<1>8. CASE x # p /\ y # p
  BY <1>2, <1>8
<1> QED BY <1>6, <1>7, <1>8

\* So does a close.
LEMMA CloseLeafOrder ==
  ASSUME NEW R, NEW pl, pl \in [DOMAIN pl -> Place(R)], NEW p \in DOMAIN pl,
         pl[p].path # <<>>, Whole(pl), NEW x \in DOMAIN pl \ {p}, NEW y \in DOMAIN pl \ {p},
         pl[x].root = pl[y].root, Before(pl[x].path, pl[y].path)
  PROVE  Before(CloseLeaf(pl, p)[x].path, CloseLeaf(pl, p)[y].path)
<1> DEFINE a == pl[p].path
           m == Len(a)
           v == CloseLeaf(pl, p)
<1> SUFFICES Before(v[x].path, v[y].path)
  OBVIOUS
<1>0. /\ DOMAIN v = DOMAIN pl \ {p}
      /\ \A z \in DOMAIN v :
            /\ v[z].root = pl[z].root
            /\ ~Rises(pl, p, z) => v[z] = pl[z]
            /\ Rises(pl, p, z) => v[z].path \in Path /\ Lifted(pl[z].path, v[z].path, Len(pl[p].path))
  BY CloseLeafLifts
<1> HIDE DEF v
<1>1. /\ DOMAIN v = DOMAIN pl \ {p}
      /\ \A z \in DOMAIN v :
            /\ v[z].root = pl[z].root
            /\ ~Rises(pl, p, z) => v[z] = pl[z]
            /\ Rises(pl, p, z) => v[z].path \in Path /\ Lifted(pl[z].path, v[z].path, m)
  BY <1>0
<1>2. /\ \A z \in DOMAIN pl : pl[z].path \in Path /\ Len(pl[z].path) \in Nat
      /\ a \in Path /\ m \in Nat
  BY PlaceFields, PathOK
<1> HIDE DEF a, m
<1>3. pl[p].path = a /\ m = Len(a)
  BY DEF a, m
<1>4. PICK k \in Nat : Splits(pl[x].path, pl[y].path, k) /\ pl[x].path[k] = "s"
  BY <1>2, BeforeOK
<1>5. ASSUME NEW z \in DOMAIN v, ~Rises(pl, p, z), pl[z].root = pl[p].root
      PROVE  \E j \in Nat : j < m /\ Splits(a, pl[z].path, j) /\ Splits(pl[z].path, a, j)
  <2>1. z \in InRoot(pl, pl[p].root) \ {p}
    BY <1>1, <1>5 DEF InRoot
  <2>2. PICK j \in Nat : Splits(a, pl[z].path, j)
    BY <1>3, <2>1 DEF Whole
  <2>3. j \in 1 .. m /\ j # m
    BY <1>3, <1>5, <2>2 DEF Splits, Rises
  <2> QED BY <1>2, <2>2, <2>3, SplitsSym
<1>6. v[x].path \in Path /\ v[y].path \in Path
  BY <1>1, <1>2
<1>7. CASE ~Rises(pl, p, x) /\ ~Rises(pl, p, y)
  BY <1>1, <1>7
<1>8. CASE Rises(pl, p, x) /\ Rises(pl, p, y)
  <2>1. /\ m \in 1 .. Len(pl[x].path) /\ m \in 1 .. Len(pl[y].path) /\ m \in 1 .. Len(a)
        /\ \A j \in 1 .. m - 1 : pl[x].path[j] = pl[y].path[j]
        /\ pl[x].path[m] # a[m] /\ pl[y].path[m] # a[m]
    BY <1>3, <1>8 DEF Splits, Rises
  <2>2. pl[x].path[m] = pl[y].path[m]
    <3>1. a[m] \in {"s", "e"} /\ pl[x].path[m] \in {"s", "e"} /\ pl[y].path[m] \in {"s", "e"}
      BY <1>2, <2>1, PathOK
    <3> QED BY <2>1, <3>1
  <2>3. k > m
    BY <1>2, <1>4, <2>1, <2>2 DEF Splits
  <2> DEFINE n == k - 1
  <2>4. n \in Nat /\ n >= m /\ k = n + 1
    BY <1>2, <2>3
  <2> HIDE DEF n
  <2>5. Splits(pl[x].path, pl[y].path, n + 1)
    BY <1>4, <2>4
  <2>6. Lifted(pl[x].path, v[x].path, m) /\ Lifted(pl[y].path, v[y].path, m)
    BY <1>1, <1>8
  <2>7. Splits(v[x].path, v[y].path, n)
    BY <1>2, <1>6, <2>4, <2>5, <2>6, LiftedBelow
  <2>8. v[x].path[n] = "s"
    <3>1. n \in 1 .. Len(v[x].path) /\ ~(n < m)
      BY <1>2, <2>4, <2>7 DEF Splits
    <3> QED BY <1>4, <2>4, <2>6, <3>1 DEF Lifted
  <2> QED BY <1>6, <2>4, <2>7, <2>8, BeforeOK
<1>9. CASE Rises(pl, p, x) /\ ~Rises(pl, p, y)
  <2>1. pl[y].root = pl[p].root /\ Splits(a, pl[x].path, m) /\ Lifted(pl[x].path, v[x].path, m)
        /\ v[y] = pl[y]
    BY <1>1, <1>3, <1>9 DEF Rises
  <2>2. PICK j \in Nat : j < m /\ Splits(a, pl[y].path, j)
    BY <1>1, <1>5, <1>9, <2>1
  <2>3. Splits(pl[x].path, pl[y].path, j)
    BY <1>2, <2>1, <2>2, SplitsAlong
  <2>4. j = k
    BY <1>4, <2>3, SplitsOnce
  <2>5. Splits(v[x].path, pl[y].path, k)
    BY <1>2, <1>6, <2>1, <2>2, <2>3, <2>4, LiftedAbove
  <2>6. v[x].path[k] = "s"
    BY <1>4, <2>1, <2>2, <2>4, <2>5 DEF Lifted, Splits
  <2> QED BY <1>2, <1>6, <2>1, <2>5, <2>6, BeforeOK
<1>10. CASE ~Rises(pl, p, x) /\ Rises(pl, p, y)
  <2>1. pl[x].root = pl[p].root /\ Splits(a, pl[y].path, m) /\ Lifted(pl[y].path, v[y].path, m)
        /\ v[x] = pl[x]
    BY <1>1, <1>3, <1>10 DEF Rises
  <2>2. PICK j \in Nat : j < m /\ Splits(pl[x].path, a, j)
    BY <1>1, <1>5, <1>10, <2>1
  <2>3. Splits(pl[x].path, pl[y].path, j)
    <3>1. Splits(pl[x].path, a, j) <=> Splits(pl[x].path, pl[y].path, j)
      <4>1. Splits(a, pl[y].path, m) /\ m \in Nat /\ j < m
        BY <1>2, <2>1, <2>2
      <4> QED BY ONLY <4>1, j \in Nat, SplitsAlong
    <3> QED BY <2>2, <3>1
  <2>4. j = k
    BY <1>4, <2>3, SplitsOnce
  <2>5. Splits(pl[x].path, v[y].path, k)
    BY <1>2, <1>6, <2>1, <2>2, <2>3, <2>4, LiftedAbove
  <2> QED BY <1>2, <1>4, <1>6, <2>1, <2>5, BeforeOK
<1> QED BY <1>7, <1>8, <1>9, <1>10 DEF v

-----------------------------------------------------------------------------
(* Lists without repetitions *)

\* s is t without its i-th element.
Skips(s, t, i) ==
    \E g \in [DOMAIN s -> DOMAIN t \ {i}] :
        /\ \A j \in DOMAIN s : s[j] = t[g[j]]
        /\ \A j, k \in DOMAIN s : g[j] = g[k] => j = k
        /\ \A k \in DOMAIN t \ {i} : \E j \in DOMAIN s : g[j] = k

\* InsertAt and RemoveAt skip the element they add and take.
LEMMA SkipsOK ==
  ASSUME NEW S, NEW s \in Seq(S), NEW t \in Seq(S), NEW i \in 1 .. Len(t), Len(t) = Len(s) + 1,
         \A j \in 1 .. Len(s) : j < i => s[j] = t[j],
         \A j \in 1 .. Len(s) : j >= i => s[j] = t[j + 1]
  PROVE  Skips(s, t, i)
<1> DEFINE n == Len(s)
           g == [j \in 1 .. n |-> IF j < i THEN j ELSE j + 1]
<1>1. n \in Nat /\ DOMAIN s = 1 .. n /\ DOMAIN t = 1 .. n + 1 /\ i \in 1 .. n + 1
  OBVIOUS
<1>2. /\ \A j \in 1 .. n : j < i => s[j] = t[j]
      /\ \A j \in 1 .. n : j >= i => s[j] = t[j + 1]
  OBVIOUS
<1> HIDE DEF n
<1>3. g \in [1 .. n -> (1 .. n + 1) \ {i}]
  <2>1. ASSUME NEW j \in 1 .. n
        PROVE  (IF j < i THEN j ELSE j + 1) \in (1 .. n + 1) \ {i}
    BY <1>1
  <2> QED BY <2>1
<1>4. \A j \in 1 .. n : s[j] = t[g[j]]
  BY <1>1, <1>2
<1>5. \A j, k \in 1 .. n : g[j] = g[k] => j = k
  BY <1>1
<1>6. ASSUME NEW k \in (1 .. n + 1) \ {i}
      PROVE  \E j \in 1 .. n : g[j] = k
  <2>1. CASE k < i
    BY <1>1, <2>1
  <2>2. CASE k > i
    <3>1. k - 1 \in 1 .. n /\ ~(k - 1 < i) /\ (k - 1) + 1 = k
      BY <1>1, <2>2
    <3> QED BY <3>1
  <2> QED BY <1>1, <2>1, <2>2
<1> HIDE DEF g
<1>7. /\ g \in [DOMAIN s -> DOMAIN t \ {i}]
      /\ \A j \in DOMAIN s : s[j] = t[g[j]]
      /\ \A j, k \in DOMAIN s : g[j] = g[k] => j = k
      /\ \A k \in DOMAIN t \ {i} : \E j \in DOMAIN s : g[j] = k
  BY <1>1, <1>3, <1>4, <1>5, <1>6
<1> QED BY <1>7, Zenon DEF Skips

LEMMA InsertSkips ==
  ASSUME NEW S, NEW s \in Seq(S), NEW i \in 1 .. Len(s) + 1, NEW e \in S
  PROVE  /\ Skips(s, InsertAt(s, i, e), i)
         /\ i \in DOMAIN InsertAt(s, i, e)
         /\ InsertAt(s, i, e)[i] = e
<1>1. /\ InsertAt(s, i, e) \in Seq(S)
      /\ Len(InsertAt(s, i, e)) = Len(s) + 1
      /\ \A j \in 1 .. Len(s) + 1 :
            InsertAt(s, i, e)[j] =
               IF j < i THEN s[j] ELSE IF j = i THEN e ELSE s[j - 1]
  <2>1. InsertAt(s, i, e) \in Seq(S) /\ Len(InsertAt(s, i, e)) = Len(s) + 1
    BY InsertAtOK
  <2>2. \A j \in 1 .. Len(s) + 1 :
           InsertAt(s, i, e)[j] = IF j < i THEN s[j] ELSE IF j = i THEN e ELSE s[j - 1]
    BY InsertAtOK
  <2> QED BY <2>1, <2>2
<1> DEFINE t == InsertAt(s, i, e)
           n == Len(s)
<1>2. n \in Nat /\ i \in 1 .. n + 1 /\ DOMAIN s = 1 .. n /\ i \in Nat
  OBVIOUS
<1>3. /\ t \in Seq(S) /\ Len(t) = n + 1
      /\ \A j \in 1 .. n + 1 : t[j] = IF j < i THEN s[j] ELSE IF j = i THEN e ELSE s[j - 1]
  BY <1>1
<1> HIDE DEF t, n
<1>5. /\ \A j \in 1 .. n : j < i => s[j] = t[j]
      /\ t[i] = e
      /\ \A j \in 1 .. n : j >= i => s[j] = t[j + 1]
  <2>1. ASSUME NEW j \in 1 .. n, j >= i
        PROVE  t[j + 1] = s[j]
    <3>1. j + 1 \in 1 .. n + 1 /\ ~(j + 1 < i) /\ j + 1 # i /\ (j + 1) - 1 = j
      BY <1>2, <2>1
    <3> QED BY <1>3, <3>1
  <2>2. ASSUME NEW j \in 1 .. n, j < i
        PROVE  t[j] = s[j]
    BY <1>2, <1>3, <2>2
  <2>3. t[i] = e
    BY <1>2, <1>3
  <2> QED BY <2>1, <2>2, <2>3
<1>6. i \in 1 .. Len(t) /\ i \in DOMAIN t
  BY <1>2, <1>3
<1>7. Skips(s, t, i)
  BY <1>3, <1>5, <1>6, SkipsOK DEF n
<1> QED BY <1>5, <1>6, <1>7 DEF t

LEMMA RemoveSkips ==
  ASSUME NEW S, NEW s \in Seq(S), NEW i \in 1 .. Len(s)
  PROVE  Skips(RemoveAt(s, i), s, i)
<1> DEFINE t == RemoveAt(s, i)
<1>1. /\ t \in Seq(S) /\ Len(t) = Len(s) - 1
      /\ \A j \in 1 .. Len(s) - 1 : t[j] = IF j < i THEN s[j] ELSE s[j + 1]
  BY RemoveAtOK
<1> HIDE DEF t
<1>2. Len(s) \in Nat /\ Len(s) = Len(t) + 1 /\ 1 .. Len(t) = 1 .. Len(s) - 1
  BY <1>1
<1>3. /\ \A j \in 1 .. Len(t) : j < i => t[j] = s[j]
      /\ \A j \in 1 .. Len(t) : j >= i => t[j] = s[j + 1]
  BY <1>1, <1>2
<1> QED BY <1>1, <1>2, <1>3, SkipsOK DEF t

LEMMA SkipsDistinct ==
  ASSUME NEW s, NEW t, NEW i \in DOMAIN t, Skips(s, t, i)
  PROVE  /\ ToSet(t) = ToSet(s) \cup {t[i]}
         /\ Distinct(t) => Distinct(s) /\ ToSet(s) = ToSet(t) \ {t[i]}
         /\ Distinct(s) /\ t[i] \notin ToSet(s) => Distinct(t)
<1>1. PICK g \in [DOMAIN s -> DOMAIN t \ {i}] :
        /\ \A j \in DOMAIN s : s[j] = t[g[j]]
        /\ \A j, k \in DOMAIN s : g[j] = g[k] => j = k
        /\ \A k \in DOMAIN t \ {i} : \E j \in DOMAIN s : g[j] = k
  BY DEF Skips
<1>2. \A j \in DOMAIN s : g[j] \in DOMAIN t /\ g[j] # i
  BY <1>1
<1>3. ToSet(t) = ToSet(s) \cup {t[i]}
  <2>1. ASSUME NEW k \in DOMAIN t PROVE t[k] \in ToSet(s) \cup {t[i]}
    BY <1>1 DEF ToSet
  <2>2. ASSUME NEW j \in DOMAIN s PROVE s[j] \in ToSet(t)
    BY <1>1, <1>2 DEF ToSet
  <2> QED BY <2>1, <2>2 DEF ToSet
<1>4. ASSUME Distinct(t) PROVE Distinct(s) /\ t[i] \notin ToSet(s)
  BY <1>1, <1>2, <1>4 DEF Distinct, ToSet
<1>5. ASSUME Distinct(s), t[i] \notin ToSet(s), NEW j \in DOMAIN t, NEW k \in DOMAIN t, t[j] = t[k]
      PROVE  j = k
  <2>1. \A x \in DOMAIN t \ {i} : \E y \in DOMAIN s : g[y] = x /\ t[x] = s[y]
    BY <1>1
  <2>2. \A y \in DOMAIN s : s[y] # t[i]
    BY <1>5 DEF ToSet
  <2> QED BY <1>5, <2>1, <2>2 DEF Distinct
<1> QED BY <1>3, <1>4, <1>5 DEF Distinct

LEMMA InsertDistinct ==
  ASSUME NEW S, NEW s \in Seq(S), NEW i \in 1 .. Len(s) + 1, NEW e \in S
  PROVE  /\ ToSet(InsertAt(s, i, e)) = ToSet(s) \cup {e}
         /\ Distinct(s) /\ e \notin ToSet(s) => Distinct(InsertAt(s, i, e))
<1> DEFINE t == InsertAt(s, i, e)
<1>1. Skips(s, t, i) /\ i \in DOMAIN t /\ t[i] = e
  BY InsertSkips
<1> HIDE DEF t
<1>2. /\ ToSet(t) = ToSet(s) \cup {e}
      /\ Distinct(s) /\ e \notin ToSet(s) => Distinct(t)
  BY <1>1, SkipsDistinct
<1> QED BY <1>2 DEF t

LEMMA RemoveDistinct ==
  ASSUME NEW S, NEW s \in Seq(S), NEW i \in 1 .. Len(s), Distinct(s)
  PROVE  /\ ToSet(RemoveAt(s, i)) = ToSet(s) \ {s[i]}
         /\ Distinct(RemoveAt(s, i))
BY RemoveSkips, SkipsDistinct

LEMMA AppendDistinct ==
  ASSUME NEW S, NEW s \in Seq(S), NEW e \in S
  PROVE  /\ ToSet(Append(s, e)) = ToSet(s) \cup {e}
         /\ Distinct(s) /\ e \notin ToSet(s) => Distinct(Append(s, e))
<1> DEFINE t == Append(s, e)
           n == Len(s)
<1>1. /\ n \in Nat /\ DOMAIN s = 1 .. n /\ DOMAIN t = 1 .. n + 1
      /\ \A j \in 1 .. n + 1 : t[j] = IF j <= n THEN s[j] ELSE e
  BY AppendOK
<1> HIDE DEF t, n
<1>2. ToSet(t) = ToSet(s) \cup {e}
  <2>1. \A j \in 1 .. n : j \in 1 .. n + 1 /\ t[j] = s[j]
    BY <1>1
  <2>2. n + 1 \in 1 .. n + 1 /\ t[n + 1] = e
    BY <1>1
  <2>3. \A j \in 1 .. n + 1 : j \in 1 .. n \/ j = n + 1
    BY <1>1
  <2> QED BY <1>1, <2>1, <2>2, <2>3 DEF ToSet
<1>3. ASSUME Distinct(s), e \notin ToSet(s), NEW j \in 1 .. n + 1, NEW k \in 1 .. n + 1, t[j] = t[k]
      PROVE  j = k
  BY <1>1, <1>3 DEF Distinct, ToSet
<1> QED BY <1>1, <1>2, <1>3 DEF Distinct, t

\* As many elements as entries.
LEMMA DistinctCount ==
  ASSUME NEW S, NEW s \in Seq(S), Distinct(s)
  PROVE  Cardinality(ToSet(s)) = Len(s)
<1> DEFINE n == Len(s)
           D == ToSet(s)
<1>1. n \in Nat /\ IsFiniteSet(1 .. n) /\ Cardinality(1 .. n) = n
  <2>1. n \in Nat
    OBVIOUS
  <2> HIDE DEF n
  <2>2. IsFiniteSet(1 .. n) /\ Cardinality(1 .. n) = IF 1 > n THEN 0 ELSE n - 1 + 1
    BY <2>1, FS_Interval
  <2> QED BY <2>1, <2>2
<1>2. DOMAIN s = 1 .. n /\ s \in [1 .. n -> D] /\ \A x \in D : \E i \in 1 .. n : s[i] = x
  BY DEF ToSet
<1>3. \A i, j \in 1 .. n : s[i] = s[j] => i = j
  BY <1>2 DEF Distinct
<1> HIDE DEF n, D
<1>4. s \in Surjection(1 .. n, D) /\ s \in Injection(1 .. n, D)
  BY <1>2, <1>3 DEF Surjection, Injection, IsInjective
<1>5. Cardinality(D) = Cardinality(1 .. n)
  BY <1>1, <1>4, FS_Surjection
<1> QED BY <1>1, <1>5 DEF n, D

-----------------------------------------------------------------------------
(* Finite sets in a strict order *)

\* R is a strict total order of D.
Orders(R, D) ==
    /\ \A x \in D : <<x, x>> \notin R
    /\ \A x, y, z \in D : <<x, y>> \in R /\ <<y, z>> \in R => <<x, z>> \in R
    /\ \A x, y \in D : x = y \/ <<x, y>> \in R \/ <<y, x>> \in R

\* s lists D in the order R.
Lists(s, R, D) ==
    /\ s \in [1 .. Cardinality(D) -> D]
    /\ \A i, j \in DOMAIN s : i < j => <<s[i], s[j]>> \in R

\* A finite set under a strict total order has a list in that order: an
\* element's index is one more than the number of the elements before it.
LEMMA ListExists ==
  ASSUME NEW D, IsFiniteSet(D), NEW R, Orders(R, D)
  PROVE  \E s : Lists(s, R, D)
<1> DEFINE n        == Cardinality(D)
           Below(x) == {y \in D : <<y, x>> \in R}
           rank     == [x \in D |-> Cardinality(Below(x)) + 1]
<1>1. n \in Nat
  BY FS_CardinalityType
<1>2. ASSUME NEW x \in D
      PROVE  /\ IsFiniteSet(Below(x)) /\ Cardinality(Below(x)) \in Nat
             /\ Cardinality(Below(x)) < n
  <2>1. Below(x) \in SUBSET D /\ x \notin Below(x)
    BY DEF Orders
  <2> HIDE DEF Below
  <2>2. /\ IsFiniteSet(Below(x)) /\ Cardinality(Below(x)) <= n
        /\ n = Cardinality(Below(x)) => D = Below(x)
    BY <2>1, FS_Subset
  <2>3. Cardinality(Below(x)) \in Nat
    BY <2>2, FS_CardinalityType
  <2>4. Cardinality(Below(x)) # n
    BY <2>1, <2>2
  <2> HIDE DEF n
  <2> QED BY <1>1, <2>2, <2>3, <2>4
<1>3. ASSUME NEW x \in D, NEW y \in D, <<x, y>> \in R
      PROVE  Cardinality(Below(x)) < Cardinality(Below(y))
  <2>1. Below(x) \in SUBSET Below(y) /\ x \in Below(y) /\ x \notin Below(x)
    BY <1>3 DEF Orders
  <2> HIDE DEF Below
  <2>2. /\ Cardinality(Below(x)) <= Cardinality(Below(y))
        /\ Cardinality(Below(y)) = Cardinality(Below(x)) => Below(y) = Below(x)
    BY <1>2, <2>1, FS_Subset
  <2>3. Cardinality(Below(x)) # Cardinality(Below(y))
    BY <2>1, <2>2
  <2> DEFINE a == Cardinality(Below(x))
             b == Cardinality(Below(y))
  <2>4. a \in Nat /\ b \in Nat /\ a <= b /\ a # b
    BY <1>2, <2>2, <2>3
  <2> HIDE DEF a, b
  <2>5. a < b
    BY <2>4
  <2> QED BY <2>5 DEF a, b
<1> HIDE DEF Below, n
<1>4. \A x \in D : rank[x] \in 1 .. n /\ rank[x] = Cardinality(Below(x)) + 1
  BY <1>1, <1>2
<1>5. rank \in [D -> 1 .. n]
  BY <1>4
<1> HIDE DEF rank
<1>6. ASSUME NEW x \in D, NEW y \in D, <<x, y>> \in R
      PROVE  rank[x] < rank[y]
  BY <1>2, <1>3, <1>4, <1>6
<1>7. ASSUME NEW x \in D, NEW y \in D, rank[x] = rank[y]
      PROVE  x = y
  <2>1. <<x, y>> \notin R /\ <<y, x>> \notin R
    BY <1>1, <1>5, <1>6, <1>7
  <2> QED BY <2>1 DEF Orders
<1>8. rank \in Injection(D, 1 .. n)
  BY <1>5, <1>7 DEF Injection, IsInjective
<1>9. IsFiniteSet(1 .. n) /\ Cardinality(1 .. n) = n
  BY <1>1, FS_Interval
<1>10. rank \in Surjection(D, 1 .. n)
  BY <1>8, <1>9, FS_Injection DEF n
<1>11. \A i \in 1 .. n : \E x \in D : rank[x] = i
  BY <1>10 DEF Surjection
<1> DEFINE s == [i \in 1 .. n |-> CHOOSE x \in D : rank[x] = i]
<1>12. \A i \in 1 .. n : s[i] \in D /\ rank[s[i]] = i
  BY <1>11
<1>13. s \in [1 .. n -> D] /\ DOMAIN s = 1 .. n
  BY <1>12
<1> HIDE DEF s
<1>14. ASSUME NEW i \in 1 .. n, NEW j \in 1 .. n, i < j
       PROVE  <<s[i], s[j]>> \in R
  <2>1. s[i] \in D /\ s[j] \in D /\ rank[s[i]] = i /\ rank[s[j]] = j
    BY <1>12
  <2>2. s[i] # s[j]
    BY <2>1, <1>14
  <2>3. <<s[j], s[i]>> \notin R
    <3>1. ASSUME <<s[j], s[i]>> \in R
          PROVE  FALSE
      <4>1. rank[s[j]] < rank[s[i]]
        BY <1>6, <2>1, <3>1
      <4> QED BY <1>1, <1>14, <2>1, <4>1
    <3> QED BY <3>1
  <2> QED BY <2>1, <2>2, <2>3 DEF Orders
<1> QED BY <1>13, <1>14 DEF Lists, n

\* Such a list names every element once.
LEMMA ListAll ==
  ASSUME NEW D, IsFiniteSet(D), NEW R, Orders(R, D), NEW s, Lists(s, R, D)
  PROVE  /\ s \in Seq(D) /\ Len(s) = Cardinality(D)
         /\ Distinct(s) /\ ToSet(s) = D
<1> DEFINE n == Cardinality(D)
<1>1. n \in Nat /\ IsFiniteSet(1 .. n) /\ Cardinality(1 .. n) = n
  BY FS_CardinalityType, FS_Interval
<1>2. s \in [1 .. n -> D] /\ \A i, j \in DOMAIN s : i < j => <<s[i], s[j]>> \in R
  BY DEF Lists
<1>d. IsFiniteSet(D) /\ n = Cardinality(D)
  OBVIOUS
<1> HIDE DEF n
<1>3. s \in Seq(D) /\ Len(s) = n /\ DOMAIN s = 1 .. n
  BY <1>1, <1>2
<1>4. ASSUME NEW i \in 1 .. n, NEW j \in 1 .. n, s[i] = s[j]
      PROVE  i = j
  <2>1. s[i] \in D /\ s[j] \in D
    BY <1>2
  <2>2. <<s[i], s[j]>> \notin R /\ <<s[j], s[i]>> \notin R
    BY <1>4, <2>1 DEF Orders
  <2>3. ~(i < j) /\ ~(j < i)
    BY <1>2, <1>3, <2>2
  <2> QED BY <1>1, <2>3
<1>5. Distinct(s)
  BY <1>3, <1>4 DEF Distinct
<1>6. s \in Injection(1 .. n, D)
  BY <1>2, <1>4 DEF Injection, IsInjective
<1>7. s \in Surjection(1 .. n, D)
  BY <1>1, <1>6, <1>d, FS_Injection
<1>8. ToSet(s) = D
  BY <1>2, <1>3, <1>7 DEF ToSet, Surjection
<1> QED BY <1>3, <1>5, <1>8, <1>d

=============================================================================
