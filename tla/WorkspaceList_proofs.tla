------------------------ MODULE WorkspaceList_proofs ------------------------
(***************************************************************************)
(* What each function of workspace.c makes of an instance (a lemma each),  *)
(* and from them: the instance always shows its current workspace, held    *)
(* indices follow their workspace through everything but a reordering, and *)
(* the current workspace survives what does not concern it.                *)
(***************************************************************************)
EXTENDS WorkspaceList, SequenceTheorems, TLAPS

LEMMA RemoveAtOK ==
  ASSUME NEW S, NEW s \in Seq(S), NEW i \in 1 .. Len(s)
  PROVE  /\ RemoveAt(s, i) \in Seq(S)
         /\ Len(RemoveAt(s, i)) = Len(s) - 1
         /\ \A j \in 1 .. Len(s) - 1 :
               RemoveAt(s, i)[j] = IF j < i THEN s[j] ELSE s[j + 1]
<1> DEFINE l == SubSeq(s, 1, i - 1)
           r == SubSeq(s, i + 1, Len(s))
<1>1. l \in Seq(S) /\ Len(l) = i - 1 /\ \A j \in 1 .. i - 1 : l[j] = s[j]
  BY SubSeqProperties, ElementOfSeq
<1>2. r \in Seq(S) /\ Len(r) = Len(s) - i /\ \A j \in 1 .. Len(s) - i : r[j] = s[i + j]
  BY SubSeqProperties, ElementOfSeq
<1>3. RemoveAt(s, i) = l \o r
  BY DEF RemoveAt
<1> HIDE DEF l, r
<1> DEFINE c == l \o r
<1>4. c \in Seq(S) /\ Len(c) = Len(s) - 1
      /\ \A j \in 1 .. Len(s) - 1 : c[j] = IF j <= i - 1 THEN l[j] ELSE r[j - (i - 1)]
  <2>1. /\ c \in Seq(S) /\ Len(c) = Len(l) + Len(r)
        /\ \A j \in 1 .. Len(l) + Len(r) :
              c[j] = IF j <= Len(l) THEN l[j] ELSE r[j - Len(l)]
    BY <1>1, <1>2, ConcatProperties
  <2>2. Len(l) + Len(r) = Len(s) - 1
    BY <1>1, <1>2
  <2> HIDE DEF c
  <2> QED BY <1>1, <2>1, <2>2
<1> HIDE DEF c
<1>5. ASSUME NEW j \in 1 .. Len(s) - 1
      PROVE  c[j] = IF j < i THEN s[j] ELSE s[j + 1]
  <2>1. CASE j < i
    BY <1>1, <1>4, <2>1
  <2>2. CASE ~(j < i)
    <3>1. j - (i - 1) \in 1 .. Len(s) - i /\ i + (j - (i - 1)) = j + 1
      BY <2>2
    <3>2. r[j - (i - 1)] = s[j + 1]
      BY <1>2, <3>1
    <3> QED BY <1>4, <2>2, <3>2
  <2> QED BY <2>1, <2>2
<1> QED BY <1>3, <1>4, <1>5 DEF c

LEMMA InsertAtOK ==
  ASSUME NEW s \in Seq(Workspaces), NEW i \in 1 .. Len(s) + 1, NEW e \in Workspaces
  PROVE  /\ InsertAt(s, i, e) \in Seq(Workspaces)
         /\ Len(InsertAt(s, i, e)) = Len(s) + 1
         /\ \A j \in 1 .. Len(s) + 1 :
               InsertAt(s, i, e)[j] = IF j < i THEN s[j]
                                      ELSE IF j = i THEN e ELSE s[j - 1]
<1> DEFINE l == SubSeq(s, 1, i - 1)
           m == l \o <<e>>
           r == SubSeq(s, i, Len(s))
<1>1. l \in Seq(Workspaces) /\ Len(l) = i - 1 /\ \A j \in 1 .. i - 1 : l[j] = s[j]
  BY SubSeqProperties, ElementOfSeq
<1>2. r \in Seq(Workspaces) /\ Len(r) = Len(s) - i + 1
      /\ \A j \in 1 .. Len(s) - i + 1 : r[j] = s[i + j - 1]
  BY SubSeqProperties, ElementOfSeq
<1>3. InsertAt(s, i, e) = m \o r
  BY DEF InsertAt
<1> HIDE DEF l, r
<1>4. <<e>> \in Seq(Workspaces) /\ Len(<<e>>) = 1 /\ <<e>>[1] = e
  OBVIOUS
<1>5. m \in Seq(Workspaces) /\ Len(m) = i /\ \A j \in 1 .. i : m[j] = IF j < i THEN s[j] ELSE e
  BY <1>1, <1>4, ConcatProperties
<1> HIDE DEF m
<1> DEFINE c == m \o r
<1>6. c \in Seq(Workspaces) /\ Len(c) = Len(s) + 1
      /\ \A j \in 1 .. Len(s) + 1 : c[j] = IF j <= i THEN m[j] ELSE r[j - i]
  BY <1>2, <1>5, ConcatProperties
<1> HIDE DEF c
<1>7. ASSUME NEW j \in 1 .. Len(s) + 1
      PROVE  c[j] = IF j < i THEN s[j] ELSE IF j = i THEN e ELSE s[j - 1]
  <2>1. CASE j <= i
    BY <1>5, <1>6, <2>1
  <2>2. CASE ~(j <= i)
    <3>1. j - i \in 1 .. Len(s) - i + 1 /\ i + (j - i) - 1 = j - 1
      BY <2>2
    <3>2. r[j - i] = s[j - 1]
      BY <1>2, <3>1
    <3> QED BY <1>6, <2>2, <3>2
  <2> QED BY <2>1, <2>2
<1> QED BY <1>3, <1>6, <1>7 DEF c

LEMMA SwitchedToOK ==
  ASSUME NEW a \in App, NEW i
  PROVE  /\ SwitchedTo(a, i) \in App
         /\ SwitchedTo(a, i).list = a.list
         /\ SwitchedTo(a, i).notes = a.notes
         /\ SwitchedTo(a, i).toast = a.toast
         /\ i \in Indices(a) => SwitchedTo(a, i).current = i
         /\ i \in Indices(a) \/ ShowsCurrentOf(a) => ShowsCurrentOf(SwitchedTo(a, i))
         /\ FollowOf(a) => FollowOf(SwitchedTo(a, i))
<1>1. CASE i \in Indices(a)
  <2> DEFINE b == [a EXCEPT !.current = i, !.shown = At(a, i)]
  <2>1. SwitchedTo(a, i) = b
    BY <1>1 DEF SwitchedTo
  <2>2. i \in Int /\ At(a, i) \in Workspaces
    BY <1>1 DEF At, Indices, App
  <2>3. /\ b \in App /\ b.list = a.list /\ b.notes = a.notes /\ b.toast = a.toast
        /\ b.current = i /\ b.shown = At(a, i)
    BY <2>2 DEF App
  <2> HIDE DEF b
  <2>4. \A j : At(b, j) = At(a, j)
    BY <2>3 DEF At
  <2>5. Indices(b) = Indices(a)
    BY <2>3 DEF Indices
  <2> QED BY <1>1, <2>1, <2>3, <2>4, <2>5 DEF ShowsCurrentOf, FollowOf
<1>2. CASE i \notin Indices(a)
  BY <1>2 DEF SwitchedTo
<1> QED BY <1>1, <1>2

LEMMA AddedOK ==
  ASSUME NEW a \in App, NEW ws \in Workspaces
  PROVE  /\ Added(a, ws) \in App
         /\ Len(Added(a, ws).list) = Len(a.list) + 1
         /\ Added(a, ws).current = Len(a.list)
         /\ \A j \in Indices(a) : At(Added(a, ws), j) = At(a, j)
         /\ ShowsCurrentOf(Added(a, ws))
         /\ FollowOf(a) => FollowOf(Added(a, ws))
<1> DEFINE b == [a EXCEPT !.list = Append(@, ws)]
<1>1. Added(a, ws) = SwitchedTo(b, Len(b.list) - 1)
  BY DEF Added
<1>2. /\ b \in App /\ b.list = Append(a.list, ws) /\ Len(b.list) = Len(a.list) + 1
      /\ b.notes = a.notes /\ b.toast = a.toast
  <2>1. /\ Append(a.list, ws) \in Seq(Workspaces)
        /\ Len(Append(a.list, ws)) = Len(a.list) + 1
    BY DEF App
  <2> QED BY <2>1 DEF App
<1> HIDE DEF b
<1>3. \A j \in Indices(a) : At(b, j) = At(a, j)
  <2> TAKE j \in Indices(a)
  <2>1. /\ a.list \in Seq(Workspaces) /\ j + 1 \in 1 .. Len(a.list)
        /\ j \in 0 .. Len(a.list) - 1 /\ j \in 0 .. Len(b.list) - 1
    BY <1>2 DEF Indices, App
  <2>2. b.list[j + 1] = a.list[j + 1]
    BY <1>2, <2>1
  <2> QED BY <2>1, <2>2 DEF At
<1>4. FollowOf(a) => FollowOf(b)
  <2>1. Indices(a) \subseteq Indices(b) /\ At(a, -1) = NoWs /\ At(b, -1) = NoWs
    BY <1>2 DEF Indices, At, App
  <2> QED BY <1>2, <1>3, <2>1 DEF FollowOf
<1>5. Len(b.list) - 1 \in Indices(b) /\ Len(b.list) - 1 = Len(a.list)
  BY <1>2 DEF Indices, App
<1> QED BY <1>1, <1>2, <1>3, <1>4, <1>5, SwitchedToOK DEF At, Indices

LEMMA WithoutWsOK ==
  ASSUME NEW a \in App, NEW i \in Indices(a)
  PROVE  /\ WithoutWs(a, i) \in App
         /\ Len(WithoutWs(a, i).list) = Len(a.list) - 1
         /\ WithoutWs(a, i).current = a.current
         /\ \A j \in 0 .. Len(a.list) - 2 :
               At(WithoutWs(a, i), j) = At(a, IF j < i THEN j ELSE j + 1)
         /\ FollowOf(a) => FollowOf(WithoutWs(a, i))
<1> DEFINE b == WithoutWs(a, i)
<1>1. a.list \in Seq(Workspaces) /\ i + 1 \in 1 .. Len(a.list) /\ i \in Int
  BY DEF App, Indices
<1>2. \A held \in SUBSET Held : FollowRemoval(held, i) \in SUBSET Held
  <2> SUFFICES ASSUME NEW held \in SUBSET Held, NEW h \in held
               PROVE  [h EXCEPT !.idx = IF @ > i THEN @ - 1 ELSE @] \in Held
    BY DEF FollowRemoval
  <2> QED BY <1>1 DEF Held
<1>3. /\ b.list = RemoveAt(a.list, i + 1) /\ b.current = a.current
      /\ b.notes = FollowRemoval(a.notes, i) /\ b.toast = FollowRemoval(a.toast, i)
  BY DEF WithoutWs, App
<1>4. b \in App /\ Len(b.list) = Len(a.list) - 1
  <2>1. RemoveAt(a.list, i + 1) \in Seq(Workspaces)
        /\ Len(RemoveAt(a.list, i + 1)) = Len(a.list) - 1
    BY <1>1, RemoveAtOK
  <2> QED BY <1>2, <1>3, <2>1 DEF WithoutWs, App
<1>5. \A j \in 0 .. Len(a.list) - 2 : At(b, j) = At(a, IF j < i THEN j ELSE j + 1)
  <2> TAKE j \in 0 .. Len(a.list) - 2
  <2>1. j + 1 \in 1 .. Len(a.list) - 1
    BY <1>1
  <2>2. RemoveAt(a.list, i + 1)[j + 1]
          = IF j + 1 < i + 1 THEN a.list[j + 1] ELSE a.list[j + 1 + 1]
    BY <1>1, <2>1, RemoveAtOK
  <2> QED BY <1>1, <1>3, <1>4, <2>1, <2>2 DEF At
<1>6. ASSUME FollowOf(a) PROVE FollowOf(b)
  <2> SUFFICES ASSUME NEW e \in b.notes \cup b.toast
               PROVE  e.idx \in Indices(b) \cup {-1} /\ e.of = At(b, e.idx)
    BY DEF FollowOf
  <2>1. PICK h \in a.notes \cup a.toast :
           /\ h.idx # i
           /\ e = [h EXCEPT !.idx = IF @ > i THEN @ - 1 ELSE @]
    BY <1>3 DEF FollowRemoval
  <2>2. h.idx \in Indices(a) \cup {-1} /\ h.of = At(a, h.idx)
    BY <1>6 DEF FollowOf
  <2>3. e.of = h.of /\ e.idx = IF h.idx > i THEN h.idx - 1 ELSE h.idx
    BY <2>1 DEF App, Held
  <2>4. CASE h.idx = -1
    BY <1>1, <2>2, <2>3, <2>4 DEF At, Indices
  <2>5. CASE h.idx \in Indices(a)
    <3>1. e.idx \in 0 .. Len(a.list) - 2
          /\ h.idx = IF e.idx < i THEN e.idx ELSE e.idx + 1
      BY <1>1, <2>1, <2>3, <2>5 DEF Indices
    <3>2. At(b, e.idx) = At(a, h.idx)
      BY <1>5, <3>1
    <3> QED BY <1>4, <2>2, <2>3, <3>1, <3>2 DEF Indices
  <2> QED BY <2>2, <2>4, <2>5
<1> QED BY <1>3, <1>4, <1>5, <1>6

LEMMA RemovedOK ==
  ASSUME NEW a \in App, ShowsCurrentOf(a), NEW i
  PROVE  /\ Removed(a, i) \in App
         /\ ShowsCurrentOf(Removed(a, i))
         /\ FollowOf(a) => FollowOf(Removed(a, i))
<1>1. CASE Len(a.list) <= 1 \/ i \notin Indices(a)
  BY <1>1 DEF Removed
<1>2. CASE ~(Len(a.list) <= 1 \/ i \notin Indices(a))
  <2> DEFINE b == WithoutWs(a, i)
             c == IF b.current >= Len(b.list) THEN Len(b.list) - 1 ELSE b.current
  <2>1. Removed(a, i) = SwitchedTo(b, c)
    BY <1>2 DEF Removed
  <2>2. /\ b \in App /\ Len(b.list) = Len(a.list) - 1 /\ b.current = a.current
        /\ FollowOf(a) => FollowOf(b)
    BY <1>2, WithoutWsOK
  <2> HIDE DEF b
  <2>3. Len(a.list) \in Nat /\ a.current \in 0 .. Len(a.list) - 1
    BY DEF App, ShowsCurrentOf, Indices
  <2>4. c \in Indices(b)
    BY <1>2, <2>2, <2>3 DEF Indices
  <2> HIDE DEF c
  <2> QED BY <2>1, <2>2, <2>4, SwitchedToOK
<1> QED BY <1>1, <1>2

LEMMA DetachedOK ==
  ASSUME NEW a \in App, a.current \in Indices(a), NEW i \in Indices(a)
  PROVE  /\ Detached(a, i) \in App
         /\ Len(Detached(a, i).list) = Len(a.list) - 1
         /\ Len(a.list) > 1 =>
               /\ ShowsCurrentOf(Detached(a, i))
               /\ i # a.current =>
                     At(Detached(a, i), Detached(a, i).current) = At(a, a.current)
         /\ \A j \in 0 .. Len(a.list) - 2 :
               At(Detached(a, i), j) = At(a, IF j < i THEN j ELSE j + 1)
         /\ FollowOf(a) => FollowOf(Detached(a, i))
<1> DEFINE b == WithoutWs(a, i)
           d == Detached(a, i)
           c == IF b.current > i THEN b.current - 1
                ELSE IF b.current >= Len(b.list) THEN Len(b.list) - 1
                ELSE b.current
           e == [b EXCEPT !.current = 0, !.shown = NoWs]
<1>1. d = IF b.list = <<>> THEN e ELSE SwitchedTo(b, c)
  BY DEF Detached
<1>2. /\ b \in App /\ Len(b.list) = Len(a.list) - 1 /\ b.current = a.current
      /\ \A j \in 0 .. Len(a.list) - 2 : At(b, j) = At(a, IF j < i THEN j ELSE j + 1)
      /\ FollowOf(a) => FollowOf(b)
  BY WithoutWsOK
<1>3. /\ Len(a.list) \in Nat /\ i \in 0 .. Len(a.list) - 1
      /\ a.current \in 0 .. Len(a.list) - 1
  BY DEF App, Indices
<1> HIDE DEF b
<1>4. e \in App /\ e.list = b.list /\ e.notes = b.notes /\ e.toast = b.toast
  <2>1. b \in App /\ 0 \in Int /\ NoWs \in Workspaces \cup {NoWs}
    BY <1>2
  <2> HIDE DEF d, c
  <2> QED BY <2>1 DEF App
<1> HIDE DEF d, e
<1>5. CASE b.list = <<>>
  <2>1. d = e /\ Len(a.list) = 1
    BY <1>1, <1>2, <1>3, <1>5
  <2>2. \A j : At(e, j) = At(b, j)
    BY <1>4 DEF At
  <2>3. Indices(e) = Indices(b)
    BY <1>4 DEF Indices
  <2> QED BY <1>2, <1>4, <2>1, <2>2, <2>3 DEF FollowOf, d
<1>6. CASE b.list # <<>>
  <2>1. d = SwitchedTo(b, c) /\ Len(a.list) > 1
    BY <1>1, <1>2, <1>3, <1>6 DEF App
  <2>2. /\ c \in Indices(b) /\ c \in 0 .. Len(a.list) - 2
        /\ i # a.current => a.current = IF c < i THEN c ELSE c + 1
    BY <1>2, <1>3, <2>1, SMTT(30) DEF Indices
  <2> HIDE DEF c
  <2>3. /\ d \in App /\ d.list = b.list /\ d.current = c /\ ShowsCurrentOf(d)
        /\ FollowOf(b) => FollowOf(d)
    <3>1. b \in App /\ c \in Indices(b)
      BY <1>2, <2>2
    <3> QED BY <2>1, <3>1, SwitchedToOK
  <2>4. \A j : At(d, j) = At(b, j)
    BY <2>3 DEF At
  <2>5. i # a.current => At(d, d.current) = At(a, a.current)
    <3>1. At(d, d.current) = At(b, c)
      BY <2>3, <2>4
    <3>2. At(b, c) = At(a, IF c < i THEN c ELSE c + 1)
      BY <1>2, <2>2
    <3> QED BY <2>2, <3>1, <3>2
  <2> QED BY <1>2, <2>3, <2>4, <2>5 DEF d
<1> QED BY <1>5, <1>6

LEMMA MovedOK ==
  ASSUME NEW a \in App, ShowsCurrentOf(a), NEW from, NEW to
  PROVE  /\ Moved(a, from, to) \in App
         /\ ShowsCurrentOf(Moved(a, from, to))
         /\ At(Moved(a, from, to), Moved(a, from, to).current) = At(a, a.current)
<1> DEFINE m == Moved(a, from, to)
           n == Len(a.list)
<1>1. CASE ~({from, to} \subseteq Indices(a) /\ from # to)
  BY <1>1 DEF Moved
<1>2. CASE {from, to} \subseteq Indices(a) /\ from # to
  <2> DEFINE s == RemoveAt(a.list, from + 1)
             t == InsertAt(s, to + 1, At(a, from))
             c == Tracked(a.current, from, to)
  <2>1. /\ n \in Nat /\ from \in 0 .. n - 1 /\ to \in 0 .. n - 1
        /\ a.list \in Seq(Workspaces) /\ a.current \in 0 .. n - 1
        /\ a.shown = a.list[a.current + 1]
    BY <1>2 DEF App, Indices, ShowsCurrentOf, At
  <2>2. At(a, from) = a.list[from + 1] /\ At(a, from) \in Workspaces
    BY <2>1 DEF At
  <2>3. /\ s \in Seq(Workspaces) /\ Len(s) = n - 1
        /\ \A j \in 1 .. n - 1 :
              s[j] = IF j < from + 1 THEN a.list[j] ELSE a.list[j + 1]
    <3>1. a.list \in Seq(Workspaces) /\ from + 1 \in 1 .. Len(a.list)
      BY <2>1
    <3> HIDE DEF m, t, c
    <3> QED BY <3>1, RemoveAtOK
  <2> HIDE DEF s
  <2>4. /\ t \in Seq(Workspaces) /\ Len(t) = n
        /\ \A j \in 1 .. n :
              t[j] = IF j < to + 1 THEN s[j]
                     ELSE IF j = to + 1 THEN At(a, from) ELSE s[j - 1]
    <3>1. to + 1 \in 1 .. Len(s) + 1
      BY <2>1, <2>3
    <3> HIDE DEF m, n, c
    <3>2. /\ t \in Seq(Workspaces) /\ Len(t) = Len(s) + 1
          /\ \A j \in 1 .. Len(s) + 1 :
                t[j] = IF j < to + 1 THEN s[j]
                       ELSE IF j = to + 1 THEN At(a, from) ELSE s[j - 1]
      <4>1. s \in Seq(Workspaces) /\ At(a, from) \in Workspaces
        BY <2>2, <2>3
      <4> DEFINE k == to + 1
                 e == At(a, from)
      <4>2. s \in Seq(Workspaces) /\ e \in Workspaces /\ k \in 1 .. Len(s) + 1
        BY <3>1, <4>1
      <4>3. t = InsertAt(s, k, e)
        OBVIOUS
      <4> HIDE DEF k, e, t
      <4>4. /\ InsertAt(s, k, e) \in Seq(Workspaces)
            /\ Len(InsertAt(s, k, e)) = Len(s) + 1
            /\ \A j \in 1 .. Len(s) + 1 :
                  InsertAt(s, k, e)[j] =
                     IF j < k THEN s[j] ELSE IF j = k THEN e ELSE s[j - 1]
        BY ONLY <4>2, InsertAtOK
      <4>5. /\ t \in Seq(Workspaces) /\ Len(t) = Len(s) + 1
            /\ \A j \in 1 .. Len(s) + 1 :
                  t[j] = IF j < k THEN s[j] ELSE IF j = k THEN e ELSE s[j - 1]
        BY ONLY <4>3, <4>4
      <4> QED BY <4>5 DEF k, e
    <3>3. Len(s) + 1 = n
      BY <2>1, <2>3
    <3> HIDE DEF t
    <3> QED BY <3>2, <3>3
  <2>5. m = [a EXCEPT !.list = t, !.current = c]
    BY <1>2 DEF Moved, s
  <2> HIDE DEF t, m, n
  <2>6. c \in 0 .. n - 1 /\ c + 1 \in 1 .. n
    BY <2>1, SMTT(30) DEF Tracked
  <2>7. t[c + 1] = a.list[a.current + 1]
    <3>1. CASE a.current = from
      BY <2>1, <2>2, <2>4, <2>6, <3>1 DEF Tracked
    <3>2. CASE from < a.current /\ a.current <= to
      <4>1. c = a.current - 1 /\ a.current \in 1 .. n - 1 /\ c + 1 = a.current
        BY <2>1, <3>2 DEF Tracked
      <4>2. t[a.current] = s[a.current]
        BY <2>1, <2>4, <3>2, <4>1
      <4>3. s[a.current] = a.list[a.current + 1]
        BY <2>1, <2>3, <3>2, <4>1
      <4> QED BY <4>1, <4>2, <4>3
    <3>3. CASE to <= a.current /\ a.current < from
      <4>1. c = a.current + 1 /\ a.current + 1 \in 1 .. n - 1 /\ c + 1 \in 1 .. n
            /\ c + 1 - 1 = a.current + 1 /\ c + 1 > to + 1
        BY <2>1, <3>3 DEF Tracked
      <4>2. t[c + 1] = s[a.current + 1]
        BY <2>1, <2>4, <4>1
      <4>3. s[a.current + 1] = a.list[a.current + 1]
        BY <2>1, <2>3, <3>3, <4>1, SMTT(30)
      <4> QED BY <4>2, <4>3
    <3>4. CASE /\ a.current # from
               /\ ~(from < a.current /\ a.current <= to)
               /\ ~(to <= a.current /\ a.current < from)
      <4>1. c = a.current
        BY <3>4 DEF Tracked
      <4>2. CASE a.current < from
        <5>1. /\ a.current < to /\ a.current + 1 \in 1 .. n - 1
              /\ a.current + 1 < to + 1 /\ a.current + 1 < from + 1
          BY <2>1, <3>4, <4>2
        <5>2. t[a.current + 1] = s[a.current + 1]
          BY <2>1, <2>4, <2>6, <4>1, <5>1
        <5>3. s[a.current + 1] = a.list[a.current + 1]
          BY <2>1, <2>3, <5>1
        <5> QED BY <4>1, <5>2, <5>3
      <4>3. CASE a.current > from
        <5>1. /\ a.current > to /\ a.current \in 1 .. n - 1
              /\ a.current + 1 - 1 = a.current
          BY <2>1, <3>4, <4>3
        <5>2. t[a.current + 1] = s[a.current]
          BY <2>1, <2>4, <2>6, <4>1, <5>1
        <5>3. s[a.current] = a.list[a.current + 1]
          BY <2>1, <2>3, <4>3, <5>1
        <5> QED BY <4>1, <5>2, <5>3
      <4> QED BY <2>1, <3>4, <4>2, <4>3
    <3> QED BY <3>1, <3>2, <3>3, <3>4
  <2> HIDE DEF c
  <2>8. /\ m \in App /\ m.list = t /\ m.current = c /\ m.shown = a.shown
    <3>1. c \in Int
      BY <2>1, <2>6
    <3>2. a \in App /\ t \in Seq(Workspaces)
      BY <2>4
    <3> QED BY <2>5, <3>1, <3>2 DEF App
  <2>9. At(m, m.current) = t[c + 1] /\ At(a, a.current) = a.list[a.current + 1]
    BY <2>1, <2>4, <2>6, <2>8 DEF At, n
  <2>10. m.current \in Indices(m)
    BY <2>4, <2>6, <2>8 DEF Indices
  <2> QED BY <2>1, <2>7, <2>8, <2>9, <2>10 DEF ShowsCurrentOf, m
<1> QED BY <1>1, <1>2

-----------------------------------------------------------------------------
\* The inductive invariant.
Inv == app \in App /\ ShowsCurrent

LEMMA InitInv == Init => Inv
<1> SUFFICES ASSUME Init PROVE Inv
  OBVIOUS
<1>1. PICK n \in 1 .. MaxLen : \E l \in [1 .. n -> Workspaces], c \in 1 .. n :
         app = [list |-> l, current |-> c - 1, shown |-> l[c], notes |-> {}, toast |-> {}]
  BY DEF Init
<1>2. PICK l \in [1 .. n -> Workspaces], c \in 1 .. n :
         app = [list |-> l, current |-> c - 1, shown |-> l[c], notes |-> {}, toast |-> {}]
  BY <1>1
<1>3. n \in Nat /\ l \in Seq(Workspaces) /\ Len(l) = n
  OBVIOUS
<1>4. app \in App
  BY <1>2, <1>3 DEF App, Held
<1>5. ShowsCurrent
  BY <1>2, <1>3 DEF ShowsCurrent, ShowsCurrentOf, Indices, At
<1> QED BY <1>4, <1>5 DEF Inv

\* One step: the invariant is kept, and so is what the held indices stand for,
\* unless rows are reordered.
LEMMA StepOK ==
  ASSUME Inv, [Next]_vars
  PROVE  Inv' /\ (Follow /\ ~(\E i \in Indices(app) : DragEnd(i)) => Follow')
<1> DEFINE Goal == /\ app' \in App /\ ShowsCurrentOf(app')
                   /\ FollowOf(app) => FollowOf(app')
<1> USE DEF Inv, ShowsCurrent, Follow
<1>1. CASE UNCHANGED app
  BY <1>1
<1>2. CASE New
  <2>1. PICK ws \in Workspaces : app' = Added(app, ws)
    BY <1>2 DEF New, Fresh
  <2> QED BY <2>1, AddedOK
<1>3. ASSUME NEW i, Switch(i) PROVE Goal
  BY <1>3, SwitchedToOK DEF Switch
<1>4. CASE CloseUnasked
  BY <1>4, RemovedOK DEF CloseUnasked
<1>5. CASE Confirm
  BY <1>5, RemovedOK DEF Confirm
<1>6. CASE IdleDelete
  BY <1>6, RemovedOK DEF IdleDelete
<1>7. ASSUME NEW i \in Indices(app), DragEnd(i)
      PROVE  app' \in App /\ ShowsCurrentOf(app')
  BY <1>7, MovedOK DEF DragEnd
<1>8. ASSUME NEW i \in Indices(app), MoveAway(i) PROVE Goal
  <2> DEFINE b == Detached(app, i)
  <2>1. /\ b \in App /\ Len(b.list) = Len(app.list) - 1
        /\ Len(app.list) > 1 => ShowsCurrentOf(b)
        /\ FollowOf(app) => FollowOf(b)
    BY <1>8, DetachedOK DEF ShowsCurrentOf
  <2>2. CASE b.list = <<>>
    <3>1. PICK ws \in Workspaces : app' = Added(b, ws)
      BY <1>8, <2>2 DEF MoveAway, Fresh
    <3> QED BY <2>1, <3>1, AddedOK
  <2>3. CASE b.list # <<>>
    <3>1. app' = b
      BY <1>8, <2>3 DEF MoveAway
    <3> HIDE DEF b
    <3>2. /\ Len(b.list) \in Nat \ {0} /\ Len(app.list) \in Nat
          /\ Len(b.list) = Len(app.list) - 1
      BY <2>1, <2>3 DEF App
    <3> DEFINE m == Len(b.list)
               n == Len(app.list)
    <3>3. n > 1
      <4>1. m \in Nat \ {0} /\ n \in Nat /\ m = n - 1
        BY <3>2
      <4> HIDE DEF m, n
      <4> QED BY <4>1
    <3>4. b \in App /\ ShowsCurrentOf(b) /\ (FollowOf(app) => FollowOf(b))
      BY <2>1, <3>3
    <3> QED BY ONLY <3>1, <3>4
  <2> QED BY <2>2, <2>3
<1>9. CASE Import
  <2>1. PICK ws \in Workspaces : app' = SwitchedTo(Added(app, ws), app.current)
    BY <1>9 DEF Import, Fresh
  <2>2. /\ Added(app, ws) \in App /\ ShowsCurrentOf(Added(app, ws))
        /\ FollowOf(app) => FollowOf(Added(app, ws))
    BY AddedOK
  <2> QED BY <2>1, <2>2, SwitchedToOK
<1>10. CASE ImportFails
  <2>1. PICK ws \in Workspaces :
           app' = SwitchedTo(Detached(Added(app, ws), Len(app.list)), app.current)
    BY <1>10 DEF ImportFails, Fresh
  <2> DEFINE a == Added(app, ws)
             d == Detached(a, Len(app.list))
  <2>2. /\ a \in App /\ Len(a.list) = Len(app.list) + 1 /\ ShowsCurrentOf(a)
        /\ FollowOf(app) => FollowOf(a)
    BY AddedOK
  <2>3. Len(app.list) \in Nat /\ Len(app.list) >= 1
    BY DEF App, ShowsCurrentOf, Indices
  <2> HIDE DEF a
  <2>4. Len(app.list) \in Indices(a) /\ a.current \in Indices(a)
    BY <2>2, <2>3 DEF Indices, ShowsCurrentOf
  <2>5. d \in App /\ ShowsCurrentOf(d) /\ (FollowOf(a) => FollowOf(d))
    BY <2>2, <2>3, <2>4, DetachedOK
  <2>6. app' = SwitchedTo(d, app.current)
    BY <2>1 DEF a
  <2> HIDE DEF d
  <2> QED BY <2>2, <2>5, <2>6, SwitchedToOK
<1>11. ASSUME NEW i \in Indices(app) \cup {-1}, NEW toast \in BOOLEAN,
              NEW old, Notify(i, old, toast)
       PROVE  Goal
  <2> DEFINE e == Hold(app, i)
  <2>1. e \in Held /\ e.idx = i /\ e.of = At(app, i)
    BY DEF Hold, Held, At, App, Indices
  <2> HIDE DEF e
  <2>2. app' = [app EXCEPT !.notes = (@ \ old) \cup {e},
                           !.toast = IF toast THEN {e} ELSE @]
    BY <1>11 DEF Notify, e
  <2>3. /\ app' \in App /\ app'.list = app.list /\ app'.current = app.current
        /\ app'.shown = app.shown
        /\ app'.notes \cup app'.toast \subseteq app.notes \cup app.toast \cup {e}
    BY <2>1, <2>2 DEF App
  <2>4. (\A j : At(app', j) = At(app, j)) /\ Indices(app') = Indices(app)
    BY <2>3 DEF At, Indices
  <2> QED BY <2>1, <2>3, <2>4 DEF ShowsCurrentOf, FollowOf
<1>12. CASE NotificationsClear \/ ToastHide
  <2>1. /\ app' \in App /\ app'.list = app.list /\ app'.current = app.current
        /\ app'.shown = app.shown
        /\ app'.notes \cup app'.toast \subseteq app.notes \cup app.toast
    BY <1>12 DEF NotificationsClear, ToastHide, App
  <2>2. (\A j : At(app', j) = At(app, j)) /\ Indices(app') = Indices(app)
    BY <2>1 DEF At, Indices
  <2> QED BY <2>1, <2>2 DEF ShowsCurrentOf, FollowOf
<1>13. CASE ToastClick
  <2>1. PICK t \in app.toast : app' = [SwitchedTo(app, t.idx) EXCEPT !.toast = {}]
    BY <1>13 DEF ToastClick
  <2> DEFINE b == SwitchedTo(app, t.idx)
  <2>2. b \in App /\ ShowsCurrentOf(b) /\ (FollowOf(app) => FollowOf(b))
    BY SwitchedToOK
  <2> HIDE DEF b
  <2>3. /\ app' \in App /\ app'.list = b.list /\ app'.current = b.current
        /\ app'.shown = b.shown /\ app'.notes = b.notes /\ app'.toast = {}
    BY <2>1, <2>2 DEF App, b
  <2>4. (\A j : At(app', j) = At(b, j)) /\ Indices(app') = Indices(b)
    BY <2>3 DEF At, Indices
  <2> QED BY <2>2, <2>3, <2>4 DEF ShowsCurrentOf, FollowOf
<1>14. CASE AskClose \/ Cancel \/ DragNowhere
  BY <1>1, <1>14 DEF AskClose, Cancel, DragNowhere
<1>15. ASSUME NEW i, SidebarDelete(i) \/ DragBegin(i) PROVE Goal
  BY <1>1, <1>15 DEF SidebarDelete, DragBegin
<1>16. CASE UNCHANGED vars
  BY <1>1, <1>16 DEF vars
<1> QED BY <1>2, <1>3, <1>4, <1>5, <1>6, <1>7, <1>8, <1>9, <1>10, <1>11, <1>12,
           <1>13, <1>14, <1>15, <1>16 DEF Next

\* What leaves the user in the current workspace.
LEMMA SurvivesStep ==
  ASSUME Inv, \/ \E i \in Indices(app) :
                    DragEnd(i) \/ (i # app.current /\ MoveAway(i))
              \/ Import \/ ImportFails
  PROVE  At(app', app'.current) = At(app, app.current)
<1> USE DEF Inv, ShowsCurrent
<1>1. /\ app \in App /\ Len(app.list) \in Nat /\ app.current \in Indices(app)
      /\ app.current \in 0 .. Len(app.list) - 1
  BY DEF App, ShowsCurrentOf, Indices
<1>2. ASSUME NEW i \in Indices(app), DragEnd(i)
      PROVE  At(app', app'.current) = At(app, app.current)
  BY <1>2, MovedOK DEF DragEnd
<1>3. ASSUME NEW i \in Indices(app), i # app.current, MoveAway(i)
      PROVE  At(app', app'.current) = At(app, app.current)
  <2> DEFINE b == Detached(app, i)
  <2>1. Len(app.list) > 1 /\ i \in 0 .. Len(app.list) - 1
    BY <1>1, <1>3 DEF Indices
  <2>2. /\ b \in App /\ Len(b.list) = Len(app.list) - 1
        /\ At(b, b.current) = At(app, app.current)
    BY <1>1, <1>3, <2>1, DetachedOK
  <2>3. b.list # <<>>
    <3> HIDE DEF b
    <3> QED BY <2>1, <2>2
  <2>4. app' = b
    BY <1>3, <2>3 DEF MoveAway
  <2> QED BY <2>2, <2>4
<1>4. ASSUME NEW ws \in Workspaces
      PROVE  /\ Added(app, ws) \in App
             /\ Len(Added(app, ws).list) = Len(app.list) + 1
             /\ Added(app, ws).current = Len(app.list)
             /\ At(Added(app, ws), app.current) = At(app, app.current)
  BY <1>1, AddedOK
<1>5. ASSUME NEW b \in App, app.current \in Indices(b),
             app' = SwitchedTo(b, app.current)
      PROVE  At(app', app'.current) = At(b, app.current)
  BY <1>5, SwitchedToOK DEF At
<1>6. CASE Import
  <2>1. PICK ws \in Workspaces : app' = SwitchedTo(Added(app, ws), app.current)
    BY <1>6 DEF Import, Fresh
  <2>2. app.current \in Indices(Added(app, ws))
    BY <1>1, <1>4 DEF Indices
  <2> QED BY <1>4, <1>5, <2>1, <2>2
<1>7. CASE ImportFails
  <2>1. PICK ws \in Workspaces :
           app' = SwitchedTo(Detached(Added(app, ws), Len(app.list)), app.current)
    BY <1>7 DEF ImportFails, Fresh
  <2> DEFINE a == Added(app, ws)
             d == Detached(a, Len(app.list))
  <2>2. /\ a \in App /\ Len(a.list) = Len(app.list) + 1
        /\ a.current = Len(app.list) /\ At(a, app.current) = At(app, app.current)
    BY <1>4
  <2>3. app' = SwitchedTo(d, app.current)
    BY <2>1
  <2> HIDE DEF a
  <2>4. Len(app.list) \in Indices(a) /\ a.current \in Indices(a)
    BY <1>1, <2>2 DEF Indices
  <2>5. /\ d \in App /\ Len(d.list) = Len(a.list) - 1
        /\ \A j \in 0 .. Len(a.list) - 2 :
              At(d, j) = At(a, IF j < Len(app.list) THEN j ELSE j + 1)
    BY <2>2, <2>4, DetachedOK
  <2> HIDE DEF d
  <2>6. app.current \in 0 .. Len(a.list) - 2 /\ app.current < Len(app.list)
    BY <1>1, <2>2
  <2>7. At(d, app.current) = At(a, app.current) /\ app.current \in Indices(d)
    BY <1>1, <2>2, <2>5, <2>6 DEF Indices
  <2> QED BY <1>5, <2>2, <2>3, <2>5, <2>7
<1> QED BY <1>2, <1>3, <1>6, <1>7

-----------------------------------------------------------------------------
\* The instance always shows its current workspace, however many workspaces and
\* however many stale removals are queued.
THEOREM CurrentShown == Spec => []ShowsCurrent
<1>1. Inv /\ [Next]_vars => Inv'
  BY StepOK
<1>2. Inv => ShowsCurrent
  BY DEF Inv
<1> QED BY <1>1, <1>2, InitInv, PTL DEF Spec

\* Held indices follow their workspace through every step but a reordering.
THEOREM EntriesFollow == Spec => NotificationsFollow
<1>1. Inv /\ [Next]_vars => Inv'
  BY StepOK
<1>2. Inv /\ [Next]_vars =>
        [Follow /\ ~(\E i \in Indices(app) : DragEnd(i)) => Follow']_vars
  BY StepOK
<1> QED BY <1>1, <1>2, InitInv, PTL DEF Spec, NotificationsFollow

\* Reordering, moving another workspace away and importing keep the current one.
THEOREM CurrentKept == Spec => CurrentSurvives
<1>1. Inv /\ [Next]_vars => Inv'
  BY StepOK
<1>2. Inv /\ [Next]_vars =>
        [ \/ \E i \in Indices(app) :
                DragEnd(i) \/ (i # app.current /\ MoveAway(i))
          \/ Import \/ ImportFails
          => At(app', app'.current) = At(app, app.current)]_vars
  BY SurvivesStep
<1> QED BY <1>1, <1>2, InitInv, PTL DEF Spec, CurrentSurvives
=============================================================================
