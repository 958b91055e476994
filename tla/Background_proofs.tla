-------------------------- MODULE Background_proofs -------------------------
(***************************************************************************)
(* Proofs about the two background readers, BranchDetect and IconCache.    *)
(*                                                                         *)
(* BranchDetect: what each handler of workspace.c makes of the summary of  *)
(* its workspace and of the git processes under way (a lemma each), and    *)
(* from them: the answer a workspace waits for is about the directory it   *)
(* shows, no branch of an earlier directory is left over, and both labels  *)
(* implement LatestAnswer.                                                 *)
(*                                                                         *)
(* IconCache: what project_icon_cache.c and its client do to the icons of  *)
(* the terminals (a lemma for each lookup and each handler), and from      *)
(* them: a root has listeners exactly as long as its one search is under   *)
(* way, and the icon of a terminal implements LatestAnswer.                *)
(***************************************************************************)
EXTENDS BranchDetect, IconCache, SequenceTheorems, WellFoundedInduction, TLAPS

-----------------------------------------------------------------------------
(* BranchDetect                                                            *)

Summary == [serial : Nat, cwd : Label, branch : [Kinds -> Label]]
ReadSet == [kind : Kinds, serial : Nat, behind : 0..1, dir : Dirs]
Tabs    == Seq(Seq(Terms))

\* x = [s, rs], what a handler works on.
Works == [s : Summary, rs : SUBSET ReadSet]

\* The reads of kind k whose answers the workspace of x still takes.
Waits(x, k) == {r \in x.rs : r.kind = k /\ r.serial = x.s.serial /\ r.behind = 0}

\* The label of kind k shows the branch of d, or none, or will be told the
\* branch of d; and it will be told no other.
Fed(x, k, d) ==
    /\ \A r \in Waits(x, k) : r.dir = d
    /\ Waits(x, k) # {} \/ x.s.branch[k] \in {NoDir, d}

\* What every handler leaves alone on its way from x to y: the serial, the reads
\* of other workspaces, and a branch unless it clears it.
Handles(x, y) ==
    /\ y \in Works
    /\ y.s.serial = x.s.serial
    /\ \A r \in ReadSet : r.serial # x.s.serial => (r \in y.rs <=> r \in x.rs)
    /\ \A k \in Kinds : y.s.branch[k] \in {x.s.branch[k], NoDir}

-----------------------------------------------------------------------------
(* Facts about sequences and numbers                                       *)

\* A set of naturals has its Min (workspace_allocate_serial takes the next).
LEMMA MinOK ==
  ASSUME NEW S \in SUBSET Nat, S # {}
  PROVE  Min(S) \in S
<1> DEFINE R == OpToRel(<, Nat)
<1>1. IsWellFoundedOn(R, Nat)
  BY NatLessThanWellFounded
<1>2. \A x, y \in Nat : x < y => <<x, y>> \in R
  BY DEF OpToRel
<1> HIDE DEF R
<1>3. PICK n \in S : \A m \in S : ~(<<m, n>> \in R)
  BY <1>1, WFMin
<1>4. \A m \in S : ~(m < n)
  BY <1>2, <1>3, Zenon
<1>5. \A m \in S : n <= m
  BY <1>4
<1> QED BY <1>5 DEF Min

\* What is left of a sequence whose i-th element is removed.
LEMMA RemoveAtOK ==
  ASSUME NEW S, NEW s \in Seq(S), NEW i \in 1 .. Len(s)
  PROVE  /\ RemoveAt(s, i) \in Seq(S)
         /\ Len(RemoveAt(s, i)) = Len(s) - 1
         /\ \A j \in 1 .. Len(s) - 1 :
               RemoveAt(s, i)[j] = IF j < i THEN s[j] ELSE s[j + 1]
<1> DEFINE l == SubSeq(s, 1, i - 1)
           r == SubSeq(s, i + 1, Len(s))
           c == l \o r
<1>1. l \in Seq(S) /\ Len(l) = i - 1 /\ \A j \in 1 .. i - 1 : l[j] = s[j]
  BY SubSeqProperties, ElementOfSeq
<1>2. r \in Seq(S) /\ Len(r) = Len(s) - i /\ \A j \in 1 .. Len(s) - i : r[j] = s[i + j]
  BY SubSeqProperties, ElementOfSeq
<1>3. RemoveAt(s, i) = c
  BY DEF RemoveAt
<1> HIDE DEF l, r
<1>4. /\ c \in Seq(S) /\ Len(c) = Len(s) - 1
      /\ \A j \in 1 .. Len(s) - 1 : c[j] = IF j <= i - 1 THEN l[j] ELSE r[j - (i - 1)]
  <2>1. /\ c \in Seq(S) /\ Len(c) = Len(l) + Len(r)
        /\ \A j \in 1 .. Len(l) + Len(r) :
              c[j] = IF j <= Len(l) THEN l[j] ELSE r[j - Len(l)]
    BY <1>1, <1>2, ConcatProperties
  <2>2. Len(l) + Len(r) = Len(s) - 1
    BY <1>1, <1>2
  <2> HIDE DEF c
  <2> QED BY <1>1, <2>1, <2>2
<1> HIDE DEF c
<1>5. ASSUME NEW j \in 1 .. Len(s) - 1
      PROVE  c[j] = IF j < i THEN s[j] ELSE s[j + 1]
  <2>1. CASE j < i
    BY <1>1, <1>4, <2>1
  <2>2. CASE ~(j < i)
    <3>1. j - (i - 1) \in 1 .. Len(s) - i /\ i + (j - (i - 1)) = j + 1
      BY <2>2
    <3>2. r[j - (i - 1)] = s[j + 1]
      BY <1>2, <3>1
    <3> QED BY <1>4, <2>2, <3>2
  <2> QED BY <2>1, <2>2
<1> QED BY <1>3, <1>4, <1>5

-----------------------------------------------------------------------------
(* The handlers                                                            *)

\* Handlers follow one another.
LEMMA HandlesTwice ==
  ASSUME NEW x, NEW y, NEW z, Handles(x, y), Handles(y, z)
  PROVE  Handles(x, z)
BY DEF Handles

\* ++generation and cancel: no answer of this kind is waited for any more.
LEMMA BumpOK ==
  ASSUME NEW x \in Works, NEW k \in Kinds
  PROVE  /\ Handles(x, Bump(x, k))
         /\ Bump(x, k).s = x.s
         /\ Waits(Bump(x, k), k) = {}
         /\ \A j \in Kinds \ {k} : Waits(Bump(x, k), j) = Waits(x, j)
<1> DEFINE f(r) == IF r.kind = k /\ r.serial = x.s.serial THEN [r EXCEPT !.behind = 1] ELSE r
           y == Bump(x, k)
<1>1. y.s = x.s /\ y.rs = {f(r) : r \in x.rs} /\ y = [s |-> y.s, rs |-> y.rs]
  BY DEF Bump, Works
<1>2. \A r \in ReadSet :
         /\ f(r) \in ReadSet /\ f(r).kind = r.kind /\ f(r).serial = r.serial
         /\ f(r).dir = r.dir
         /\ r.kind = k /\ r.serial = x.s.serial => f(r).behind = 1
         /\ ~(r.kind = k /\ r.serial = x.s.serial) => f(r) = r
  BY DEF ReadSet
<1> HIDE DEF f, y
<1>3. x.rs \subseteq ReadSet /\ x.s \in Summary
  BY DEF Works
<1>4. y \in Works
  BY <1>1, <1>2, <1>3 DEF Works
<1>5. \A r \in ReadSet : ~(r.kind = k /\ r.serial = x.s.serial) => (r \in y.rs <=> r \in x.rs)
  BY <1>1, <1>2, <1>3
<1>6. \A r \in y.rs : r.kind = k /\ r.serial = x.s.serial => r.behind = 1
  BY <1>1, <1>2, <1>3
<1>7. Handles(x, y)
  BY <1>1, <1>4, <1>5 DEF Handles
<1>8. Waits(y, k) = {}
  BY <1>1, <1>6 DEF Waits
<1>9. ASSUME NEW j \in Kinds \ {k}
      PROVE  Waits(y, j) = Waits(x, j)
  <2>1. y.rs \subseteq ReadSet
    BY <1>4 DEF Works
  <2> QED BY <1>1, <1>3, <1>5, <2>1 DEF Waits
<1> QED BY <1>1, <1>7, <1>8, <1>9 DEF y

\* Clearing a label.
LEMMA BlankOK ==
  ASSUME NEW x \in Works, NEW k \in Kinds
  PROVE  /\ Handles(x, Blank(x, k))
         /\ Blank(x, k).s.cwd = x.s.cwd
         /\ Blank(x, k).s.branch[k] = NoDir
         /\ \A j \in Kinds \ {k} : Blank(x, k).s.branch[j] = x.s.branch[j]
         /\ \A j \in Kinds : Waits(Blank(x, k), j) = Waits(x, j)
<1> DEFINE y == Blank(x, k)
<1>1. /\ x.s \in Summary /\ x.rs \subseteq ReadSet /\ x.s.branch \in [Kinds -> Label]
      /\ NoDir \in Label
  BY DEF Works, Summary, Label
<1>2. /\ y = [s |-> y.s, rs |-> x.rs] /\ y.rs = x.rs
      /\ y.s = [x.s EXCEPT !.branch = [x.s.branch EXCEPT ![k] = NoDir]]
  BY DEF Blank, Works, Summary
<1> HIDE DEF y
<1>3. /\ y.s \in Summary /\ y.s.serial = x.s.serial /\ y.s.cwd = x.s.cwd
      /\ y.s.branch = [x.s.branch EXCEPT ![k] = NoDir]
  BY <1>1, <1>2 DEF Summary
<1>4. y \in Works
  BY <1>1, <1>2, <1>3 DEF Works
<1>5. /\ y.s.branch[k] = NoDir
      /\ \A j \in Kinds \ {k} : y.s.branch[j] = x.s.branch[j]
  BY <1>1, <1>3
<1>6. Handles(x, y)
  BY <1>2, <1>3, <1>4, <1>5 DEF Handles
<1>7. \A j \in Kinds : Waits(y, j) = Waits(x, j)
  BY <1>2, <1>3 DEF Waits
<1> QED BY <1>3, <1>5, <1>6, <1>7 DEF y

\* Starting git in d.
LEMMA ReadOK ==
  ASSUME NEW x \in Works, NEW k \in Kinds, NEW d \in Dirs
  PROVE  /\ Handles(x, Read(x, k, d))
         /\ Read(x, k, d).s = x.s
         /\ \E r \in Waits(Read(x, k, d), k) :
               r.dir = d /\ Waits(Read(x, k, d), k) = Waits(x, k) \cup {r}
         /\ \A j \in Kinds \ {k} : Waits(Read(x, k, d), j) = Waits(x, j)
<1> DEFINE y == Read(x, k, d)
           r == [kind |-> k, serial |-> x.s.serial, behind |-> 0, dir |-> d]
<1>1. x.s \in Summary /\ x.rs \subseteq ReadSet /\ x.s.serial \in Nat
  BY DEF Works, Summary
<1>2. r \in ReadSet
  BY <1>1 DEF ReadSet
<1>3. r.kind = k /\ r.serial = x.s.serial /\ r.behind = 0 /\ r.dir = d
  OBVIOUS
<1>4. y.s = x.s /\ y.rs = x.rs \cup {r} /\ y = [s |-> x.s, rs |-> x.rs \cup {r}]
  BY DEF Read, Works
<1> HIDE DEF r, y
<1>5. Handles(x, y)
  BY <1>1, <1>2, <1>3, <1>4 DEF Handles, Works
<1>6. r \in Waits(y, k) /\ Waits(y, k) = Waits(x, k) \cup {r}
  BY <1>3, <1>4 DEF Waits
<1>7. \A j \in Kinds \ {k} : Waits(y, j) = Waits(x, j)
  BY <1>3, <1>4 DEF Waits
<1> QED BY <1>3, <1>4, <1>5, <1>6, <1>7 DEF y

\* A label fed by one question is fed by none only if it shows nothing.
LEMMA FedNone ==
  ASSUME NEW x \in Works, NEW k \in Kinds, Fed(x, k, NoDir), NEW d
  PROVE  Fed(x, k, d)
<1>1. Waits(x, k) = {}
  BY NoneAssumption DEF Fed, Waits, Works, ReadSet
<1> QED BY <1>1 DEF Fed

\* What a handler that concerns the other label leaves of this one.
LEMMA FedSame ==
  ASSUME NEW x, NEW y, NEW k, NEW d, Fed(x, k, d),
         Waits(y, k) = Waits(x, k), y.s.branch[k] = x.s.branch[k]
  PROVE  Fed(y, k, d)
BY DEF Fed

\* Asking anew: the generation moves on, and the label is cleared or git starts
\* in the directory it is about.
LEMMA AskOK ==
  ASSUME NEW x \in Works, NEW k \in Kinds, NEW d \in Label, NEW y,
         \/ y = Blank(Bump(x, k), k)
         \/ d \in Dirs /\ y = Read(Bump(x, k), k, d)
  PROVE  /\ Handles(x, y)
         /\ y.s.cwd = x.s.cwd
         /\ Fed(y, k, d)
         /\ \A j \in Kinds \ {k} : \A e : Fed(x, j, e) => Fed(y, j, e)
<1> DEFINE b == Bump(x, k)
<1>1. /\ b \in Works /\ Handles(x, b) /\ b.s = x.s /\ Waits(b, k) = {}
      /\ \A j \in Kinds \ {k} : Waits(b, j) = Waits(x, j)
  BY BumpOK DEF Handles
<1> HIDE DEF b
<1>2. CASE y = Blank(b, k)
  <2>1. /\ Handles(b, y) /\ y.s.cwd = b.s.cwd /\ y.s.branch[k] = NoDir
        /\ \A j \in Kinds \ {k} : y.s.branch[j] = b.s.branch[j]
        /\ \A j \in Kinds : Waits(y, j) = Waits(b, j)
    BY <1>1, <1>2, BlankOK
  <2>2. Fed(y, k, d)
    BY <1>1, <2>1 DEF Fed
  <2>3. \A j \in Kinds \ {k} : \A e : Fed(x, j, e) => Fed(y, j, e)
    BY <1>1, <2>1 DEF Fed
  <2> QED BY <1>1, <2>1, <2>2, <2>3, HandlesTwice
<1>3. CASE d \in Dirs /\ y = Read(b, k, d)
  <2>1. /\ Handles(b, y) /\ y.s = b.s
        /\ \E r \in Waits(y, k) : r.dir = d /\ Waits(y, k) = Waits(b, k) \cup {r}
        /\ \A j \in Kinds \ {k} : Waits(y, j) = Waits(b, j)
    BY <1>1, <1>3, ReadOK
  <2>2. Fed(y, k, d)
    BY <1>1, <2>1 DEF Fed
  <2>3. \A j \in Kinds \ {k} : \A e : Fed(x, j, e) => Fed(y, j, e)
    BY <1>1, <2>1 DEF Fed
  <2> QED BY <1>1, <2>1, <2>2, <2>3, HandlesTwice
<1> QED BY <1>2, <1>3 DEF b

\* A new directory for the workspace, before its branch is asked for.
LEMMA CwdOK ==
  ASSUME NEW x \in Works, NEW d \in Label
  PROVE  /\ Handles(x, [x EXCEPT !.s.cwd = d])
         /\ [x EXCEPT !.s.cwd = d].s.cwd = d
         /\ \A e : Fed(x, "primary", e) => Fed([x EXCEPT !.s.cwd = d], "primary", e)
<1> DEFINE y == [x EXCEPT !.s.cwd = d]
<1>1. /\ y = [s |-> y.s, rs |-> x.rs] /\ y.rs = x.rs /\ y.s = [x.s EXCEPT !.cwd = d]
      /\ x.s \in Summary /\ x.rs \subseteq ReadSet
  BY DEF Works
<1> HIDE DEF y
<1>2. /\ y.s \in Summary /\ y.s.serial = x.s.serial /\ y.s.cwd = d
      /\ y.s.branch = x.s.branch
  BY <1>1 DEF Summary
<1>3. Handles(x, y)
  BY <1>1, <1>2 DEF Handles, Works
<1>4. Waits(y, "primary") = Waits(x, "primary")
  BY <1>1, <1>2 DEF Waits
<1> QED BY <1>2, <1>3, <1>4, FedSame DEF y

\* workspace_detect_git asks for the directory shown, or shows no branch.
LEMMA DetectGitOK ==
  ASSUME NEW x \in Works, NEW ok \in BOOLEAN
  PROVE  LET y == DetectGit(x, ok) IN
         /\ Handles(x, y)
         /\ y.s.cwd = x.s.cwd
         /\ Fed(y, "git", y.s.cwd)
         /\ \A e : Fed(x, "primary", e) => Fed(y, "primary", e)
<1> DEFINE y == DetectGit(x, ok)
<1>1. x.s.cwd \in Label
  BY DEF Works, Summary
<1>2. \/ y = Blank(Bump(x, "git"), "git")
      \/ x.s.cwd \in Dirs /\ y = Read(Bump(x, "git"), "git", x.s.cwd)
  <2>1. Bump(x, "git").s.cwd = x.s.cwd
    BY BumpOK DEF Kinds
  <2> QED BY <1>1, <2>1 DEF DetectGit, CancelGit, Label
<1> HIDE DEF y
<1>3. "git" \in Kinds /\ "primary" \in Kinds \ {"git"}
  BY DEF Kinds
<1>4. /\ Handles(x, y) /\ y.s.cwd = x.s.cwd /\ Fed(y, "git", x.s.cwd)
      /\ \A e : Fed(x, "primary", e) => Fed(y, "primary", e)
  BY <1>1, <1>2, <1>3, AskOK
<1> QED BY <1>4 DEF y

\* What a handler sees: the panes of its workspace and all directories.
LEMMA FirstDirOK ==
  ASSUME NEW ps \in Tabs, NEW ds \in [Terms -> Label]
  PROVE  /\ FirstDir(ps, ds) \in Label
         /\ First(ps) # {} => ps[1][1] \in Terms /\ FirstDir(ps, ds) = ds[ps[1][1]]
         /\ First(ps) = {} => FirstDir(ps, ds) = NoDir
<1>1. CASE First(ps) = {}
  BY <1>1 DEF FirstDir, Label
<1>2. CASE First(ps) # {}
  <2>1. ps # <<>> /\ ps[1] # <<>>
    BY <1>2 DEF First
  <2>2. ps[1] \in Seq(Terms)
    BY <2>1 DEF Tabs
  <2>3. ps[1][1] \in Terms
    BY <2>1, <2>2
  <2> QED BY <1>2, <2>3 DEF FirstDir
<1> QED BY <1>1, <1>2

\* workspace_detect_primary_git asks for the directory of the first tab of the
\* first pane, or shows no branch.
LEMMA DetectPrimaryOK ==
  ASSUME NEW x \in Works, NEW ps \in Tabs, NEW ds \in [Terms -> Label], NEW ok \in BOOLEAN
  PROVE  LET y == DetectPrimary(x, ps, ds, ok) IN
         /\ Handles(x, y)
         /\ y.s.cwd = x.s.cwd
         /\ Fed(y, "primary", FirstDir(ps, ds))
         /\ \A e : Fed(x, "git", e) => Fed(y, "git", e)
<1> DEFINE y == DetectPrimary(x, ps, ds, ok)
           d == FirstDir(ps, ds)
<1>1. d \in Label
  BY FirstDirOK
<1>2. \/ y = Blank(Bump(x, "primary"), "primary")
      \/ d \in Dirs /\ y = Read(Bump(x, "primary"), "primary", d)
  BY <1>1 DEF DetectPrimary, Label
<1> HIDE DEF y, d
<1>3. "primary" \in Kinds /\ "git" \in Kinds \ {"primary"}
  BY DEF Kinds
<1>4. /\ Handles(x, y) /\ y.s.cwd = x.s.cwd /\ Fed(y, "primary", d)
      /\ \A e : Fed(x, "git", e) => Fed(y, "git", e)
  BY <1>1, <1>2, <1>3, AskOK
<1> QED BY <1>4 DEF y, d

\* What every handler of a workspace whose panes are ps comes to.
Ends(x, y, ps, ds) ==
    /\ Handles(x, y)
    /\ Fed(x, "git", x.s.cwd) => Fed(y, "git", y.s.cwd)
    /\ Fed(x, "primary", FirstDir(ps, ds)) => Fed(y, "primary", FirstDir(ps, ds))

\* workspace_update_summary shows the directory of terminal t.
LEMMA UpdateSummaryOK ==
  ASSUME NEW x \in Works, NEW t \in Terms, NEW ps \in Tabs,
         NEW ds \in [Terms -> Label], NEW ok \in BOOLEAN
  PROVE  /\ Ends(x, UpdateSummary(x, t, ps, ds, ok), ps, ds)
         /\ Fed(UpdateSummary(x, t, ps, ds, ok), "git",
                UpdateSummary(x, t, ps, ds, ok).s.cwd)
         /\ ds[t] # NoDir =>
               Fed(UpdateSummary(x, t, ps, ds, ok), "primary", FirstDir(ps, ds))
<1> DEFINE y == UpdateSummary(x, t, ps, ds, ok)
           c == [x EXCEPT !.s.cwd = ds[t]]
<1>0. "git" \in Kinds /\ "primary" \in Kinds \ {"git"} /\ ds[t] \in Label
  BY DEF Kinds
<1>1. /\ c \in Works /\ Handles(x, c) /\ c.s.cwd = ds[t]
      /\ \A e : Fed(x, "primary", e) => Fed(c, "primary", e)
  BY <1>0, CwdOK DEF Handles
<1>2. CASE ds[t] = NoDir
  <2>1. y = Blank(Bump(c, "git"), "git")
    BY <1>2 DEF UpdateSummary, CancelGit
  <2> HIDE DEF c, y
  <2>2. /\ Handles(c, y) /\ y.s.cwd = c.s.cwd /\ Fed(y, "git", ds[t])
        /\ \A e : Fed(c, "primary", e) => Fed(y, "primary", e)
    BY <1>0, <1>1, <2>1, AskOK
  <2> QED BY <1>1, <1>2, <2>2, HandlesTwice DEF Ends, y
<1>3. CASE ds[t] # NoDir
  <2> DEFINE g == DetectGit(c, ok)
  <2>1. y = DetectPrimary(g, ps, ds, ok)
    BY <1>3 DEF UpdateSummary
  <2> HIDE DEF c
  <2>2. /\ g \in Works /\ Handles(c, g) /\ Fed(g, "git", g.s.cwd)
    BY <1>1, DetectGitOK DEF Handles
  <2> HIDE DEF g, y
  <2>3. /\ Handles(g, y) /\ y.s.cwd = g.s.cwd /\ Fed(y, "primary", FirstDir(ps, ds))
        /\ Fed(y, "git", y.s.cwd)
    BY <2>1, <2>2, DetectPrimaryOK
  <2>4. Handles(x, y)
    BY <1>1, <2>2, <2>3, HandlesTwice
  <2> QED BY <2>3, <2>4 DEF Ends, y
<1> QED BY <1>2, <1>3

\* workspace_sync_summary: the first tab of the first pane, if there is one.
LEMMA SyncSummaryOK ==
  ASSUME NEW x \in Works, NEW ps \in Tabs, NEW ds \in [Terms -> Label], NEW ok \in BOOLEAN
  PROVE  /\ Ends(x, SyncSummary(x, ps, ds, ok), ps, ds)
         /\ Fed(SyncSummary(x, ps, ds, ok), "git", SyncSummary(x, ps, ds, ok).s.cwd)
<1> DEFINE y == SyncSummary(x, ps, ds, ok)
<1>1. CASE First(ps) # {}
  <2>1. ps[1][1] \in Terms /\ y = UpdateSummary(x, ps[1][1], ps, ds, ok)
    BY <1>1, FirstDirOK DEF SyncSummary
  <2> HIDE DEF y
  <2> QED BY <2>1, UpdateSummaryOK DEF y
<1>2. CASE First(ps) = {}
  <2> DEFINE c == [x EXCEPT !.s.cwd = NoDir]
             g == Blank(Bump(c, "git"), "git")
  <2>1. y = Blank(g, "primary")
    BY <1>2 DEF SyncSummary, CancelGit
  <2>2. /\ "git" \in Kinds /\ "primary" \in Kinds \ {"git"} /\ NoDir \in Label
        /\ "primary" \in Kinds /\ "git" \in Kinds \ {"primary"}
    BY DEF Kinds, Label
  <2>3. /\ c \in Works /\ Handles(x, c) /\ c.s.cwd = NoDir
        /\ \A e : Fed(x, "primary", e) => Fed(c, "primary", e)
    BY <2>2, CwdOK DEF Handles
  <2> HIDE DEF c
  <2>4. /\ g \in Works /\ Handles(c, g) /\ g.s.cwd = c.s.cwd /\ Fed(g, "git", NoDir)
        /\ \A e : Fed(c, "primary", e) => Fed(g, "primary", e)
    BY <2>2, <2>3, AskOK DEF Handles
  <2> HIDE DEF g, y
  <2>5. /\ Handles(g, y) /\ y.s.cwd = g.s.cwd
        /\ y.s.branch["primary"] = NoDir /\ y.s.branch["git"] = g.s.branch["git"]
        /\ \A j \in Kinds : Waits(y, j) = Waits(g, j)
    BY <2>1, <2>2, <2>4, BlankOK
  <2>6. Handles(x, y)
    BY <2>3, <2>4, <2>5, HandlesTwice
  <2>7. Fed(y, "git", y.s.cwd)
    BY <2>2, <2>3, <2>4, <2>5 DEF Fed
  <2>8. Fed(x, "primary", FirstDir(ps, ds)) => Fed(y, "primary", FirstDir(ps, ds))
    BY <2>2, <2>3, <2>4, <2>5 DEF Fed
  <2> QED BY <2>6, <2>7, <2>8 DEF Ends, y
<1> QED BY <1>1, <1>2

\* The page signals of a pane: the first pane decides the primary branch.
LEMMA PagesChangedOK ==
  ASSUME NEW x \in Works, NEW p, NEW ps \in Tabs,
         NEW ds \in [Terms -> Label], NEW ok \in BOOLEAN
  PROVE  /\ Handles(x, PagesChanged(x, p, ps, ds, ok))
         /\ Fed(x, "git", x.s.cwd) => Fed(PagesChanged(x, p, ps, ds, ok), "git",
                                          PagesChanged(x, p, ps, ds, ok).s.cwd)
         /\ p = 1 \/ Fed(x, "primary", FirstDir(ps, ds)) =>
               Fed(PagesChanged(x, p, ps, ds, ok), "primary", FirstDir(ps, ds))
<1> DEFINE y == PagesChanged(x, p, ps, ds, ok)
<1>1. CASE p = 1
  <2>1. y = DetectPrimary(x, ps, ds, ok)
    BY <1>1 DEF PagesChanged
  <2> HIDE DEF y
  <2> QED BY <2>1, DetectPrimaryOK DEF y
<1>2. CASE p # 1
  <2>1. y = x
    BY <1>2 DEF PagesChanged
  <2>2. Handles(x, x)
    BY DEF Handles
  <2> QED BY <1>2, <2>1, <2>2
<1> QED BY <1>1, <1>2

-----------------------------------------------------------------------------
(* The panes and their tabs                                                *)

Occurs(ps, u) == \E p \in DOMAIN ps : \E i \in DOMAIN ps[p] : ps[p][i] = u

Once(ps) ==
    \A p, q \in DOMAIN ps : \A i \in DOMAIN ps[p], j \in DOMAIN ps[q] :
        ps[p][i] = ps[q][j] => p = q /\ i = j

\* No pane is empty, and no terminal has two tabs.
Whole(ps) ==
    /\ ps \in Tabs
    /\ \A p \in DOMAIN ps : ps[p] # <<>>
    /\ Once(ps)

\* The primary directory is decided by the first pane.
LEMMA FirstDirSame ==
  ASSUME NEW ps \in Tabs, NEW qs \in Tabs, NEW ds, NEW es, ps # <<>>, qs # <<>>,
         qs[1] = ps[1], ps[1] # <<>> => es[ps[1][1]] = ds[ps[1][1]]
  PROVE  FirstDir(qs, es) = FirstDir(ps, ds)
BY DEF FirstDir, First

\* Panes are sequences of tabs.
LEMMA PaneOK ==
  ASSUME NEW ps \in Tabs, NEW p \in DOMAIN ps
  PROVE  /\ DOMAIN ps = 1 .. Len(ps) /\ Len(ps) \in Nat /\ ps # <<>>
         /\ ps[p] \in Seq(Terms) /\ DOMAIN ps[p] = 1 .. Len(ps[p]) /\ Len(ps[p]) \in Nat
         /\ \A i \in DOMAIN ps[p] : ps[p][i] \in Terms
BY DEF Tabs

\* A tab is appended to a pane.
LEMMA AddTabOK ==
  ASSUME NEW ps, Whole(ps), NEW p \in DOMAIN ps, NEW t \in Terms, ~Occurs(ps, t)
  PROVE  LET qs == [ps EXCEPT ![p] = Append(@, t)] IN
         /\ Whole(qs) /\ qs # <<>>
         /\ p # 1 => qs[1] = ps[1]
         /\ \A u : Occurs(qs, u) <=> Occurs(ps, u) \/ u = t
<1> DEFINE qs == [ps EXCEPT ![p] = Append(@, t)]
<1>1. /\ ps \in Tabs /\ ps[p] \in Seq(Terms) /\ DOMAIN ps[p] = 1 .. Len(ps[p])
      /\ Len(ps[p]) \in Nat /\ DOMAIN ps = 1 .. Len(ps) /\ ps # <<>>
  BY PaneOK DEF Whole
<1>2. /\ Append(ps[p], t) \in Seq(Terms) /\ Len(Append(ps[p], t)) = Len(ps[p]) + 1
      /\ DOMAIN Append(ps[p], t) = 1 .. Len(ps[p]) + 1
      /\ Append(ps[p], t)[Len(ps[p]) + 1] = t
      /\ \A i \in 1 .. Len(ps[p]) : Append(ps[p], t)[i] = ps[p][i]
  BY <1>1
<1>3. /\ qs \in Tabs /\ DOMAIN qs = DOMAIN ps /\ qs[p] = Append(ps[p], t)
      /\ \A q \in DOMAIN ps \ {p} : qs[q] = ps[q]
  BY <1>1, <1>2, ExceptSeq DEF Tabs
<1> DEFINE n == Len(ps[p]) + 1
           m == Append(ps[p], t)
<1> HIDE DEF qs, m
<1>4. /\ DOMAIN qs[p] = DOMAIN ps[p] \cup {n} /\ n \notin DOMAIN ps[p] /\ qs[p][n] = t
      /\ \A i \in DOMAIN ps[p] : qs[p][i] = ps[p][i]
  BY <1>1, <1>2, <1>3 DEF m
<1> HIDE DEF n
<1>5. \A u : Occurs(qs, u) <=> Occurs(ps, u) \/ u = t
  BY <1>3, <1>4 DEF Occurs
<1>6. \A q \in DOMAIN qs : \A i \in DOMAIN qs[q] :
         \/ q = p /\ i = n /\ qs[q][i] = t
         \/ i \in DOMAIN ps[q] /\ qs[q][i] = ps[q][i]
  BY <1>3, <1>4
<1>7. \A q \in DOMAIN ps : \A i \in DOMAIN ps[q] : ps[q][i] # t
  BY DEF Occurs
<1>8. Once(qs)
  BY <1>3, <1>6, <1>7 DEF Once, Whole
<1>9. \A q \in DOMAIN qs : qs[q] # <<>>
  <2> TAKE q \in DOMAIN qs
  <2>1. CASE q = p
    BY <1>4, <2>1
  <2>2. CASE q # p
    BY <1>3, <2>2 DEF Whole
  <2> QED BY <2>1, <2>2
<1>10. qs # <<>> /\ (p # 1 => qs[1] = ps[1])
  BY <1>1, <1>3
<1> QED BY <1>3, <1>5, <1>8, <1>9, <1>10 DEF Whole, qs

\* A pane with one tab is appended.
LEMMA AddPaneOK ==
  ASSUME NEW ps, Whole(ps), NEW t \in Terms, ~Occurs(ps, t)
  PROVE  LET qs == Append(ps, <<t>>) IN
         /\ Whole(qs) /\ qs # <<>>
         /\ ps # <<>> => qs[1] = ps[1]
         /\ \A u : Occurs(qs, u) <=> Occurs(ps, u) \/ u = t
<1> DEFINE qs == Append(ps, <<t>>)
           n == Len(ps) + 1
<1>1. ps \in Seq(Seq(Terms)) /\ <<t>> \in Seq(Terms) /\ Len(ps) \in Nat /\ DOMAIN ps = 1 .. Len(ps)
  BY DEF Whole, Tabs
<1>2. /\ qs \in Tabs /\ DOMAIN qs = DOMAIN ps \cup {n} /\ n \notin DOMAIN ps /\ qs[n] = <<t>>
      /\ \A p \in DOMAIN ps : qs[p] = ps[p]
  BY <1>1 DEF Tabs
<1>3. qs # <<>> /\ (ps # <<>> => qs[1] = ps[1])
  BY <1>1, <1>2
<1> HIDE DEF qs, n
<1>4. DOMAIN qs[n] = {1} /\ qs[n][1] = t /\ qs[n] # <<>>
  BY <1>2
<1>5. \A u : Occurs(qs, u) <=> Occurs(ps, u) \/ u = t
  BY <1>2, <1>4 DEF Occurs
<1>6. \A q \in DOMAIN qs : \A i \in DOMAIN qs[q] :
         \/ q = n /\ i = 1 /\ qs[q][i] = t
         \/ q \in DOMAIN ps /\ i \in DOMAIN ps[q] /\ qs[q][i] = ps[q][i]
  BY <1>2, <1>4
<1>7. \A q \in DOMAIN ps : \A i \in DOMAIN ps[q] : ps[q][i] # t
  BY DEF Occurs
<1>8. Once(qs)
  BY <1>6, <1>7 DEF Once, Whole
<1>9. \A q \in DOMAIN qs : qs[q] # <<>>
  BY <1>2, <1>4 DEF Whole
<1> QED BY <1>2, <1>3, <1>5, <1>8, <1>9 DEF Whole, qs

\* A tab leaves its pane, which may then be empty.
LEMMA DropTabOK ==
  ASSUME NEW ps, Whole(ps), NEW p \in DOMAIN ps, NEW k \in DOMAIN ps[p]
  PROVE  LET qs == [ps EXCEPT ![p] = RemoveAt(@, k)] IN
         /\ qs \in Tabs /\ Once(qs) /\ Len(qs) = Len(ps) /\ DOMAIN qs = DOMAIN ps
         /\ \A q \in DOMAIN ps \ {p} : qs[q] = ps[q]
         /\ \A u : Occurs(qs, u) <=> Occurs(ps, u) /\ u # ps[p][k]
         /\ Len(qs[p]) = Len(ps[p]) - 1
<1> DEFINE qs == [ps EXCEPT ![p] = RemoveAt(@, k)]
           r == RemoveAt(ps[p], k)
<1>1. /\ ps \in Tabs /\ ps[p] \in Seq(Terms) /\ DOMAIN ps[p] = 1 .. Len(ps[p])
      /\ Len(ps[p]) \in Nat /\ DOMAIN ps = 1 .. Len(ps) /\ k \in 1 .. Len(ps[p])
  BY PaneOK DEF Whole
<1>2. /\ r \in Seq(Terms) /\ Len(r) = Len(ps[p]) - 1
      /\ \A i \in 1 .. Len(ps[p]) - 1 : r[i] = IF i < k THEN ps[p][i] ELSE ps[p][i + 1]
  BY <1>1, RemoveAtOK, Zenon
<1> HIDE DEF r
<1>3. /\ qs \in Tabs /\ DOMAIN qs = DOMAIN ps /\ Len(qs) = Len(ps) /\ qs[p] = r
      /\ \A q \in DOMAIN ps \ {p} : qs[q] = ps[q]
  BY <1>1, <1>2, ExceptSeq DEF Tabs, r
<1> HIDE DEF qs
<1>4. DOMAIN r = 1 .. Len(ps[p]) - 1
  BY <1>1, <1>2
<1>5. \A i \in DOMAIN r : LET j == IF i < k THEN i ELSE i + 1 IN
         j \in DOMAIN ps[p] /\ j # k /\ r[i] = ps[p][j]
  BY <1>1, <1>2, <1>4
<1>6. ASSUME NEW j \in DOMAIN ps[p], j # k
      PROVE  \E i \in DOMAIN r : r[i] = ps[p][j]
  <2>1. CASE j < k
    <3>1. j \in 1 .. Len(ps[p]) - 1
      BY <1>1, <2>1
    <3> QED BY <1>2, <1>4, <2>1, <3>1
  <2>2. CASE ~(j < k)
    <3>1. j - 1 \in 1 .. Len(ps[p]) - 1 /\ ~(j - 1 < k) /\ (j - 1) + 1 = j
      BY <1>1, <1>6, <2>2
    <3> QED BY <1>2, <1>4, <3>1
  <2> QED BY <2>1, <2>2
<1>7. ASSUME NEW a \in DOMAIN qs, NEW b \in DOMAIN qs, NEW i \in DOMAIN qs[a],
             NEW j \in DOMAIN qs[b], qs[a][i] = qs[b][j]
      PROVE  a = b /\ i = j
  <2>0. i \in Int /\ j \in Int /\ k \in Int
    <3>1. ps[a] \in Seq(Terms) /\ ps[b] \in Seq(Terms) /\ k \in Int
      BY <1>1, <1>3, PaneOK
    <3>2. qs[a] \in Seq(Terms) /\ qs[b] \in Seq(Terms)
      BY <1>3, PaneOK
    <3> QED BY <3>1, <3>2
  <2> DEFINE i2 == IF a = p /\ ~(i < k) THEN i + 1 ELSE i
             j2 == IF b = p /\ ~(j < k) THEN j + 1 ELSE j
  <2>1. i2 \in DOMAIN ps[a] /\ qs[a][i] = ps[a][i2]
    BY <1>3, <1>5
  <2>2. j2 \in DOMAIN ps[b] /\ qs[b][j] = ps[b][j2]
    BY <1>3, <1>5
  <2>3. a = b /\ i2 = j2
    <3> HIDE DEF i2, j2
    <3>1. a \in DOMAIN ps /\ b \in DOMAIN ps /\ ps[a][i2] = ps[b][j2]
      BY <1>3, <1>7, <2>1, <2>2
    <3>2. Once(ps)
      BY DEF Whole
    <3> QED BY ONLY <3>1, <3>2, <2>1, <2>2 DEF Once
  <2>4. ASSUME NEW u \in Int, NEW v \in Int,
               (IF u < k THEN u ELSE u + 1) = (IF v < k THEN v ELSE v + 1)
        PROVE  u = v
    BY <2>0, <2>4
  <2>5. CASE a = p
    BY <2>0, <2>3, <2>4, <2>5
  <2>6. CASE a # p
    BY <2>3, <2>6
  <2> QED BY <2>3, <2>5, <2>6
<1>8. \A u : Occurs(ps, u) /\ u # ps[p][k] => Occurs(qs, u)
  BY <1>3, <1>6 DEF Occurs
<1>9. \A u : Occurs(qs, u) => Occurs(ps, u) /\ u # ps[p][k]
  <2> SUFFICES ASSUME NEW a \in DOMAIN qs, NEW i \in DOMAIN qs[a]
               PROVE  Occurs(ps, qs[a][i]) /\ qs[a][i] # ps[p][k]
    BY DEF Occurs
  <2>1. CASE a = p
    <3>1. PICK j \in DOMAIN ps[p] : j # k /\ qs[a][i] = ps[p][j]
      BY <1>3, <1>5, <2>1
    <3> QED BY <3>1 DEF Occurs, Whole, Once
  <2>2. CASE a # p
    BY <1>3, <2>2 DEF Occurs, Whole, Once
  <2> QED BY <2>1, <2>2
<1>10. Len(qs[p]) = Len(ps[p]) - 1
  BY <1>2, <1>3
<1> QED BY <1>3, <1>7, <1>8, <1>9, <1>10, Zenon DEF Once, qs

\* A pane leaves the registry with its tabs.
LEMMA DropPaneOK ==
  ASSUME NEW ps \in Tabs, Once(ps), NEW p \in DOMAIN ps
  PROVE  LET qs == RemoveAt(ps, p) IN
         /\ qs \in Tabs /\ Once(qs) /\ Len(qs) = Len(ps) - 1
         /\ \A a \in DOMAIN qs : qs[a] = ps[IF a < p THEN a ELSE a + 1]
                                 /\ (IF a < p THEN a ELSE a + 1) \in DOMAIN ps \ {p}
         /\ \A u : Occurs(qs, u) <=> Occurs(ps, u) /\ u \notin ToSet(ps[p])
<1> DEFINE qs == RemoveAt(ps, p)
           f(a) == IF a < p THEN a ELSE a + 1
<1>1. ps \in Seq(Seq(Terms)) /\ p \in 1 .. Len(ps) /\ Len(ps) \in Nat /\ DOMAIN ps = 1 .. Len(ps)
  BY SMTT(30) DEF Tabs
<1>2. /\ qs \in Seq(Seq(Terms)) /\ Len(qs) = Len(ps) - 1
      /\ \A a \in 1 .. Len(ps) - 1 : qs[a] = IF a < p THEN ps[a] ELSE ps[a + 1]
  BY <1>1, RemoveAtOK, Zenon
<1> HIDE DEF qs
<1>3. DOMAIN qs = 1 .. Len(ps) - 1
  BY <1>1, <1>2
<1>4. \A a \in DOMAIN qs : qs[a] = ps[f(a)] /\ f(a) \in DOMAIN ps \ {p}
  BY <1>1, <1>2, <1>3, SMTT(30)
<1>5. \A a, b \in DOMAIN qs : f(a) = f(b) => a = b
  BY <1>1, <1>3
<1>6. ASSUME NEW a \in DOMAIN ps \ {p}
      PROVE  \E b \in DOMAIN qs : f(b) = a
  <2>1. CASE a < p
    BY <1>1, <1>3, <2>1
  <2>2. CASE ~(a < p)
    <3>1. a - 1 \in 1 .. Len(ps) - 1 /\ f(a - 1) = a
      BY <1>1, <2>2
    <3> QED BY <1>3, <3>1
  <2> QED BY <2>1, <2>2
<1> HIDE DEF f
<1>7. Once(qs)
  BY <1>4, <1>5 DEF Once
<1>8. \A u : u \in ToSet(ps[p]) <=> \E i \in DOMAIN ps[p] : ps[p][i] = u
  BY DEF ToSet
<1>9. \A u : Occurs(qs, u) => Occurs(ps, u) /\ u \notin ToSet(ps[p])
  BY <1>4, <1>8 DEF Occurs, Once
<1>10. \A u : Occurs(ps, u) /\ u \notin ToSet(ps[p]) => Occurs(qs, u)
  BY <1>4, <1>6, <1>8 DEF Occurs
<1> QED BY <1>2, <1>4, <1>7, <1>9, <1>10 DEF Tabs, qs, f

\* The tabs of a pane change their order.
LEMMA ReverseOK ==
  ASSUME NEW ps, Whole(ps), NEW p \in DOMAIN ps
  PROVE  LET qs == [ps EXCEPT ![p] = Reverse(@)] IN
         /\ Whole(qs) /\ qs # <<>>
         /\ p # 1 => qs[1] = ps[1]
         /\ \A u : Occurs(qs, u) <=> Occurs(ps, u)
<1> DEFINE qs == [ps EXCEPT ![p] = Reverse(@)]
           r == Reverse(ps[p])
           n == Len(ps[p])
<1>1. /\ ps \in Tabs /\ ps[p] \in Seq(Terms) /\ DOMAIN ps[p] = 1 .. n
      /\ n \in Nat /\ DOMAIN ps = 1 .. Len(ps) /\ ps # <<>>
  BY PaneOK DEF Whole
<1>2. r = [i \in 1 .. n |-> ps[p][(n - i) + 1]]
  BY DEF Reverse
<1>3. \A i \in 1 .. n : (n - i) + 1 \in 1 .. n
  BY <1>1
<1>4. r \in Seq(Terms) /\ DOMAIN r = 1 .. n /\ Len(r) = n
      /\ \A i \in 1 .. n : r[i] = ps[p][(n - i) + 1]
  <2> HIDE DEF r
  <2>1. r \in [1 .. n -> Terms]
    BY <1>1, <1>2, <1>3
  <2> QED BY <1>1, <1>2, <2>1, IsASeq
<1> HIDE DEF r
<1>5. /\ qs \in Tabs /\ DOMAIN qs = DOMAIN ps /\ qs[p] = r
      /\ \A q \in DOMAIN ps \ {p} : qs[q] = ps[q]
  BY <1>1, <1>4, ExceptSeq DEF Tabs, r
<1> HIDE DEF qs
<1> DEFINE f(a, i) == IF a = p THEN (n - i) + 1 ELSE i
<1>6. \A a \in DOMAIN ps : \A i \in DOMAIN ps[a] :
         f(a, i) \in DOMAIN ps[a] /\ qs[a][i] = ps[a][f(a, i)] /\ ps[a][i] = qs[a][f(a, i)]
  <2> TAKE a \in DOMAIN ps
  <2> TAKE i \in DOMAIN ps[a]
  <2>1. CASE a = p
    <3>1. i \in 1 .. n /\ (n - i) + 1 \in 1 .. n /\ (n - ((n - i) + 1)) + 1 = i
      BY <1>1, <2>1
    <3> QED BY <1>1, <1>4, <1>5, <2>1, <3>1
  <2>2. CASE a # p
    BY <1>5, <2>2
  <2> QED BY <2>1, <2>2
<1>7. \A a \in DOMAIN ps : \A i, j \in DOMAIN ps[a] : f(a, i) = f(a, j) => i = j
  BY <1>1
<1>8. \A a \in DOMAIN ps : DOMAIN qs[a] = DOMAIN ps[a]
  BY <1>1, <1>4, <1>5
<1> HIDE DEF f
<1>9. Once(qs)
  BY <1>5, <1>6, <1>7, <1>8 DEF Once, Whole
<1>10. \A u : Occurs(qs, u) <=> Occurs(ps, u)
  BY <1>5, <1>6, <1>8 DEF Occurs
<1>11. \A a \in DOMAIN qs : qs[a] # <<>>
  <2> TAKE a \in DOMAIN qs
  <2>1. CASE a = p
    BY <1>1, <1>4, <1>5, <2>1 DEF Whole
  <2>2. CASE a # p
    BY <1>5, <2>2 DEF Whole
  <2> QED BY <2>1, <2>2
<1>12. qs # <<>> /\ (p # 1 => qs[1] = ps[1])
  BY <1>1, <1>5
<1> QED BY <1>5, <1>9, <1>10, <1>11, <1>12 DEF Whole, qs

-----------------------------------------------------------------------------
(* The inductive invariant                                                 *)

\* A terminal is in the panes of the workspace its handlers know, once, and
\* nowhere else.
Placed ==
    \A w \in Ws :
        /\ Whole(panes[w])
        /\ \A u \in Terms : home[u] = w <=> Occurs(panes[w], u)

\* A serial names one workspace; that of no workspace is 0, which no read has.
Serials ==
    /\ \A w \in Ws : IF panes[w] = <<>> THEN sum[w] = Closed ELSE sum[w].serial # 0
    /\ \A v, w \in Open : sum[v].serial = sum[w].serial => v = w
    /\ \A r \in reads : r.serial # 0

\* Both labels of every workspace are fed by the directory they stand for.
Current ==
    \A w \in Ws :
        /\ Fed(State(w), "git", sum[w].cwd)
        /\ Fed(State(w), "primary", FirstDir(panes[w], dir))

IInv == TypeOK /\ Placed /\ Serials /\ Current

\* What a step may do to the labels: what LatestAnswer allows.
LabelsLag ==
    \A w \in Ws :
        /\ sum'[w].branch["git"] \in {sum[w].branch["git"], sum'[w].cwd, NoDir}
        /\ sum'[w].branch["primary"]
              \in {sum[w].branch["primary"], FirstDir(panes'[w], dir'), NoDir}

\* What a handler of an open workspace begins with.
LEMMA StateOK ==
  ASSUME IInv, NEW w \in Ws, panes[w] # <<>>
  PROVE  /\ State(w) \in Works
         /\ State(w).rs = reads /\ State(w).s = sum[w] /\ State(w).s.serial # 0
         /\ \A v \in Open \ {w} : sum[v].serial # sum[w].serial
         /\ Fed(State(w), "git", sum[w].cwd)
         /\ Fed(State(w), "primary", FirstDir(panes[w], dir))
<1>1. sum[w] \in Summary /\ reads \subseteq ReadSet
  BY DEF IInv, TypeOK, Summary, ReadSet
<1>2. State(w) \in Works /\ State(w).rs = reads /\ State(w).s = sum[w]
  BY <1>1 DEF State, Works
<1>3. w \in Open /\ sum[w].serial # 0
  BY DEF IInv, Serials, Open
<1>4. \A v \in Open \ {w} : sum[v].serial # sum[w].serial
  BY <1>3 DEF IInv, Serials
<1> QED BY <1>2, <1>3, <1>4 DEF IInv, Current

\* The panes of a workspace, as its handlers see them.
LEMMA PanesOK ==
  ASSUME IInv, NEW w \in Ws
  PROVE  /\ panes[w] \in Tabs /\ Whole(panes[w])
         /\ \A u \in Terms : home[u] = w <=> Occurs(panes[w], u)
         /\ dir \in [Terms -> Label]
BY DEF IInv, Placed, Whole, TypeOK

\* Directories of the terminals of w do not concern the other workspaces.
LEMMA OthersKeep ==
  ASSUME IInv, NEW w \in Ws, NEW ds,
         \A u \in Terms : home[u] \in Ws \ {w} => ds[u] = dir[u]
  PROVE  \A v \in Ws \ {w} : FirstDir(panes[v], ds) = FirstDir(panes[v], dir)
<1> TAKE v \in Ws \ {w}
<1>1. panes[v] \in Tabs /\ Whole(panes[v])
      /\ \A u \in Terms : home[u] = v <=> Occurs(panes[v], u)
  BY PanesOK
<1>2. CASE First(panes[v]) = {}
  BY <1>2 DEF FirstDir
<1>3. CASE First(panes[v]) # {}
  <2>1. panes[v] # <<>> /\ panes[v][1] # <<>>
    BY <1>3 DEF First
  <2>2. /\ 1 \in DOMAIN panes[v] /\ panes[v][1] \in Seq(Terms)
    BY <1>1, <2>1 DEF Tabs
  <2>3. 1 \in DOMAIN panes[v][1] /\ panes[v][1][1] \in Terms
    BY <2>1, <2>2
  <2>4. home[panes[v][1][1]] = v
    BY <1>1, <2>2, <2>3 DEF Occurs
  <2> QED BY <1>3, <2>3, <2>4 DEF FirstDir
<1> QED BY <1>2, <1>3

\* A handler of one workspace that keeps its labels fed keeps the invariant.
LEMMA CommitOK ==
  ASSUME IInv, NEW w \in Ws, NEW x0 \in Works, NEW x,
         x0.rs = reads, x0.s.serial # 0, x0.s.branch = sum[w].branch,
         \A v \in Open \ {w} : sum[v].serial # x0.s.serial,
         Handles(x0, x), Fed(x, "git", x.s.cwd),
         Fed(x, "primary", FirstDir(panes'[w], dir')),
         Commit(w, x), panes'[w] # <<>>,
         \A v \in Ws \ {w} : panes'[v] = panes[v],
         \A v \in Ws \ {w} : FirstDir(panes[v], dir') = FirstDir(panes[v], dir)
  PROVE  /\ sum' \in [Ws -> Summary] /\ reads' \subseteq ReadSet
         /\ Serials' /\ Current' /\ LabelsLag
<1>1. /\ sum \in [Ws -> Summary] /\ reads \subseteq ReadSet
      /\ x \in Works /\ x.s \in Summary /\ x.rs \subseteq ReadSet
      /\ x.s.serial = x0.s.serial
      /\ \A r \in ReadSet : r.serial # x0.s.serial => (r \in x.rs <=> r \in reads)
      /\ \A k \in Kinds : x.s.branch[k] \in {x0.s.branch[k], NoDir}
  BY DEF IInv, TypeOK, Summary, ReadSet, Handles, Works
<1>2. /\ sum' = [sum EXCEPT ![w] = x.s] /\ reads' = x.rs
      /\ sum'[w] = x.s /\ \A v \in Ws \ {w} : sum'[v] = sum[v]
  BY <1>1 DEF Commit
<1>3. sum' \in [Ws -> Summary] /\ reads' \subseteq ReadSet
  BY <1>1, <1>2
<1>4. \A v \in Ws \ {w} : v \in Open' <=> v \in Open
  BY DEF Open
<1>5. \A r \in reads' : r.serial # 0
  BY <1>1, <1>2 DEF IInv, Serials
<1>6. Serials'
  <2>1. \A v \in Ws : IF panes'[v] = <<>> THEN sum'[v] = Closed ELSE sum'[v].serial # 0
    BY <1>1, <1>2 DEF IInv, Serials
  <2>2. \A u, v \in Open' : sum'[u].serial = sum'[v].serial => u = v
    <3>1. \A u, v \in Open : sum[u].serial = sum[v].serial => u = v
      BY DEF IInv, Serials
    <3>2. \A v \in Open' : v \in Ws
      BY DEF Open
    <3> QED BY <1>1, <1>2, <1>4, <3>1, <3>2
  <2> QED BY <1>5, <2>1, <2>2 DEF Serials
<1>7. ASSUME NEW v \in Ws \ {w}, NEW k \in Kinds
      PROVE  /\ Waits(State(v)', k) = Waits(State(v), k)
             /\ State(v)'.s = State(v).s
  <2>1. sum[v].serial # x0.s.serial /\ \A r \in ReadSet :
           r.serial = sum[v].serial => (r \in reads' <=> r \in reads)
    <3>1. CASE v \in Open
      BY <1>1, <1>2, <3>1
    <3>2. CASE v \notin Open
      <4>1. sum[v] = Closed /\ Closed.serial = 0
        BY <3>2 DEF IInv, Serials, Open, Closed
      <4> QED BY <1>1, <1>2, <1>5, <4>1 DEF IInv, Serials
    <3> QED BY <3>1, <3>2
  <2>2. State(v)' = [s |-> sum[v], rs |-> reads'] /\ State(v) = [s |-> sum[v], rs |-> reads]
    BY <1>2 DEF State
  <2> QED BY <1>1, <1>3, <2>1, <2>2 DEF Waits
<1>8. State(w)' = x
  BY <1>1, <1>2 DEF State, Works
<1>9. Current'
  <2>1. \A v \in Ws \ {w} :
           /\ Fed(State(v)', "git", sum[v].cwd)
           /\ Fed(State(v)', "primary", FirstDir(panes[v], dir))
    BY <1>7 DEF Kinds, Fed, IInv, Current
  <2>2. Fed(State(w)', "git", sum'[w].cwd) /\ Fed(State(w)', "primary", FirstDir(panes'[w], dir'))
    BY <1>2, <1>8
  <2>3. \A v \in Ws : /\ Fed(State(v)', "git", sum'[v].cwd)
                      /\ Fed(State(v)', "primary", FirstDir(panes'[v], dir'))
    BY <1>2, <2>1, <2>2
  <2> QED BY <2>3 DEF Current
<1>10. LabelsLag
  BY <1>1, <1>2 DEF LabelsLag, Kinds
<1> QED BY <1>3, <1>6, <1>9, <1>10

\* The same for a workspace that was open before.
LEMMA HandledOK ==
  ASSUME IInv, NEW w \in Ws, panes[w] # <<>>, NEW x,
         Handles(State(w), x), Fed(x, "git", x.s.cwd),
         Fed(x, "primary", FirstDir(panes'[w], dir')),
         Commit(w, x), panes'[w] # <<>>,
         \A v \in Ws \ {w} : panes'[v] = panes[v],
         \A v \in Ws \ {w} : FirstDir(panes[v], dir') = FirstDir(panes[v], dir)
  PROVE  /\ sum' \in [Ws -> Summary] /\ reads' \subseteq ReadSet
         /\ Serials' /\ Current' /\ LabelsLag
<1> DEFINE x0 == State(w)
<1>1. /\ x0 \in Works /\ x0.rs = reads /\ x0.s = sum[w] /\ x0.s.serial # 0
      /\ \A v \in Open \ {w} : sum[v].serial # sum[w].serial
  BY StateOK
<1> HIDE DEF x0
<1>2. Handles(x0, x) /\ x0.s.branch = sum[w].branch
      /\ \A v \in Open \ {w} : sum[v].serial # x0.s.serial
  BY <1>1 DEF x0
<1> QED BY <1>1, <1>2, CommitOK

\* New panes for one workspace, whose terminals know it.
LEMMA PlaceOK ==
  ASSUME IInv, NEW w \in Ws, NEW ps, Whole(ps), panes' = [panes EXCEPT ![w] = ps],
         \A u \in Terms : home'[u] = w <=> Occurs(ps, u),
         \A u \in Terms : \A v \in Ws \ {w} : home'[u] = v <=> home[u] = v
  PROVE  /\ Placed' /\ panes' \in [Ws -> Tabs] /\ panes'[w] = ps
         /\ \A v \in Ws \ {w} : panes'[v] = panes[v]
<1>1. panes \in [Ws -> Tabs] /\ ps \in Tabs
  BY DEF IInv, TypeOK, Whole, Tabs
<1>2. panes' \in [Ws -> Tabs] /\ panes'[w] = ps /\ \A v \in Ws \ {w} : panes'[v] = panes[v]
  BY <1>1
<1>3. \A v \in Ws \ {w} : Whole(panes[v]) /\ \A u \in Terms : home[u] = v <=> Occurs(panes[v], u)
  BY PanesOK
<1>4. \A v \in Ws : Whole(panes'[v]) /\ \A u \in Terms : home'[u] = v <=> Occurs(panes'[v], u)
  BY <1>2, <1>3
<1> QED BY <1>2, <1>4 DEF Placed

\* What the types of the parts make of the whole.
LEMMA TypesOK ==
  ASSUME panes' \in [Ws -> Tabs], sum' \in [Ws -> Summary], reads' \subseteq ReadSet,
         home' \in [Terms -> Ws \cup {NoWs}], dir' \in [Terms -> Label],
         \A t \in Terms : home'[t] = NoWs => dir'[t] = NoDir
  PROVE  TypeOK'
BY DEF TypeOK, Tabs, Summary, ReadSet

\* A terminal that is nowhere, and what the variables hold.
LEMMA HomeOK ==
  ASSUME IInv
  PROVE  /\ home \in [Terms -> Ws \cup {NoWs}] /\ dir \in [Terms -> Label]
         /\ NoWs \notin Ws /\ NoDir \in Label
         /\ \A t \in Terms : home[t] = NoWs => dir[t] = NoDir
         /\ \A t \in Terms : home[t] = NoWs => \A w \in Ws : ~Occurs(panes[w], t)
<1>1. /\ home \in [Terms -> Ws \cup {NoWs}] /\ dir \in [Terms -> Label]
      /\ \A t \in Terms : home[t] = NoWs => dir[t] = NoDir
  BY DEF IInv, TypeOK
<1>2. NoWs \notin Ws /\ NoDir \in Label
  BY NoneAssumption DEF Label
<1>3. ASSUME NEW t \in Terms, home[t] = NoWs, NEW w \in Ws
      PROVE  ~Occurs(panes[w], t)
  BY <1>2, <1>3, PanesOK
<1> QED BY <1>1, <1>2, <1>3

\* The terminals that are finalized with their tabs.
LEMMA LostOK ==
  ASSUME IInv, NEW ts, Lost(ts)
  PROVE  /\ home' \in [Terms -> Ws \cup {NoWs}] /\ dir' \in [Terms -> Label]
         /\ \A t \in Terms : home'[t] = NoWs => dir'[t] = NoDir
         /\ \A u \in Terms : \A v \in Ws : home'[u] = v <=> home[u] = v /\ u \notin ts
         /\ \A u \in Terms \ ts : dir'[u] = dir[u]
BY HomeOK DEF Lost

\* A terminal that is created in a pane of w.
LEMMA CreatedOK ==
  ASSUME IInv, NEW w \in Ws, NEW t \in Terms, NEW d \in Label, Created(w, t, d)
  PROVE  /\ home' \in [Terms -> Ws \cup {NoWs}] /\ dir' \in [Terms -> Label]
         /\ \A u \in Terms : home'[u] = NoWs => dir'[u] = NoDir
         /\ \A u \in Terms : home'[u] = w <=> home[u] = w \/ u = t
         /\ \A u \in Terms : \A v \in Ws \ {w} : home'[u] = v <=> home[u] = v
         /\ \A u \in Terms \ {t} : dir'[u] = dir[u]
         /\ \A v \in Ws : ~Occurs(panes[v], t)
         /\ \A v \in Ws \ {w} : FirstDir(panes[v], dir') = FirstDir(panes[v], dir)
<1>1. /\ home' = [home EXCEPT ![t] = w] /\ dir' = [dir EXCEPT ![t] = d] /\ home[t] = NoWs
      /\ home \in [Terms -> Ws \cup {NoWs}] /\ dir \in [Terms -> Label] /\ NoWs \notin Ws
      /\ \A u \in Terms : home[u] = NoWs => dir[u] = NoDir
      /\ \A v \in Ws : ~Occurs(panes[v], t)
  BY HomeOK DEF Created
<1>2. /\ home' \in [Terms -> Ws \cup {NoWs}] /\ dir' \in [Terms -> Label]
      /\ home'[t] = w /\ \A u \in Terms \ {t} : home'[u] = home[u] /\ dir'[u] = dir[u]
  BY <1>1
<1>3. \A u \in Terms : home[u] \in Ws \ {w} => dir'[u] = dir[u]
  BY <1>1, <1>2
<1>4. \A v \in Ws \ {w} : FirstDir(panes[v], dir') = FirstDir(panes[v], dir)
  BY <1>3, OthersKeep
<1> QED BY <1>1, <1>2, <1>4

-----------------------------------------------------------------------------
(* The actions                                                             *)

\* Nothing happens.
LEMMA StutterOK ==
  ASSUME IInv, UNCHANGED vars
  PROVE  IInv' /\ LabelsLag
<1>1. IInv'
  BY DEF vars, IInv, TypeOK, Placed, Serials, Open, Current, State
<1>2. LabelsLag
  BY DEF vars, LabelsLag
<1> QED BY <1>1, <1>2

\* workspace_add
LEMMA AddWorkspaceOK ==
  ASSUME IInv, NEW w \in Ws, NEW t \in Terms, NEW ok \in BOOLEAN, AddWorkspace(w, t, ok)
  PROVE  IInv' /\ LabelsLag
<1> DEFINE ps == <<<<t>>>>
           n == Min(FreshSerials)
           x == [s |-> [Closed EXCEPT !.serial = n], rs |-> reads]
           y == PagesChanged(x, 1, ps, dir, ok)
           z == UpdateSummary(y, t, ps, dir, ok)
<1>1. /\ panes[w] = <<>> /\ home[t] = NoWs /\ panes' = [panes EXCEPT ![w] = ps]
      /\ home' = [home EXCEPT ![t] = w] /\ dir' = dir /\ Commit(w, z)
      /\ FreshSerials # {}
  BY DEF AddWorkspace, Open
<1>2. n \in FreshSerials
  <2>1. FreshSerials \in SUBSET Nat
    BY DEF FreshSerials
  <2> QED BY <1>1, <2>1, MinOK
<1>3. /\ n \in Nat \ {0} /\ \A v \in Ws : sum[v].serial # n
      /\ \A r \in reads : r.serial # n
  <2>1. n \in 1 .. MaxSerial /\ n \notin {sum[v].serial : v \in Ws}
        /\ n \notin {r.serial : r \in reads}
    BY <1>2 DEF FreshSerials
  <2> HIDE DEF n
  <2>2. n \in Nat \ {0}
    BY <2>1
  <2> QED BY <2>1, <2>2
<1> HIDE DEF n
<1>4. /\ x \in Works /\ x.rs = reads /\ x.s.serial = n /\ x.s.branch = Closed.branch
      /\ x.s.cwd = NoDir
      /\ \A k \in Kinds : Waits(x, k) = {} /\ x.s.branch[k] = NoDir
  <2>1. reads \subseteq ReadSet /\ NoDir \in Label
    BY HomeOK DEF IInv, TypeOK, ReadSet
  <2>2. Closed \in Summary /\ [Closed EXCEPT !.serial = n] \in Summary
        /\ [Closed EXCEPT !.serial = n].serial = n
        /\ [Closed EXCEPT !.serial = n].branch = Closed.branch
        /\ [Closed EXCEPT !.serial = n].cwd = NoDir
        /\ \A k \in Kinds : Closed.branch[k] = NoDir
    BY <1>3, <2>1 DEF Closed, Summary
  <2> QED BY <1>3, <2>1, <2>2 DEF Works, Waits
<1> HIDE DEF x
<1>5. /\ Whole(ps) /\ ps # <<>> /\ \A u : Occurs(ps, u) <=> u = t
  BY DEF Whole, Once, Occurs, Tabs
<1> HIDE DEF ps
<1>6. /\ home \in [Terms -> Ws \cup {NoWs}] /\ dir \in [Terms -> Label] /\ NoWs \notin Ws
      /\ dir[t] \in Label /\ ps \in Tabs
      /\ \A u \in Terms : home[u] = NoWs => dir[u] = NoDir
  BY <1>5, HomeOK DEF Whole
<1>7. /\ Fed(x, "git", x.s.cwd) /\ "git" \in Kinds
  BY <1>4 DEF Fed, Kinds
<1>8. /\ Handles(x, y) /\ y \in Works /\ Fed(y, "primary", FirstDir(ps, dir))
  <2>1. Handles(x, y) /\ Fed(y, "primary", FirstDir(ps, dir))
    BY <1>4, <1>6, PagesChangedOK
  <2> HIDE DEF y
  <2> QED BY <2>1 DEF Handles
<1> HIDE DEF y
<1>9. /\ Handles(y, z) /\ Fed(z, "git", z.s.cwd) /\ Fed(z, "primary", FirstDir(ps, dir))
  BY <1>6, <1>8, UpdateSummaryOK DEF Ends
<1> HIDE DEF z
<1>10. Handles(x, z)
  BY <1>8, <1>9, HandlesTwice
<1>11. \A u \in Terms : home[u] # w
  <2>1. \A u : ~Occurs(<<>>, u)
    BY DEF Occurs
  <2> QED BY <1>1, <2>1, PanesOK
<1>12. /\ home' \in [Terms -> Ws \cup {NoWs}]
       /\ \A u \in Terms : home'[u] = NoWs => dir'[u] = NoDir
       /\ \A u \in Terms : home'[u] = w <=> Occurs(ps, u)
       /\ \A u \in Terms : \A v \in Ws \ {w} : home'[u] = v <=> home[u] = v
  BY <1>1, <1>5, <1>6, <1>11
<1>13. /\ Placed' /\ panes' \in [Ws -> Tabs] /\ panes'[w] = ps
       /\ \A v \in Ws \ {w} : panes'[v] = panes[v]
  BY <1>1, <1>5, <1>12, PlaceOK
<1>14. sum[w].branch = x.s.branch
  BY <1>1, <1>4 DEF IInv, Serials
<1>15. /\ sum' \in [Ws -> Summary] /\ reads' \subseteq ReadSet
       /\ Serials' /\ Current' /\ LabelsLag
  <2>1. \A v \in Open \ {w} : sum[v].serial # x.s.serial
    BY <1>3, <1>4 DEF Open
  <2>2. x.s.serial # 0
    BY <1>3, <1>4
  <2>3. FirstDir(panes'[w], dir') = FirstDir(ps, dir) /\ panes'[w] # <<>>
        /\ \A v \in Ws \ {w} : FirstDir(panes[v], dir') = FirstDir(panes[v], dir)
    BY <1>1, <1>5, <1>13
  <2> QED BY <1>1, <1>4, <1>9, <1>10, <1>13, <1>14, <2>1, <2>2, <2>3, CommitOK
<1>16. TypeOK'
  BY <1>1, <1>6, <1>12, <1>13, <1>15, TypesOK
<1> QED BY <1>13, <1>15, <1>16 DEF IInv

\* workspace_remove
LEMMA RemoveWorkspaceOK ==
  ASSUME IInv, NEW w \in Ws, RemoveWorkspace(w)
  PROVE  IInv' /\ LabelsLag
<1>1. /\ panes' = [panes EXCEPT ![w] = <<>>] /\ Lost(Shown(w))
      /\ sum' = [sum EXCEPT ![w] = Closed] /\ reads' = reads
  BY DEF RemoveWorkspace
<1>2. /\ Whole(<<>>) /\ \A u : ~Occurs(<<>>, u)
  BY DEF Whole, Tabs, Once, Occurs
<1>3. \A u \in Terms : u \in Shown(w) <=> home[u] = w
  <2>1. \A u : u \in Shown(w) <=> Occurs(panes[w], u)
    BY DEF Shown, ToSet, Occurs
  <2> QED BY <2>1, PanesOK
<1>4. /\ home' \in [Terms -> Ws \cup {NoWs}] /\ dir' \in [Terms -> Label]
      /\ \A t \in Terms : home'[t] = NoWs => dir'[t] = NoDir
      /\ \A u \in Terms : \A v \in Ws : home'[u] = v <=> home[u] = v /\ u \notin Shown(w)
      /\ \A u \in Terms \ Shown(w) : dir'[u] = dir[u]
  BY <1>1, LostOK
<1>5. /\ Placed' /\ panes' \in [Ws -> Tabs] /\ panes'[w] = <<>>
      /\ \A v \in Ws \ {w} : panes'[v] = panes[v]
  <2>1. \A u \in Terms : home'[u] = w <=> Occurs(<<>>, u)
    BY <1>2, <1>3, <1>4
  <2>2. \A u \in Terms : \A v \in Ws \ {w} : home'[u] = v <=> home[u] = v
    BY <1>3, <1>4
  <2> QED BY <1>1, <1>2, <2>1, <2>2, PlaceOK
<1>6. \A v \in Ws \ {w} : FirstDir(panes[v], dir') = FirstDir(panes[v], dir)
  BY <1>3, <1>4, OthersKeep
<1>7. /\ sum \in [Ws -> Summary] /\ reads \subseteq ReadSet /\ Closed \in Summary
      /\ NoDir \in Label
  BY HomeOK DEF IInv, TypeOK, Summary, ReadSet, Closed
<1>8. /\ sum' \in [Ws -> Summary] /\ sum'[w] = Closed
      /\ \A v \in Ws \ {w} : sum'[v] = sum[v]
  BY <1>1, <1>7
<1>9. Serials'
  BY <1>1, <1>5, <1>8 DEF IInv, Serials, Open
<1>10. Current'
  <2>1. ASSUME NEW v \in Ws \ {w}
        PROVE  State(v)' = State(v) /\ Fed(State(v), "git", sum'[v].cwd)
               /\ Fed(State(v), "primary", FirstDir(panes'[v], dir'))
    BY <1>1, <1>5, <1>6, <1>8 DEF IInv, Current, State
  <2>2. /\ Fed(State(w)', "git", sum'[w].cwd)
        /\ Fed(State(w)', "primary", FirstDir(panes'[w], dir'))
    <3>1. State(w)'.s = Closed /\ State(w)'.rs = reads
      BY <1>1, <1>8 DEF State
    <3>2. \A k \in Kinds : Waits(State(w)', k) = {}
      BY <3>1 DEF Waits, Closed, IInv, Serials
    <3>3. \A k \in Kinds : Closed.branch[k] = NoDir
      BY DEF Closed
    <3> QED BY <3>1, <3>2, <3>3 DEF Fed, Kinds
  <2>3. \A v \in Ws : /\ Fed(State(v)', "git", sum'[v].cwd)
                      /\ Fed(State(v)', "primary", FirstDir(panes'[v], dir'))
    BY <2>1, <2>2
  <2> QED BY <2>3 DEF Current
<1>11. LabelsLag
  <2>1. \A k \in Kinds : Closed.branch[k] = NoDir
    BY DEF Closed
  <2> QED BY <1>8, <2>1 DEF LabelsLag, Kinds
<1>12. TypeOK'
  BY <1>1, <1>4, <1>5, <1>7, <1>8, TypesOK
<1> QED BY <1>5, <1>9, <1>10, <1>11, <1>12 DEF IInv

\* A tab is added to a pane: its page comes up.
LEMMA NewTabOK ==
  ASSUME IInv, NEW w \in Ws, NEW p \in DOMAIN panes[w], NEW t \in Terms, NEW d \in Label,
         NEW ok \in BOOLEAN, NewTab(w, p, t, d, ok)
  PROVE  IInv' /\ LabelsLag
<1> DEFINE ps == [panes[w] EXCEPT ![p] = Append(@, t)]
           y == PagesChanged(State(w), p, ps, dir', ok)
           z == UpdateSummary(y, t, ps, dir', ok)
<1>1. /\ Created(w, t, d) /\ panes' = [panes EXCEPT ![w] = ps] /\ Commit(w, z)
  BY DEF NewTab
<1>2. /\ home' \in [Terms -> Ws \cup {NoWs}] /\ dir' \in [Terms -> Label]
      /\ \A u \in Terms : home'[u] = NoWs => dir'[u] = NoDir
      /\ \A u \in Terms : home'[u] = w <=> home[u] = w \/ u = t
      /\ \A u \in Terms : \A v \in Ws \ {w} : home'[u] = v <=> home[u] = v
      /\ \A u \in Terms \ {t} : dir'[u] = dir[u]
      /\ ~Occurs(panes[w], t)
      /\ \A v \in Ws \ {w} : FirstDir(panes[v], dir') = FirstDir(panes[v], dir)
  BY <1>1, CreatedOK
<1>3. /\ panes[w] \in Tabs /\ Whole(panes[w]) /\ panes[w] # <<>>
      /\ \A u \in Terms : home[u] = w <=> Occurs(panes[w], u)
  BY PanesOK, PaneOK
<1>4. /\ Whole(ps) /\ ps # <<>> /\ (p # 1 => ps[1] = panes[w][1])
      /\ \A u : Occurs(ps, u) <=> Occurs(panes[w], u) \/ u = t
  <2>1. Whole(panes[w]) /\ p \in DOMAIN panes[w] /\ t \in Terms /\ ~Occurs(panes[w], t)
    BY <1>2, <1>3
  <2> QED BY ONLY <2>1, AddTabOK
<1>5. /\ State(w) \in Works /\ Fed(State(w), "git", State(w).s.cwd)
      /\ Fed(State(w), "primary", FirstDir(panes[w], dir))
  BY <1>3, StateOK
<1> HIDE DEF ps
<1>6. p # 1 => FirstDir(ps, dir') = FirstDir(panes[w], dir)
  <2>1. SUFFICES ASSUME p # 1 PROVE FirstDir(ps, dir') = FirstDir(panes[w], dir)
    OBVIOUS
  <2>2. panes[w][1] # <<>> => panes[w][1][1] \in Terms /\ panes[w][1][1] # t
    <3>1. 1 \in DOMAIN panes[w]
      BY <1>3 DEF Tabs
    <3>2. panes[w][1] # <<>> => 1 \in DOMAIN panes[w][1]
      BY <1>3, <3>1, PaneOK
    <3> QED BY <1>2, <1>3, <3>1, <3>2, PaneOK DEF Occurs
  <2> QED BY <1>2, <1>3, <1>4, <2>1, <2>2, FirstDirSame DEF Whole
<1>7. ps \in Tabs
  BY <1>4 DEF Whole
<1>8. Handles(State(w), y) /\ Fed(y, "primary", FirstDir(ps, dir')) /\ y \in Works
  <2>1. Handles(State(w), y) /\ Fed(y, "primary", FirstDir(ps, dir'))
    BY <1>2, <1>5, <1>6, <1>7, PagesChangedOK
  <2> HIDE DEF y
  <2> QED BY <2>1 DEF Handles
<1> HIDE DEF y
<1>9. Handles(y, z) /\ Fed(z, "git", z.s.cwd) /\ Fed(z, "primary", FirstDir(ps, dir'))
  BY <1>2, <1>7, <1>8, UpdateSummaryOK DEF Ends
<1> HIDE DEF z
<1>10. /\ Placed' /\ panes' \in [Ws -> Tabs] /\ panes'[w] = ps
       /\ \A v \in Ws \ {w} : panes'[v] = panes[v]
  <2>1. \A u \in Terms : home'[u] = w <=> Occurs(ps, u)
    BY <1>2, <1>3, <1>4
  <2> QED BY <1>1, <1>2, <1>4, <2>1, PlaceOK
<1>11. Handles(State(w), z)
  BY <1>8, <1>9, HandlesTwice
<1>12. /\ sum' \in [Ws -> Summary] /\ reads' \subseteq ReadSet
       /\ Serials' /\ Current' /\ LabelsLag
  BY <1>1, <1>2, <1>3, <1>4, <1>9, <1>10, <1>11, HandledOK
<1>13. TypeOK'
  BY <1>2, <1>10, <1>12, TypesOK
<1> QED BY <1>10, <1>12, <1>13 DEF IInv

\* split_pane_target
LEMMA SplitPaneOK ==
  ASSUME IInv, NEW w \in Ws, NEW p \in DOMAIN panes[w], NEW t \in Terms, NEW d \in Label,
         NEW ok \in BOOLEAN, SplitPane(w, p, t, d, ok)
  PROVE  IInv' /\ LabelsLag
<1> DEFINE ps == Append(panes[w], <<t>>)
           y == UpdateSummary(State(w), t, ps, dir', ok)
           z == SyncSummary(y, ps, dir', ok)
<1>1. /\ Created(w, t, d) /\ panes' = [panes EXCEPT ![w] = ps] /\ Commit(w, z)
  BY DEF SplitPane
<1>2. /\ home' \in [Terms -> Ws \cup {NoWs}] /\ dir' \in [Terms -> Label]
      /\ \A u \in Terms : home'[u] = NoWs => dir'[u] = NoDir
      /\ \A u \in Terms : home'[u] = w <=> home[u] = w \/ u = t
      /\ \A u \in Terms : \A v \in Ws \ {w} : home'[u] = v <=> home[u] = v
      /\ \A u \in Terms \ {t} : dir'[u] = dir[u]
      /\ ~Occurs(panes[w], t)
      /\ \A v \in Ws \ {w} : FirstDir(panes[v], dir') = FirstDir(panes[v], dir)
  BY <1>1, CreatedOK
<1>3. /\ panes[w] \in Tabs /\ Whole(panes[w]) /\ panes[w] # <<>>
      /\ \A u \in Terms : home[u] = w <=> Occurs(panes[w], u)
  BY PanesOK, PaneOK
<1>4. /\ Whole(ps) /\ ps # <<>> /\ ps[1] = panes[w][1]
      /\ \A u : Occurs(ps, u) <=> Occurs(panes[w], u) \/ u = t
  BY <1>2, <1>3, AddPaneOK
<1>5. /\ State(w) \in Works /\ Fed(State(w), "primary", FirstDir(panes[w], dir))
  BY <1>3, StateOK
<1> HIDE DEF ps
<1>6. FirstDir(ps, dir') = FirstDir(panes[w], dir)
  <2>1. panes[w][1] # <<>> => panes[w][1][1] \in Terms /\ panes[w][1][1] # t
    <3>1. 1 \in DOMAIN panes[w]
      BY <1>3 DEF Tabs
    <3>2. panes[w][1] # <<>> => 1 \in DOMAIN panes[w][1]
      BY <1>3, <3>1, PaneOK
    <3> QED BY <1>2, <1>3, <3>1, <3>2, PaneOK DEF Occurs
  <2> QED BY <1>2, <1>3, <1>4, <2>1, FirstDirSame DEF Whole
<1>7. ps \in Tabs
  BY <1>4 DEF Whole
<1>8. Handles(State(w), y) /\ Fed(y, "primary", FirstDir(ps, dir')) /\ y \in Works
  <2>1. Handles(State(w), y) /\ Fed(y, "primary", FirstDir(ps, dir'))
    BY <1>2, <1>5, <1>6, <1>7, UpdateSummaryOK DEF Ends
  <2> HIDE DEF y
  <2> QED BY <2>1 DEF Handles
<1> HIDE DEF y
<1>9. Handles(y, z) /\ Fed(z, "git", z.s.cwd) /\ Fed(z, "primary", FirstDir(ps, dir'))
  BY <1>2, <1>7, <1>8, SyncSummaryOK DEF Ends
<1> HIDE DEF z
<1>10. /\ Placed' /\ panes' \in [Ws -> Tabs] /\ panes'[w] = ps
       /\ \A v \in Ws \ {w} : panes'[v] = panes[v]
  <2>1. \A u \in Terms : home'[u] = w <=> Occurs(ps, u)
    BY <1>2, <1>3, <1>4
  <2> QED BY <1>1, <1>2, <1>4, <2>1, PlaceOK
<1>11. Handles(State(w), z)
  BY <1>8, <1>9, HandlesTwice
<1>12. /\ sum' \in [Ws -> Summary] /\ reads' \subseteq ReadSet
       /\ Serials' /\ Current' /\ LabelsLag
  BY <1>1, <1>2, <1>3, <1>4, <1>9, <1>10, <1>11, HandledOK
<1>13. TypeOK'
  BY <1>2, <1>10, <1>12, TypesOK
<1> QED BY <1>10, <1>12, <1>13 DEF IInv

\* The panes of w change in a handler, and no terminal comes or goes.
LEMMA RearrangedOK ==
  ASSUME IInv, NEW w \in Ws, panes[w] # <<>>, NEW ps, Whole(ps), ps # <<>>, NEW x,
         \A u \in Terms : Occurs(ps, u) <=> Occurs(panes[w], u),
         panes' = [panes EXCEPT ![w] = ps], UNCHANGED <<home, dir>>,
         Handles(State(w), x), Fed(x, "git", x.s.cwd),
         Fed(x, "primary", FirstDir(ps, dir)), Commit(w, x)
  PROVE  IInv' /\ LabelsLag
<1>1. /\ home' = home /\ dir' = dir
      /\ home \in [Terms -> Ws \cup {NoWs}] /\ dir \in [Terms -> Label]
      /\ \A t \in Terms : home[t] = NoWs => dir[t] = NoDir
      /\ \A u \in Terms : home[u] = w <=> Occurs(panes[w], u)
  BY HomeOK, PanesOK
<1>2. /\ Placed' /\ panes' \in [Ws -> Tabs] /\ panes'[w] = ps
      /\ \A v \in Ws \ {w} : panes'[v] = panes[v]
  <2>1. \A u \in Terms : home'[u] = w <=> Occurs(ps, u)
    BY <1>1
  <2> QED BY <1>1, <2>1, PlaceOK
<1>3. /\ sum' \in [Ws -> Summary] /\ reads' \subseteq ReadSet
      /\ Serials' /\ Current' /\ LabelsLag
  BY <1>1, <1>2, HandledOK
<1>4. TypeOK'
  BY <1>1, <1>2, <1>3, TypesOK
<1> QED BY <1>2, <1>3, <1>4 DEF IInv

\* on_notebook_switch_page, workspace_focus_first_terminal
LEMMA SelectTabOK ==
  ASSUME IInv, NEW w \in Ws, NEW p \in DOMAIN panes[w], NEW t \in Terms,
         NEW ok \in BOOLEAN, SelectTab(w, p, t, ok)
  PROVE  IInv' /\ LabelsLag
<1> DEFINE x == UpdateSummary(State(w), t, panes[w], dir, ok)
<1>1. Commit(w, x) /\ UNCHANGED <<home, dir>> /\ panes' = panes
  BY DEF SelectTab
<1>2. /\ panes[w] \in Tabs /\ Whole(panes[w]) /\ panes[w] # <<>> /\ dir \in [Terms -> Label]
  BY PanesOK, PaneOK
<1>3. /\ State(w) \in Works /\ Fed(State(w), "primary", FirstDir(panes[w], dir))
  BY <1>2, StateOK
<1>4. /\ Handles(State(w), x) /\ Fed(x, "git", x.s.cwd)
      /\ Fed(x, "primary", FirstDir(panes[w], dir))
  BY <1>2, <1>3, UpdateSummaryOK DEF Ends
<1> HIDE DEF x
<1>5. panes' = [panes EXCEPT ![w] = panes[w]]
  BY <1>1 DEF IInv, TypeOK
<1> QED BY <1>1, <1>2, <1>4, <1>5, RearrangedOK

\* The tabs of a pane are dragged into another order.
LEMMA ReorderTabsOK ==
  ASSUME IInv, NEW w \in Ws, NEW p \in DOMAIN panes[w], NEW ok \in BOOLEAN,
         ReorderTabs(w, p, ok)
  PROVE  IInv' /\ LabelsLag
<1> DEFINE ps == [panes[w] EXCEPT ![p] = Reverse(@)]
           x == PagesChanged(State(w), p, ps, dir, ok)
<1>1. Commit(w, x) /\ UNCHANGED <<home, dir>> /\ panes' = [panes EXCEPT ![w] = ps]
  BY DEF ReorderTabs
<1>2. /\ panes[w] \in Tabs /\ Whole(panes[w]) /\ panes[w] # <<>> /\ dir \in [Terms -> Label]
  BY PanesOK, PaneOK
<1>3. /\ Whole(ps) /\ ps # <<>> /\ (p # 1 => ps[1] = panes[w][1])
      /\ \A u : Occurs(ps, u) <=> Occurs(panes[w], u)
  BY <1>2, ReverseOK
<1> HIDE DEF ps
<1>4. /\ State(w) \in Works /\ Fed(State(w), "git", State(w).s.cwd)
      /\ Fed(State(w), "primary", FirstDir(panes[w], dir))
  BY <1>2, StateOK
<1>5. ps \in Tabs /\ (p # 1 => FirstDir(ps, dir) = FirstDir(panes[w], dir))
  BY <1>2, <1>3, FirstDirSame DEF Whole
<1>6. /\ Handles(State(w), x) /\ Fed(x, "git", x.s.cwd)
      /\ Fed(x, "primary", FirstDir(ps, dir))
  BY <1>2, <1>4, <1>5, PagesChangedOK
<1> HIDE DEF x
<1> QED BY <1>1, <1>2, <1>3, <1>6, RearrangedOK

\* What is left of the panes and the summary when page i leaves pane p.
LEMMA LeftOK ==
  ASSUME IInv, NEW w \in Ws, NEW p \in DOMAIN panes[w], NEW i \in DOMAIN panes[w][p],
         NEW next \in Nexts(w, p, i), NEW ok \in BOOLEAN,
         Len(panes[w][p]) > 1 \/ Len(panes[w]) > 1
  PROVE  LET gone == Left(w, p, i, next, ok) IN
         /\ Whole(gone.ps) /\ gone.ps # <<>>
         /\ Len(gone.ps) \in {Len(panes[w]), Len(panes[w]) - 1}
         /\ \A u : Occurs(gone.ps, u) <=> Occurs(panes[w], u) /\ u # panes[w][p][i]
         /\ Handles(State(w), gone.x)
         /\ Fed(gone.x, "git", gone.x.s.cwd)
         /\ Fed(gone.x, "primary", FirstDir(gone.ps, dir))
<1> DEFINE gone == Left(w, p, i, next, ok)
           ps == [panes[w] EXCEPT ![p] = RemoveAt(@, i)]
           up == IF next = {} THEN State(w)
                 ELSE UpdateSummary(State(w), CHOOSE t \in next : TRUE, panes[w], dir, ok)
           x == PagesChanged(up, p, ps, dir, ok)
           rest == RemoveAt(ps, p)
           y == SyncSummary(x, rest, dir, ok)
<1>1. gone = IF ps[p] = <<>> /\ Len(ps) > 1 THEN [ps |-> rest, x |-> y]
             ELSE [ps |-> ps, x |-> x]
  BY DEF Left
<1>2. /\ panes[w] \in Tabs /\ Whole(panes[w]) /\ panes[w] # <<>> /\ dir \in [Terms -> Label]
      /\ panes[w][p] \in Seq(Terms) /\ Len(panes[w][p]) \in Nat /\ Len(panes[w]) \in Nat
      /\ DOMAIN panes[w] = 1 .. Len(panes[w])
  BY PanesOK, PaneOK
<1>3. /\ State(w) \in Works /\ Fed(State(w), "git", State(w).s.cwd)
      /\ Fed(State(w), "primary", FirstDir(panes[w], dir))
  BY <1>2, StateOK
<1>4. /\ Handles(State(w), up) /\ up \in Works /\ Fed(up, "git", up.s.cwd)
      /\ Fed(up, "primary", FirstDir(panes[w], dir))
  <2>1. CASE next = {}
    <3>1. up = State(w)
      BY <2>1
    <3> HIDE DEF up
    <3> QED BY <1>3, <3>1 DEF Handles
  <2>2. CASE next # {}
    <3> DEFINE t == CHOOSE t \in next : TRUE
    <3>1. t \in Terms
      <4>1. PICK e \in ToSet(RemoveAt(panes[w][p], i)) : next = {e}
        BY <2>2 DEF Nexts
      <4>2. RemoveAt(panes[w][p], i) \in Seq(Terms)
        BY <1>2, RemoveAtOK
      <4>3. e \in Terms
        BY <4>1, <4>2 DEF ToSet
      <4> QED BY <4>1, <4>3
    <3>2. up = UpdateSummary(State(w), t, panes[w], dir, ok)
      BY <2>2
    <3> HIDE DEF up, t
    <3>3. /\ Handles(State(w), up) /\ Fed(up, "git", up.s.cwd)
          /\ Fed(up, "primary", FirstDir(panes[w], dir))
      BY <1>2, <1>3, <3>1, <3>2, UpdateSummaryOK DEF Ends
    <3> QED BY <3>3 DEF Handles
  <2> QED BY <2>1, <2>2
<1> HIDE DEF up
<1>5. /\ ps \in Tabs /\ Once(ps) /\ Len(ps) = Len(panes[w]) /\ DOMAIN ps = DOMAIN panes[w]
      /\ \A q \in DOMAIN panes[w] \ {p} : ps[q] = panes[w][q]
      /\ \A u : Occurs(ps, u) <=> Occurs(panes[w], u) /\ u # panes[w][p][i]
      /\ Len(ps[p]) = Len(panes[w][p]) - 1
  <2>1. Whole(panes[w]) /\ p \in DOMAIN panes[w] /\ i \in DOMAIN panes[w][p]
    BY <1>2
  <2>2. LET qs == [panes[w] EXCEPT ![p] = RemoveAt(@, i)] IN
        /\ qs \in Tabs /\ Once(qs) /\ Len(qs) = Len(panes[w]) /\ DOMAIN qs = DOMAIN panes[w]
        /\ \A q \in DOMAIN panes[w] \ {p} : qs[q] = panes[w][q]
        /\ \A u : Occurs(qs, u) <=> Occurs(panes[w], u) /\ u # panes[w][p][i]
        /\ Len(qs[p]) = Len(panes[w][p]) - 1
    BY <2>1, DropTabOK
  <2> QED BY <2>2
<1> HIDE DEF ps
<1>6. ps # <<>> /\ (p # 1 => FirstDir(ps, dir) = FirstDir(panes[w], dir))
  <2>1. ps # <<>>
    BY <1>2, <1>5
  <2>2. 1 \in DOMAIN panes[w]
    BY <1>2
  <2> QED BY <1>2, <1>5, <2>1, <2>2, FirstDirSame
<1>7. /\ Handles(State(w), x) /\ x \in Works /\ Fed(x, "git", x.s.cwd)
      /\ Fed(x, "primary", FirstDir(ps, dir))
  <2>1. /\ Handles(up, x) /\ Fed(x, "git", x.s.cwd)
        /\ Fed(x, "primary", FirstDir(ps, dir))
    BY <1>2, <1>4, <1>5, <1>6, PagesChangedOK
  <2> HIDE DEF x
  <2> QED BY <1>4, <2>1, HandlesTwice DEF Handles
<1>8. ps[p] = <<>> => Fed(x, "primary", FirstDir(rest, dir)) \/ p # 1
  <2> SUFFICES ASSUME ps[p] = <<>>, p = 1
               PROVE  Fed(x, "primary", FirstDir(rest, dir))
    OBVIOUS
  <2>1. FirstDir(ps, dir) = NoDir
    BY DEF FirstDir, First
  <2> HIDE DEF x
  <2> QED BY <1>7, <2>1, FedNone DEF Kinds
<1> HIDE DEF x
<1>9. CASE ps[p] = <<>> /\ Len(ps) > 1
  <2>1. /\ rest \in Tabs /\ Once(rest) /\ Len(rest) = Len(ps) - 1
        /\ \A a \in DOMAIN rest : rest[a] = ps[IF a < p THEN a ELSE a + 1]
                                  /\ (IF a < p THEN a ELSE a + 1) \in DOMAIN ps \ {p}
        /\ \A u : Occurs(rest, u) <=> Occurs(ps, u) /\ u \notin ToSet(ps[p])
    BY <1>5, DropPaneOK
  <2> HIDE DEF rest
  <2>2. gone.ps = rest /\ gone.x = y
    BY <1>1, <1>9
  <2>3. \A u : u \notin ToSet(ps[p])
    BY <1>9 DEF ToSet
  <2>4. \A a \in DOMAIN rest : rest[a] # <<>>
    BY <1>2, <1>5, <2>1 DEF Whole
  <2>5. Whole(rest) /\ rest # <<>> /\ Len(rest) = Len(panes[w]) - 1
    <3>1. Len(rest) > 0
      BY <1>2, <1>5, <1>9, <2>1
    <3> QED BY <1>5, <2>1, <2>4, <3>1 DEF Whole
  <2>6. Fed(x, "primary", FirstDir(rest, dir))
    <3>1. CASE p = 1
      BY <1>8, <1>9, <3>1
    <3>2. CASE p # 1
      <4>1. 1 \in DOMAIN rest /\ 1 < p
        <5>1. rest \in Seq(Seq(Terms)) /\ Len(rest) >= 1
          BY <1>2, <1>5, <1>9, <2>1 DEF Tabs
        <5>2. p \in 1 .. Len(panes[w])
          BY <1>2
        <5> QED BY <3>2, <5>1, <5>2
      <4>2. rest[1] = ps[1]
        BY <2>1, <4>1
      <4> QED BY <1>5, <1>6, <1>7, <2>1, <2>5, <4>2, FirstDirSame, SMTT(30)
    <3> QED BY <3>1, <3>2
  <2>7. /\ Handles(x, y) /\ Fed(y, "git", y.s.cwd)
        /\ Fed(y, "primary", FirstDir(rest, dir))
    BY <1>2, <1>7, <2>1, <2>6, SyncSummaryOK DEF Ends
  <2> HIDE DEF y
  <2>8. Handles(State(w), y)
    BY <1>7, <2>7, HandlesTwice
  <2> HIDE DEF gone
  <2>9. /\ Whole(gone.ps) /\ gone.ps # <<>>
        /\ Len(gone.ps) \in {Len(panes[w]), Len(panes[w]) - 1}
        /\ \A u : Occurs(gone.ps, u) <=> Occurs(panes[w], u) /\ u # panes[w][p][i]
        /\ Handles(State(w), gone.x)
        /\ Fed(gone.x, "git", gone.x.s.cwd)
        /\ Fed(gone.x, "primary", FirstDir(gone.ps, dir))
    BY <1>5, <2>1, <2>2, <2>3, <2>5, <2>7, <2>8
  <2> QED BY <2>9 DEF gone
<1>10. CASE ~(ps[p] = <<>> /\ Len(ps) > 1)
  <2>1. gone.ps = ps /\ gone.x = x
    BY <1>1, <1>10
  <2>2. ps[p] # <<>>
    <3>1. CASE Len(panes[w][p]) > 1
      BY <1>2, <1>5, <3>1
    <3>2. CASE Len(panes[w]) > 1
      BY <1>5, <1>10, <3>2
    <3> QED BY <3>1, <3>2
  <2>3. \A q \in DOMAIN ps : ps[q] # <<>>
    BY <1>2, <1>5, <2>2 DEF Whole
  <2> HIDE DEF gone
  <2>4. /\ Whole(gone.ps) /\ gone.ps # <<>>
        /\ Len(gone.ps) \in {Len(panes[w]), Len(panes[w]) - 1}
        /\ \A u : Occurs(gone.ps, u) <=> Occurs(panes[w], u) /\ u # panes[w][p][i]
        /\ Handles(State(w), gone.x)
        /\ Fed(gone.x, "git", gone.x.s.cwd)
        /\ Fed(gone.x, "primary", FirstDir(gone.ps, dir))
    BY <1>5, <1>6, <1>7, <2>1, <2>3 DEF Whole
  <2> QED BY <2>4 DEF gone
<1> QED BY <1>9, <1>10

\* The panes of w lose terminals, which are finalized.
LEMMA ShrunkOK ==
  ASSUME IInv, NEW w \in Ws, panes[w] # <<>>, NEW ps, Whole(ps), ps # <<>>, NEW x, NEW ts,
         \A u \in Terms : Occurs(ps, u) <=> Occurs(panes[w], u) /\ u \notin ts,
         \A u \in ts : Occurs(panes[w], u),
         panes' = [panes EXCEPT ![w] = ps], Lost(ts),
         Handles(State(w), x), Fed(x, "git", x.s.cwd),
         Fed(x, "primary", FirstDir(ps, dir)), Commit(w, x)
  PROVE  IInv' /\ LabelsLag
<1>1. /\ home' \in [Terms -> Ws \cup {NoWs}] /\ dir' \in [Terms -> Label]
      /\ \A t \in Terms : home'[t] = NoWs => dir'[t] = NoDir
      /\ \A u \in Terms : \A v \in Ws : home'[u] = v <=> home[u] = v /\ u \notin ts
      /\ \A u \in Terms \ ts : dir'[u] = dir[u]
      /\ \A u \in Terms : home[u] = w <=> Occurs(panes[w], u)
  BY LostOK, PanesOK
<1>2. \A u \in Terms : u \in ts => home[u] = w
  BY <1>1
<1>3. /\ Placed' /\ panes' \in [Ws -> Tabs] /\ panes'[w] = ps
      /\ \A v \in Ws \ {w} : panes'[v] = panes[v]
  <2>1. \A u \in Terms : home'[u] = w <=> Occurs(ps, u)
    BY <1>1
  <2>2. \A u \in Terms : \A v \in Ws \ {w} : home'[u] = v <=> home[u] = v
    BY <1>1, <1>2
  <2> QED BY <2>1, <2>2, PlaceOK
<1>4. \A v \in Ws \ {w} : FirstDir(panes[v], dir') = FirstDir(panes[v], dir)
  BY <1>1, <1>2, OthersKeep
<1>5. FirstDir(ps, dir') = FirstDir(ps, dir)
  <2>1. ps[1] # <<>> => ps[1][1] \in Terms /\ ps[1][1] \notin ts
    <3>1. ps \in Tabs /\ 1 \in DOMAIN ps
      BY DEF Whole, Tabs
    <3>2. ps[1] # <<>> => 1 \in DOMAIN ps[1]
      BY <3>1, PaneOK
    <3>3. ps[1] # <<>> => Occurs(ps, ps[1][1]) /\ ps[1][1] \in Terms
      BY <3>1, <3>2, PaneOK DEF Occurs
    <3> QED BY <3>3
  <2> QED BY <1>1, <2>1, FirstDirSame DEF Whole
<1>6. /\ sum' \in [Ws -> Summary] /\ reads' \subseteq ReadSet
      /\ Serials' /\ Current' /\ LabelsLag
  BY <1>3, <1>4, <1>5, HandledOK
<1>7. TypeOK'
  BY <1>1, <1>3, <1>6, TypesOK
<1> QED BY <1>3, <1>6, <1>7 DEF IInv

\* workspace_close_tab_at
LEMMA CloseTabOK ==
  ASSUME IInv, NEW w \in Ws, NEW p \in DOMAIN panes[w], NEW i \in DOMAIN panes[w][p],
         NEW next \in Nexts(w, p, i), NEW ok \in BOOLEAN, CloseTab(w, p, i, next, ok)
  PROVE  IInv' /\ LabelsLag
<1> DEFINE gone == Left(w, p, i, next, ok)
           t == panes[w][p][i]
<1>1. /\ Len(panes[w][p]) > 1 \/ Len(panes[w]) > 1
      /\ panes' = [panes EXCEPT ![w] = gone.ps] /\ Lost({t}) /\ Commit(w, gone.x)
  BY DEF CloseTab
<1>2. /\ Whole(gone.ps) /\ gone.ps # <<>>
      /\ \A u : Occurs(gone.ps, u) <=> Occurs(panes[w], u) /\ u # t
      /\ Handles(State(w), gone.x) /\ Fed(gone.x, "git", gone.x.s.cwd)
      /\ Fed(gone.x, "primary", FirstDir(gone.ps, dir))
  BY <1>1, LeftOK
<1> HIDE DEF gone, t
<1>3. Occurs(panes[w], t) /\ panes[w] # <<>>
  BY PanesOK, PaneOK DEF t, Occurs
<1>4. /\ \A u \in Terms : Occurs(gone.ps, u) <=> Occurs(panes[w], u) /\ u \notin {t}
      /\ \A u \in {t} : Occurs(panes[w], u)
  BY <1>2, <1>3
<1> QED BY <1>1, <1>2, <1>3, <1>4, ShrunkOK

\* workspace_close_pane
LEMMA ClosePaneOK ==
  ASSUME IInv, NEW w \in Ws, NEW p \in DOMAIN panes[w], NEW ok \in BOOLEAN,
         ClosePane(w, p, ok)
  PROVE  IInv' /\ LabelsLag
<1> DEFINE ps == RemoveAt(panes[w], p)
           x == PagesChanged(State(w), p, <<<<>>>>, dir, ok)
           y == SyncSummary(x, ps, dir, ok)
           ts == ToSet(panes[w][p])
<1>1. /\ Len(panes[w]) > 1 /\ panes' = [panes EXCEPT ![w] = ps] /\ Lost(ts) /\ Commit(w, y)
  BY DEF ClosePane
<1>2. /\ panes[w] \in Tabs /\ Whole(panes[w]) /\ panes[w] # <<>> /\ dir \in [Terms -> Label]
      /\ DOMAIN panes[w] = 1 .. Len(panes[w]) /\ Len(panes[w]) \in Nat
  BY PanesOK, PaneOK
<1>3. /\ State(w) \in Works /\ Fed(State(w), "git", State(w).s.cwd)
      /\ Fed(State(w), "primary", FirstDir(panes[w], dir))
  BY <1>2, StateOK
<1>4. /\ ps \in Tabs /\ Once(ps) /\ Len(ps) = Len(panes[w]) - 1
      /\ \A a \in DOMAIN ps : ps[a] = panes[w][IF a < p THEN a ELSE a + 1]
                              /\ (IF a < p THEN a ELSE a + 1) \in DOMAIN panes[w] \ {p}
      /\ \A u : Occurs(ps, u) <=> Occurs(panes[w], u) /\ u \notin ts
  BY <1>2, DropPaneOK DEF Whole
<1> HIDE DEF ps, ts
<1>5. Whole(ps) /\ ps # <<>>
  <2>1. Len(ps) > 0
    BY <1>1, <1>2, <1>4
  <2>2. \A a \in DOMAIN ps : ps[a] # <<>>
    BY <1>2, <1>4 DEF Whole
  <2> QED BY <1>4, <2>1, <2>2 DEF Whole
<1>6. /\ Handles(State(w), x) /\ x \in Works
      /\ Fed(x, "primary", FirstDir(ps, dir))
  <2>1. <<<<>>>> \in Tabs
    BY DEF Tabs
  <2>2. Handles(State(w), x) /\ (p = 1 => Fed(x, "primary", FirstDir(<<<<>>>>, dir)))
    BY <1>2, <1>3, <2>1, PagesChangedOK
  <2>3. FirstDir(<<<<>>>>, dir) = NoDir
    BY DEF FirstDir, First
  <2>4. CASE p = 1
    <3> HIDE DEF x
    <3>1. x \in Works /\ Fed(x, "primary", NoDir)
      BY <2>2, <2>3, <2>4 DEF Handles
    <3> QED BY <2>2, <3>1, FedNone DEF Kinds
  <2>5. CASE p # 1
    <3>1. x = State(w)
      BY <2>5 DEF PagesChanged
    <3>2. 1 \in DOMAIN ps /\ 1 < p
      BY <1>1, <1>2, <1>4, <2>5 DEF Tabs
    <3>3. ps[1] = panes[w][1]
      BY <1>4, <3>2
    <3> HIDE DEF x
    <3> QED BY <1>2, <1>3, <1>4, <1>5, <2>2, <3>1, <3>3, FirstDirSame
  <2> QED BY <2>4, <2>5
<1> HIDE DEF x
<1>7. /\ Handles(x, y) /\ Fed(y, "git", y.s.cwd) /\ Fed(y, "primary", FirstDir(ps, dir))
  BY <1>2, <1>4, <1>6, SyncSummaryOK DEF Ends
<1> HIDE DEF y
<1>8. Handles(State(w), y)
  BY <1>6, <1>7, HandlesTwice
<1>9. \A u \in ts : Occurs(panes[w], u)
  BY DEF ts, ToSet, Occurs
<1> QED BY <1>1, <1>2, <1>4, <1>5, <1>7, <1>8, <1>9, ShrunkOK

\* move_terminal_to_notebook
LEMMA MoveTabOK ==
  ASSUME IInv, NEW w \in Ws, NEW p \in DOMAIN panes[w], NEW i \in DOMAIN panes[w][p],
         NEW q \in DOMAIN panes[w], NEW next \in Nexts(w, p, i), NEW ok \in BOOLEAN,
         MoveTab(w, p, i, q, next, ok)
  PROVE  IInv' /\ LabelsLag
<1> DEFINE t == panes[w][p][i]
           gone == Left(w, p, i, next, ok)
           q2 == IF Len(gone.ps) < Len(panes[w]) /\ p < q THEN q - 1 ELSE q
           ps == [gone.ps EXCEPT ![q2] = Append(@, t)]
           x == PagesChanged(gone.x, q2, ps, dir, ok)
           y == UpdateSummary(x, t, ps, dir, ok)
<1>1. /\ p # q /\ panes' = [panes EXCEPT ![w] = ps] /\ Commit(w, y)
      /\ UNCHANGED <<home, dir>>
  BY DEF MoveTab
<1>2. /\ panes[w] \in Tabs /\ Whole(panes[w]) /\ panes[w] # <<>> /\ dir \in [Terms -> Label]
      /\ DOMAIN panes[w] = 1 .. Len(panes[w]) /\ Len(panes[w]) \in Nat /\ t \in Terms
  BY PanesOK, PaneOK
<1>3. /\ Whole(gone.ps) /\ gone.ps # <<>>
      /\ Len(gone.ps) \in {Len(panes[w]), Len(panes[w]) - 1}
      /\ \A u : Occurs(gone.ps, u) <=> Occurs(panes[w], u) /\ u # t
      /\ Handles(State(w), gone.x) /\ Fed(gone.x, "git", gone.x.s.cwd)
      /\ Fed(gone.x, "primary", FirstDir(gone.ps, dir))
  <2>1. Len(panes[w]) > 1
    BY <1>1, <1>2
  <2> QED BY <2>1, LeftOK
<1>4. Occurs(panes[w], t)
  BY DEF Occurs
<1> HIDE DEF gone, t
<1>5. q2 \in DOMAIN gone.ps
  <2>1. gone.ps \in Seq(Seq(Terms))
    BY <1>3 DEF Whole, Tabs
  <2>2. DOMAIN gone.ps = 1 .. Len(gone.ps)
    BY <2>1
  <2>3. p \in 1 .. Len(panes[w]) /\ q \in 1 .. Len(panes[w]) /\ p # q
    BY <1>1, <1>2
  <2>4. q2 \in 1 .. Len(gone.ps)
    <3>1. CASE Len(gone.ps) = Len(panes[w])
      BY <1>2, <2>3, <3>1
    <3>2. CASE Len(gone.ps) = Len(panes[w]) - 1
      BY <1>2, <2>3, <3>2
    <3> QED BY <1>3, <3>1, <3>2
  <2> QED BY <2>2, <2>4
<1> HIDE DEF q2
<1>6. /\ Whole(ps) /\ ps # <<>> /\ (q2 # 1 => ps[1] = gone.ps[1])
      /\ \A u : Occurs(ps, u) <=> Occurs(gone.ps, u) \/ u = t
  <2>1. Whole(gone.ps) /\ q2 \in DOMAIN gone.ps /\ t \in Terms /\ ~Occurs(gone.ps, t)
    BY <1>2, <1>3, <1>5
  <2> QED BY ONLY <2>1, AddTabOK
<1> HIDE DEF ps
<1>7. /\ ps \in Tabs /\ gone.ps \in Tabs
      /\ q2 # 1 => FirstDir(ps, dir) = FirstDir(gone.ps, dir)
  BY <1>3, <1>6, FirstDirSame DEF Whole
<1>8. /\ Handles(gone.x, x) /\ Fed(x, "primary", FirstDir(ps, dir)) /\ gone.x \in Works
  <2>1. gone.x \in Works
    BY <1>3 DEF Handles
  <2> QED BY <1>2, <1>3, <1>7, <2>1, PagesChangedOK
<1> HIDE DEF x
<1>9. /\ Handles(x, y) /\ Fed(y, "git", y.s.cwd) /\ Fed(y, "primary", FirstDir(ps, dir))
  <2>1. x \in Works
    BY <1>8 DEF Handles
  <2> QED BY <1>2, <1>7, <1>8, <2>1, UpdateSummaryOK DEF Ends
<1> HIDE DEF y
<1>10. Handles(State(w), y)
  BY <1>3, <1>8, <1>9, HandlesTwice
<1>11. \A u \in Terms : Occurs(ps, u) <=> Occurs(panes[w], u)
  BY <1>3, <1>4, <1>6
<1> QED BY <1>1, <1>2, <1>6, <1>9, <1>10, <1>11, RearrangedOK

\* The pwd action of ghostty, for a terminal of workspace w.
LEMMA PwdChangedOK ==
  ASSUME IInv, NEW t \in Terms, NEW d \in Dirs, NEW seen \in BOOLEAN, NEW ok \in BOOLEAN,
         PwdChanged(t, d, seen, ok)
  PROVE  IInv' /\ LabelsLag
<1> DEFINE w == home[t]
           ds == [dir EXCEPT ![t] = d]
           c == [State(w) EXCEPT !.s.cwd = d]
           changed == IF t \in First(panes[w])
                      THEN DetectPrimary(DetectGit(c, ok), panes[w], ds, ok)
                      ELSE IF seen THEN UpdateSummary(State(w), t, panes[w], ds, ok)
                           ELSE State(w)
           e == [changed EXCEPT !.s.cwd = d]
           x == DetectGit(e, ok)
<1>1. /\ w # NoWs /\ dir' = ds /\ Commit(w, x) /\ panes' = panes /\ home' = home
  BY DEF PwdChanged
<1>2. /\ w \in Ws /\ home \in [Terms -> Ws \cup {NoWs}] /\ dir \in [Terms -> Label]
      /\ \A u \in Terms : home[u] = NoWs => dir[u] = NoDir
  BY <1>1, HomeOK
<1>3. Occurs(panes[w], t) /\ panes[w] \in Tabs /\ Whole(panes[w])
  BY <1>2, PanesOK
<1>4. panes[w] # <<>> /\ 1 \in DOMAIN panes[w]
  <2>1. panes[w] # <<>>
    BY <1>3 DEF Occurs
  <2> QED BY <1>3, <2>1 DEF Tabs
<1>5. /\ d \in Label /\ ds \in [Terms -> Label] /\ ds[t] = d
      /\ \A u \in Terms \ {t} : ds[u] = dir[u]
  BY <1>2 DEF Label
<1>6. /\ State(w) \in Works /\ Fed(State(w), "primary", FirstDir(panes[w], dir))
  BY <1>2, <1>4, StateOK
<1>7. \A v \in Ws \ {w} : FirstDir(panes[v], ds) = FirstDir(panes[v], dir)
  BY <1>2, <1>5, OthersKeep, ZenonT(60)
<1> HIDE DEF w, ds
<1>8. /\ Handles(State(w), changed) /\ changed \in Works
      /\ Fed(changed, "primary", FirstDir(panes[w], ds))
  <2>1. CASE t \in First(panes[w])
    <3> DEFINE g == DetectGit(c, ok)
    <3>1. c \in Works /\ Handles(State(w), c)
      BY <1>5, <1>6, CwdOK DEF Handles
    <3>2. changed = DetectPrimary(g, panes[w], ds, ok)
      BY <2>1
    <3> HIDE DEF c, changed
    <3>3. Handles(c, g) /\ g \in Works
      BY <3>1, DetectGitOK DEF Handles
    <3> HIDE DEF g
    <3>4. Handles(g, changed) /\ Fed(changed, "primary", FirstDir(panes[w], ds))
      BY <1>3, <1>5, <3>2, <3>3, DetectPrimaryOK
    <3>5. Handles(State(w), changed)
      BY <3>1, <3>3, <3>4, HandlesTwice
    <3> QED BY <3>4, <3>5 DEF Handles
  <2>2. CASE t \notin First(panes[w])
    <3>1. FirstDir(panes[w], ds) = FirstDir(panes[w], dir)
      <4>1. panes[w][1] # <<>> => panes[w][1][1] \in Terms /\ panes[w][1][1] # t
        <5>1. panes[w][1] # <<>> => 1 \in DOMAIN panes[w][1]
          BY <1>3, <1>4, PaneOK
        <5> QED BY <1>3, <1>4, <2>2, <5>1, PaneOK DEF First
      <4> QED BY <1>3, <1>4, <1>5, <4>1, FirstDirSame
    <3>2. CASE seen
      <4>1. changed = UpdateSummary(State(w), t, panes[w], ds, ok)
        BY <2>2, <3>2
      <4> HIDE DEF changed
      <4>2. Handles(State(w), changed) /\ Fed(changed, "primary", FirstDir(panes[w], ds))
        BY <1>3, <1>5, <1>6, <3>1, <4>1, UpdateSummaryOK DEF Ends
      <4> QED BY <4>2 DEF Handles
    <3>3. CASE ~seen
      <4>1. changed = State(w)
        BY <2>2, <3>3
      <4> HIDE DEF changed
      <4> QED BY <1>6, <3>1, <4>1 DEF Handles
    <3> QED BY <3>2, <3>3
  <2> QED BY <2>1, <2>2
<1> HIDE DEF changed
<1>9. /\ Handles(changed, e) /\ e \in Works /\ Fed(e, "primary", FirstDir(panes[w], ds))
  BY <1>5, <1>8, CwdOK DEF Handles
<1> HIDE DEF e
<1>10. /\ Handles(e, x) /\ Fed(x, "git", x.s.cwd) /\ Fed(x, "primary", FirstDir(panes[w], ds))
  BY <1>9, DetectGitOK
<1> HIDE DEF x
<1>11. Handles(State(w), x)
  BY <1>8, <1>9, <1>10, HandlesTwice
<1>12. /\ sum' \in [Ws -> Summary] /\ reads' \subseteq ReadSet
       /\ Serials' /\ Current' /\ LabelsLag
  BY <1>1, <1>2, <1>4, <1>7, <1>10, <1>11, HandledOK
<1>13. Placed'
  BY <1>1 DEF IInv, Placed
<1>14. TypeOK'
  <2>1. panes' \in [Ws -> Tabs] /\ home' \in [Terms -> Ws \cup {NoWs}]
        /\ dir' \in [Terms -> Label]
    BY <1>1, <1>2, <1>5 DEF IInv, TypeOK, Tabs
  <2>2. \A u \in Terms : home'[u] = NoWs => dir'[u] = NoDir
    BY <1>1, <1>2, <1>5 DEF w
  <2> QED BY <1>12, <2>1, <2>2, TypesOK
<1> QED BY <1>12, <1>13, <1>14 DEF IInv

\* on_git_branch_read, on_primary_branch_read: the answer is of the directory
\* the label stands for, or the workspace does not take it.
LEMMA AnsweredOK ==
  ASSUME IInv, NEW r \in reads, NEW b \in {r.dir, NoDir}, Answered(r, b)
  PROVE  IInv' /\ LabelsLag
<1>1. /\ reads' = reads \ {r} /\ panes' = panes /\ home' = home /\ dir' = dir
      /\ sum' = [w \in Ws |-> IF Live(r, w)
                              THEN [sum[w] EXCEPT !.branch[r.kind] = b] ELSE sum[w]]
  BY DEF Answered
<1>2. /\ sum \in [Ws -> Summary] /\ reads \subseteq ReadSet /\ r.kind \in Kinds
      /\ b \in Label /\ r.dir \in Dirs
  BY DEF IInv, TypeOK, Summary, ReadSet, Label
<1>3. ASSUME NEW w \in Ws
      PROVE  /\ sum'[w] \in Summary
             /\ sum'[w].serial = sum[w].serial /\ sum'[w].cwd = sum[w].cwd
             /\ \A k \in Kinds : sum'[w].branch[k] =
                   IF Live(r, w) /\ k = r.kind THEN b ELSE sum[w].branch[k]
             /\ ~Live(r, w) => sum'[w] = sum[w]
  <2>1. CASE Live(r, w)
    <3>1. sum'[w] = [sum[w] EXCEPT !.branch = [sum[w].branch EXCEPT ![r.kind] = b]]
      BY <1>1, <2>1
    <3>2. sum[w] \in Summary
      BY <1>2
    <3> QED BY <1>2, <2>1, <3>1, <3>2 DEF Summary
  <2>2. CASE ~Live(r, w)
    <3>1. sum'[w] = sum[w]
      BY <1>1, <2>2
    <3> QED BY <1>2, <2>2, <3>1
  <2> QED BY <2>1, <2>2
<1>4. \A w \in Ws : sum[w].serial = 0 => ~Live(r, w)
  BY DEF Live, IInv, Serials
<1>5. Serials'
  <2>1. \A w \in Ws : IF panes[w] = <<>> THEN sum'[w] = Closed ELSE sum'[w].serial # 0
    BY <1>3, <1>4 DEF IInv, Serials, Closed
  <2>2. \A v, w \in Open : sum'[v].serial = sum'[w].serial => v = w
    BY <1>3 DEF IInv, Serials, Open
  <2>3. \A q \in reads' : q.serial # 0
    BY <1>1 DEF IInv, Serials
  <2> QED BY <1>1, <2>1, <2>2, <2>3 DEF Serials, Open
<1>6. ASSUME NEW w \in Ws, NEW k \in Kinds, NEW d, Fed(State(w), k, d)
      PROVE  Fed(State(w)', k, d)
  <2>1. /\ State(w)' = [s |-> sum'[w], rs |-> reads'] /\ State(w) = [s |-> sum[w], rs |-> reads]
    BY DEF State
  <2>2. Waits(State(w)', k) = Waits(State(w), k) \ {r}
    BY <1>1, <1>3, <2>1 DEF Waits
  <2>3. r \in Waits(State(w), k) <=> Live(r, w) /\ k = r.kind
    BY <2>1 DEF Waits, Live
  <2> QED BY <1>3, <1>6, <2>1, <2>2, <2>3 DEF Fed
<1>7. Current'
  <2>1. \A w \in Ws : /\ Fed(State(w)', "git", sum[w].cwd)
                      /\ Fed(State(w)', "primary", FirstDir(panes[w], dir))
    BY <1>6 DEF IInv, Current, Kinds
  <2>2. \A w \in Ws : /\ Fed(State(w)', "git", sum'[w].cwd)
                      /\ Fed(State(w)', "primary", FirstDir(panes'[w], dir'))
    BY <1>1, <1>3, <2>1
  <2> QED BY <2>2 DEF Current
<1>8. LabelsLag
  <2>1. ASSUME NEW w \in Ws, Live(r, w)
        PROVE  /\ r.kind = "git" => r.dir = sum[w].cwd
               /\ r.kind = "primary" => r.dir = FirstDir(panes[w], dir)
    <3>1. r \in Waits(State(w), r.kind)
      BY <2>1 DEF State, Waits, Live
    <3> QED BY <3>1 DEF IInv, Current, Fed
  <2> QED BY <1>1, <1>3, <2>1 DEF LabelsLag, Kinds
<1>9. Placed'
  BY <1>1 DEF IInv, Placed
<1>10. TypeOK'
  <2>1. panes' \in [Ws -> Tabs] /\ home' \in [Terms -> Ws \cup {NoWs}]
        /\ dir' \in [Terms -> Label] /\ reads' \subseteq ReadSet
        /\ \A u \in Terms : home'[u] = NoWs => dir'[u] = NoDir
    BY <1>1, <1>2, HomeOK DEF IInv, TypeOK, Tabs
  <2>2. sum' \in [Ws -> Summary]
    BY <1>1, <1>3
  <2> QED BY <2>1, <2>2, TypesOK
<1> QED BY <1>5, <1>7, <1>8, <1>9, <1>10 DEF IInv

-----------------------------------------------------------------------------
(* The theorems                                                            *)

\* At first no workspace is open and no git runs.
LEMMA InitOK == Init => IInv
<1> SUFFICES ASSUME Init PROVE IInv
  OBVIOUS
<1> USE DEF Init
<1>1. NoDir \in Label /\ Closed \in Summary /\ <<>> \in Tabs /\ Closed.cwd = NoDir
      /\ \A k \in Kinds : Closed.branch[k] = NoDir
  BY DEF Label, Closed, Summary, Tabs
<1>2. TypeOK
  BY <1>1 DEF TypeOK, Tabs, Summary
<1>3. Placed
  <2>1. Whole(<<>>) /\ \A u : ~Occurs(<<>>, u)
    BY DEF Whole, Tabs, Once, Occurs
  <2> QED BY <2>1, NoneAssumption DEF Placed
<1>4. Serials
  BY DEF Serials, Open
<1>5. Current
  <2>1. \A w \in Ws : State(w).s = Closed /\ \A k \in Kinds : Waits(State(w), k) = {}
    BY DEF State, Waits
  <2>2. \A w \in Ws : FirstDir(panes[w], dir) = NoDir
    BY DEF FirstDir, First
  <2> QED BY <1>1, <2>1, <2>2 DEF Current, Fed, Kinds
<1> QED BY <1>2, <1>3, <1>4, <1>5 DEF IInv

\* Every step keeps the invariant, and does to the labels what it may.
LEMMA NextOK == IInv /\ [Next]_vars => IInv' /\ LabelsLag
<1> SUFFICES ASSUME IInv, [Next]_vars
             PROVE  IInv' /\ LabelsLag
  OBVIOUS
<1>1. ASSUME NEW w \in Ws, RemoveWorkspace(w)
      PROVE  IInv' /\ LabelsLag
  BY <1>1, RemoveWorkspaceOK
<1>2. ASSUME NEW ok \in BOOLEAN, NEW w \in Ws, NEW t \in Terms, AddWorkspace(w, t, ok)
      PROVE  IInv' /\ LabelsLag
  BY <1>2, AddWorkspaceOK
<1>3. ASSUME NEW ok \in BOOLEAN, NEW w \in Ws, NEW p \in DOMAIN panes[w], InPane(w, p, ok)
      PROVE  IInv' /\ LabelsLag
  <2>1. ASSUME NEW t \in Terms, NEW d \in Label, NewTab(w, p, t, d, ok)
        PROVE  IInv' /\ LabelsLag
    BY <2>1, NewTabOK
  <2>2. ASSUME NEW t \in Terms, NEW d \in Label, SplitPane(w, p, t, d, ok)
        PROVE  IInv' /\ LabelsLag
    BY <2>2, SplitPaneOK
  <2>3. ASSUME NEW t \in Terms, SelectTab(w, p, t, ok)
        PROVE  IInv' /\ LabelsLag
    BY <2>3, SelectTabOK
  <2>4. ASSUME NEW i \in DOMAIN panes[w][p], NEW next \in Nexts(w, p, i),
               CloseTab(w, p, i, next, ok)
        PROVE  IInv' /\ LabelsLag
    BY <2>4, CloseTabOK
  <2>5. ASSUME NEW i \in DOMAIN panes[w][p], NEW next \in Nexts(w, p, i),
               NEW q \in DOMAIN panes[w], MoveTab(w, p, i, q, next, ok)
        PROVE  IInv' /\ LabelsLag
    BY <2>5, MoveTabOK
  <2>6. CASE ClosePane(w, p, ok)
    BY <2>6, ClosePaneOK
  <2>7. CASE ReorderTabs(w, p, ok)
    BY <2>7, ReorderTabsOK
  <2> QED BY <1>3, <2>1, <2>2, <2>3, <2>4, <2>5, <2>6, <2>7 DEF InPane
<1>4. ASSUME NEW ok \in BOOLEAN, NEW t \in Terms, NEW d \in Dirs, NEW seen \in BOOLEAN,
             PwdChanged(t, d, seen, ok)
      PROVE  IInv' /\ LabelsLag
  BY <1>4, PwdChangedOK
<1>5. ASSUME NEW r \in reads, NEW b \in {r.dir, NoDir}, Answered(r, b)
      PROVE  IInv' /\ LabelsLag
  BY <1>5, AnsweredOK
<1>6. CASE UNCHANGED vars
  BY <1>6, StutterOK
<1> QED BY <1>1, <1>2, <1>3, <1>4, <1>5, <1>6 DEF Next

\* The inductive invariant holds throughout.
THEOREM Invariant == Spec => []IInv
<1>1. Init => IInv
  BY InitOK
<1>2. IInv /\ [Next]_vars => IInv'
  BY NextOK
<1> QED BY <1>1, <1>2, PTL DEF Spec

\* The variables keep their types, whatever is opened, closed, moved, entered or
\* answered.
THEOREM TypeCorrect == Spec => []TypeOK
<1>1. IInv => TypeOK
  BY DEF IInv
<1> QED BY <1>1, Invariant, PTL

\* The answer a workspace waits for is about the directory it shows.
THEOREM CurrentAnswers == Spec => []AnswersAreCurrent
<1>1. IInv => AnswersAreCurrent
  <2> SUFFICES ASSUME IInv, NEW w \in Ws, NEW r \in reads, r.kind = "git", Live(r, w)
               PROVE  r.dir = sum[w].cwd
    BY DEF AnswersAreCurrent, Open
  <2>1. r \in Waits(State(w), "git")
    BY DEF State, Waits, Live
  <2> QED BY <2>1 DEF IInv, Current, Fed
<1> QED BY <1>1, Invariant, PTL

\* A branch that no answer is waited for is that of the directory it stands for.
THEOREM LabelsSettle == Spec => []Settled
<1>1. IInv => Settled
  <2> SUFFICES ASSUME IInv PROVE Settled
    OBVIOUS
  <2>1. ASSUME NEW w \in Ws, NEW k \in Kinds, NEW d, Fed(State(w), k, d)
        PROVE  \/ \E r \in reads : r.kind = k /\ Live(r, w)
               \/ sum[w].branch[k] \in {NoDir, d}
    BY <2>1 DEF Fed, State, Waits, Live
  <2>2. \A w \in Ws : /\ Fed(State(w), "git", sum[w].cwd)
                      /\ Fed(State(w), "primary", FirstDir(panes[w], dir))
    BY DEF IInv, Current
  <2>3. BranchSettled
    BY <2>1, <2>2 DEF BranchSettled, Kinds, Open
  <2>4. PrimarySettled
    BY <2>1, <2>2 DEF PrimarySettled, Kinds, Open
  <2> QED BY <2>3, <2>4 DEF Settled
<1> QED BY <1>1, Invariant, PTL

\* Either label implements LatestAnswer: initial states map to initial states,
\* and every step of the program maps to a step of the labels or to none.
THEOREM LabelsImplementLatest == Spec => ImplementsLatest
<1>1. Init => GitLabel!Init /\ PrimaryLabel!Init
  <2> SUFFICES ASSUME Init PROVE GitLabel!Init /\ PrimaryLabel!Init
    OBVIOUS
  <2>1. \A w \in Ws : /\ panes[w] = <<>> /\ sum[w].cwd = NoDir
                      /\ sum[w].branch["git"] = NoDir /\ sum[w].branch["primary"] = NoDir
    BY DEF Init, Closed, Kinds
  <2>2. \A w \in Ws : FirstDir(panes[w], dir) = NoDir
    BY <2>1 DEF FirstDir, First
  <2> QED BY <2>1, <2>2 DEF GitLabel!Init, PrimaryLabel!Init
<1>2. IInv /\ IInv' /\ LabelsLag => GitLabel!Next /\ PrimaryLabel!Next
  <2> SUFFICES ASSUME IInv, IInv', LabelsLag
               PROVE  GitLabel!Next /\ PrimaryLabel!Next
    OBVIOUS
  <2>1. \A w \in Ws : /\ sum'[w].cwd \in Label
                      /\ sum'[w].branch["git"] \in Label
                      /\ sum'[w].branch["primary"] \in Label
    BY DEF IInv, TypeOK, Kinds
  <2>2. \A w \in Ws : FirstDir(panes'[w], dir') \in Label
    <3>1. panes' \in [Ws -> Tabs] /\ dir' \in [Terms -> Label]
      BY DEF IInv, TypeOK, Tabs
    <3> QED BY <3>1, FirstDirOK
  <2>3. Label = Dirs \cup {NoDir}
    BY DEF Label
  <2>4. GitLabel!Next
    BY <2>1, <2>3 DEF GitLabel!Next, GitLabel!Label, LabelsLag
  <2>5. PrimaryLabel!Next
    BY <2>1, <2>2, <2>3 DEF PrimaryLabel!Next, PrimaryLabel!Label, LabelsLag
  <2> QED BY <2>4, <2>5
<1>3. IInv /\ [Next]_vars => IInv' /\ LabelsLag
  BY NextOK
<1> QED BY <1>1, <1>2, <1>3, Invariant, PTL
        DEF Spec, ImplementsLatest, GitLabel!Spec, PrimaryLabel!Spec

-----------------------------------------------------------------------------
(* IconCache                                                               *)

\* NULL and the answer that no search has given yet are no files.
Blanks == NoIcon \notin Icons /\ Unknown \notin Icons

Caches  == [Roots -> Icons \cup {NoIcon, Unknown}]
Labels  == [IconTerms -> [root : Roots \cup {NoRoot}, icon : Icons \cup {NoIcon}]]
Waiters == IconTerms \cup {NoTerm}
Answers == [root : Roots, icon : Icons \cup {NoIcon}, term : Waiters]

\* A cache names icons of its roots only, and a terminal shows one of its root.
OwnCache(c) == c \in Caches /\ \A r \in Roots : c[r] \in Icons => c[r][1] = r
OwnIcons(ts) ==
    ts \in Labels /\ \A t \in IconTerms : ts[t].icon \in Icons => ts[t].icon[1] = ts[t].root

\* What SetIcon and Resolved return and work on.
Fits(x) == OwnIcons(x.ts) /\ OwnCache(x.c)

\* What a search finds is of its root, and only roots without an icon are
\* answered from the cache.
IconIInv ==
    /\ IconTypeOK
    /\ OneSearch
    /\ \A k \in DOMAIN tasks : tasks[k].found \in Icons => tasks[k].found[1] = tasks[k].root
    /\ \A k \in DOMAIN idles : idles[k].icon = NoIcon

-----------------------------------------------------------------------------
(* Lookups and labels                                                      *)

\* A lookup gives an icon of the root, or none.
LEMMA LookupOK ==
  ASSUME disk \subseteq Icons, NEW c, OwnCache(c), NEW r
  PROVE  /\ Lookup(c, r) \in Icons \cup {NoIcon}
         /\ Blanks /\ Lookup(c, r) \in Icons => Lookup(c, r)[1] = r
BY DEF Lookup, Cached, OwnCache, Caches, Blanks

\* Forgetting the file that is gone leaves a cache of the roots' own icons.
LEMMA ForgetOK ==
  ASSUME Blanks, NEW c, OwnCache(c), NEW r
  PROVE  OwnCache(Forget(c, r))
BY DEF Forget, OwnCache, Caches, Blanks

\* The refresh of the sidebar gives first terminals icons of their roots.
LEMMA SidebarOK ==
  ASSUME Blanks, disk \subseteq Icons, NEW ts, OwnIcons(ts), NEW c, OwnCache(c)
  PROVE  /\ OwnIcons(Sidebar(ts, c))
         /\ OwnCache(SidebarCache(ts, c))
<1> DEFINE u == Sidebar(ts, c)
<1>1. ASSUME NEW t \in IconTerms
      PROVE  /\ u[t] \in [root : Roots \cup {NoRoot}, icon : Icons \cup {NoIcon}]
             /\ u[t].icon \in Icons => u[t].icon[1] = u[t].root
  <2> DEFINE i == Lookup(c, ts[t].root)
  <2>1. i \in Icons \cup {NoIcon} /\ (i \in Icons => i[1] = ts[t].root)
    BY LookupOK
  <2> HIDE DEF i
  <2>2. ts[t] \in [root : Roots \cup {NoRoot}, icon : Icons \cup {NoIcon}]
    BY DEF OwnIcons, Labels
  <2>3. CASE t \in Firsts /\ Stale(ts, t)
    <3>1. u[t] = [ts[t] EXCEPT !.icon = i]
      BY <2>3 DEF Sidebar, i
    <3> QED BY <2>1, <2>2, <3>1
  <2>4. CASE ~(t \in Firsts /\ Stale(ts, t))
    BY <2>2, <2>4 DEF Sidebar, OwnIcons
  <2> QED BY <2>3, <2>4
<1>2. OwnIcons(u)
  <2>1. u = [t \in IconTerms |-> u[t]]
    BY DEF Sidebar
  <2> HIDE DEF u
  <2> QED BY <1>1, <2>1 DEF OwnIcons, Labels
<1>3. OwnCache(SidebarCache(ts, c))
  BY DEF SidebarCache, OwnCache, Caches, Blanks
<1> QED BY <1>2, <1>3

\* Setting an icon of root r on terminals that are in r.
LEMMA SetIconOK ==
  ASSUME Blanks, disk \subseteq Icons, NEW ts, OwnIcons(ts), NEW c, OwnCache(c),
         NEW us, NEW r \in Roots \cup {NoRoot}, NEW i, i \in Icons => i[1] = r
  PROVE  Fits(SetIcon(ts, c, us, r, i))
<1> DEFINE j == IF i \in disk THEN i ELSE NoIcon
           set == [t \in IconTerms |-> IF t \in us THEN [root |-> r, icon |-> j] ELSE ts[t]]
<1>1. j \in Icons \cup {NoIcon} /\ (j \in Icons => j[1] = r)
  BY DEF Blanks
<1>2. SetIcon(ts, c, us, r, i) = [ts |-> Sidebar(set, c), c |-> SidebarCache(set, c)]
  BY DEF SetIcon
<1> HIDE DEF j
<1>3. OwnIcons(set)
  BY <1>1 DEF OwnIcons, Labels
<1> HIDE DEF set
<1> QED BY <1>2, <1>3, SidebarOK DEF Fits

\* An answer about root r sets only icons of r.
LEMMA ResolvedOK ==
  ASSUME Blanks, disk \subseteq Icons, NEW x, Fits(x),
         NEW us, NEW r \in Roots, NEW i, i \in Icons => i[1] = r
  PROVE  Fits(Resolved(x, us, r, i))
<1> DEFINE told == {t \in us \cap IconTerms : x.ts[t].root = r}
<1>1. CASE told = {}
  BY <1>1 DEF Resolved
<1>2. CASE told # {}
  <2>1. Resolved(x, us, r, i) = SetIcon(x.ts, x.c, told, r, i)
    BY <1>2 DEF Resolved
  <2> HIDE DEF told
  <2> QED BY <2>1, SetIconOK DEF Fits
<1> QED BY <1>1, <1>2

-----------------------------------------------------------------------------
(* Queues                                                                  *)

\* What is left of a sequence whose i-th element is removed.
\* What an appended element leaves where it was.
LEMMA AppendOK ==
  ASSUME NEW S, NEW s \in Seq(S), NEW e \in S
  PROVE  /\ Append(s, e) \in Seq(S)
         /\ Append(s, e) # <<>>
         /\ DOMAIN s = 1 .. Len(s)
         /\ DOMAIN Append(s, e) = 1 .. Len(s) + 1
         /\ \A j \in 1 .. Len(s) + 1 : Append(s, e)[j] = IF j <= Len(s) THEN s[j] ELSE e
OBVIOUS

-----------------------------------------------------------------------------
(* The handlers                                                            *)

\* What an event may leave under way besides the labels and the cache.
Queues ==
    /\ pending \in [Roots -> Seq(Waiters)]
    /\ tasks \in Seq(Tasks)
    /\ idles \in Seq(Answers)
    /\ OneSearch
    /\ \A k \in DOMAIN tasks : tasks[k].found \in Icons => tasks[k].found[1] = tasks[k].root
    /\ \A k \in DOMAIN idles : idles[k].icon = NoIcon

\* The invariant, by what its parts speak of.
LEMMA IInvParts ==
  /\ IconIInv <=> disk \subseteq Icons /\ OwnCache(cache) /\ OwnIcons(term) /\ Queues
  /\ IconIInv' <=> disk' \subseteq Icons /\ OwnCache(cache') /\ OwnIcons(term') /\ Queues'
BY DEF IconIInv, IconTypeOK, Queues, OwnCache, OwnIcons, Caches, Labels, Waiters, Answers, OneSearch

\* Initially nothing is under way.
LEMMA IconInitOK == ASSUME Blanks, IconInit PROVE IconIInv
<1>1. disk \subseteq Icons /\ OwnCache(cache)
  BY DEF IconInit, OwnCache, Caches
<1>2. OwnIcons(term)
  BY DEF IconInit, OwnIcons, Labels, Blanks
<1>3. Queues
  <2>1. \A r \in Roots : pending[r] = <<>>
    BY DEF IconInit
  <2> QED BY <2>1 DEF IconInit, Queues, OneSearch
<1> QED BY <1>1, <1>2, <1>3, IInvParts

\* A request joins the search of its root, starts the only one, or is answered.
LEMMA RequestOK ==
  ASSUME Blanks, Queues, NEW c, NEW t \in IconTerms, NEW r \in Roots, Request(c, t, r)
  PROVE  Queues'
<1>1. CASE /\ idles' = Append(idles, [root |-> r, icon |-> NoIcon, term |-> t])
           /\ UNCHANGED <<pending, tasks>>
  <2> DEFINE a == [root |-> r, icon |-> NoIcon, term |-> t]
  <2>1. a \in Answers /\ a.icon = NoIcon
    BY DEF Answers, Waiters
  <2> HIDE DEF a
  <2>2. idles \in Seq(Answers) /\ idles' = Append(idles, a)
    BY <1>1 DEF Queues, a
  <2>3. idles' \in Seq(Answers) /\ \A k \in DOMAIN idles' : idles'[k].icon = NoIcon
    <3>1. /\ idles' \in Seq(Answers) /\ DOMAIN idles = 1 .. Len(idles)
          /\ DOMAIN idles' = 1 .. Len(idles) + 1
          /\ \A j \in 1 .. Len(idles) + 1 : idles'[j] = IF j <= Len(idles) THEN idles[j] ELSE a
      BY <2>1, <2>2, AppendOK
    <3> QED BY <2>1, <3>1 DEF Queues
  <2> QED BY <1>1, <2>3 DEF Queues, OneSearch
<1>2. CASE /\ pending' = [pending EXCEPT ![r] = Append(@, t)]
           /\ tasks' = IF pending[r] # <<>> THEN tasks
                       ELSE Append(tasks, [root |-> r, found |-> Unknown])
           /\ UNCHANGED idles
  <2>1. /\ pending' \in [Roots -> Seq(Waiters)]
        /\ pending'[r] # <<>>
        /\ \A q \in Roots \ {r} : pending'[q] = pending[q]
    <3>1. pending[r] \in Seq(Waiters) /\ t \in Waiters
      BY DEF Queues, Waiters
    <3>2. Append(pending[r], t) \in Seq(Waiters) /\ Append(pending[r], t) # <<>>
      BY <3>1, AppendOK
    <3> QED BY <1>2, <3>2 DEF Queues
  <2>2. CASE pending[r] # <<>>
    BY <1>2, <2>1, <2>2 DEF Queues, OneSearch
  <2>3. CASE pending[r] = <<>>
    <3> DEFINE s == [root |-> r, found |-> Unknown]
    <3>1. s \in Tasks /\ s.root = r /\ s.found = Unknown
      BY DEF Tasks
    <3> HIDE DEF s
    <3>2. /\ tasks' \in Seq(Tasks) /\ Len(tasks) \in Nat /\ DOMAIN tasks = 1 .. Len(tasks)
          /\ DOMAIN tasks' = 1 .. Len(tasks) + 1
          /\ \A j \in 1 .. Len(tasks) + 1 : tasks'[j] = IF j <= Len(tasks) THEN tasks[j] ELSE s
      <4>1. tasks \in Seq(Tasks) /\ tasks' = Append(tasks, s)
        BY <1>2, <2>3 DEF Queues, s
      <4> QED BY <3>1, <4>1, AppendOK
    <3>3. \A k \in DOMAIN tasks : tasks[k].root # r
      BY <2>3 DEF Queues, OneSearch
    <3>4. \A j, k \in DOMAIN tasks' : tasks'[j].root = tasks'[k].root => j = k
      BY <3>1, <3>2, <3>3 DEF Queues, OneSearch
    <3>5. \A q \in Roots : pending'[q] # <<>> <=> \E k \in DOMAIN tasks' : tasks'[k].root = q
      <4>1. \E k \in DOMAIN tasks' : tasks'[k].root = r
        <5>1. Len(tasks) + 1 \in DOMAIN tasks' /\ tasks'[Len(tasks) + 1].root = r
          BY <3>1, <3>2
        <5> QED BY <5>1
      <4>2. \A q \in Roots \ {r} : (\E k \in DOMAIN tasks' : tasks'[k].root = q)
                                     <=> \E k \in DOMAIN tasks : tasks[k].root = q
        BY <3>1, <3>2
      <4>3. \A q \in Roots : pending[q] # <<>> <=> \E k \in DOMAIN tasks : tasks[k].root = q
        BY DEF Queues, OneSearch
      <4> QED BY <2>1, <4>1, <4>2, <4>3
    <3>6. \A k \in DOMAIN tasks' : tasks'[k].found \in Icons => tasks'[k].found[1] = tasks'[k].root
      BY <3>1, <3>2 DEF Queues, Blanks
    <3> QED BY <1>2, <2>1, <3>2, <3>4, <3>5, <3>6 DEF Queues, OneSearch
  <2> QED BY <2>2, <2>3
<1> QED BY <1>1, <1>2 DEF Request

\* EnterProject: the terminal may be given the cached icon at once.
LEMMA EnterProjectOK ==
  ASSUME Blanks, IconIInv, NEW t \in IconTerms, NEW r, EnterProject(t, r)
  PROVE  IconIInv'
<1> DEFINE c == Forget(cache, r)
           i == Lookup(cache, r)
           x == SetIcon(term, c, {t}, r, i)
<1>1. /\ r \in Roots /\ term' = x.ts /\ cache' = x.c /\ disk' = disk
      /\ IF Cached(cache, r) THEN UNCHANGED <<pending, tasks, idles>>
         ELSE Request(x.c, t, r)
  BY DEF EnterProject
<1>2. disk \subseteq Icons /\ OwnCache(cache) /\ OwnIcons(term) /\ Queues
  BY IInvParts
<1>3. OwnCache(c) /\ (i \in Icons => i[1] = r)
  BY <1>2, ForgetOK, LookupOK
<1> HIDE DEF c, i
<1>4. Fits(x)
  BY <1>1, <1>2, <1>3, SetIconOK
<1> HIDE DEF x
<1>5. Queues'
  <2>1. CASE Cached(cache, r)
    BY <1>1, <1>2, <2>1 DEF Queues, OneSearch
  <2>2. CASE ~Cached(cache, r)
    BY <1>1, <1>2, <2>2, RequestOK
  <2> QED BY <2>1, <2>2
<1> QED BY <1>1, <1>2, <1>4, <1>5, IInvParts DEF Fits

\* LeaveProjects: an icon without a project is none.
LEMMA LeaveProjectsOK ==
  ASSUME Blanks, IconIInv, NEW t \in IconTerms, LeaveProjects(t)
  PROVE  IconIInv'
<1> DEFINE x == SetIcon(term, cache, {t}, NoRoot, NoIcon)
<1>1. term' = x.ts /\ cache' = x.c /\ UNCHANGED <<disk, pending, tasks, idles>>
  BY DEF LeaveProjects
<1>2. disk \subseteq Icons /\ OwnCache(cache) /\ OwnIcons(term) /\ Queues
  BY IInvParts
<1>3. Fits(x)
  BY <1>2, SetIconOK DEF Blanks
<1> HIDE DEF x
<1>4. Queues'
  BY <1>1, <1>2 DEF Queues, OneSearch
<1> QED BY <1>1, <1>2, <1>3, <1>4, IInvParts DEF Fits

\* CloseTerminal: a listener that is gone still stands in its queue.
LEMMA CloseTerminalOK ==
  ASSUME Blanks, IconIInv, NEW t \in IconTerms, CloseTerminal(t)
  PROVE  IconIInv'
<1>1. disk \subseteq Icons /\ OwnCache(cache) /\ OwnIcons(term) /\ Queues
  BY IInvParts
<1>2. OwnIcons(term')
  BY <1>1 DEF CloseTerminal, OwnIcons, Labels, Blanks
<1>3. /\ pending' \in [Roots -> Seq(Waiters)]
      /\ \A r \in Roots : pending'[r] = <<>> <=> pending[r] = <<>>
  <2>1. ASSUME NEW r \in Roots
        PROVE  /\ ReplaceAll(pending[r], t, NoTerm) \in Seq(Waiters)
               /\ ReplaceAll(pending[r], t, NoTerm) = <<>> <=> pending[r] = <<>>
    <3> DEFINE p == pending[r]
               q == ReplaceAll(p, t, NoTerm)
    <3>1. p \in Seq(Waiters)
      BY <1>1 DEF Queues
    <3>2. q = [k \in 1 .. Len(p) |-> IF p[k] = t THEN NoTerm ELSE p[k]]
      BY DEF ReplaceAll
    <3> HIDE DEF p, q
    <3>3. q \in Seq(Waiters) /\ Len(q) = Len(p)
      <4>1. Len(p) \in Nat /\ \A k \in 1 .. Len(p) : p[k] \in Waiters
        BY <3>1
      <4>2. q \in [1 .. Len(p) -> Waiters]
        BY <3>2, <4>1 DEF Waiters
      <4> QED BY <4>1, <4>2
    <3>4. (q = <<>> <=> Len(q) = 0) /\ (p = <<>> <=> Len(p) = 0)
      BY <3>1, <3>3, EmptySeq
    <3> QED BY <3>3, <3>4 DEF p, q
  <2> QED BY <2>1 DEF CloseTerminal
<1>4. idles' \in Seq(Answers) /\ \A k \in DOMAIN idles' : idles'[k].icon = NoIcon
  <2>1. /\ idles \in Seq(Answers) /\ Len(idles) \in Nat /\ DOMAIN idles = 1 .. Len(idles)
        /\ \A k \in 1 .. Len(idles) : idles[k] \in Answers /\ idles[k].icon = NoIcon
    BY <1>1 DEF Queues
  <2>2. \A k \in 1 .. Len(idles) :
           [idles[k] EXCEPT !.term = NoTerm] \in Answers
           /\ [idles[k] EXCEPT !.term = NoTerm].icon = idles[k].icon
    BY <2>1 DEF Answers, Waiters
  <2>3. idles' = [k \in 1 .. Len(idles) |->
                     IF idles[k].term = t THEN [idles[k] EXCEPT !.term = NoTerm] ELSE idles[k]]
    BY <2>1 DEF CloseTerminal
  <2>4. /\ idles' \in [1 .. Len(idles) -> Answers]
        /\ \A k \in 1 .. Len(idles) : idles'[k].icon = NoIcon
    BY <2>1, <2>2, <2>3
  <2> QED BY <2>1, <2>4
<1>5. disk' = disk /\ cache' = cache /\ tasks' = tasks
  BY DEF CloseTerminal
<1>6. Queues'
  BY <1>1, <1>3, <1>4, <1>5 DEF Queues, OneSearch
<1> QED BY <1>1, <1>2, <1>5, <1>6, IInvParts

\* SearchEnds: the answer is of the root that was searched.
LEMMA SearchEndsOK ==
  ASSUME Blanks, IconIInv, NEW k \in DOMAIN tasks, SearchEnds(k)
  PROVE  IconIInv'
<1>1. disk \subseteq Icons /\ OwnCache(cache) /\ OwnIcons(term) /\ Queues
  BY IInvParts
<1>2. PICK i \in {NoIcon} \cup {i \in disk : i[1] = tasks[k].root} :
         tasks' = [tasks EXCEPT ![k].found = i]
  BY DEF SearchEnds
<1>3. UNCHANGED <<disk, cache, pending, idles, term>>
  BY DEF SearchEnds
<1> DEFINE s == [tasks[k] EXCEPT !.found = i]
<1>4. tasks \in Seq(Tasks) /\ tasks[k] \in Tasks
  BY <1>1 DEF Queues
<1>5. s \in Tasks /\ s.root = tasks[k].root /\ s.found = i
  BY <1>1, <1>2, <1>4 DEF Tasks
<1>6. tasks' = [tasks EXCEPT ![k] = s]
  BY <1>2
<1> HIDE DEF s
<1>7. /\ tasks' \in Seq(Tasks) /\ DOMAIN tasks' = DOMAIN tasks /\ tasks'[k] = s
      /\ \A j \in DOMAIN tasks \ {k} : tasks'[j] = tasks[j]
  BY <1>4, <1>5, <1>6
<1>8. \A j \in DOMAIN tasks : tasks'[j].root = tasks[j].root
  BY <1>5, <1>7
<1>9. \A j \in DOMAIN tasks' : tasks'[j].found \in Icons => tasks'[j].found[1] = tasks'[j].root
  BY <1>1, <1>2, <1>5, <1>7 DEF Queues, Blanks
<1>10. OneSearch'
  <2>1. /\ \A j, l \in DOMAIN tasks : tasks[j].root = tasks[l].root => j = l
        /\ \A r \in Roots : pending[r] # <<>> <=> \E l \in DOMAIN tasks : tasks[l].root = r
    BY <1>1 DEF Queues, OneSearch
  <2>2. \A j, l \in DOMAIN tasks' : tasks'[j].root = tasks'[l].root => j = l
    BY <1>7, <1>8, <2>1
  <2>3. \A r \in Roots : pending'[r] # <<>> <=> \E l \in DOMAIN tasks' : tasks'[l].root = r
    <3>1. \A r \in Roots : (\E l \in DOMAIN tasks' : tasks'[l].root = r)
                              <=> \E l \in DOMAIN tasks : tasks[l].root = r
      BY <1>7, <1>8
    <3> QED BY <1>3, <2>1, <3>1
  <2> QED BY <2>2, <2>3 DEF OneSearch
<1>11. Queues'
  BY <1>1, <1>3, <1>7, <1>9, <1>10 DEF Queues
<1> QED BY <1>1, <1>3, <1>11, IInvParts

\* SearchCompletes: the only task of the root goes, and all who waited for it.
LEMMA SearchCompletesOK ==
  ASSUME Blanks, IconIInv, NEW k \in DOMAIN tasks, SearchCompletes(k)
  PROVE  IconIInv'
<1> DEFINE r == tasks[k].root
           d == [cache EXCEPT ![r] = tasks[k].found]
           c == Forget(d, r)
           i == Lookup(c, r)
           x == Resolved([ts |-> term, c |-> c], ToSet(pending[r]), r, i)
<1>1. /\ tasks' = RemoveAt(tasks, k) /\ pending' = [pending EXCEPT ![r] = <<>>]
      /\ cache' = x.c /\ term' = x.ts /\ UNCHANGED <<disk, idles>>
  BY DEF SearchCompletes
<1>2. disk \subseteq Icons /\ OwnCache(cache) /\ OwnIcons(term) /\ Queues
  BY IInvParts
<1>3. /\ tasks[k] \in Tasks /\ r \in Roots
      /\ tasks[k].found \in Icons => tasks[k].found[1] = r
  <2>1. tasks \in Seq(Tasks)
    BY <1>2 DEF Queues
  <2>2. tasks[k] \in Tasks
    BY <2>1
  <2>3. tasks[k].root \in Roots
    BY <2>2 DEF Tasks
  <2>4. tasks[k].found \in Icons => tasks[k].found[1] = tasks[k].root
    BY <1>2 DEF Queues
  <2> QED BY <2>2, <2>3, <2>4
<1>4. OwnCache(d)
  BY <1>2, <1>3 DEF OwnCache, Caches, Tasks
<1> HIDE DEF d
<1>5. OwnCache(c)
  BY <1>4, ForgetOK
<1> HIDE DEF c
<1>6. i \in Icons => i[1] = r
  BY <1>2, <1>5, LookupOK
<1> HIDE DEF i
<1>7. Fits(x)
  <2> DEFINE y == [ts |-> term, c |-> c]
  <2>1. Fits(y)
    BY <1>2, <1>5 DEF Fits
  <2> HIDE DEF y, r
  <2>2. Fits(Resolved(y, ToSet(pending[r]), r, i))
    BY <1>2, <1>3, <1>6, <2>1, ResolvedOK
  <2> QED BY <2>2 DEF y
<1> HIDE DEF x
<1>8. Queues'
  <2>1. /\ pending' \in [Roots -> Seq(Waiters)] /\ pending'[r] = <<>>
        /\ \A q \in Roots \ {r} : pending'[q] = pending[q]
    BY <1>1, <1>2, <1>3 DEF Queues
  <2> DEFINE n == Len(tasks)
             g(j) == IF j < k THEN j ELSE j + 1
  <2>2. /\ n \in Nat /\ DOMAIN tasks = 1 .. n /\ k \in 1 .. n
        /\ tasks' \in Seq(Tasks) /\ DOMAIN tasks' = 1 .. n - 1
        /\ \A j \in 1 .. n - 1 : tasks'[j] = IF j < k THEN tasks[j] ELSE tasks[j + 1]
    <3>1. tasks \in Seq(Tasks) /\ n \in Nat /\ DOMAIN tasks = 1 .. n /\ k \in 1 .. n
      BY <1>2 DEF Queues
    <3> HIDE DEF n
    <3>2. /\ RemoveAt(tasks, k) \in Seq(Tasks)
          /\ Len(RemoveAt(tasks, k)) = n - 1
          /\ \A j \in 1 .. n - 1 :
                RemoveAt(tasks, k)[j] = IF j < k THEN tasks[j] ELSE tasks[j + 1]
      BY <3>1, RemoveAtOK DEF n
    <3>3. tasks' = RemoveAt(tasks, k)
      BY <1>1
    <3> QED BY <3>1, <3>2, <3>3
  <2> HIDE DEF n
  <2>3. \A j \in 1 .. n - 1 : g(j) \in 1 .. n /\ g(j) # k /\ tasks'[j] = tasks[g(j)]
    BY <2>2
  <2>4. \A j, l \in 1 .. n - 1 : g(j) = g(l) => j = l
    BY <2>2
  <2>5. \A l \in 1 .. n : l # k => \E j \in 1 .. n - 1 : g(j) = l
    <3> SUFFICES ASSUME NEW l \in 1 .. n, l # k
                 PROVE  \E j \in 1 .. n - 1 : g(j) = l
      OBVIOUS
    <3>1. CASE l < k
      <4>1. l \in 1 .. n - 1 /\ g(l) = l
        BY <2>2, <3>1
      <4> QED BY <4>1
    <3>2. CASE l > k
      <4>1. l - 1 \in 1 .. n - 1 /\ g(l - 1) = l
        BY <2>2, <3>2
      <4> QED BY <4>1
    <3> QED BY <2>2, <3>1, <3>2
  <2> HIDE DEF g
  <2>6. /\ \A j, l \in 1 .. n : tasks[j].root = tasks[l].root => j = l
        /\ \A q \in Roots : pending[q] # <<>> <=> \E j \in 1 .. n : tasks[j].root = q
        /\ \A j \in 1 .. n : tasks[j].found \in Icons => tasks[j].found[1] = tasks[j].root
    BY <1>2, <2>2 DEF Queues, OneSearch
  <2>7. \A j, l \in 1 .. n - 1 : tasks'[j].root = tasks'[l].root => j = l
    BY <2>3, <2>4, <2>6
  <2>8. \A j \in 1 .. n - 1 : tasks'[j].root # r
    BY <2>2, <2>3, <2>6
  <2>9. \A q \in Roots : pending'[q] # <<>> <=> \E j \in 1 .. n - 1 : tasks'[j].root = q
    <3> SUFFICES ASSUME NEW q \in Roots
                 PROVE  pending'[q] # <<>> <=> \E j \in 1 .. n - 1 : tasks'[j].root = q
      OBVIOUS
    <3>1. CASE q = r
      BY <2>1, <2>8, <3>1
    <3>2. CASE q # r
      <4>1. ASSUME NEW l \in 1 .. n, tasks[l].root = q
            PROVE  \E j \in 1 .. n - 1 : tasks'[j].root = q
        <5>1. l # k
          BY <3>2, <4>1
        <5>2. PICK j \in 1 .. n - 1 : g(j) = l
          BY <2>5, <5>1
        <5> QED BY <2>3, <4>1, <5>2
      <4>2. (\E j \in 1 .. n - 1 : tasks'[j].root = q) <=> \E l \in 1 .. n : tasks[l].root = q
        BY <2>3, <4>1
      <4> QED BY <2>1, <2>6, <3>2, <4>2
    <3> QED BY <3>1, <3>2
  <2>10. \A j \in 1 .. n - 1 : tasks'[j].found \in Icons => tasks'[j].found[1] = tasks'[j].root
    BY <2>3, <2>6
  <2>11. OneSearch'
    BY <2>2, <2>7, <2>9 DEF OneSearch
  <2> QED BY <1>1, <1>2, <2>1, <2>2, <2>10, <2>11 DEF Queues
<1> QED BY <1>1, <1>2, <1>7, <1>8, IInvParts DEF Fits

\* IdleAnswers: what the cache answered was that there is no icon.
LEMMA IdleAnswersOK ==
  ASSUME Blanks, IconIInv, IdleAnswers
  PROVE  IconIInv'
<1> DEFINE d == Head(idles)
           y == [ts |-> term, c |-> cache]
           x == Resolved(y, {d.term}, d.root, d.icon)
<1>1. /\ idles # <<>> /\ idles' = Tail(idles) /\ term' = x.ts /\ cache' = x.c
      /\ UNCHANGED <<disk, pending, tasks>>
  BY DEF IdleAnswers
<1>2. disk \subseteq Icons /\ OwnCache(cache) /\ OwnIcons(term) /\ Queues
  BY IInvParts
<1>3. /\ d \in Answers /\ d.icon = NoIcon
      /\ idles' \in Seq(Answers) /\ \A k \in DOMAIN idles' : idles'[k].icon = NoIcon
  <2>1. idles \in Seq(Answers) /\ idles # <<>> /\ \A k \in DOMAIN idles : idles[k].icon = NoIcon
    BY <1>1, <1>2 DEF Queues
  <2>2. d = idles[1] /\ 1 \in DOMAIN idles
    BY <2>1
  <2>3. /\ Tail(idles) \in Seq(Answers) /\ Len(idles) \in Nat /\ DOMAIN idles = 1 .. Len(idles)
        /\ DOMAIN Tail(idles) = 1 .. Len(idles) - 1
        /\ \A k \in 1 .. Len(idles) - 1 : Tail(idles)[k] = idles[k + 1]
    BY <2>1
  <2> HIDE DEF d
  <2> QED BY <1>1, <2>1, <2>2, <2>3
<1> HIDE DEF d
<1>4. Fits(y) /\ d.root \in Roots /\ (d.icon \in Icons => d.icon[1] = d.root)
  BY <1>2, <1>3 DEF Fits, Answers, Blanks
<1> HIDE DEF y
<1>5. Fits(x)
  BY <1>2, <1>4, ResolvedOK
<1> HIDE DEF x
<1>6. Queues'
  BY <1>1, <1>2, <1>3 DEF Queues, OneSearch
<1> QED BY <1>1, <1>2, <1>5, <1>6, IInvParts DEF Fits

\* FileComesOrGoes: only candidate files do.
LEMMA FileComesOrGoesOK ==
  ASSUME IconIInv, FileComesOrGoes
  PROVE  IconIInv'
<1>1. disk \subseteq Icons /\ OwnCache(cache) /\ OwnIcons(term) /\ Queues
  BY IInvParts
<1>2. disk' \subseteq Icons
  BY <1>1 DEF FileComesOrGoes, SymDiff
<1>3. UNCHANGED <<cache, pending, tasks, idles, term>>
  BY DEF FileComesOrGoes
<1>4. Queues'
  BY <1>1, <1>3 DEF Queues, OneSearch
<1> QED BY <1>1, <1>2, <1>3, <1>4, IInvParts

LEMMA IconNextOK ==
  ASSUME Blanks, IconIInv, [IconNext]_iconVars
  PROVE  IconIInv'
<1>1. ASSUME NEW t \in IconTerms, NEW r \in Roots, EnterProject(t, r) PROVE IconIInv'
  BY <1>1, EnterProjectOK
<1>2. ASSUME NEW t \in IconTerms, LeaveProjects(t) PROVE IconIInv'
  BY <1>2, LeaveProjectsOK
<1>3. ASSUME NEW t \in IconTerms, CloseTerminal(t) PROVE IconIInv'
  BY <1>3, CloseTerminalOK
<1>4. ASSUME NEW k \in DOMAIN tasks, SearchEnds(k) PROVE IconIInv'
  BY <1>4, SearchEndsOK
<1>5. ASSUME NEW k \in DOMAIN tasks, SearchCompletes(k) PROVE IconIInv'
  BY <1>5, SearchCompletesOK
<1>6. CASE IdleAnswers
  BY <1>6, IdleAnswersOK
<1>7. CASE FileComesOrGoes
  BY <1>7, FileComesOrGoesOK
<1>8. CASE UNCHANGED iconVars
  BY <1>8 DEF iconVars, IconIInv, IconTypeOK, OneSearch
<1> QED BY <1>1, <1>2, <1>3, <1>4, <1>5, <1>6, <1>7, <1>8 DEF IconNext

-----------------------------------------------------------------------------
(* The theorems                                                            *)

\* The invariant that the theorems below follow from, whatever files come and
\* go and whichever terminals move on.
THEOREM IconInvariant == Blanks => (IconSpec => []IconIInv)
<1> SUFFICES ASSUME Blanks PROVE IconSpec => []IconIInv
  OBVIOUS
<1>1. IconInit => IconIInv
  BY IconInitOK
<1>2. IconIInv /\ [IconNext]_iconVars => IconIInv'
  BY IconNextOK
<1> QED BY <1>1, <1>2, PTL DEF IconSpec

\* Cache, queues and labels keep their types; a cached icon is one of the root
\* it is cached for, and the icon of a terminal one of the root it is in.
THEOREM IconTypeCorrect == Blanks => (IconSpec => []IconTypeOK)
<1> SUFFICES ASSUME Blanks PROVE IconSpec => []IconTypeOK
  OBVIOUS
<1>1. IconIInv => IconTypeOK
  BY DEF IconIInv
<1> QED BY <1>1, IconInvariant, PTL

\* project_icon_cache_request starts a search of a root only when none is under
\* way, and icon_search_complete leaves no listener of it behind.
THEOREM SearchedOnce == Blanks => (IconSpec => []OneSearch)
<1> SUFFICES ASSUME Blanks PROVE IconSpec => []OneSearch
  OBVIOUS
<1>1. IconIInv => OneSearch
  BY DEF IconIInv
<1> QED BY <1>1, IconInvariant, PTL

\* However late an answer comes, no terminal takes the icon of a project it has
\* left: initial states and steps map to those of LatestAnswer.
THEOREM IconsImplementLatest == Blanks => (IconSpec => IconImplementsLatest)
<1> SUFFICES ASSUME Blanks PROVE IconSpec => IconImplementsLatest
  OBVIOUS
<1>1. IconInit => TabIcon!Init
  BY DEF IconInit, TabIcon!Init
<1>2. IconIInv' => TabIcon!Next
  <2> SUFFICES ASSUME IconIInv' PROVE TabIcon!Next
    OBVIOUS
  <2>1. OwnIcons(term')
    BY IInvParts
  <2>2. \A t \in IconTerms : /\ term'[t].root \in Roots \cup {NoRoot}
                             /\ term'[t].icon = NoIcon \/ term'[t].icon[1] = term'[t].root
    BY <2>1 DEF OwnIcons, Labels
  <2> QED BY <2>2 DEF TabIcon!Next, TabIcon!Label
<1> QED BY <1>1, <1>2, IconInvariant, PTL DEF IconSpec, IconImplementsLatest, TabIcon!Spec

=============================================================================
