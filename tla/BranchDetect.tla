---------------------------- MODULE BranchDetect ----------------------------
(***************************************************************************)
(* workspace.c: the directory and the two branch names a workspace shows.  *)
(* git_branch follows the terminal the user last looked at, the primary    *)
(* branch follows the first tab of the first pane.  Each is read by a git  *)
(* child process whose answer comes when it comes: it names the workspace  *)
(* by its serial and is dropped when the generation has moved on.          *)
(*                                                                         *)
(* The panes and tabs are kept only as far as they decide which terminal   *)
(* is first; which page is visible is left open.  A branch is named after  *)
(* the directory it was read in.  Tabs stay in their workspace: what the   *)
(* code keeps of one that was moved to another is in Tabs.                 *)
(***************************************************************************)
EXTENDS Naturals, Sequences, SequencesExt, FiniteSets, FiniteSetsExt

CONSTANTS
    Ws, Terms, Dirs,
    NoWs, NoDir,   \* no workspace; an empty directory or branch name
    MaxReads,      \* bound: git processes at a time
    MaxSerial      \* bound: serials that workspaces and reads name at a time

ASSUME NoneAssumption == NoWs \notin Ws /\ NoDir \notin Dirs

VARIABLES
    panes,   \* of each workspace, the tabs of each pane; <<>>: not open
    home,    \* whose ws->terminals lists the terminal, and its handlers know
    dir,     \* GhosttyTerminal.cwd
    sum,     \* of each workspace: serial, cwd, git_branch and primary branch
    reads    \* git processes whose answers have not come back

vars == <<panes, home, dir, sum, reads>>

Kinds == {"git", "primary"}
Open == {w \in Ws : panes[w] # <<>>}
Label == Dirs \cup {NoDir}

Closed == [serial |-> 0, cwd |-> NoDir, branch |-> [k \in Kinds |-> NoDir]]

TypeOK ==
    /\ panes \in [Ws -> Seq(Seq(Terms))]
    /\ home \in [Terms -> Ws \cup {NoWs}]
    /\ dir \in [Terms -> Label]
    /\ sum \in [Ws -> [serial : Nat, cwd : Label, branch : [Kinds -> Label]]]
    /\ reads \subseteq [kind : Kinds, serial : Nat, behind : 0..1, dir : Dirs]
    /\ \A t \in Terms : home[t] = NoWs => dir[t] = NoDir

-----------------------------------------------------------------------------
(* The two readers.  A handler works on x = [s, rs], the summary of its    *)
(* workspace so far and the reads in flight; ps and ds are the panes and   *)
(* directories it sees; ok says whether a git process can be spawned.      *)

First(ps) == IF ps = <<>> \/ ps[1] = <<>> THEN {} ELSE {ps[1][1]}

FirstDir(ps, ds) == IF First(ps) = {} THEN NoDir ELSE ds[ps[1][1]]

\* Mutant of Bump: the generation stays.
BumpNever(x, k) == x

\* ++generation and cancel.  Generations are only compared for equality, so a
\* read keeps how far behind its workspace's it is, cut off at 1.
Bump(x, k) ==
    [x EXCEPT !.rs = {IF r.kind = k /\ r.serial = x.s.serial
                      THEN [r EXCEPT !.behind = 1] ELSE r : r \in x.rs}]

Blank(x, k) == [x EXCEPT !.s.branch[k] = NoDir]

Read(x, k, d) ==
    [x EXCEPT !.rs = @ \cup {[kind |-> k, serial |-> x.s.serial,
                              behind |-> 0, dir |-> d]}]

CancelGit(x) == Bump(x, "git")

DetectGit(x, ok) ==
    IF x.s.cwd = NoDir \/ ~ok THEN Blank(CancelGit(x), "git")
    ELSE Read(CancelGit(x), "git", x.s.cwd)

DetectPrimary(x, ps, ds, ok) ==
    IF FirstDir(ps, ds) = NoDir \/ ~ok THEN Blank(Bump(x, "primary"), "primary")
    ELSE Read(Bump(x, "primary"), "primary", FirstDir(ps, ds))

\* Mutant of UpdateSummary: a terminal without a directory leaves the reads.
UpdateSummaryQuietly(x, t, ps, ds, ok) ==
    IF ds[t] = NoDir THEN Blank([x EXCEPT !.s.cwd = NoDir], "git")
    ELSE DetectPrimary(DetectGit([x EXCEPT !.s.cwd = ds[t]], ok), ps, ds, ok)

UpdateSummary(x, t, ps, ds, ok) ==
    IF ds[t] = NoDir THEN Blank(CancelGit([x EXCEPT !.s.cwd = NoDir]), "git")
    ELSE DetectPrimary(DetectGit([x EXCEPT !.s.cwd = ds[t]], ok), ps, ds, ok)

SyncSummary(x, ps, ds, ok) ==
    IF First(ps) # {} THEN UpdateSummary(x, ps[1][1], ps, ds, ok)
    ELSE Blank(Blank(CancelGit([x EXCEPT !.s.cwd = NoDir]), "git"), "primary")

\* page-added, page-removed and page-reordered concern the first pane only.
PagesChanged(x, p, ps, ds, ok) == IF p = 1 THEN DetectPrimary(x, ps, ds, ok) ELSE x

State(w) == [s |-> sum[w], rs |-> reads]

\* The end of a handler that worked on one workspace.
Commit(w, x) ==
    /\ Cardinality(x.rs) <= MaxReads
    /\ sum' = [sum EXCEPT ![w] = x.s]
    /\ reads' = x.rs

-----------------------------------------------------------------------------
(* Workspaces, panes and tabs                                              *)

Init ==
    /\ panes = [w \in Ws |-> <<>>]
    /\ home = [t \in Terms |-> NoWs]
    /\ dir = [t \in Terms |-> NoDir]
    /\ sum = [w \in Ws |-> Closed]
    /\ reads = {}

\* workspace_allocate_serial_avoiding: a serial no workspace has.  The counter
\* only grows: none that is still named by a read comes again.
FreshSerials == (1..MaxSerial) \ ({sum[w].serial : w \in Ws} \cup {r.serial : r \in reads})

\* workspace_add, then the page-added and switch-page of its first tab.
AddWorkspace(w, t, ok) ==
    LET ps == <<<<t>>>>
        x == [s |-> [Closed EXCEPT !.serial = Min(FreshSerials)], rs |-> reads]
    IN  /\ w \notin Open /\ home[t] = NoWs /\ FreshSerials # {}
        /\ panes' = [panes EXCEPT ![w] = ps]
        /\ home' = [home EXCEPT ![t] = w]
        /\ Commit(w, UpdateSummary(PagesChanged(x, 1, ps, dir, ok), t, ps, dir, ok))
        /\ UNCHANGED dir

Shown(w) == UNION {ToSet(panes[w][p]) : p \in DOMAIN panes[w]}

\* Terminals that are finalized.
Lost(ts) == /\ home' = [t \in Terms |-> IF t \in ts THEN NoWs ELSE home[t]]
            /\ dir' = [t \in Terms |-> IF t \in ts THEN NoDir ELSE dir[t]]

\* workspace_remove and workspace_free_detached: the answers that are still to
\* come find no workspace with their serial.
RemoveWorkspace(w) ==
    /\ w \in Open /\ Open # {w}
    /\ panes' = [panes EXCEPT ![w] = <<>>]
    /\ Lost(Shown(w))
    /\ sum' = [sum EXCEPT ![w] = Closed]
    /\ UNCHANGED reads

\* create_terminal_tab: the shell starts in d, which may be unknown.
Created(w, t, d) ==
    /\ home[t] = NoWs
    /\ home' = [home EXCEPT ![t] = w]
    /\ dir' = [dir EXCEPT ![t] = d]

NewTab(w, p, t, d, ok) ==
    LET ps == [panes[w] EXCEPT ![p] = Append(@, t)]
    IN  /\ d \in {NoDir} \cup {dir[u] : u \in ToSet(panes[w][p])}
        /\ Created(w, t, d)
        /\ panes' = [panes EXCEPT ![w] = ps]
        /\ Commit(w, UpdateSummary(PagesChanged(State(w), p, ps, dir', ok),
                                   t, ps, dir', ok))

\* split_pane_target, and the summary the command ends with.
SplitPane(w, p, t, d, ok) ==
    LET ps == Append(panes[w], <<t>>)
    IN  /\ d \in {NoDir} \cup {dir[u] : u \in ToSet(panes[w][p])}
        /\ Created(w, t, d)
        /\ panes' = [panes EXCEPT ![w] = ps]
        /\ Commit(w, SyncSummary(UpdateSummary(State(w), t, ps, dir', ok),
                                 ps, dir', ok))

\* on_notebook_switch_page, workspace_focus_first_terminal
SelectTab(w, p, t, ok) ==
    /\ t \in ToSet(panes[w][p])
    /\ Commit(w, UpdateSummary(State(w), t, panes[w], dir, ok))
    /\ UNCHANGED <<panes, home, dir>>

\* What is left of the panes and the summary once page i left pane p: the next
\* page may come up, and a pane that is empty beside others goes.
Left(w, p, i, next, ok) ==
    LET ps == [panes[w] EXCEPT ![p] = RemoveAt(@, i)]
        up == IF next = {} THEN State(w)
              ELSE UpdateSummary(State(w), CHOOSE t \in next : TRUE, panes[w], dir, ok)
        x == PagesChanged(up, p, ps, dir, ok)
        rest == RemoveAt(ps, p)
    IN  IF ps[p] = <<>> /\ Len(ps) > 1
        THEN [ps |-> rest, x |-> SyncSummary(x, rest, dir, ok)]
        ELSE [ps |-> ps, x |-> x]

\* The page that comes up when the visible one goes.
Nexts(w, p, i) == {{}} \cup {{t} : t \in ToSet(RemoveAt(panes[w][p], i))}

\* workspace_close_tab_at
CloseTab(w, p, i, next, ok) ==
    LET gone == Left(w, p, i, next, ok)
        t == panes[w][p][i]
    IN  /\ Len(panes[w][p]) > 1 \/ Len(panes[w]) > 1
        /\ panes' = [panes EXCEPT ![w] = gone.ps]
        /\ Lost({t})
        /\ Commit(w, gone.x)

\* workspace_close_pane of a pane with tabs: its notebook drops its pages one by
\* one while it is still registered.
ClosePane(w, p, ok) ==
    LET ps == RemoveAt(panes[w], p)
        x == PagesChanged(State(w), p, <<<<>>>>, dir, ok)
    IN  /\ Len(panes[w]) > 1 /\ panes[w][p] # <<>>
        /\ panes' = [panes EXCEPT ![w] = ps]
        /\ Lost(ToSet(panes[w][p]))
        /\ Commit(w, SyncSummary(x, ps, dir, ok))

ReorderTabs(w, p, ok) ==
    LET ps == [panes[w] EXCEPT ![p] = Reverse(@)]
    IN  /\ Len(panes[w][p]) > 1
        /\ panes' = [panes EXCEPT ![w] = ps]
        /\ Commit(w, PagesChanged(State(w), p, ps, dir, ok))
        /\ UNCHANGED <<home, dir>>

\* move_terminal_to_notebook within a workspace.
MoveTab(w, p, i, q, next, ok) ==
    LET t == panes[w][p][i]
        gone == Left(w, p, i, next, ok)
        q2 == IF Len(gone.ps) < Len(panes[w]) /\ p < q THEN q - 1 ELSE q
        ps == [gone.ps EXCEPT ![q2] = Append(@, t)]
    IN  /\ p # q
        /\ panes' = [panes EXCEPT ![w] = ps]
        /\ Commit(w, UpdateSummary(PagesChanged(gone.x, q2, ps, dir, ok),
                                   t, ps, dir, ok))
        /\ UNCHANGED <<home, dir>>

-----------------------------------------------------------------------------
(* The shell reports its directory, and git answers                        *)

\* The pwd action of ghostty: on_terminal_pwd_changed, then the action's own
\* update.  seen: the terminal is the visible page of its workspace's focused
\* pane.
PwdChanged(t, d, seen, ok) ==
    LET w == home[t]
        ds == [dir EXCEPT ![t] = d]
        x == State(w)
        changed == IF t \in First(panes[w])
                   THEN DetectPrimary(DetectGit([x EXCEPT !.s.cwd = d], ok),
                                      panes[w], ds, ok)
                   ELSE IF seen THEN UpdateSummary(x, t, panes[w], ds, ok) ELSE x
    IN  /\ w # NoWs
        /\ dir' = ds
        /\ Commit(w, DetectGit([changed EXCEPT !.s.cwd = d], ok))
        /\ UNCHANGED <<panes, home>>

Live(r, w) == sum[w].serial = r.serial /\ r.behind = 0

\* Mutant of Answered: the generation is not compared.
AnsweredAlways(r, b) ==
    /\ reads' = reads \ {r}
    /\ sum' = [w \in Ws |-> IF sum[w].serial = r.serial
                            THEN [sum[w] EXCEPT !.branch[r.kind] = b] ELSE sum[w]]
    /\ UNCHANGED <<panes, home, dir>>

\* on_git_branch_read, on_primary_branch_read; a failure answers NoDir.
Answered(r, b) ==
    /\ reads' = reads \ {r}
    /\ sum' = [w \in Ws |-> IF Live(r, w)
                            THEN [sum[w] EXCEPT !.branch[r.kind] = b] ELSE sum[w]]
    /\ UNCHANGED <<panes, home, dir>>

InPane(w, p, ok) ==
    \/ \E t \in Terms, d \in Label : NewTab(w, p, t, d, ok) \/ SplitPane(w, p, t, d, ok)
    \/ \E t \in Terms : SelectTab(w, p, t, ok)
    \/ \E i \in DOMAIN panes[w][p] : \E next \in Nexts(w, p, i) :
          \/ CloseTab(w, p, i, next, ok)
          \/ \E q \in DOMAIN panes[w] : MoveTab(w, p, i, q, next, ok)
    \/ ClosePane(w, p, ok)
    \/ ReorderTabs(w, p, ok)

Next ==
    \/ \E w \in Ws : RemoveWorkspace(w)
    \/ \E ok \in BOOLEAN :
          \/ \E w \in Ws, t \in Terms : AddWorkspace(w, t, ok)
          \/ \E w \in Ws : \E p \in DOMAIN panes[w] : InPane(w, p, ok)
          \/ \E t \in Terms, d \in Dirs, seen \in BOOLEAN : PwdChanged(t, d, seen, ok)
    \/ \E r \in reads : \E b \in {r.dir, NoDir} : Answered(r, b)

Spec == Init /\ [][Next]_vars

-----------------------------------------------------------------------------
(* What must hold *)

\* The answer a workspace waits for is about the directory it shows now,
\* whatever was opened, closed, moved or entered since git was started.
\* (workspace.c, workspace_detect_git and on_git_branch_read.)
AnswersAreCurrent ==
    \A w \in Open, r \in reads : r.kind = "git" /\ Live(r, w) => r.dir = sum[w].cwd

\* Once nothing more is to come, the branch is that of the directory shown, or
\* blank: no sequence of events strands a branch of an earlier directory.
BranchSettled ==
    \A w \in Open :
        \/ \E r \in reads : r.kind = "git" /\ Live(r, w)
        \/ sum[w].branch["git"] \in {NoDir, sum[w].cwd}

\* The same for the sidebar's branch and the first tab of the first pane:
\* "Primary-path rule: CWD and branch come from the first tab of the first
\* pane" (workspace.h).
PrimarySettled ==
    \A w \in Open :
        \/ \E r \in reads : r.kind = "primary" /\ Live(r, w)
        \/ sum[w].branch["primary"] \in {NoDir, FirstDir(panes[w], dir)}

Settled == BranchSettled /\ PrimarySettled

\* Each of the two labels implements LatestAnswer: it never shows the answer to
\* a question older than the last one.
GitLabel == INSTANCE LatestAnswer WITH
    Clients <- Ws, Questions <- Dirs, None <- NoDir,
    asked <- [w \in Ws |-> sum[w].cwd],
    shown <- [w \in Ws |-> sum[w].branch["git"]]

PrimaryLabel == INSTANCE LatestAnswer WITH
    Clients <- Ws, Questions <- Dirs, None <- NoDir,
    asked <- [w \in Ws |-> FirstDir(panes[w], dir)],
    shown <- [w \in Ws |-> sum[w].branch["primary"]]

ImplementsLatest == GitLabel!Spec /\ PrimaryLabel!Spec

=============================================================================
