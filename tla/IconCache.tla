----------------------------- MODULE IconCache ------------------------------
(***************************************************************************)
(* project_icon_cache.c and its client in workspace.c: the icon of the     *)
(* project a terminal is in.  The first terminal in a project starts a     *)
(* search thread, the others wait for the same answer, and an answer may   *)
(* come when the terminal has moved on or is gone.  Icon files come and go *)
(* under all of them.                                                      *)
(*                                                                         *)
(* Handlers run to their end on the main loop: files do not change inside  *)
(* one.  An icon is a pair <<root, file>>.                                 *)
(***************************************************************************)
EXTENDS Naturals, Sequences, SequencesExt, FiniteSets, Functions

CONSTANTS
    Roots, Files,         \* project roots; candidate files in each
    IconTerms, Firsts,    \* terminals; those that are first of their workspace
    NoIcon,               \* no icon
    Unknown,              \* icon_cache has no entry
    NoRoot,               \* outside any project
    NoTerm,               \* the listener of a terminal that is gone
    MaxIdles              \* bound: answers and listeners under way

VARIABLES
    disk,     \* the icon files that exist
    cache,    \* icon_cache; NoIcon: searched, and none found
    pending,  \* pending: of each root, the listeners of its search
    tasks,    \* search threads and what they found, until the main loop knows
    idles,    \* dispatch_idle_cb: answers given from the cache
    term      \* of each terminal, project-icon-root and project-icon-path

iconVars == <<disk, cache, pending, tasks, idles, term>>

Icons == Roots \X Files

Tasks == [root : Roots, found : Icons \cup {NoIcon, Unknown}]

IconTypeOK ==
    /\ disk \subseteq Icons
    /\ cache \in [Roots -> Icons \cup {NoIcon, Unknown}]
    /\ pending \in [Roots -> Seq(IconTerms \cup {NoTerm})]
    /\ tasks \in Seq(Tasks)
    /\ idles \in Seq([root : Roots, icon : Icons \cup {NoIcon},
                      term : IconTerms \cup {NoTerm}])
    /\ term \in [IconTerms -> [root : Roots \cup {NoRoot}, icon : Icons \cup {NoIcon}]]
    /\ \A r \in Roots : cache[r] \in Icons => cache[r][1] = r
    /\ \A t \in IconTerms : term[t].icon \in Icons => term[t].icon[1] = term[t].root

-----------------------------------------------------------------------------
(* Lookups.  A cached file that is gone is forgotten by the lookup.        *)

Cached(c, r) == r \in Roots /\ c[r] \in disk

Lookup(c, r) == IF Cached(c, r) THEN c[r] ELSE NoIcon

Forget(c, r) ==
    IF r \in Roots /\ c[r] \in Icons \ disk THEN [c EXCEPT ![r] = Unknown] ELSE c

-----------------------------------------------------------------------------
(* Labels *)

\* terminal_project_icon clears an icon whose file is gone, and
\* workspace_sidebar_icon_path asks the cache when there is none.
Stale(ts, t) == ts[t].icon \notin disk

Sidebar(ts, c) ==
    [t \in IconTerms |-> IF t \in Firsts /\ Stale(ts, t)
                         THEN [ts[t] EXCEPT !.icon = Lookup(c, ts[t].root)] ELSE ts[t]]

SidebarCache(ts, c) ==
    [r \in Roots |->
        IF c[r] \in Icons \ disk /\ \E t \in Firsts : Stale(ts, t) /\ ts[t].root = r
        THEN Unknown ELSE c[r]]

\* terminal_set_project_icon, refresh_terminal_tab_icon and the refresh of all
\* the sidebar's labels, for the terminals us, which are of project r.
SetIcon(ts, c, us, r, i) ==
    LET set == [t \in IconTerms |->
                   IF t \in us THEN [root |-> r, icon |-> IF i \in disk THEN i ELSE NoIcon]
                   ELSE ts[t]]
    IN  [ts |-> Sidebar(set, c), c |-> SidebarCache(set, c)]

\* Mutant of Resolved: the root is not compared.
ResolvedAlways(x, us, r, i) ==
    [x EXCEPT !.ts = [t \in IconTerms |-> IF t \in us THEN [x.ts[t] EXCEPT !.icon = i] ELSE x.ts[t]]]

\* on_project_icon_resolved, called for the listeners us one by one, all with one
\* answer: an answer for a root a terminal left, or for one that is gone, is
\* dropped.  No call can tell whether another one came before it.
Resolved(x, us, r, i) ==
    LET told == {t \in us \cap IconTerms : x.ts[t].root = r}
    IN  IF told = {} THEN x ELSE SetIcon(x.ts, x.c, told, r, i)

-----------------------------------------------------------------------------

\* session.c restores the entries of the last session; one whose file is gone is
\* kept as searched in vain.
IconInit ==
    /\ disk \in SUBSET Icons
    /\ cache \in [Roots -> disk \cup {NoIcon, Unknown}]
    /\ \A r \in Roots : cache[r] \in Icons => cache[r][1] = r
    /\ pending = [r \in Roots |-> <<>>]
    /\ tasks = <<>>
    /\ idles = <<>>
    /\ term = [t \in IconTerms |-> [root |-> NoRoot, icon |-> NoIcon]]

UnderWay == FoldFunction(LAMBDA q, n : Len(q) + n, Len(idles), pending)

\* Mutant of Request: every request starts a search.
RequestSearch(c, t, r) ==
    /\ pending' = [pending EXCEPT ![r] = Append(@, t)]
    /\ tasks' = Append(tasks, [root |-> r, found |-> Unknown])
    /\ UNCHANGED idles

\* Mutant of Request: the first listener does not start the search.
RequestWaits(c, t, r) ==
    /\ pending' = [pending EXCEPT ![r] = Append(@, t)]
    /\ UNCHANGED <<tasks, idles>>

\* project_icon_cache_request of a root that has no icon in the cache.
Request(c, t, r) ==
    \/ /\ c[r] # Unknown
       /\ idles' = Append(idles, [root |-> r, icon |-> NoIcon, term |-> t])
       /\ UNCHANGED <<pending, tasks>>
    \/ /\ c[r] = Unknown
       /\ pending' = [pending EXCEPT ![r] = Append(@, t)]
       /\ tasks' = IF pending[r] # <<>> THEN tasks
                   ELSE Append(tasks, [root |-> r, found |-> Unknown])
       /\ UNCHANGED idles

\* workspace_request_terminal_icon: the terminal is created in, or its shell
\* enters, a directory of project r.
EnterProject(t, r) ==
    LET x == SetIcon(term, Forget(cache, r), {t}, r, Lookup(cache, r))
    IN  /\ r \in Roots /\ UnderWay < MaxIdles
        /\ term' = x.ts
        /\ cache' = x.c
        /\ IF Cached(cache, r) THEN UNCHANGED <<pending, tasks, idles>>
           ELSE Request(x.c, t, r)
        /\ UNCHANGED disk

LeaveProjects(t) ==
    LET x == SetIcon(term, cache, {t}, NoRoot, NoIcon)
    IN  /\ term' = x.ts /\ cache' = x.c
        /\ UNCHANGED <<disk, pending, tasks, idles>>

\* The terminal is finalized: the weak pointers to it are cleared.
CloseTerminal(t) ==
    /\ term' = [term EXCEPT ![t] = [root |-> NoRoot, icon |-> NoIcon]]
    /\ pending' = [r \in Roots |-> ReplaceAll(pending[r], t, NoTerm)]
    /\ idles' = [k \in DOMAIN idles |->
                    IF idles[k].term = t THEN [idles[k] EXCEPT !.term = NoTerm]
                    ELSE idles[k]]
    /\ UNCHANGED <<disk, cache, tasks>>

\* search_for_icon: the best candidate it met before its three seconds were up,
\* which may be any, or none of those there are.
SearchEnds(k) ==
    /\ tasks[k].found = Unknown
    /\ \E i \in {NoIcon} \cup {i \in disk : i[1] = tasks[k].root} :
          tasks' = [tasks EXCEPT ![k].found = i]
    /\ UNCHANGED <<disk, cache, pending, idles, term>>

\* icon_search_complete: the listeners are taken off, then called one by one.
SearchCompletes(k) ==
    LET r == tasks[k].root
        c == Forget([cache EXCEPT ![r] = tasks[k].found], r)
        x == Resolved([ts |-> term, c |-> c], ToSet(pending[r]), r, Lookup(c, r))
    IN  /\ tasks[k].found # Unknown
        /\ tasks' = RemoveAt(tasks, k)
        /\ pending' = [pending EXCEPT ![r] = <<>>]
        /\ cache' = x.c /\ term' = x.ts
        /\ UNCHANGED <<disk, idles>>

\* dispatch_idle_cb; idles of one priority run in order.
IdleAnswers ==
    LET d == Head(idles)
        x == Resolved([ts |-> term, c |-> cache], {d.term}, d.root, d.icon)
    IN  /\ idles # <<>>
        /\ idles' = Tail(idles)
        /\ term' = x.ts /\ cache' = x.c
        /\ UNCHANGED <<disk, pending, tasks>>

FileComesOrGoes ==
    /\ \E i \in Icons : disk' = SymDiff(disk, {i})
    /\ UNCHANGED <<cache, pending, tasks, idles, term>>

IconNext ==
    \/ \E t \in IconTerms : \/ \E r \in Roots : EnterProject(t, r)
                            \/ LeaveProjects(t)
                            \/ CloseTerminal(t)
    \/ \E k \in DOMAIN tasks : SearchEnds(k) \/ SearchCompletes(k)
    \/ IdleAnswers
    \/ FileComesOrGoes

IconSpec == IconInit /\ [][IconNext]_iconVars

SearchOf(r) ==
    \E k \in DOMAIN tasks : tasks[k].root = r /\ (SearchEnds(k) \/ SearchCompletes(k))

\* The search has a deadline, its completion and the idles are sources of the
\* main loop.
IconFairness ==
    /\ \A r \in Roots : WF_iconVars(SearchOf(r))
    /\ WF_iconVars(IdleAnswers)

IconFairSpec == IconSpec /\ IconFairness

-----------------------------------------------------------------------------
(* What must hold *)

\* A root has listeners exactly as long as one search of it is under way: none
\* waits for nothing, and no project is searched twice at a time.
\* (project_icon_cache_request and icon_search_complete.)
OneSearch ==
    /\ \A j, k \in DOMAIN tasks : tasks[j].root = tasks[k].root => j = k
    /\ \A r \in Roots : pending[r] # <<>> <=> \E k \in DOMAIN tasks : tasks[k].root = r

\* Every listener is called in the end.
ListenersCalled == \A r \in Roots : pending[r] # <<>> ~> pending[r] = <<>>

\* The icon of a terminal is never one of a project it has left.
TabIcon == INSTANCE LatestAnswer WITH
    Clients <- IconTerms, Questions <- Roots, None <- NoRoot,
    asked <- [t \in IconTerms |-> term[t].root],
    shown <- [t \in IconTerms |-> IF term[t].icon = NoIcon THEN NoRoot
                                  ELSE term[t].icon[1]]

IconImplementsLatest == TabIcon!Spec

=============================================================================
