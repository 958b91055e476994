------------------------------ MODULE SaveQueue ------------------------------
(***************************************************************************)
(* When one process saves its session (session_queue_save and its callers  *)
(* in session.c, main.c and app_actions.c).  Most changes of what a session *)
(* records ask for a save, which an idle callback does; while a session is *)
(* being restored the requests are dropped and made up for at the end.     *)
(* Other changes ask for nothing: the save every 30 seconds, or that of    *)
(* another change, takes them along.  The state is a version of what there *)
(* is to save; a write may fail, and nothing takes notice of that.         *)
(***************************************************************************)
EXTENDS Naturals

CONSTANT MaxChanges    \* bound: changes

ASSUME ChangesAssumption == MaxChanges \in Nat

VARIABLES
    restoring,    \* session_restoring
    queued,       \* session_save_source_id is set
    quitting,     \* session_shutting_down, g_app_quit_in_progress
    version,      \* what a save would write: how often it has changed
    asked,        \* the version of the last change that asked for a save
    tried,        \* the version at the last save
    saved         \* the version in the file; another one if that write failed

queueVars == <<restoring, queued, quitting, version, asked, tried, saved>>

QueueTypeOK ==
    /\ restoring \in BOOLEAN /\ queued \in BOOLEAN /\ quitting \in BOOLEAN
    /\ version \in 0..MaxChanges /\ asked \in 0..version
    /\ tried \in 0..version /\ saved \in 0..tried
    /\ ~(restoring /\ queued) /\ ~(quitting /\ queued)

\* on_activate has set the context and restored a session, or has found none
\* it can read.
QueueInit ==
    /\ restoring \in BOOLEAN /\ queued = FALSE /\ quitting = FALSE
    /\ version = 0 /\ asked = 0 /\ tried = 0 /\ saved = 0

\* Mutant of Queued: a request is not dropped in a restore.
QueuedAnyway(r, q) == q \/ ~quitting

\* session_queue_save: dropped in a restore or a shutdown; one callback at most.
Queued(r, q) == q \/ ~(quitting \/ r)

Changes ==
    /\ ~quitting /\ version < MaxChanges
    /\ version' = version + 1

\* A change that ends with session_queue_save: by a command of the socket or a
\* shortcut, a name, a theme, the directory of a terminal, a split moved, a tab
\* dragged to another pane by its handle, a workspace to another place.
Change ==
    /\ Changes
    /\ asked' = version'
    /\ queued' = Queued(restoring, queued)
    /\ UNCHANGED <<restoring, quitting, tried, saved>>

\* A change that does not: tabs reordered in a pane, or dragged by GTK to
\* another, and the idle callback that closes the pane they left; Delete in the
\* sidebar; another tab shown (activeTab); the size of the window; the first
\* workspace of a session that starts afresh.
QuietChange ==
    /\ Changes
    /\ UNCHANGED <<restoring, queued, quitting, asked, tried, saved>>

\* session_save_for_instance: what there is now gets into the file, or the write
\* fails and leaves the file alone.
Write ==
    /\ tried' = version
    /\ saved' \in {saved, version}

\* session_save_idle_cb
SaveIdle ==
    /\ queued
    /\ queued' = FALSE /\ Write
    /\ UNCHANGED <<restoring, quitting, version, asked>>

\* Mutant of Autosave: a save only if one was asked for.
AutosaveIfQueued ==
    /\ ~restoring /\ queued
    /\ Write
    /\ UNCHANGED <<restoring, queued, quitting, version, asked>>

\* autosave_tick, which leaves the callback in place.  Its timer is made after
\* that of the restore and is due later, so the restore is over.
Autosave ==
    /\ ~restoring
    /\ Write
    /\ UNCHANGED <<restoring, queued, quitting, version, asked>>

\* session_finish_restore_cb, half a second after the restore.
FinishRestore ==
    /\ restoring
    /\ restoring' = FALSE
    /\ queued' = Queued(FALSE, queued)
    /\ UNCHANGED <<quitting, version, asked, tried, saved>>

\* perform_app_quit: a last save, and session_begin_shutdown takes the callback
\* away.
AppQuit ==
    /\ ~quitting
    /\ Write
    /\ quitting' = TRUE /\ queued' = FALSE
    /\ UNCHANGED <<restoring, version, asked>>

QueueNext ==
    Change \/ QuietChange \/ SaveIdle \/ Autosave \/ FinishRestore \/ AppQuit

\* The main loop gets to its idle callbacks, to the timer of the restore, and
\* again and again to the one of 30 seconds (G_SOURCE_CONTINUE), as long as it
\* runs at all.
QueueFairness ==
    /\ WF_queueVars(SaveIdle) /\ WF_queueVars(FinishRestore)
    /\ WF_queueVars(~quitting /\ Autosave)

QueueSpec == QueueInit /\ [][QueueNext]_queueVars /\ QueueFairness

-----------------------------------------------------------------------------

\* A session half restored is not written over the one it comes from, unless the
\* user quits in that half second.
RestoreUndisturbed == [][restoring /\ saved' # saved => quitting']_queueVars

\* A change that asked for a save has been in one, or a save is on its way: it is
\* queued, or the end of the restore will ask for it.  The timer is not needed.
SaveOnItsWay == tried < asked => queued \/ restoring

\* A save is neither too early nor forgotten. (session.c, session_queue_save and
\* session_finish_restore_cb.)
SavedInTime == []SaveOnItsWay /\ RestoreUndisturbed

\* Every change gets into the file, those nobody asked a save for and those made
\* during a restore included, unless from some time on every write has failed.
\* (main.c, autosave_tick.)
ChangesSaved ==
    \/ <>[](saved # tried)
    \/ \A v \in 1..MaxChanges : version >= v ~> saved >= v

=============================================================================
