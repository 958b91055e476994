------------------------------ MODULE Instances ------------------------------
(***************************************************************************)
(* Processes of the program on one machine: the ids they take, the sockets *)
(* they serve, the session files they share and the workspaces they hand   *)
(* to each other (app_state.c, socket_server.c, session.c, main.c and      *)
(* workspace_move_to_instance in workspace.c).                             *)
(*                                                                         *)
(* An id is a slot of one lane: the lane itself is 1, lane-2 is 2.  A      *)
(* session file is the set of its workspaces (SavedPanes has what becomes  *)
(* of each), empty where there is no file; a socket file is the process    *)
(* that listens there.                                                     *)
(***************************************************************************)
EXTENDS Naturals, FiniteSets

CONSTANTS
    Procs, Workspaces,
    MaxSlot,       \* bound: 1000 in the code
    MaxCrashes,    \* bound: processes killed
    Sharing,       \* may two processes run with one id?
    Blank,         \* any workspace the program made by itself
    None, Stale    \* no file, a socket file nobody listens to

ASSUME SlotAssumption == MaxSlot \in Nat \ {0}
ASSUME CrashAssumption == MaxCrashes \in Nat
ASSUME NoneAssumption == Blank \notin Workspaces /\ None \notin Procs /\ Stale \notin Procs \cup {None}
ASSUME SharingAssumption == Sharing \in BOOLEAN

VARIABLES
    phase,      \* of each process: off, then what on_activate has come to, then up
    id,         \* app_state()->instance_id
    own,        \* socket_path is set: it served a socket when it started
    path,       \* the socket file of each slot
    has,        \* workspaces
    file,       \* the session file of each slot
    move,       \* its blocking call of workspace_move_to_instance
    open,       \* the workspaces the user opened and did not close
    unsaved,    \* workspaces that were in a killed process and not in its file
    crashes

procVars == <<phase, id, own, has, move>>
history  == <<open, unsaved, crashes>>
vars     == <<procVars, path, file, history>>

Slot == 1..MaxSlot
Kept == Workspaces \cup {Blank}
NoMove == [state |-> "none", to |-> None, ws |-> Blank]
Move == [state : {"asked", "ok", "error"}, to : Procs, ws : Kept]

TypeOK ==
    /\ phase \in [Procs -> {"off", "named", "free", "stale", "ready", "up"}]
    /\ id \in [Procs -> Slot] /\ own \in [Procs -> BOOLEAN]
    /\ path \in [Slot -> Procs \cup {None, Stale}]
    /\ has \in [Procs -> SUBSET Kept]
    /\ file \in [Slot -> SUBSET Kept]
    /\ move \in [Procs -> Move \cup {NoMove}]
    /\ open \in SUBSET Workspaces /\ unsaved \in SUBSET Kept
    /\ crashes \in 0..MaxCrashes
    /\ \A p \in Procs :
          /\ phase[p] = "up" <=> has[p] # {}
          /\ phase[p] # "up" => move[p] = NoMove
          /\ own[p] => phase[p] \in {"ready", "up"}
    /\ \A i \in Slot : path[i] \in Procs => own[path[i]] /\ id[path[i]] = i
    /\ Sharing \/ \A p \in Procs : own[p] => path[id[p]] = p

Listens(i) == path[i] \in Procs    \* socket_path_is_connectable
Saved(i)   == file[i] # {}         \* instance_id_has_saved_session

Waiting(p) == move[p].state = "asked"
Free(p)    == phase[p] = "up" /\ move[p] = NoMove   \* in its main loop

OnDisk == UNION {file[i] : i \in Slot}
Held   == UNION {has[p] : p \in Procs}
Unused == Workspaces \ (open \cup Held \cup OnDisk)

Init ==
    /\ phase = [p \in Procs |-> "off"] /\ id = [p \in Procs |-> 1]
    /\ own = [p \in Procs |-> FALSE] /\ has = [p \in Procs |-> {}]
    /\ move = [p \in Procs |-> NoMove]
    /\ path = [i \in Slot |-> None] /\ file = [i \in Slot |-> {}]
    /\ open = {} /\ unsaved = {} /\ crashes = 0

-----------------------------------------------------------------------------
(* Starting *)

First(S) == CHOOSE i \in S : \A j \in S : i <= j

\* assign_nested_child_instance_id: a saved lane nobody serves, the base first,
\* then one that is unused; the base if all are served.
ChildSlot(saved, live) ==
    LET offline == saved \ live
        unused  == Slot \ (saved \cup live)
    IN  IF offline # {} THEN First(offline)
        ELSE IF unused # {} THEN First(unused) ELSE 1

\* Nothing in the code keeps two processes from having one id.
Named(p, i) ==
    /\ phase[p] = "off"
    /\ Sharing \/ \A q \in Procs : phase[q] # "off" => id[q] # i
    /\ phase' = [phase EXCEPT ![p] = "named"] /\ id' = [id EXCEPT ![p] = i]
    /\ UNCHANGED <<own, has, move, path, file, history>>

\* app_state_init_instance_id_from_env, with an id of its own or a child's.
Launch(p) == \E i \in Slot : Named(p, i)
LaunchNested(p) == Named(p, ChildSlot({i \in Slot : Saved(i)}, {i \in Slot : Listens(i)}))

Enters(p, from, to) == phase[p] = from /\ phase' = [phase EXCEPT ![p] = to]

\* socket_server_start: is there a file, and does somebody listen?
CheckSocket(p) ==
    /\ Enters(p, "named", IF path[id[p]] = None THEN "free"
                          ELSE IF Listens(id[p]) THEN "ready" ELSE "stale")
    /\ UNCHANGED <<id, own, has, move, path, file, history>>

\* g_unlink removes whatever the name stands for by now.
Unlink(p) ==
    /\ Enters(p, "stale", "free")
    /\ path' = [path EXCEPT ![id[p]] = None]
    /\ UNCHANGED <<id, own, has, move, file, history>>

\* g_socket_listener_add_address fails on a file that exists.
Bind(p) ==
    LET bound == path[id[p]] = None
    IN  /\ Enters(p, "free", "ready")
        /\ own' = [own EXCEPT ![p] = bound]
        /\ path' = IF bound THEN [path EXCEPT ![id[p]] = p] ELSE path
        /\ UNCHANGED <<id, has, move, file, history>>

\* The rest of on_activate: workspace_add, and the session if there is one.
Restore(p) ==
    /\ Enters(p, "ready", "up")
    /\ has' = [has EXCEPT ![p] = IF Saved(id[p]) THEN file[id[p]] ELSE {Blank}]
    /\ UNCHANGED <<id, own, move, path, file, history>>

-----------------------------------------------------------------------------
(* Saving *)

\* session_save: the file names what the process has.
Written(p) == file' = [file EXCEPT ![id[p]] = has[p]]

\* From the timer or a queued idle, so at any time (SaveQueue has when).
Save(p) ==
    /\ Free(p) /\ Written(p)
    /\ UNCHANGED <<procVars, path, history>>

-----------------------------------------------------------------------------
(* Workspaces *)

AddWorkspace(p) ==
    /\ Free(p)
    /\ \E w \in Unused : has' = [has EXCEPT ![p] = @ \cup {w}] /\ open' = open \cup {w}
    /\ UNCHANGED <<phase, id, own, move, path, file, unsaved, crashes>>

\* workspace_remove
RemoveWorkspace(p) ==
    /\ Free(p) /\ Cardinality(has[p]) > 1
    /\ \E w \in has[p] : has' = [has EXCEPT ![p] = @ \ {w}] /\ open' = open \ {w}
    /\ UNCHANGED <<phase, id, own, move, path, file,
                   unsaved, crashes>>

\* workspace_move_to_instance up to the blocking read: the target must listen.
AskMove(p) ==
    /\ Free(p)
    /\ \E w \in has[p], i \in Slot \ {id[p]} :
          /\ Listens(i)
          /\ move' = [move EXCEPT ![p] = [state |-> "asked", to |-> path[i], ws |-> w]]
    /\ UNCHANGED <<phase, id, own, has, path, file, history>>

Reply(p, s) == move' = [move EXCEPT ![p].state = s]

\* on_client_read in the target q: the command workspace.import, which may fail.
Import(q) ==
    /\ Free(q)
    /\ \E p \in Procs :
          /\ Waiting(p) /\ move[p].to = q
          /\ \/ Reply(p, "ok") /\ has' = [has EXCEPT ![q] = @ \cup {move[p].ws}]
             \/ Reply(p, "error") /\ UNCHANGED has
    /\ UNCHANGED <<phase, id, own, path, file, history>>

\* Mutant of Detached: the workspace goes whatever the answer.
DetachedAlways(p) == has[p] \ {move[p].ws}

\* Mutant of Detached: the workspace stays.
DetachedNever(p) == has[p]

\* What the answer leaves.
Detached(p) == IF move[p].state = "ok" THEN has[p] \ {move[p].ws} ELSE has[p]

\* The rest of workspace_move_to_instance; an instance left
\* with none makes one.
MoveAnswered(p) ==
    /\ move[p].state \in {"ok", "error"}
    /\ move' = [move EXCEPT ![p] = NoMove]
    /\ has' = [has EXCEPT ![p] = IF Detached(p) = {} THEN {Blank} ELSE Detached(p)]
    /\ UNCHANGED <<phase, id, own, path, file, history>>

-----------------------------------------------------------------------------
(* Ending *)

\* Mutant of Gone: nobody hears of it.
GoneSilently(p) ==
    /\ phase' = [phase EXCEPT ![p] = "off"] /\ id' = [id EXCEPT ![p] = 1]
    /\ own' = [own EXCEPT ![p] = FALSE] /\ has' = [has EXCEPT ![p] = {}]
    /\ move' = [move EXCEPT ![p] = NoMove]

\* Whoever waits for p reads the end of the stream, which is no answer.
Gone(p) ==
    /\ phase' = [phase EXCEPT ![p] = "off"] /\ id' = [id EXCEPT ![p] = 1]
    /\ own' = [own EXCEPT ![p] = FALSE] /\ has' = [has EXCEPT ![p] = {}]
    /\ move' = [q \in Procs |-> IF q = p THEN NoMove
                                ELSE IF Waiting(q) /\ move[q].to = p
                                     THEN [move[q] EXCEPT !.state = "error"]
                                     ELSE move[q]]

\* perform_app_quit: the last save, and socket_server_stop unlinks the name.
Quit(p) ==
    /\ Free(p) /\ Gone(p) /\ Written(p)
    /\ path' = IF own[p] THEN [path EXCEPT ![id[p]] = None] ELSE path
    /\ UNCHANGED history

\* A killed process leaves its socket file.
Crash(p) ==
    /\ phase[p] # "off" /\ crashes < MaxCrashes
    /\ Gone(p)
    /\ path' = [i \in Slot |-> IF path[i] = p THEN Stale ELSE path[i]]
    /\ unsaved' = unsaved \cup (has[p] \ file[id[p]])
    /\ crashes' = crashes + 1
    /\ UNCHANGED <<file, open>>

Starts(p) == CheckSocket(p) \/ Unlink(p) \/ Bind(p) \/ Restore(p)

Next ==
    \E p \in Procs :
        \/ Launch(p) \/ LaunchNested(p)
        \/ CheckSocket(p) \/ Unlink(p) \/ Bind(p) \/ Restore(p)
        \/ Save(p) \/ AddWorkspace(p) \/ RemoveWorkspace(p)
        \/ AskMove(p) \/ Import(p) \/ MoveAnswered(p)
        \/ Quit(p) \/ Crash(p)

Spec == Init /\ [][Next]_vars

\* on_activate comes to its end, and a main loop gets to each of its sources
\* again and again.  Timers, users and kills are not relied on.
Fairness ==
    \A p \in Procs :
        /\ WF_vars(Starts(p)) /\ WF_vars(MoveAnswered(p))
        /\ SF_vars(Import(p))

FairSpec == Spec /\ Fairness

-----------------------------------------------------------------------------
(* What must hold *)

\* The ids under which workspace w lives: it is in the process of that id, or
\* in the file of an id that no process has up.
Homes(w) ==
    {i \in Slot :
        \/ \E p \in Procs : phase[p] = "up" /\ id[p] = i /\ w \in has[p]
        \/ w \in file[i] /\ \A p \in Procs : phase[p] = "up" => id[p] # i}

\* A workspace is lost only if its process is killed
\* before it saved it; in particular no move, failed or not, loses it.
NothingLost == \A w \in open \ unsaved : Homes(w) # {}

\* If nothing is killed either, it lives in one place, except between the
\* target's import and the source's detaching it.
OneHome ==
    crashes = 0 =>
        \A w \in Workspaces :
            \/ Cardinality(Homes(w)) <= 1
            \/ \E p \in Procs : move[p].state = "ok" /\ move[p].ws = w

\* Processes wait for each other in a circle, or for one that does.
InCircle(p) ==
    \E S \in SUBSET Procs : p \in S /\ \A x \in S : Waiting(x) /\ move[x].to \in S

\* A move ends, unless the processes wait for each other.
MovesEnd == \A p \in Procs : Waiting(p) ~> (~Waiting(p) \/ InCircle(p))

\* "Remove stale socket file only if it is not live": a name somebody listens
\* to is taken away only by that process.
OnlyStaleRemoved ==
    [][\A p \in Procs, i \in Slot :
          path[i] = p /\ path'[i] # p => phase'[p] = "off"]_vars

=============================================================================
