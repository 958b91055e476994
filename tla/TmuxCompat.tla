----------------------------- MODULE TmuxCompat -----------------------------
(***************************************************************************)
(* The tmux that prettymux claude-teams gives to its child                 *)
(* (prettymux_agent_cli.c): every tmux command is a process of its own     *)
(* that loads a state file, talks to the window over its socket, one       *)
(* request at a time (socket_commands.c), and saves the file, which nothing*)
(* locks.  A request and the reply to it are one step: the process waits,  *)
(* and the window handles a request to its end.                            *)
(*                                                                         *)
(* The pane and the workspace in front are not kept: the user, or a split, *)
(* moves the focus at any time, so whatever asks for them may be given any.*)
(* Sizes (resize-pane, equalize_splits), tabs (new-window) and commands    *)
(* that only print are left out.  Panes are those of the classic layout.   *)
(***************************************************************************)
EXTENDS Naturals, FiniteSets, SequencesExt

CONSTANTS
    Clients,
    NumWs,       \* bound on the workspaces there are at a time
    MaxPanes,    \* bound on the panes ever made
    Attempts     \* retry_attempts, at least one

ASSUME TeamAssumption ==
    /\ IsFiniteSet(Clients)
    /\ NumWs \in Nat \ {0} /\ MaxPanes \in Nat /\ MaxPanes >= NumWs
    /\ Attempts \in Nat \ {0}

VARIABLES
    order,      \* the list of workspaces
    panes,      \* pane_notebooks of each
    column,     \* the pane whose split to the right began a pane's column
    made,       \* how many panes were ever made
    team,       \* how far claude-teams has come
    file,       \* the state file; until it is there, what claude-teams holds
    run,        \* the command each client runs
    typed,      \* the last text: the pane it was for, and the pane that got it
    mates,      \* history: the panes split-window has made, the teammates'
    past        \* history: the worst that has happened to the team, a Mark

teamVars == <<order, panes, column, made, team, file, run, typed, mates, past>>

NoPane == 0
Pane   == 1..MaxPanes
Ws     == 1..NumWs
Layout == {"", "main-vertical"}

\* A number of a workspace in the list; 0 for all that are too large or negative.
Number == 0..NumWs

\* TmuxCompatState
State == [ws : Number, leader : Pane \cup {NoPane}, last : Pane \cup {NoPane},
          layout : Layout]

\* A command: what it does next, the state it loaded, the pane it is about,
\* how often it has failed to type.
Command == [pc : {"idle", "split", "save", "type", "close", "list"},
            op : {"", "split", "layout", "kill", "send"},
            st : State, pane : Pane \cup {NoPane}, tries : 0..Attempts - 1,
            down : BOOLEAN]

\* What has happened to the team: nothing but splits of the leader in a
\* main-vertical layout, and other panes closed; other splits, or the last
\* teammate closed with a pane of the user's in its place; panes of its workspace
\* closed by hand, two commands that save at a time, or a save that failed; the
\* number in the file made to name another workspace, or none.
Clean == 0
Aside == 1
Meddled == 2
Renumbered == 3
Mark == Clean..Renumbered

Blank == [ws |-> 1, leader |-> NoPane, last |-> NoPane, layout |-> ""]

Idle == [pc |-> "idle", op |-> "", st |-> Blank, pane |-> NoPane, tries |-> 0,
         down |-> FALSE]

NoText == [op |-> "", for |-> NoPane, got |-> NoPane]

TeamTypeOK ==
    /\ order \in Seq(Ws) /\ IsInjective(order) /\ order # <<>>
    /\ panes \in [Ws -> Seq(Pane)]
    /\ \A w \in Ws : (w \in ToSet(order)) = (panes[w] # <<>>)
    /\ column \in [Pane -> Pane]
    /\ made \in Pane
    /\ team \in {"off", "asked", "on"}
    /\ file \in State
    /\ run \in [Clients -> Command]
    /\ typed \in [op : {"", "split", "send"}, for : Pane \cup {NoPane},
                 got : Pane \cup {NoPane}]
    /\ mates \subseteq Pane
    /\ past \in Mark

\* Some workspaces, with one pane each.
TeamInit ==
    /\ made \in Ws
    /\ order = [k \in 1..made |-> k]
    /\ panes = [w \in Ws |-> IF w <= made THEN <<w>> ELSE <<>>]
    /\ column = [p \in Pane |-> p]
    /\ team = "off"
    /\ file = Blank
    /\ run = [c \in Clients |-> Idle]
    /\ typed = NoText
    /\ mates = {}
    /\ past = Clean

Running(c) == run[c].pc # "idle"

Noted(mark) == past' = Max({past, mark})

Open == UNION {ToSet(panes[w]) : w \in Ws}

\* The workspace a number names, if any, and the one the team is in.
Names(n) == IF n \in DOMAIN order THEN {order[n]} ELSE {}
Team == IF team = "on" THEN Names(file.ws) ELSE {}

\* Panes may be made, besides those that commands are about to make.
Room == made + Cardinality({c \in Clients : run[c].pc = "split"}) < MaxPanes

-----------------------------------------------------------------------------
(* The window: what its socket commands do *)

\* The panes of a workspace a request names by number; none if there is none.
PanesAt(n) == IF n \in DOMAIN order THEN panes[order[n]] ELSE <<>>

\* A pane is split: pane.split, or the user
SplitPane(w, p, down) ==
    /\ made' = made + 1
    /\ panes' = [panes EXCEPT ![w] = Append(@, made')]
    /\ column' = [column EXCEPT ![made'] = IF down THEN column[p] ELSE made']

\* pane.close: refused on the only pane.
CanClose(n, p) == p \in ToSet(PanesAt(n)) /\ Len(PanesAt(n)) > 1

ClosePane(w, p) ==
    /\ panes' = [panes EXCEPT ![w] = RemoveFirst(@, p)]
    /\ UNCHANGED column

\* Mutant of Target: the id in the request is not looked at.
TargetFocused(n, p) ==
    UNION {ToSet(panes[w]) : w \in IF Names(n) = {} THEN ToSet(order) ELSE Names(n)}

\* resolve_target_terminal as type and pane.read_text use it: the workspace in
\* front stands in for one that is not there, the pane in focus for a pane.
Target(n, p) ==
    UNION {IF p \in ToSet(panes[w]) THEN {p} ELSE ToSet(panes[w]) :
           w \in IF Names(n) = {} THEN ToSet(order) ELSE Names(n)}

-----------------------------------------------------------------------------
(* The user, and agents that are not of the team *)

\* A pane is closed in the window, or its last shell exits.
CloseByHand(w, p) ==
    /\ p \in ToSet(panes[w]) /\ Len(panes[w]) > 1
    /\ ClosePane(w, p)
    /\ UNCHANGED <<order, made, team, file, run, typed, mates>>
    /\ Noted(IF w \in Team THEN Meddled ELSE Clean)

\* A pane is split, be it the leader's or a teammate's: the new one is nobody's.
SplitByHand(w, p, down) ==
    /\ Room /\ p \in ToSet(panes[w])
    /\ SplitPane(w, p, down)
    /\ UNCHANGED <<order, team, file, run, typed, mates, past>>

\* Does the number in the file still name the workspace of the team?
Renumbers == Noted(IF Team' = Team THEN Clean ELSE Renumbered)

\* workspace_remove, or a move of the workspace to another instance: those after
\* it move down by one.
RemoveWorkspace(n) ==
    /\ n \in DOMAIN order /\ Len(order) > 1
    /\ order' = RemoveAt(order, n)
    /\ panes' = [panes EXCEPT ![order[n]] = <<>>]
    /\ UNCHANGED <<column, made, team, file, run, typed, mates>>
    /\ Renumbers

\* workspace_move_in_array: a row of the sidebar is dragged, those between move
\* by one.
MoveWorkspace(from, to) ==
    /\ from \in DOMAIN order /\ to \in DOMAIN order
    /\ order' = InsertAt(RemoveAt(order, from), to, order[from])
    /\ UNCHANGED <<panes, column, made, team, file, run, typed, mates>>
    /\ Renumbers

\* workspace_add, for the user or for a workspace another instance sends: it is
\* the last, with a pane of its own.
AddWorkspace(w) ==
    /\ Room /\ w \notin ToSet(order)
    /\ order' = Append(order, w)
    /\ made' = made + 1 /\ panes' = [panes EXCEPT ![w] = <<made'>>]
    /\ UNCHANGED <<column, team, file, run, typed, mates>>
    /\ Renumbers

\* workspace_move_to_instance of the only workspace: a new one takes its place.
DetachOnly ==
    /\ Room /\ Len(order) = 1
    /\ made' = made + 1 /\ panes' = [panes EXCEPT ![order[1]] = <<made'>>]
    /\ Noted(IF team = "on" THEN Renumbered ELSE Clean)
    /\ UNCHANGED <<order, column, team, file, run, typed, mates>>

-----------------------------------------------------------------------------
(* claude-teams *)

\* workspace.current: whatever workspace and pane are in front
LaunchAsk(n, p) ==
    /\ team = "off"
    /\ p \in ToSet(PanesAt(n))
    /\ team' = "asked"
    /\ file' = [Blank EXCEPT !.ws = n, !.leader = p]
    /\ UNCHANGED <<order, panes, column, made, run, typed, mates, past>>

\* ipc_resolve_leader_pane: the first pane there is, if the one asked for has
\* gone.  Then create_state_file, and claude runs.
LaunchList ==
    /\ team = "asked"
    /\ LET list == PanesAt(file.ws)
       IN  IF list = <<>> THEN team' = "off" /\ file' = Blank
           ELSE /\ team' = "on"
                /\ file' = [file EXCEPT !.leader = IF @ \in ToSet(list) THEN @
                                                   ELSE list[1]]
    /\ UNCHANGED <<order, panes, column, made, run, typed, mates, past>>

-----------------------------------------------------------------------------
(* The commands.  Each begins by loading the file. *)

Begin(c, r, st) ==
    /\ team = "on" /\ ~Running(c)
    /\ run' = [run EXCEPT ![c] = [r EXCEPT !.st = st]]
    /\ typed' = NoText
    /\ UNCHANGED <<order, panes, column, made, team, file, mates>>

\* Commands that will save the file.
Writers == {"split", "layout", "kill"}

Writing == {c \in Clients : Running(c) /\ run[c].op \in Writers}

NotedAlso(mark) ==
    Noted(IF Writing = {} \/ mark = Renumbered THEN mark ELSE Meddled)

\* The panes an agent can name: its own, those split-window printed, and those
\* list-panes prints, of any workspace; gone or not.
Known == 1..made

\* Mutant of Redirected: never.
RedirectedNever(p, across) == FALSE

\* tmux_split_window: in a main-vertical layout a split to the right of the
\* leader becomes one below the last pane of the column.
Redirected(p, across) ==
    /\ across /\ file.layout = "main-vertical"
    /\ p = file.leader /\ file.last # NoPane

SplitWindow(c, p, across) ==
    LET r == Redirected(p, across)
    IN  /\ Room
        /\ Begin(c, [Idle EXCEPT !.pc = "split", !.op = "split",
                                 !.pane = IF r THEN file.last ELSE p,
                                 !.down = r \/ ~across], file)
        /\ NotedAlso(IF file.layout = "main-vertical" /\ across
                        /\ p = file.leader THEN Clean ELSE Aside)

\* tmux_select_layout: -t names a workspace by its number, and it is the one all
\* later commands are about.  Without it n is the number in the file.
SelectLayout(c, l, n) ==
    /\ Begin(c, [Idle EXCEPT !.pc = "save", !.op = "layout"],
             [file EXCEPT !.layout = l, !.ws = n])
    /\ NotedAlso(IF n = file.ws THEN Clean ELSE Renumbered)

KillPane(c, p) ==
    /\ Begin(c, [Idle EXCEPT !.pc = "close", !.op = "kill", !.pane = p], file)
    /\ NotedAlso(Clean)

\* tmux_send_keys, and tmux_capture_pane, which asks only once
SendOrCapture(c, p, tries) ==
    /\ Begin(c, [Idle EXCEPT !.pc = "type", !.op = "send", !.pane = p,
                             !.tries = tries],
             [Blank EXCEPT !.ws = file.ws])
    /\ UNCHANGED past

-----------------------------------------------------------------------------
(* How they go on *)

Goes(c, pc) == run' = [run EXCEPT ![c].pc = pc]
Ends(c)     == run' = [run EXCEPT ![c] = Idle]

\* The request pane.split: the window answers with the new pane, or an error.
Split(c) ==
    LET r == run[c]
    IN  /\ r.pc = "split"
        /\ \/ /\ r.pane \in ToSet(PanesAt(r.st.ws))
              /\ SplitPane(order[r.st.ws], r.pane, r.down)
              /\ run' = [run EXCEPT ![c].pc = "save", ![c].pane = made',
                                    ![c].st.last = made']
              /\ mates' = mates \cup {made'}
           \/ /\ r.pane \notin ToSet(PanesAt(r.st.ws))
              /\ Ends(c)
              /\ UNCHANGED <<panes, column, made, mates>>
    /\ UNCHANGED <<order, team, file, typed, past>>

\* save_state_to_env: what was loaded, changed, is the file again, or it cannot
\* be written and stays as it is.  Whichever, split-window then types the command
\* of the new pane, if it was given one.
Save(c) ==
    /\ run[c].pc = "save"
    /\ \/ file' = run[c].st /\ UNCHANGED past
       \/ Noted(Meddled) /\ UNCHANGED file
    /\ IF run[c].op = "split" THEN Goes(c, "type") \/ Ends(c)
                              ELSE Ends(c)
    /\ UNCHANGED <<order, panes, column, made, team, typed, mates>>

\* Mutant of Refused: after the last attempt it starts over.
RefusedForever(r) == [r EXCEPT !.tries = IF @ + 1 = Attempts THEN 0 ELSE @ + 1]

\* ipc_type_text_with_retry, on "terminal has no surface"
Refused(r) ==
    IF r.tries + 1 = Attempts THEN Idle ELSE [r EXCEPT !.tries = @ + 1]

\* The requests type and pane.read_text.  The terminal of a new pane has no
\* surface until GTK realizes it.
Type(c) ==
    LET r == run[c]
    IN  /\ r.pc = "type"
        /\ \/ /\ \E t \in Target(r.st.ws, r.pane) :
                    typed' = [op |-> r.op, for |-> r.pane, got |-> t]
              /\ Ends(c)
           \/ /\ run' = [run EXCEPT ![c] = Refused(r)]
              /\ UNCHANGED typed
    /\ UNCHANGED <<order, panes, column, made, team, file, mates, past>>

\* The request pane.close
Close(c) ==
    LET r == run[c]
    IN  /\ r.pc = "close"
        /\ IF CanClose(r.st.ws, r.pane)
           THEN ClosePane(order[r.st.ws], r.pane) /\ Goes(c, "list")
           ELSE Ends(c) /\ UNCHANGED <<panes, column>>
    /\ UNCHANGED <<order, made, team, file, typed, mates, past>>

\* Mutant of Replacement: the first pane, whichever it is.
ReplacementAny(list, leader) == IF list = <<>> THEN NoPane ELSE list[1]

\* find_non_leader_pane_id: the first other pane, a teammate's or not.
Replacement(list, leader) ==
    LET k == SelectInSeq(list, LAMBDA p : p # leader)
    IN  IF k = 0 THEN NoPane ELSE list[k]

\* The request pane.list of tmux_kill_pane
List(c) ==
    LET r    == run[c]
        last == IF r.st.last = r.pane
                THEN Replacement(PanesAt(r.st.ws), r.st.leader) ELSE r.st.last
    IN  /\ r.pc = "list"
        /\ run' = [run EXCEPT ![c].pc = "save", ![c].st.last = last]
        /\ Noted(IF last \in mates \cup {NoPane} THEN Clean ELSE Aside)
    /\ UNCHANGED <<order, panes, column, made, team, file, typed, mates>>

Step(c) == Split(c) \/ Save(c) \/ Type(c) \/ Close(c) \/ List(c)

Start(c) ==
    \/ \E p \in Known :
          \/ \E across \in BOOLEAN : SplitWindow(c, p, across)
          \/ KillPane(c, p)
          \/ \E tries \in {0, Attempts - 1} : SendOrCapture(c, p, tries)
    \/ \E l \in Layout, n \in Number : SelectLayout(c, l, n)

ByHand ==
    \/ \E w \in Ws, p \in Pane :
          CloseByHand(w, p) \/ \E down \in BOOLEAN : SplitByHand(w, p, down)
    \/ \E n \in Ws : RemoveWorkspace(n) \/ AddWorkspace(n)
    \/ \E from, to \in Ws : MoveWorkspace(from, to)
    \/ DetachOnly

TeamNext ==
    \/ ByHand
    \/ \E n \in Ws, p \in Pane : LaunchAsk(n, p)
    \/ LaunchList
    \/ \E c \in Clients : Start(c) \/ Step(c)

TeamSpec == TeamInit /\ [][TeamNext]_teamVars

\* A process runs on, and the window answers it.
TeamFairness == \A c \in Clients : WF_teamVars(Step(c))

-----------------------------------------------------------------------------
(* What must hold *)

\* Between commands the pane that the next split goes below is one that is open
\* in the workspace of the team, and not the leader's: kill-pane puts another in
\* the place of the one it closed, if need be one the user made.  Closing panes
\* there by hand, two commands that save at a time, a save that fails and another
\* workspace under the number in the file are the exceptions.
\* (prettymux_agent_cli.c, tmux_split_window and tmux_kill_pane.)
LastIsBeside ==
    (team = "on" /\ past < Meddled /\ Writing = {})
        => file.last \in {NoPane} \cup (ToSet(PanesAt(file.ws)) \ {file.leader})

\* An agent that only ever splits its own pane, in a main-vertical layout, has
\* all of its teammates in one column, whichever of them it kills and whatever
\* else the user splits, until a pane of the user's takes the place of the last.
\* (prettymux_agent_cli.c, tmux_split_window.)
TeammatesStack ==
    past = Clean => \A p, q \in mates \cap Open : column[p] = column[q]

\* Text is typed into, and read from, the pane that was asked for, as long as
\* that pane is there, in the workspace the file has the number of: no split or
\* close leads it astray, by hand or by another command, and no workspace
\* removed, moved or added that leaves the number to the team.
\* (socket_commands.c, resolve_target_terminal.)
TypedWhereAsked ==
    past # Renumbered /\ typed.for \in ToSet(PanesAt(file.ws))
        => typed.got = typed.for

\* "Send shell command text to the new pane": the text goes there or nowhere.
\* (prettymux_agent_cli.c, tmux_split_window.)
TextReachesPane == typed.op = "split" => typed.got = typed.for

\* Every command ends, although it waits for the window and retries.
\* (prettymux_agent_cli.c, ipc_type_text_with_retry.)
CommandsEnd == \A c \in Clients : Running(c) ~> ~Running(c)

=============================================================================
