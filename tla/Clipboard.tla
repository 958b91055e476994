----------------------------- MODULE Clipboard -----------------------------
(***************************************************************************)
(* The clipboard between ghostty and GDK: main.c (read_clipboard_cb,       *)
(* confirm_read_clipboard_cb, write_clipboard_cb and their answers),       *)
(* ghostty_terminal.c (the request a terminal owns, and what dispose does  *)
(* with it) and app_actions.c (the action terminal.paste).                 *)
(*                                                                         *)
(* A handler runs to its end on the GTK main loop.  What interleaves is    *)
(* the end of GDK's asynchronous reads, the answers to dialogs, and the    *)
(* closing of terminals.  A request is known by its address, which ghostty *)
(* frees when the request is settled and may hand out again.               *)
(***************************************************************************)
EXTENDS FiniteSets

CONSTANTS
    Terminals,
    Addresses,   \* of ghostty's clipboard requests
    None         \* the NULL pointer

ASSUME NoneAssumption == None \notin Terminals \cup Addresses

VARIABLES
    alive,      \* terminals not yet disposed of
    state,      \* clip_state of each terminal
    dialog,     \* terminals whose clip_dialog is set
    owed,       \* ghostty's view: the terminal each live request belongs to
    reads,      \* the ClipboardReadCtx of reads GDK has not finished
    prompts,    \* the confirmation dialogs that exist
    closing,    \* those of them with a destroy_dialog_idle queued
    pastes,     \* surfaces held by reads of terminal.paste
    asking,     \* terminals with a dialog up for a clipboard write
    board,      \* the terminal that wrote the GDK clipboard last
    freed       \* kinds of freed memory the program has used

clip == <<state, dialog>>
vars == <<alive, state, dialog, owed, reads, prompts, closing, pastes, asking,
          board, freed>>

\* ClipboardReadCtx and ClipboardConfirmCtx: a weak reference, and a request.
Context == [term : Terminals, state : Addresses]

Ctx(t, a) == [term |-> t, state |-> a]

TypeOK ==
    /\ alive \in SUBSET Terminals
    /\ state \in [Terminals -> Addresses \cup {None}]
    /\ dialog \in SUBSET {t \in alive : state[t] # None}
    /\ owed \in [Addresses -> Terminals \cup {None}]
    /\ reads \in SUBSET Context
    /\ prompts \in SUBSET Context
    /\ closing \in SUBSET Context
    /\ pastes \in SUBSET Terminals
    /\ asking \in SUBSET Terminals
    /\ board \in Terminals \cup {None}
    /\ freed \in SUBSET {"request", "surface"}

Init ==
    /\ alive = Terminals
    /\ state = [t \in Terminals |-> None]
    /\ dialog = {}
    /\ owed = [a \in Addresses |-> None]
    /\ reads = {} /\ prompts = {} /\ closing = {}
    /\ pastes = {} /\ asking = {}
    /\ board = None
    /\ freed = {}

\* ghostty_terminal_clipboard_is_pending, on what the weak reference gives
IsPending(c) == c.term \in alive /\ state[c.term] = c.state

\* ghostty completes or denies a request: the request is freed.  One that is
\* not a live request of that terminal's surface is a use of freed memory.
Settle(t, a) ==
    /\ owed' = [owed EXCEPT ![a] = None]
    /\ freed' = IF owed[a] = t THEN freed ELSE freed \cup {"request"}

\* ghostty_terminal_clipboard_end
End(t) ==
    /\ state' = [state EXCEPT ![t] = None]
    /\ dialog' = dialog \ {t}

-----------------------------------------------------------------------------
(* Reads *)

\* Mutant of ReadClipboard: a second request takes the place of the first.
ReadClipboardOver(t, a) ==
    /\ t \in alive /\ owed[a] = None
    /\ owed' = [owed EXCEPT ![a] = t]
    /\ state' = [state EXCEPT ![t] = a]
    /\ dialog' = dialog \ {t}
    /\ reads' = reads \cup {Ctx(t, a)}
    /\ UNCHANGED <<alive, prompts, closing, pastes, asking, board, freed>>

\* read_clipboard_cb that answers STARTED and registers the request.  While a
\* request is outstanding a new one is denied at once, and an answer of
\* UNAVAILABLE or UNSUPPORTED leaves the request to ghostty: neither leaves
\* anything behind.
ReadClipboard(t, a) ==
    /\ t \in alive /\ owed[a] = None
    /\ state[t] = None
    /\ owed' = [owed EXCEPT ![a] = t]
    /\ state' = [state EXCEPT ![t] = a]
    /\ dialog' = dialog \ {t}
    /\ reads' = reads \cup {Ctx(t, a)}
    /\ UNCHANGED <<alive, prompts, closing, pastes, asking, board, freed>>

\* clipboard_read_done_cb: ghostty takes the text, or calls
\* confirm_read_clipboard_cb from inside the completion and keeps the request.
Taken(c) ==
    /\ Settle(c.term, c.state)
    /\ End(c.term)
    /\ UNCHANGED prompts

Confirm(c) ==
    /\ prompts' = prompts \cup {c}
    /\ dialog' = dialog \cup {c.term}
    /\ UNCHANGED <<state, owed, freed>>

\* Mutant of ReadDone: the request is not looked for again.
ReadDoneBlind(c) ==
    /\ c \in reads
    /\ reads' = reads \ {c}
    /\ Taken(c) \/ Confirm(c)
    /\ UNCHANGED <<alive, closing, pastes, asking, board>>

ReadDone(c) ==
    /\ c \in reads
    /\ reads' = reads \ {c}
    /\ \/ IsPending(c) /\ (Taken(c) \/ Confirm(c))
       \/ ~IsPending(c) /\ UNCHANGED <<clip, owed, prompts, freed>>
    /\ UNCHANGED <<alive, closing, pastes, asking, board>>

\* Mutant of Respond: Cancel leaves the request where it is.
RespondAllowOnly(c) ==
    /\ c \in prompts
    /\ prompts' = prompts \ {c}
    /\ closing' = closing \ {c}
    /\ \/ IsPending(c) /\ Settle(c.term, c.state) /\ End(c.term)
       \/ UNCHANGED <<clip, owed, freed>>
    /\ UNCHANGED <<alive, reads, pastes, asking, board>>

\* clipboard_confirm_response_cb: allow completes the request, anything else
\* denies it.
Respond(c) ==
    /\ c \in prompts
    /\ prompts' = prompts \ {c}
    /\ closing' = closing \ {c}
    /\ IF IsPending(c) THEN Settle(c.term, c.state) /\ End(c.term)
                       ELSE UNCHANGED <<clip, owed, freed>>
    /\ UNCHANGED <<alive, reads, pastes, asking, board>>

\* destroy_dialog_idle: no response is emitted.
DestroyDialog(c) ==
    /\ c \in closing
    /\ closing' = closing \ {c}
    /\ prompts' = prompts \ {c}
    /\ UNCHANGED <<alive, clip, owed, reads, pastes, asking, board, freed>>

-----------------------------------------------------------------------------
(* terminal.paste, writes, and the end of a terminal *)

\* The surface itself is handed to GDK's read, not a reference to its terminal.
Paste(t) ==
    /\ t \in alive
    /\ pastes' = pastes \cup {t}
    /\ UNCHANGED <<alive, clip, owed, reads, prompts, closing, asking, board, freed>>

\* on_clipboard_text_received
TextReceived(t) ==
    /\ t \in pastes
    /\ pastes' = pastes \ {t}
    /\ freed' = IF t \in alive THEN freed ELSE freed \cup {"surface"}
    /\ UNCHANGED <<alive, clip, owed, reads, prompts, closing, asking, board>>

\* write_clipboard_cb, when ghostty's clipboard-write is "allow" and "ask"
Write(t) ==
    /\ t \in alive
    /\ board' = t
    /\ UNCHANGED <<alive, clip, owed, reads, prompts, closing, pastes, asking, freed>>

AskToWrite(t) ==
    /\ t \in alive
    /\ asking' = asking \cup {t}
    /\ UNCHANGED <<alive, clip, owed, reads, prompts, closing, pastes, board, freed>>

\* Mutant of WriteResponse: the terminal may be gone.
WriteResponseLate(t) ==
    /\ t \in asking
    /\ asking' = asking \ {t}
    /\ board' \in {board, t}
    /\ UNCHANGED <<alive, clip, owed, reads, prompts, closing, pastes, freed>>

\* clipboard_write_response_cb: allowed or not.
WriteResponse(t) ==
    /\ t \in asking
    /\ asking' = asking \ {t}
    /\ board' \in {board} \cup (alive \cap {t})
    /\ UNCHANGED <<alive, clip, owed, reads, prompts, closing, pastes, freed>>

\* Mutant of Dispose: the dialog is left to the user.
DisposeKeepDialog(t) ==
    /\ t \in alive
    /\ alive' = alive \ {t}
    /\ IF state[t] # None THEN Settle(t, state[t]) ELSE UNCHANGED <<owed, freed>>
    /\ End(t)
    /\ UNCHANGED <<reads, prompts, closing, pastes, asking, board>>

\* The tab is closed: ghostty_terminal_clipboard_abort, then the surface goes.
\* A cancelled read still ends, later.
Dispose(t) ==
    /\ t \in alive
    /\ alive' = alive \ {t}
    /\ IF state[t] # None THEN Settle(t, state[t]) ELSE UNCHANGED <<owed, freed>>
    /\ closing' = IF t \in dialog THEN closing \cup {c \in prompts : c.term = t}
                                  ELSE closing
    /\ End(t)
    /\ UNCHANGED <<reads, prompts, pastes, asking, board>>

Next ==
    \/ \E t \in Terminals :
          \/ \E a \in Addresses : ReadClipboard(t, a)
          \/ Paste(t) \/ TextReceived(t)
          \/ Write(t) \/ AskToWrite(t) \/ WriteResponse(t)
          \/ Dispose(t)
    \/ \E c \in Context : ReadDone(c) \/ Respond(c) \/ DestroyDialog(c)

Spec == Init /\ [][Next]_vars

\* GDK ends every read, cancelled or not, and the main loop runs its idles.
\* Nothing makes a user answer a dialog.
Fairness == \A c \in Context : WF_vars(ReadDone(c)) /\ WF_vars(DestroyDialog(c))

FairSpec == Spec /\ Fairness

-----------------------------------------------------------------------------
(* What must hold *)

\* "Returning STARTED promises we will eventually settle the request", and the
\* terminal "owns the outstanding request": a request ghostty waits for is the
\* one its terminal has on record, and exactly one of a read in flight and an
\* open dialog will settle it.  (main.c, ghostty_terminal.c, clip_state.)
PromiseKept ==
    \A a \in Addresses, t \in Terminals :
        /\ owed[a] = t <=> (t \in alive /\ state[t] = a)
        /\ owed[a] = t => ((Ctx(t, a) \in reads) <=> (Ctx(t, a) \notin prompts))

\* "Every path below settles the request exactly once": no request is completed
\* or denied that ghostty has freed, or has given to another terminal.
\* (main.c, the callbacks.)
SettledOnce == "request" \notin freed

\* "The GDK read is async, so the terminal may be closed before it lands": the
\* text that terminal.paste reads must not go to a surface that was freed.
\* (app_actions.c, on_clipboard_text_received.)
PasteReachesLive == "surface" \notin freed

\* "Closing the tab must not leave a prompt behind that can still overwrite the
\* clipboard on behalf of a dead process."  (main.c, clipboard_write_response_cb.)
DeadDoNotWrite == [][board' # board => board' \in alive]_vars

\* A request is settled, or the user is asked: it never just hangs.
\* (main.c, clipboard_read_done_cb and the cancelled read.)
SettledOrAsked ==
    \A a \in Addresses, t \in Terminals :
        owed[a] = t ~> (owed[a] # t \/ Ctx(t, a) \in prompts)

\* The dialog of a closed terminal goes, although no response is emitted.
\* (ghostty_terminal.c, destroy_dialog_idle.)
DialogGoes ==
    \A c \in Context :
        (c \in prompts /\ c.term \notin alive) ~> c \notin prompts

=============================================================================
