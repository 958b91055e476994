---------------------------- MODULE LatestAnswer ----------------------------
(***************************************************************************)
(* What a label fed by slow readers promises: it may lag behind the        *)
(* question its client asks, or be blank, but it never takes the answer to *)
(* a question that is no longer the client's.                              *)
(***************************************************************************)

CONSTANTS Clients, Questions, None

VARIABLES
    asked,   \* the question of each client; None: none
    shown    \* the question whose answer its label shows; None: an empty label

Init == asked = [c \in Clients |-> None] /\ shown = [c \in Clients |-> None]

\* The label of c keeps what it shows, is cleared, or gets the answer to the
\* question c asks by then; a cached answer comes with the question.
Label(c) == shown'[c] \in {shown[c], asked'[c], None}

\* One event of the program may concern several clients.
Next ==
    /\ asked' \in [Clients -> Questions \cup {None}]
    /\ shown' \in [Clients -> Questions \cup {None}]
    /\ \A c \in Clients : Label(c)

Spec == Init /\ [][Next]_<<asked, shown>>

=============================================================================
