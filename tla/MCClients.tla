------------------------------ MODULE MCClients ------------------------------
(***************************************************************************)
(* Clipboard and TmuxCompat for TLC, in one run.  In a behaviour either    *)
(* the clipboard is at work, or a team is, in one of three parts: "splits",*)
(* one client that splits and kills, and a user who interferes once;       *)
(* "types", one client and any three acts of the user and of it, with two  *)
(* workspaces at the start; "pair", two clients that the user leaves alone.*)
(* A part ends when what it is about is no longer claimed.                 *)
(***************************************************************************)
EXTENDS Clipboard, TmuxCompat

VARIABLES
    part,
    hands,    \* how often the user has acted
    begun     \* how many commands have begun

mcVars == <<vars, teamVars, part, hands, begun>>

Other == CHOOSE c \in Clients : TRUE

Parts == {"clipboard", "splits", "types", "pair"}

MCInit ==
    /\ part \in Parts /\ hands = 0 /\ begun = 0
    /\ Init /\ TeamInit
    /\ made = IF part = "types" THEN 2 ELSE 1

\* The panes made, and those that commands are about to make.
Panes == made + Cardinality({c \in Clients : run[c].pc = "split"})

\* Bounds on the acts of the user, on the commands and on the panes.
Within ==
    CASE part = "splits" -> hands' <= 1 /\ begun' <= 4
      [] part = "types"  -> hands' + begun' <= 3 /\ Panes' <= 4
      [] part = "pair"   -> hands' = 0 /\ begun' <= 3 /\ Panes' <= 3

Claims == past < IF part = "splits" THEN Meddled ELSE Renumbered

MCStart(c) ==
    /\ Start(c)
    /\ part # "pair" => c # Other
    /\ part = "splits" => run'[c].op # "send" /\ run'[c].st.ws = file.ws

Acts ==
    \/ /\ \/ \E n \in Ws, p \in Pane : LaunchAsk(n, p)
          \/ LaunchList
          \/ \E c \in Clients : Step(c)
       /\ UNCHANGED <<hands, begun>>
    \/ /\ Claims /\ ByHand
       /\ hands' = hands + 1 /\ UNCHANGED begun
    \/ /\ Claims /\ \E c \in Clients : MCStart(c)
       /\ begun' = begun + 1 /\ UNCHANGED hands

MCNext ==
    \/ part = "clipboard" /\ Next /\ UNCHANGED <<teamVars, part, hands, begun>>
    \/ part # "clipboard" /\ Acts /\ Within /\ UNCHANGED <<vars, part>>

MCSpec == MCInit /\ [][MCNext]_mcVars /\ Fairness /\ TeamFairness

=============================================================================
