---------------------------- MODULE MCBackground ----------------------------
(***************************************************************************)
(* The two background readers, checked in one run: in each behaviour one   *)
(* of them is at work, part says which.  They share nothing but the main   *)
(* loop, so what holds of each alone holds of both together.               *)
(***************************************************************************)
EXTENDS BranchDetect, IconCache, TLC

VARIABLE part

\* Only BranchDetect is symmetric: the liveness property is IconCache's.
Symmetry == Permutations(Ws) \cup Permutations(Terms) \cup Permutations(Dirs)

MCInit ==
    /\ part \in {"branches", "icons"}
    /\ Init /\ IconInit
    /\ part = "branches" => disk = {} /\ cache = [r \in Roots |-> Unknown]

MCNext ==
    \/ part = "branches" /\ Next /\ UNCHANGED <<iconVars, part>>
    \/ part = "icons" /\ IconNext /\ UNCHANGED <<vars, part>>

MCSpec == MCInit /\ [][MCNext]_<<vars, iconVars, part>> /\ IconFairness

=============================================================================
