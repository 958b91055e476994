--------------------------- MODULE Session_proofs ---------------------------
(***************************************************************************)
(* Where a workspace lives while processes start, save, hand workspaces to *)
(* each other, quit and are killed: no workspace the user has open is lost *)
(* but with a killed process that did not save it, and if none is killed   *)
(* it lives under one id.  When a session is saved: what changed is in the *)
(* file or a save is coming, and none is queued while one is restored.     *)
(* What comes back of a workspace that was saved or moved: all its panes,  *)
(* the splits of its tree, and the columns of a strip whose ids differ.    *)
(***************************************************************************)
EXTENDS Instances, SavedPanes, SaveQueue, PanedTree_proofs

-----------------------------------------------------------------------------
(* The homes of a workspace                                                *)

\* The parts of TypeOK: what each variable holds, and how they go together.
Types ==
    /\ phase \in [Procs -> {"off", "named", "free", "stale", "ready", "up"}]
    /\ id \in [Procs -> Slot] /\ own \in [Procs -> BOOLEAN]
    /\ path \in [Slot -> Procs \cup {None, Stale}]
    /\ has \in [Procs -> SUBSET Kept]
    /\ file \in [Slot -> SUBSET Kept]
    /\ move \in [Procs -> Move \cup {NoMove}]
    /\ open \in SUBSET Workspaces /\ unsaved \in SUBSET Kept
    /\ crashes \in 0..MaxCrashes

Links ==
    /\ \A p \in Procs :
          /\ phase[p] = "up" <=> has[p] # {}
          /\ phase[p] # "up" => move[p] = NoMove
          /\ own[p] => phase[p] \in {"ready", "up"}
    /\ \A i \in Slot : path[i] \in Procs => own[path[i]] /\ id[path[i]] = i
    /\ Sharing \/ \A p \in Procs : own[p] => path[id[p]] = p

\* No two processes have one id, if none may.
Apart ==
    Sharing \/ \A p, q \in Procs :
                  phase[p] # "off" /\ phase[q] # "off" /\ id[p] = id[q] => p = q

\* A process still has the workspace it is about to hand over.
Holds == \A p \in Procs : move[p] # NoMove => move[p].ws \in has[p]

Sound == Types /\ Links /\ Apart /\ Holds

\* TypeOK is its parts.
LEMMA TypeParts == TypeOK <=> Types /\ Links
BY DEF TypeOK, Types, Links

-----------------------------------------------------------------------------
(* What the variables hold                                                 *)

\* A set of naturals has a First (the slot assign_nested_child_instance_id takes).
LEMMA FirstOK ==
  ASSUME NEW S \in SUBSET Nat, S # {}
  PROVE  First(S) \in S
<1> DEFINE R == OpToRel(<, Nat)
<1>1. IsWellFoundedOn(R, Nat)
  BY NatLessThanWellFounded
<1>2. \A x, y \in Nat : x < y => <<x, y>> \in R
  BY DEF OpToRel
<1> HIDE DEF R
<1>3. PICK n \in S : \A m \in S : ~(<<m, n>> \in R)
  BY <1>1, WFMin
<1>4. \A m \in S : ~(m < n)
  BY <1>2, <1>3, Zenon
<1>5. \A m \in S : n <= m
  BY <1>4
<1> QED BY <1>5 DEF First

\* The id of a nested launch is a slot.
LEMMA ChildSlotOK ==
  ASSUME NEW inUse \in SUBSET Slot, NEW live \in SUBSET Slot
  PROVE  ChildSlot(inUse, live) \in Slot
<1>1. Slot \subseteq Nat /\ 1 \in Slot
  BY SlotAssumption DEF Slot
<1>2. /\ inUse \ live \in SUBSET Nat /\ Slot \ (inUse \cup live) \in SUBSET Nat
      /\ inUse \ live \subseteq Slot
  BY <1>1
<1>3. inUse \ live # {} => First(inUse \ live) \in Slot
  BY <1>2, FirstOK
<1>4. Slot \ (inUse \cup live) # {} => First(Slot \ (inUse \cup live)) \in Slot
  BY <1>2, FirstOK
<1> QED BY <1>1, <1>3, <1>4 DEF ChildSlot

\* No file, a dead socket and no move are no process and no state of a move.
LEMMA NoneOK ==
  /\ None \notin Procs /\ Stale \notin Procs /\ Stale # None /\ Blank \notin Workspaces
  /\ Blank \in Kept /\ NoMove.state = "none"
  /\ \A m \in Move : /\ m # NoMove /\ m.state \in {"asked", "ok", "error"}
                     /\ m.to \in Procs /\ m.ws \in Kept
BY NoneAssumption DEF Kept, NoMove, Move

\* A process takes an id.
LEMMA NamedSound ==
  ASSUME Sound, NEW p \in Procs, NEW i \in Slot, Named(p, i)
  PROVE  Sound'
<1> USE DEF Named, procVars, history, Sound
<1>1. Types'
  BY DEF Types
<1>2. Links'
  BY DEF Types, Links
<1>3. Apart'
  BY DEF Types, Apart
<1>4. Holds'
  BY DEF Holds
<1> QED BY <1>1, <1>2, <1>3, <1>4

\* Its start: what it finds, unlinks and binds.
LEMMA CheckSocketSound ==
  ASSUME Sound, NEW p \in Procs, CheckSocket(p)
  PROVE  Sound'
<1> USE DEF CheckSocket, Enters, procVars, history, Sound
<1>1. Types'
  BY DEF Types
<1>2. Links'
  BY DEF Types, Links
<1>3. Apart'
  BY DEF Types, Apart
<1>4. Holds'
  BY DEF Holds
<1> QED BY <1>1, <1>2, <1>3, <1>4

\* The name of a dead socket is removed; without sharing it is no process's.
LEMMA UnlinkSound ==
  ASSUME Sound, NEW p \in Procs, Unlink(p)
  PROVE  Sound' /\ \A i \in Slot : Sharing \/ path[i] \notin Procs \/ path'[i] = path[i]
<1> USE DEF Unlink, Enters, procVars, history, Sound
<1>1. Types'
  BY DEF Types
<1>2. Sharing \/ path[id[p]] \notin Procs
  BY DEF Types, Links, Apart
<1>3. Links'
  BY <1>2, NoneOK DEF Types, Links
<1>4. Apart'
  BY DEF Types, Apart
<1>5. Holds'
  BY DEF Holds
<1>6. \A i \in Slot : Sharing \/ path[i] \notin Procs \/ path'[i] = path[i]
  BY <1>2 DEF Types
<1> QED BY <1>1, <1>3, <1>4, <1>5, <1>6

\* The process listens, if the name is free.
LEMMA BindSound ==
  ASSUME Sound, NEW p \in Procs, Bind(p)
  PROVE  Sound'
<1> USE DEF Bind, Enters, procVars, history, Sound
<1>1. Types'
  BY DEF Types
<1>2. Links'
  <2>1. ~own[p] /\ id[p] \in Slot
    BY DEF Types, Links
  <2>2. \A q \in Procs : /\ phase'[q] = "up" <=> has'[q] # {}
                         /\ phase'[q] # "up" => move'[q] = NoMove
                         /\ own'[q] => phase'[q] \in {"ready", "up"}
    BY DEF Types, Links
  <2>3. CASE path[id[p]] = None
    <3>1. \A i \in Slot : path'[i] \in Procs => own'[path'[i]] /\ id'[path'[i]] = i
      BY <2>1, <2>3, ZenonT(60) DEF Types, Links
    <3>2. \A q \in Procs : q # p /\ own'[q] => own[q] /\ phase[q] # "off"
      BY DEF Types, Links
    <3>3. Sharing \/ \A q \in Procs : own'[q] => path'[id'[q]] = q
      BY <2>1, <2>3, <3>2, NoneOK DEF Types, Links
    <3> QED BY <2>2, <3>1, <3>3 DEF Links
  <2>4. CASE path[id[p]] # None
    <3>1. path' = path /\ id' = id /\ \A q \in Procs : own'[q] <=> own[q]
      BY <2>1, <2>4 DEF Types
    <3> QED BY <2>2, <3>1 DEF Links
  <2> QED BY <2>3, <2>4
<1>3. Apart'
  BY DEF Types, Apart
<1>4. Holds'
  BY DEF Holds
<1> QED BY <1>1, <1>2, <1>3, <1>4

\* The session comes back, or a blank workspace.
LEMMA RestoreSound ==
  ASSUME Sound, NEW p \in Procs, Restore(p)
  PROVE  Sound'
<1> USE DEF Restore, Enters, Saved, procVars, history, Sound
<1>1. Types'
  BY NoneOK DEF Types
<1>2. Links'
  BY SMTT(30) DEF Types, Links
<1>3. Apart'
  BY DEF Types, Apart
<1>4. Holds'
  BY DEF Types, Links, Holds
<1> QED BY <1>1, <1>2, <1>3, <1>4

\* A save touches the file alone.
LEMMA SaveSound ==
  ASSUME Sound, NEW p \in Procs, Save(p)
  PROVE  Sound'
<1> USE DEF Save, Written, procVars, history, Sound
<1>1. Types'
  BY DEF Types
<1>2. Links' /\ Apart' /\ Holds'
  BY DEF Links, Apart, Holds
<1> QED BY <1>1, <1>2

\* The user opens a workspace that is nowhere yet.
LEMMA AddWorkspaceSound ==
  ASSUME Sound, NEW p \in Procs, AddWorkspace(p)
  PROVE  Sound'
<1> USE DEF AddWorkspace, Free, Unused, Kept, Sound
<1>1. Types'
  BY DEF Types
<1>2. Links'
  BY DEF Types, Links
<1>3. Apart'
  BY DEF Apart
<1>4. Holds'
  BY DEF Types, Holds
<1> QED BY <1>1, <1>2, <1>3, <1>4

\* The last workspace of a process stays.
LEMMA RemoveWorkspaceSound ==
  ASSUME Sound, NEW p \in Procs, RemoveWorkspace(p)
  PROVE  Sound'
<1> USE DEF RemoveWorkspace, Free, Sound
<1>1. PICK w \in has[p] : has' = [has EXCEPT ![p] = @ \ {w}] /\ open' = open \ {w}
  OBVIOUS
<1>2. has[p] \ {w} # {}
  <2>1. Cardinality({w}) = 1
    BY FS_Singleton
  <2>2. has[p] \ {w} = {} => has[p] = {w}
    OBVIOUS
  <2> QED BY <2>1, <2>2
<1>3. Types'
  BY <1>1 DEF Types
<1>4. Links'
  BY <1>1, <1>2 DEF Types, Links
<1>5. Apart'
  BY DEF Apart
<1>6. Holds'
  BY <1>1 DEF Types, Holds
<1> QED BY <1>3, <1>4, <1>5, <1>6

\* A process asks another, and still has the workspace.
LEMMA AskMoveSound ==
  ASSUME Sound, NEW p \in Procs, AskMove(p)
  PROVE  Sound'
<1> USE DEF AskMove, Free, history, Sound
<1>1. PICK w \in has[p], i \in Slot \ {id[p]} :
         /\ path[i] \in Procs
         /\ move' = [move EXCEPT ![p] = [state |-> "asked", to |-> path[i], ws |-> w]]
  BY DEF Listens
<1>2. [state |-> "asked", to |-> path[i], ws |-> w] \in Move
  BY <1>1 DEF Types, Move
<1>3. Types'
  BY <1>1, <1>2 DEF Types
<1>4. Links'
  BY <1>1 DEF Types, Links
<1>5. Apart'
  BY DEF Apart
<1>6. Holds'
  BY <1>1 DEF Types, Holds
<1> QED BY <1>3, <1>4, <1>5, <1>6

\* The reply of an import reaches the process that waits for it.
LEMMA ReplyOK ==
  ASSUME Sound, NEW p \in Procs, Waiting(p), NEW s \in {"ok", "error"}, Reply(p, s)
  PROVE  /\ phase[p] = "up" /\ move[p] \in Move /\ move[p].state = "asked"
         /\ move[p].ws \in has[p] /\ move[p].ws \in Kept /\ move[p] # NoMove
         /\ move' \in [Procs -> Move \cup {NoMove}]
         /\ move'[p] \in Move /\ move'[p] # NoMove /\ move'[p].state = s
         /\ move'[p].to = move[p].to /\ move'[p].ws = move[p].ws
         /\ \A q \in Procs \ {p} : move'[q] = move[q]
<1>1. move[p] \in Move /\ move[p] # NoMove /\ move[p].state = "asked"
  BY NoneOK DEF Sound, Types, Waiting
<1>2. phase[p] = "up" /\ move[p].ws \in has[p]
  BY <1>1 DEF Sound, Links, Holds
<1>3. move' = [move EXCEPT ![p] = [move[p] EXCEPT !.state = s]]
  BY DEF Reply
<1>4. /\ [move[p] EXCEPT !.state = s] \in Move
      /\ [move[p] EXCEPT !.state = s].state = s
      /\ [move[p] EXCEPT !.state = s].to = move[p].to
      /\ [move[p] EXCEPT !.state = s].ws = move[p].ws
  BY <1>1 DEF Move
<1>5. move \in [Procs -> Move \cup {NoMove}]
  BY DEF Sound, Types
<1>6. /\ move' \in [Procs -> Move \cup {NoMove}] /\ move'[p] = [move[p] EXCEPT !.state = s]
      /\ \A q \in Procs \ {p} : move'[q] = move[q]
  BY <1>3, <1>4, <1>5
<1> QED BY <1>1, <1>2, <1>4, <1>6, NoneOK

\* workspace.import in q for p: what becomes of both.
LEMMA ImportSound ==
  ASSUME Sound, NEW q \in Procs, Import(q)
  PROVE  Sound'
<1> USE DEF Import, history
<1>1. PICK p \in Procs : /\ Waiting(p) /\ move[p].to = q
                         /\ \/ Reply(p, "ok") /\ has' = [has EXCEPT ![q] = @ \cup {move[p].ws}]
                            \/ Reply(p, "error") /\ UNCHANGED has
  OBVIOUS
<1>2. /\ phase[p] = "up" /\ move[p].ws \in has[p] /\ move[p].ws \in Kept
      /\ move' \in [Procs -> Move \cup {NoMove}]
      /\ move'[p] \in Move /\ move'[p].ws = move[p].ws
      /\ \A r \in Procs \ {p} : move'[r] = move[r]
  BY <1>1, ReplyOK
<1>3. /\ has' \in [Procs -> SUBSET Kept]
      /\ \A r \in Procs : has[r] \subseteq has'[r] /\ (has'[r] # {} <=> has[r] # {})
  BY <1>1, <1>2 DEF Sound, Types, Links, Free
<1>4. Types'
  BY <1>2, <1>3 DEF Sound, Types
<1>5. Links'
  BY <1>2, <1>3 DEF Sound, Links
<1>6. Apart'
  BY DEF Sound, Apart
<1>7. Holds'
  BY <1>2, <1>3 DEF Sound, Holds
<1> QED BY <1>4, <1>5, <1>6, <1>7 DEF Sound

\* The answer of a move leaves at least a blank workspace.
LEMMA MoveAnsweredSound ==
  ASSUME Sound, NEW p \in Procs, MoveAnswered(p)
  PROVE  Sound'
<1> USE DEF MoveAnswered, Detached, history, Sound
<1>1. phase[p] = "up"
  BY NoneOK DEF Types, Links
<1>2. Types'
  BY NoneOK DEF Types
<1>3. Links'
  BY <1>1 DEF Types, Links
<1>4. Apart'
  BY DEF Apart
<1>5. Holds'
  BY DEF Types, Holds
<1> QED BY <1>2, <1>3, <1>4, <1>5

\* A process that is gone leaves the others in the state they had, but for the
\* answers they wait for.
LEMMA GoneOK ==
  ASSUME Sound, NEW p \in Procs, Gone(p)
  PROVE  /\ phase' \in [Procs -> {"off", "named", "free", "stale", "ready", "up"}]
         /\ id' \in [Procs -> Slot] /\ own' \in [Procs -> BOOLEAN]
         /\ has' \in [Procs -> SUBSET Kept] /\ move' \in [Procs -> Move \cup {NoMove}]
         /\ phase'[p] = "off" /\ has'[p] = {} /\ move'[p] = NoMove /\ ~own'[p]
         /\ \A q \in Procs \ {p} :
               /\ phase'[q] = phase[q] /\ id'[q] = id[q] /\ own'[q] = own[q]
               /\ has'[q] = has[q]
               /\ move'[q] = NoMove <=> move[q] = NoMove
               /\ move'[q].ws = move[q].ws
               /\ move'[q].state = "ok" <=> move[q].state = "ok"
<1>1. /\ 1 \in Slot /\ Types
  BY SlotAssumption DEF Slot, Sound
<1>2. ASSUME NEW q \in Procs, Waiting(q)
      PROVE  /\ [move[q] EXCEPT !.state = "error"] \in Move /\ move[q] \in Move
             /\ [move[q] EXCEPT !.state = "error"].ws = move[q].ws
             /\ [move[q] EXCEPT !.state = "error"].state = "error"
             /\ move[q].state = "asked"
  <2>1. move[q] \in Move /\ move[q].state = "asked"
    BY <1>1, <1>2, NoneOK DEF Types, Waiting
  <2> QED BY <2>1 DEF Move
<1>3. /\ phase' = [phase EXCEPT ![p] = "off"] /\ id' = [id EXCEPT ![p] = 1]
      /\ own' = [own EXCEPT ![p] = FALSE] /\ has' = [has EXCEPT ![p] = {}]
      /\ move' = [q \in Procs |-> IF q = p THEN NoMove
                                  ELSE IF Waiting(q) /\ move[q].to = p
                                       THEN [move[q] EXCEPT !.state = "error"]
                                       ELSE move[q]]
  BY DEF Gone
<1>4. /\ phase' \in [Procs -> {"off", "named", "free", "stale", "ready", "up"}]
      /\ id' \in [Procs -> Slot] /\ own' \in [Procs -> BOOLEAN]
      /\ has' \in [Procs -> SUBSET Kept]
      /\ phase'[p] = "off" /\ has'[p] = {} /\ ~own'[p]
      /\ \A q \in Procs \ {p} :
            /\ phase'[q] = phase[q] /\ id'[q] = id[q] /\ own'[q] = own[q]
            /\ has'[q] = has[q]
  BY <1>1, <1>3 DEF Types
<1>5. \A q \in Procs \ {p} :
         /\ move'[q] \in Move \cup {NoMove}
         /\ move'[q] = NoMove <=> move[q] = NoMove
         /\ move'[q].ws = move[q].ws
         /\ move'[q].state = "ok" <=> move[q].state = "ok"
  <2> TAKE q \in Procs \ {p}
  <2>1. CASE Waiting(q) /\ move[q].to = p
    <3>1. move'[q] = [move[q] EXCEPT !.state = "error"]
      BY <1>3, <2>1
    <3> QED BY <1>2, <2>1, <3>1, NoneOK
  <2>2. CASE ~(Waiting(q) /\ move[q].to = p)
    <3>1. move'[q] = move[q]
      BY <1>3, <2>2
    <3> QED BY <1>1, <3>1 DEF Types
  <2> QED BY <2>1, <2>2
<1>6. move' \in [Procs -> Move \cup {NoMove}] /\ move'[p] = NoMove
  BY <1>3, <1>5
<1> QED BY <1>4, <1>5, <1>6

\* A process ends: it no longer listens, and nobody waits for it.
LEMMA QuitSound ==
  ASSUME Sound, NEW p \in Procs, Quit(p)
  PROVE  Sound'
<1>1. Gone(p) /\ file' = [file EXCEPT ![id[p]] = has[p]] /\ UNCHANGED history
      /\ path' = IF own[p] THEN [path EXCEPT ![id[p]] = None] ELSE path
  BY DEF Quit, Written
<1>2. Types'
  BY <1>1, GoneOK DEF Sound, Types, history
<1>3. Links'
  <2>1. \A i \in Slot : path'[i] \in Procs => path[i] = path'[i] /\ path[i] # p
    BY <1>1, NoneOK DEF Sound, Types, Links
  <2>2. \A i \in Slot : path'[i] \in Procs => own'[path'[i]] /\ id'[path'[i]] = i
    BY <1>1, <2>1, GoneOK DEF Sound, Links
  <2>3. Sharing \/ \A q \in Procs : own'[q] => path'[id'[q]] = q
    BY <1>1, GoneOK DEF Sound, Types, Links, Apart
  <2>4. \A q \in Procs : /\ phase'[q] = "up" <=> has'[q] # {}
                         /\ phase'[q] # "up" => move'[q] = NoMove
                         /\ own'[q] => phase'[q] \in {"ready", "up"}
    BY <1>1, GoneOK DEF Sound, Links
  <2> QED BY <2>2, <2>3, <2>4 DEF Links
<1>4. Apart'
  BY <1>1, GoneOK DEF Sound, Apart
<1>5. Holds'
  BY <1>1, GoneOK DEF Sound, Holds
<1> QED BY <1>2, <1>3, <1>4, <1>5 DEF Sound

\* A killed process leaves a dead socket and its file.
LEMMA CrashSound ==
  ASSUME Sound, NEW p \in Procs, Crash(p)
  PROVE  Sound'
<1>1. /\ Gone(p) /\ file' = file /\ open' = open /\ crashes < MaxCrashes
      /\ path' = [i \in Slot |-> IF path[i] = p THEN Stale ELSE path[i]]
      /\ unsaved' = unsaved \cup (has[p] \ file[id[p]]) /\ crashes' = crashes + 1
  BY DEF Crash
<1>2. Types'
  <2>1. crashes' \in 0 .. MaxCrashes
    BY <1>1, CrashAssumption DEF Sound, Types
  <2>2. path' \in [Slot -> Procs \cup {None, Stale}] /\ unsaved' \in SUBSET Kept
    BY <1>1 DEF Sound, Types
  <2> QED BY <1>1, <2>1, <2>2, GoneOK DEF Sound, Types
<1>3. Links'
  <2>1. \A i \in Slot : path'[i] \in Procs => path[i] = path'[i] /\ path[i] # p
    BY <1>1, NoneOK
  <2>2. \A i \in Slot : path'[i] \in Procs => own'[path'[i]] /\ id'[path'[i]] = i
    BY <1>1, <2>1, GoneOK DEF Sound, Links
  <2>3. Sharing \/ \A q \in Procs : own'[q] => path'[id'[q]] = q
    BY <1>1, GoneOK DEF Sound, Types, Links
  <2>4. \A q \in Procs : /\ phase'[q] = "up" <=> has'[q] # {}
                         /\ phase'[q] # "up" => move'[q] = NoMove
                         /\ own'[q] => phase'[q] \in {"ready", "up"}
    BY <1>1, GoneOK DEF Sound, Links
  <2> QED BY <2>2, <2>3, <2>4 DEF Links
<1>4. Apart'
  BY <1>1, GoneOK DEF Sound, Apart
<1>5. Holds'
  BY <1>1, GoneOK DEF Sound, Holds
<1> QED BY <1>2, <1>3, <1>4, <1>5 DEF Sound

\* Every step keeps what is sound.
LEMMA NextSound ==
  ASSUME Sound, [Next]_vars
  PROVE  Sound'
<1>1. CASE UNCHANGED vars
  BY <1>1 DEF vars, procVars, history, Sound, Types, Links, Apart, Holds
<1>2. ASSUME NEW p \in Procs, Launch(p) PROVE Sound'
  BY <1>2, NamedSound DEF Launch
<1>3. ASSUME NEW p \in Procs, LaunchNested(p) PROVE Sound'
  <2>1. ChildSlot({i \in Slot : Saved(i)}, {i \in Slot : Listens(i)}) \in Slot
    BY ChildSlotOK
  <2> QED BY <1>3, <2>1, NamedSound DEF LaunchNested
<1>4. CASE Next
  BY <1>2, <1>3, <1>4, CheckSocketSound, UnlinkSound, BindSound, RestoreSound, SaveSound,
     AddWorkspaceSound, RemoveWorkspaceSound, AskMoveSound, ImportSound,
     MoveAnsweredSound, QuitSound, CrashSound
  DEF Next
<1> QED BY <1>1, <1>4

\* No process runs at first.
LEMMA InitSound == Init => Sound
<1> SUFFICES ASSUME Init PROVE Sound
  OBVIOUS
<1>1. 1 \in Slot
  BY SlotAssumption DEF Slot
<1>2. Types
  BY <1>1, CrashAssumption DEF Init, Types
<1>3. Links /\ Apart /\ Holds
  BY NoneOK DEF Init, Links, Apart, Holds
<1> QED BY <1>2, <1>3 DEF Sound

\* The processes, their sockets, their workspaces and their moves stay sound.
THEOREM SoundAlways == Spec => []Sound
<1>1. Init => Sound
  BY InitSound
<1>2. Sound /\ [Next]_vars => Sound'
  BY NextSound
<1> QED BY <1>1, <1>2, PTL DEF Spec

\* What the variables hold, and how ids, sockets and workspaces go together:
\* a socket file that a process listens to is that of its id, a process that is
\* up has a workspace, and only a process that is up asks for a move.
THEOREM InstancesTypeCorrect == Spec => []TypeOK
<1>1. Sound => TypeOK
  BY TypeParts DEF Sound
<1> QED BY <1>1, SoundAlways, PTL

-----------------------------------------------------------------------------
(* Where a workspace lives                                                 *)

\* Process p has handed w over and has yet to detach it.
Leaves(p, w) == move[p].state = "ok" /\ move[p].ws = w

HasFirmly(p, w) == phase[p] = "up" /\ w \in has[p] /\ ~Leaves(p, w)

\* A home that no answer under way takes away.
FirmAt(w, i) ==
    \/ \E p \in Procs : HasFirmly(p, w) /\ id[p] = i
    \/ w \in file[i] /\ \A p \in Procs : phase[p] = "up" => id[p] # i

FirmHome == \A w \in open \ unsaved : \E i \in Slot : FirmAt(w, i)

OneFirm ==
    crashes = 0 =>
        \A w \in Workspaces : \A i, j \in Slot : FirmAt(w, i) /\ FirmAt(w, j) => i = j

\* The inductive invariant where no two processes have one id.
IInv == Sound /\ FirmHome /\ OneFirm

SameHomes == \A w \in Workspaces, i \in Slot : FirmAt(w, i)' <=> FirmAt(w, i)

\* A step that moves no workspace and opens none keeps the homes.
LEMMA SameHomesOK ==
  ASSUME IInv, SameHomes, UNCHANGED history
  PROVE  FirmHome' /\ OneFirm'
<1>1. open \subseteq Workspaces /\ open' = open /\ unsaved' = unsaved /\ crashes' = crashes
  BY DEF IInv, Sound, Types, history
<1>2. FirmHome'
  BY <1>1 DEF IInv, SameHomes, FirmHome
<1>3. OneFirm'
  BY <1>1 DEF IInv, SameHomes, OneFirm
<1> QED BY <1>2, <1>3

\* Nobody up changes: where a workspace lives depends on nothing else.
LEMMA StillOK ==
  ASSUME Sound, UNCHANGED <<has, move, file, history>>,
         \A p \in Procs : /\ phase'[p] = "up" <=> phase[p] = "up"
                          /\ phase[p] = "up" => id'[p] = id[p]
  PROVE  SameHomes
BY DEF SameHomes, FirmAt, HasFirmly, Leaves

\* A start up to the session changes nothing of that.
LEMMA StartHomes ==
  ASSUME Sound, NEW p \in Procs,
         \/ \E i \in Slot : Named(p, i)
         \/ CheckSocket(p) \/ Unlink(p) \/ Bind(p)
  PROVE  SameHomes /\ UNCHANGED history
<1> USE DEF procVars, history
<1>1. UNCHANGED <<has, move, file, history>>
  BY DEF Named, CheckSocket, Unlink, Bind
<1>2. \A q \in Procs : /\ phase'[q] = "up" <=> phase[q] = "up"
                       /\ phase[q] = "up" => id'[q] = id[q]
  <2>1. CASE \E i \in Slot : Named(p, i)
    BY <2>1 DEF Named, Sound, Types
  <2>2. CASE CheckSocket(p)
    BY <2>2 DEF CheckSocket, Enters, Sound, Types
  <2>3. CASE Unlink(p)
    BY <2>3 DEF Unlink, Enters, Sound, Types
  <2>4. CASE Bind(p)
    BY <2>4 DEF Bind, Enters, Sound, Types
  <2> QED BY <2>1, <2>2, <2>3, <2>4
<1> QED BY <1>1, <1>2, StillOK

\* The workspaces of a file come up in the process of its id.
LEMMA RestoreHomes ==
  ASSUME ~Sharing, Sound, NEW p \in Procs, Restore(p)
  PROVE  SameHomes /\ UNCHANGED history
<1>1. /\ phase[p] = "ready" /\ phase' = [phase EXCEPT ![p] = "up"]
      /\ has' = [has EXCEPT ![p] = IF Saved(id[p]) THEN file[id[p]] ELSE {Blank}]
      /\ id' = id /\ move' = move /\ file' = file /\ UNCHANGED history
  BY DEF Restore, Enters
<1>2. \A q \in Procs : phase[q] = "up" => id[q] # id[p]
  BY <1>1 DEF Sound, Apart
<1>3. move[p] = NoMove /\ phase'[p] = "up"
  BY <1>1 DEF Sound, Types, Links
<1>4. \A q \in Procs \ {p} : phase'[q] = phase[q] /\ has'[q] = has[q]
  BY <1>1 DEF Sound, Types
<1>5. ASSUME NEW w \in Workspaces PROVE w \in has'[p] <=> w \in file[id[p]]
  BY <1>1, NoneOK DEF Sound, Types, Saved
<1>6. ASSUME NEW w \in Workspaces, NEW q \in Procs \ {p}
      PROVE  HasFirmly(q, w)' <=> HasFirmly(q, w)
  BY <1>1, <1>4 DEF HasFirmly, Leaves
<1>7. ASSUME NEW w \in Workspaces
      PROVE  /\ HasFirmly(p, w)' <=> w \in file[id[p]]
             /\ ~HasFirmly(p, w)
  BY <1>1, <1>3, <1>5, NoneOK DEF HasFirmly, Leaves
<1>8. SameHomes
  <2> SUFFICES ASSUME NEW w \in Workspaces, NEW i \in Slot
               PROVE  FirmAt(w, i)' <=> FirmAt(w, i)
    BY DEF SameHomes
  <2>1. CASE i = id[p]
    <3>1. FirmAt(w, i) <=> w \in file[i]
      BY <1>2, <1>7, <2>1 DEF FirmAt, HasFirmly
    <3>2. FirmAt(w, i)' <=> w \in file[i]
      BY <1>1, <1>2, <1>3, <1>6, <1>7, <2>1 DEF FirmAt, HasFirmly
    <3> QED BY <3>1, <3>2
  <2>2. CASE i # id[p]
    BY <1>1, <1>4, <1>6, <1>7, <2>2 DEF FirmAt
  <2> QED BY <2>1, <2>2
<1> QED BY <1>1, <1>8

\* A save writes the file of a process that is up, which is no home.
LEMMA SaveHomes ==
  ASSUME Sound, NEW p \in Procs, Save(p)
  PROVE  SameHomes /\ UNCHANGED history
<1>1. /\ phase[p] = "up" /\ file' = [file EXCEPT ![id[p]] = has[p]]
      /\ phase' = phase /\ id' = id /\ has' = has /\ move' = move /\ UNCHANGED history
  BY DEF Save, Free, Written, procVars
<1>2. \A i \in Slot : i = id[p] \/ file'[i] = file[i]
  BY <1>1 DEF Sound, Types
<1> QED BY <1>1, <1>2 DEF SameHomes, FirmAt, HasFirmly, Leaves

\* Who asks for a move still has the workspace for good.
LEMMA AskMoveHomes ==
  ASSUME Sound, NEW p \in Procs, AskMove(p)
  PROVE  SameHomes /\ UNCHANGED history
<1>1. /\ phase' = phase /\ id' = id /\ has' = has /\ file' = file /\ UNCHANGED history
      /\ move[p] = NoMove
      /\ \E m \in [state : {"asked"}, to : Procs, ws : Kept] : move' = [move EXCEPT ![p] = m]
  BY DEF AskMove, Free, Listens, Sound, Types
<1>2. \A q \in Procs, w \in Workspaces : Leaves(q, w)' <=> Leaves(q, w)
  BY <1>1, NoneOK DEF Leaves, Sound, Types
<1> QED BY <1>1, <1>2 DEF SameHomes, FirmAt, HasFirmly

\* An answer takes away what was no firm home, and a refusal takes nothing.
LEMMA MoveAnsweredHomes ==
  ASSUME Sound, NEW p \in Procs, MoveAnswered(p)
  PROVE  SameHomes /\ UNCHANGED history
<1>1. /\ phase' = phase /\ id' = id /\ file' = file /\ UNCHANGED history
      /\ move[p].state \in {"ok", "error"} /\ move' = [move EXCEPT ![p] = NoMove]
      /\ has' = [has EXCEPT ![p] = IF Detached(p) = {} THEN {Blank} ELSE Detached(p)]
  BY DEF MoveAnswered
<1>2. ASSUME NEW w \in Workspaces
      PROVE  w \in has'[p] <=> w \in has[p] /\ ~Leaves(p, w)
  BY <1>1, NoneOK DEF Sound, Types, Detached, Leaves
<1>3. \A w \in Workspaces : ~Leaves(p, w)'
  BY <1>1, NoneOK DEF Sound, Types, Leaves
<1>4. \A q \in Procs \ {p}, w \in Workspaces : HasFirmly(q, w)' <=> HasFirmly(q, w)
  BY <1>1 DEF Sound, Types, HasFirmly, Leaves
<1>5. \A w \in Workspaces : HasFirmly(p, w)' <=> HasFirmly(p, w)
  BY <1>1, <1>2, <1>3 DEF HasFirmly
<1> QED BY <1>1, <1>4, <1>5 DEF SameHomes, FirmAt

\* A process that ends leaves its workspaces in its file.
LEMMA QuitHomes ==
  ASSUME ~Sharing, Sound, NEW p \in Procs, Quit(p)
  PROVE  SameHomes /\ UNCHANGED history
<1>1. /\ Gone(p) /\ file' = [file EXCEPT ![id[p]] = has[p]] /\ UNCHANGED history
      /\ phase[p] = "up" /\ move[p] = NoMove
  BY DEF Quit, Written, Free
<1>2. /\ phase'[p] = "off"
      /\ \A q \in Procs \ {p} : /\ phase'[q] = phase[q] /\ id'[q] = id[q]
                                /\ has'[q] = has[q] /\ move'[q].ws = move[q].ws
                                /\ move'[q].state = "ok" <=> move[q].state = "ok"
  BY <1>1, GoneOK
<1>3. \A q \in Procs \ {p} : phase[q] = "up" => id[q] # id[p]
  BY <1>1 DEF Sound, Apart
<1>4. \A q \in Procs \ {p}, w \in Workspaces : HasFirmly(q, w)' <=> HasFirmly(q, w)
  BY <1>2 DEF HasFirmly, Leaves
<1>5. \A w \in Workspaces : /\ ~HasFirmly(p, w)'
                            /\ HasFirmly(p, w) <=> w \in has[p]
  BY <1>1, <1>2, NoneOK DEF HasFirmly, Leaves
<1>6. file'[id[p]] = has[p] /\ \A i \in Slot : i # id[p] => file'[i] = file[i]
  BY <1>1 DEF Sound, Types
<1>7. SameHomes
  <2> SUFFICES ASSUME NEW w \in Workspaces, NEW i \in Slot
               PROVE  FirmAt(w, i)' <=> FirmAt(w, i)
    BY DEF SameHomes
  <2>1. CASE i = id[p]
    <3>1. FirmAt(w, i) <=> w \in has[p]
      BY <1>1, <1>3, <1>5, <2>1 DEF FirmAt, HasFirmly
    <3>2. FirmAt(w, i)' <=> w \in has[p]
      BY <1>2, <1>3, <1>4, <1>5, <1>6, <2>1 DEF FirmAt, HasFirmly
    <3> QED BY <3>1, <3>2
  <2>2. CASE i # id[p]
    BY <1>1, <1>2, <1>4, <1>5, <1>6, <2>2 DEF FirmAt, HasFirmly
  <2> QED BY <2>1, <2>2
<1> QED BY <1>1, <1>7

\* What is unused is in no process and in no file.
LEMMA UnusedOK ==
  ASSUME NEW w \in Unused
  PROVE  /\ w \in Workspaces /\ \A p \in Procs : w \notin has[p]
         /\ \A i \in Slot : w \notin file[i]
<1>1. w \in Workspaces /\ w \notin Held /\ w \notin OnDisk
  BY DEF Unused
<1>2. ASSUME NEW p \in Procs PROVE w \notin has[p]
  BY <1>1 DEF Held
<1>3. ASSUME NEW i \in Slot PROVE w \notin file[i]
  BY <1>1 DEF OnDisk
<1> QED BY <1>1, <1>2, <1>3

\* A new workspace lives where it was opened.
LEMMA AddWorkspaceHomes ==
  ASSUME IInv, NEW p \in Procs, AddWorkspace(p)
  PROVE  FirmHome' /\ OneFirm'
<1>1. PICK w \in Unused : has' = [has EXCEPT ![p] = @ \cup {w}] /\ open' = open \cup {w}
  BY DEF AddWorkspace
<1>2. /\ phase' = phase /\ id' = id /\ move' = move /\ file' = file /\ unsaved' = unsaved
      /\ crashes' = crashes /\ phase[p] = "up" /\ move[p] = NoMove
  BY DEF AddWorkspace, Free
<1>3. /\ w \in Workspaces /\ \A q \in Procs : w \notin has[q]
      /\ \A i \in Slot : w \notin file[i]
  BY UnusedOK
<1>4. open \subseteq Workspaces
  BY DEF IInv, Sound, Types
<1>5. \A q \in Procs, v \in Workspaces :
         HasFirmly(q, v)' <=> HasFirmly(q, v) \/ (q = p /\ v = w)
  BY <1>1, <1>2, NoneOK DEF HasFirmly, Leaves, IInv, Sound, Types
<1>6. \A v \in Workspaces, i \in Slot : v # w => (FirmAt(v, i)' <=> FirmAt(v, i))
  BY <1>2, <1>5 DEF FirmAt
<1>7. \A i \in Slot : FirmAt(w, i)' <=> i = id[p]
  BY <1>2, <1>3, <1>5 DEF FirmAt, HasFirmly
<1>8. id[p] \in Slot
  BY DEF IInv, Sound, Types
<1>9. FirmHome'
  BY <1>1, <1>2, <1>4, <1>6, <1>7, <1>8 DEF IInv, FirmHome
<1>10. OneFirm'
  BY <1>2, <1>6, <1>7 DEF IInv, OneFirm
<1> QED BY <1>9, <1>10

\* A workspace that the user closes is gone from its process and its file later.
LEMMA RemoveWorkspaceHomes ==
  ASSUME IInv, NEW p \in Procs, RemoveWorkspace(p)
  PROVE  FirmHome' /\ OneFirm'
<1>1. PICK w \in has[p] : has' = [has EXCEPT ![p] = @ \ {w}] /\ open' = open \ {w}
  BY DEF RemoveWorkspace
<1>2. /\ phase' = phase /\ id' = id /\ move' = move /\ file' = file /\ unsaved' = unsaved
      /\ crashes' = crashes
  BY DEF RemoveWorkspace
<1>3. \A q \in Procs, v \in Workspaces :
         HasFirmly(q, v)' <=> HasFirmly(q, v) /\ ~(q = p /\ v = w)
  BY <1>1, <1>2 DEF HasFirmly, Leaves, IInv, Sound, Types
<1>4. \A v \in Workspaces, i \in Slot : /\ FirmAt(v, i)' => FirmAt(v, i)
                                        /\ v # w => (FirmAt(v, i) => FirmAt(v, i)')
  BY <1>2, <1>3 DEF FirmAt
<1>5. open \subseteq Workspaces
  BY DEF IInv, Sound, Types
<1>6. FirmHome'
  BY <1>1, <1>2, <1>4, <1>5 DEF IInv, FirmHome
<1>7. OneFirm'
  BY <1>2, <1>4 DEF IInv, OneFirm
<1> QED BY <1>6, <1>7

\* An import that succeeds is the moment the workspace changes its home.
LEMMA ImportHomes ==
  ASSUME ~Sharing, IInv, NEW q \in Procs, Import(q)
  PROVE  FirmHome' /\ OneFirm'
<1>1. PICK p \in Procs : /\ Waiting(p) /\ move[p].to = q
                         /\ \/ Reply(p, "ok") /\ has' = [has EXCEPT ![q] = @ \cup {move[p].ws}]
                            \/ Reply(p, "error") /\ UNCHANGED has
  BY DEF Import
<1>2. /\ phase' = phase /\ id' = id /\ file' = file /\ UNCHANGED history
      /\ phase[q] = "up" /\ move[q] = NoMove
  BY DEF Import, Free
<1>3. /\ phase[p] = "up" /\ move[p].ws \in has[p] /\ move[p].state = "asked"
      /\ move[p].ws \in Kept /\ move'[p].ws = move[p].ws
      /\ \A r \in Procs \ {p} : move'[r] = move[r]
  BY <1>1, ReplyOK DEF IInv
<1>4. p # q
  BY <1>2, <1>3, NoneOK
<1>5. CASE Reply(p, "error") /\ UNCHANGED has
  <2>1. move'[p].state = "error"
    BY <1>1, <1>5, ReplyOK DEF IInv
  <2>2. \A r \in Procs, v \in Workspaces : HasFirmly(r, v)' <=> HasFirmly(r, v)
    BY <1>2, <1>3, <1>5, <2>1 DEF HasFirmly, Leaves
  <2>3. SameHomes
    BY <1>2, <2>2 DEF SameHomes, FirmAt
  <2> QED BY <1>2, <2>3, SameHomesOK
<1>6. CASE Reply(p, "ok") /\ has' = [has EXCEPT ![q] = @ \cup {move[p].ws}]
  <2>0. PICK w \in Kept : w = move[p].ws
    BY <1>3
  <2>1. move'[p].state = "ok"
    BY <1>1, <1>6, ReplyOK DEF IInv
  <2>2. /\ \A r \in Procs \ {q} : has'[r] = has[r]
        /\ has'[q] = has[q] \cup {w}
    BY <1>6, <2>0 DEF IInv, Sound, Types
  <2>3. \A r \in Procs \ {p, q}, v \in Workspaces : HasFirmly(r, v)' <=> HasFirmly(r, v)
    BY <1>2, <1>3, <2>2 DEF HasFirmly, Leaves
  <2>4. \A v \in Workspaces : HasFirmly(p, v)' <=> HasFirmly(p, v) /\ v # w
    BY <1>2, <1>3, <1>4, <2>0, <2>1, <2>2 DEF HasFirmly, Leaves
  <2>5. \A v \in Workspaces : HasFirmly(q, v)' <=> HasFirmly(q, v) \/ v = w
    BY <1>2, <1>3, <1>4, <2>0, <2>2, NoneOK DEF HasFirmly, Leaves
  <2>6. \A v \in Workspaces, i \in Slot : v # w => (FirmAt(v, i)' <=> FirmAt(v, i))
    BY <1>2, <2>3, <2>4, <2>5 DEF FirmAt
  <2>7. \A v \in Workspaces, i \in Slot :
           v = w => /\ i = id[q] => FirmAt(v, i)'
                    /\ i = id[p] => FirmAt(v, i)
    BY <1>2, <1>3, <2>0, <2>5 DEF FirmAt, HasFirmly, Leaves
  <2>8. id[p] \in Slot /\ id[q] \in Slot /\ open \subseteq Workspaces
        /\ open' = open /\ unsaved' = unsaved /\ crashes' = crashes
    BY <1>2 DEF IInv, Sound, Types, history
  <2>9. FirmHome'
    <3>1. ASSUME NEW v \in open \ unsaved PROVE \E i \in Slot : FirmAt(v, i)'
      <4>1. v \in Workspaces /\ \E i \in Slot : FirmAt(v, i)
        BY <2>8 DEF IInv, FirmHome
      <4>2. CASE v = w
        BY <2>7, <2>8, <4>1, <4>2
      <4>3. CASE v # w
        BY <2>6, <4>1, <4>3
      <4> QED BY <4>2, <4>3
    <3> QED BY <2>8, <3>1 DEF FirmHome
  <2>10. ASSUME w \in Workspaces, crashes = 0, NEW i \in Slot, FirmAt(w, i)'
         PROVE  i = id[q]
    <3>0. FirmAt(w, i) => i = id[p]
      <4>1. \A k, j \in Slot : FirmAt(w, k) /\ FirmAt(w, j) => k = j
        BY <2>10 DEF IInv, OneFirm
      <4>2. \A j \in Slot : j = id[p] => FirmAt(w, j)
        BY <2>7, <2>10
      <4> QED BY <2>8, <4>1, <4>2
    <3>1. CASE \E r \in Procs : HasFirmly(r, w)' /\ id[r] = i
      <4>1. PICK r \in Procs : HasFirmly(r, w)' /\ id[r] = i
        BY <3>1
      <4>2. r # p
        BY <2>4, <2>10, <4>1
      <4>3. CASE r # q
        <5>1. HasFirmly(r, w) /\ FirmAt(w, i)
          BY <2>3, <2>10, <4>1, <4>2, <4>3 DEF FirmAt
        <5>2. i = id[p]
          BY <3>0, <5>1
        <5>3. r = p
          BY <1>3, <4>1, <5>1, <5>2 DEF IInv, Sound, Apart, HasFirmly
        <5> QED BY <4>2, <5>3
      <4> QED BY <4>1, <4>3
    <3>2. CASE w \in file[i] /\ \A r \in Procs : phase[r] = "up" => id[r] # i
      <4>1. FirmAt(w, i)
        BY <3>2 DEF FirmAt
      <4>2. i = id[p]
        BY <3>0, <4>1
      <4> QED BY <1>3, <3>2, <4>2
    <3> QED BY <1>2, <2>10, <3>1, <3>2 DEF FirmAt
  <2>11. OneFirm'
    BY <2>6, <2>8, <2>10 DEF IInv, OneFirm
  <2> QED BY <2>9, <2>11
<1> QED BY <1>1, <1>5, <1>6

\* What a killed process had is in its file, or it was unsaved.
LEMMA CrashHomes ==
  ASSUME ~Sharing, IInv, NEW p \in Procs, Crash(p)
  PROVE  FirmHome' /\ OneFirm'
<1>1. /\ Gone(p) /\ file' = file /\ open' = open
      /\ unsaved' = unsaved \cup (has[p] \ file[id[p]]) /\ crashes' = crashes + 1
  BY DEF Crash
<1>2. /\ phase'[p] = "off"
      /\ \A q \in Procs \ {p} : /\ phase'[q] = phase[q] /\ id'[q] = id[q]
                                /\ has'[q] = has[q] /\ move'[q].ws = move[q].ws
                                /\ move'[q].state = "ok" <=> move[q].state = "ok"
  BY <1>1, GoneOK DEF IInv
<1>3. OneFirm'
  BY <1>1 DEF OneFirm, IInv, Sound, Types
<1>4. ASSUME NEW w \in Workspaces, NEW i \in Slot, FirmAt(w, i)
      PROVE  w \in unsaved' \/ FirmAt(w, i)'
  <2>1. CASE \E q \in Procs : HasFirmly(q, w) /\ id[q] = i
    <3>1. PICK q \in Procs : HasFirmly(q, w) /\ id[q] = i
      BY <2>1
    <3>2. CASE q = p
      <4>1. \A r \in Procs \ {p} : phase[r] = "up" => id[r] # i
        BY <3>1, <3>2 DEF IInv, Sound, Apart, HasFirmly
      <4>2. \A r \in Procs : phase'[r] = "up" => id'[r] # i
        BY <1>2, <4>1
      <4> QED BY <1>1, <3>1, <3>2, <4>2 DEF FirmAt, HasFirmly
    <3>3. CASE q # p
      <4>1. HasFirmly(q, w)' /\ id'[q] = i
        BY <1>2, <3>1, <3>3 DEF HasFirmly, Leaves
      <4> QED BY <4>1 DEF FirmAt
    <3> QED BY <3>2, <3>3
  <2>2. CASE w \in file[i] /\ \A q \in Procs : phase[q] = "up" => id[q] # i
    BY <1>1, <1>2, <2>2 DEF FirmAt
  <2> QED BY <1>4, <2>1, <2>2 DEF FirmAt
<1>5. open \subseteq Workspaces
  BY DEF IInv, Sound, Types
<1>6. FirmHome'
  BY <1>1, <1>4, <1>5 DEF IInv, FirmHome
<1> QED BY <1>3, <1>6

\* Every step keeps a firm home, and no second one comes up.
LEMMA NextHomes ==
  ASSUME ~Sharing, IInv, [Next]_vars
  PROVE  IInv'
<1>1. Sound'
  BY NextSound DEF IInv
<1>2. CASE UNCHANGED vars
  <2>1. SameHomes /\ UNCHANGED history
    BY <1>2 DEF vars, procVars, SameHomes, FirmAt, HasFirmly, Leaves
  <2> QED BY <1>1, <2>1, SameHomesOK DEF IInv
<1>3. ASSUME NEW p \in Procs, Launch(p) \/ LaunchNested(p) PROVE SameHomes /\ UNCHANGED history
  <2>1. ChildSlot({i \in Slot : Saved(i)}, {i \in Slot : Listens(i)}) \in Slot
    BY ChildSlotOK
  <2>2. \E i \in Slot : Named(p, i)
    BY <1>3, <2>1 DEF Launch, LaunchNested
  <2> QED BY <2>2, StartHomes DEF IInv
<1>4. ASSUME NEW p \in Procs,
             \/ Launch(p) \/ LaunchNested(p)
             \/ CheckSocket(p) \/ Unlink(p) \/ Bind(p) \/ Restore(p)
             \/ Save(p) \/ AskMove(p) \/ MoveAnswered(p) \/ Quit(p)
      PROVE  FirmHome' /\ OneFirm'
  <2>1. SameHomes /\ UNCHANGED history
    BY <1>3, <1>4, StartHomes, RestoreHomes, SaveHomes, AskMoveHomes, MoveAnsweredHomes,
       QuitHomes DEF IInv
  <2> QED BY <2>1, SameHomesOK
<1>5. CASE Next
  <2>1. FirmHome' /\ OneFirm'
    BY <1>4, <1>5, AddWorkspaceHomes, RemoveWorkspaceHomes, ImportHomes, CrashHomes DEF Next
  <2> QED BY <1>1, <2>1 DEF IInv
<1> QED BY <1>2, <1>5

\* If no two processes have one id, then every workspace open and not lost with
\* a killed process has a home that no answer takes, and only one such home
\* unless a process was killed.
THEOREM InstancesInvariant ==
  ASSUME ~Sharing
  PROVE  Spec => []IInv
<1>1. Init => IInv
  BY InitSound DEF Init, IInv, FirmHome, OneFirm, FirmAt, HasFirmly, Sound, Types, Slot
<1>2. IInv /\ [Next]_vars => IInv'
  BY NextHomes
<1> QED BY <1>1, <1>2, PTL DEF Spec

\* No move, failed or not, no quit and no restart loses a workspace that the
\* user has open: only a kill before it was saved does.
THEOREM NeverLost ==
  ASSUME ~Sharing
  PROVE  Spec => []NothingLost
<1>1. IInv => NothingLost
  BY DEF IInv, NothingLost, FirmHome, FirmAt, HasFirmly, Homes
<1> QED BY <1>1, InstancesInvariant, PTL

\* While no process is killed a workspace lives under one id, except between
\* the import in the target and the detaching in the source.
THEOREM LivesOnce ==
  ASSUME ~Sharing
  PROVE  Spec => []OneHome
<1>1. ASSUME IInv, crashes = 0, NEW w \in Workspaces,
             ~ \E p \in Procs : move[p].state = "ok" /\ move[p].ws = w
      PROVE  Cardinality(Homes(w)) <= 1
  <2>1. \A i \in Homes(w) : i \in Slot /\ FirmAt(w, i)
    BY <1>1 DEF Homes, FirmAt, HasFirmly, Leaves
  <2>2. \A i, j \in Homes(w) : i = j
    BY <1>1, <2>1 DEF IInv, OneFirm
  <2>3. CASE Homes(w) = {}
    BY <2>3, FS_EmptySet
  <2>4. CASE Homes(w) # {}
    <3>1. PICK i \in Homes(w) : Homes(w) = {i}
      BY <2>2, <2>4
    <3>2. Cardinality({i}) = 1
      BY FS_Singleton
    <3> QED BY <3>1, <3>2
  <2> QED BY <2>3, <2>4
<1>2. IInv => OneHome
  BY <1>1 DEF OneHome
<1> QED BY <1>2, InstancesInvariant, PTL

-----------------------------------------------------------------------------
(* When a session is saved                                                 *)

\* What the file and the flags say, and what SaveOnItsWay needs: nothing asks for
\* a save after the last one of a process that quits.
Behind == tried < asked

QueueNumbers ==
    /\ version \in 0..MaxChanges /\ asked \in 0..version
    /\ tried \in 0..version /\ saved \in 0..tried

QueueFlags ==
    /\ restoring \in BOOLEAN /\ queued \in BOOLEAN /\ quitting \in BOOLEAN
    /\ ~(restoring /\ queued) /\ ~(quitting /\ queued)
    /\ Behind => queued \/ restoring
    /\ quitting => ~Behind

QueueIInv == QueueNumbers /\ QueueFlags

\* A session that is about to be restored, or none.
LEMMA QueueInitOK == QueueInit => QueueIInv
<1> SUFFICES ASSUME QueueInit
             PROVE  QueueIInv
  OBVIOUS
<1>1. QueueNumbers
  BY ChangesAssumption DEF QueueInit, QueueNumbers
<1>2. ~Behind
  BY DEF QueueInit, Behind
<1>3. QueueFlags
  BY <1>2, Zenon DEF QueueInit, QueueFlags
<1> QED BY <1>1, <1>3 DEF QueueIInv

\* A save takes along all that asked for one.
LEMMA WriteOK ==
  ASSUME QueueNumbers, Write, UNCHANGED <<version, asked>>
  PROVE  QueueNumbers' /\ ~Behind'
BY ChangesAssumption DEF QueueNumbers, Write, Behind

\* Every step keeps QueueIInv.
LEMMA QueueNextOK == QueueIInv /\ [QueueNext]_queueVars => QueueIInv'
<1> SUFFICES ASSUME QueueNumbers, QueueFlags, [QueueNext]_queueVars
             PROVE  QueueNumbers' /\ QueueFlags'
  BY DEF QueueIInv
<1>1. CASE Change
  <2>1. QueueNumbers'
    BY <1>1, ChangesAssumption DEF Change, Changes, QueueNumbers
  <2>2. QueueFlags'
    BY <1>1, Zenon DEF Change, Changes, Queued, QueueFlags
  <2> QED BY <2>1, <2>2
<1>2. CASE QuietChange
  <2>1. QueueNumbers'
    BY <1>2, ChangesAssumption DEF QuietChange, Changes, QueueNumbers
  <2>2. Behind' <=> Behind
    BY <1>2 DEF QuietChange, Behind
  <2>3. QueueFlags'
    BY <1>2, <2>2, Zenon DEF QuietChange, QueueFlags
  <2> QED BY <2>1, <2>3
<1>3. CASE SaveIdle
  <2>1. QueueNumbers' /\ ~Behind'
    BY <1>3, WriteOK DEF SaveIdle
  <2>2. QueueFlags'
    BY <1>3, <2>1, Zenon DEF SaveIdle, QueueFlags
  <2> QED BY <2>1, <2>2
<1>4. CASE Autosave
  <2>1. QueueNumbers' /\ ~Behind'
    BY <1>4, WriteOK DEF Autosave
  <2>2. QueueFlags'
    BY <1>4, <2>1, Zenon DEF Autosave, QueueFlags
  <2> QED BY <2>1, <2>2
<1>5. CASE FinishRestore
  <2>1. QueueNumbers' /\ (Behind' <=> Behind)
    BY <1>5 DEF FinishRestore, QueueNumbers, Behind
  <2>2. QueueFlags'
    BY <1>5, <2>1, Zenon DEF FinishRestore, Queued, QueueFlags
  <2> QED BY <2>1, <2>2
<1>6. CASE AppQuit
  <2>1. QueueNumbers' /\ ~Behind'
    BY <1>6, WriteOK DEF AppQuit
  <2>2. QueueFlags'
    BY <1>6, <2>1, Zenon DEF AppQuit, QueueFlags
  <2> QED BY <2>1, <2>2
<1>7. CASE UNCHANGED queueVars
  BY <1>7, Zenon DEF queueVars, QueueNumbers, QueueFlags, Behind
<1> QED BY <1>1, <1>2, <1>3, <1>4, <1>5, <1>6, <1>7, Zenon DEF QueueNext

\* The flags and versions keep their types; nothing is queued in a restore or
\* after the last save.
THEOREM QueueTypeCorrect == QueueSpec => []QueueTypeOK
<1>1. QueueIInv => QueueTypeOK
  BY Zenon DEF QueueIInv, QueueNumbers, QueueFlags, QueueTypeOK
<1> QED BY <1>1, QueueInitOK, QueueNextOK, PTL DEF QueueSpec

\* Whatever session_queue_save was called for has been in a save, or one is
\* queued, or the end of the restore will ask for one.  Changes that do not call
\* it, and writes that fail, are left to the timer: ChangesSaved.
THEOREM SaveComing == QueueSpec => []SaveOnItsWay
<1>1. QueueIInv => SaveOnItsWay
  BY DEF QueueIInv, QueueFlags, SaveOnItsWay, Behind
<1> QED BY <1>1, QueueInitOK, QueueNextOK, PTL DEF QueueSpec

\* Only the last save of a process that quits writes a session half restored: no
\* callback is queued in a restore, and the timer's save waits for its end.
THEOREM RestoreKept == QueueSpec => RestoreUndisturbed
<1>1. QueueIInv /\ [QueueNext]_queueVars
         => [restoring /\ saved' # saved => quitting']_queueVars
  <2> SUFFICES ASSUME QueueIInv, QueueNext, restoring, saved' # saved
               PROVE  quitting'
    OBVIOUS
  <2>1. ~queued
    BY DEF QueueIInv, QueueFlags
  <2> QED BY <2>1, Zenon DEF QueueNext, Change, QuietChange, Changes, SaveIdle,
                            Autosave, FinishRestore, AppQuit
<1> QED BY <1>1, QueueInitOK, QueueNextOK, PTL DEF QueueSpec, RestoreUndisturbed

\* Both together: session_restoring may drop a request, but not for good.
THEOREM AlwaysInTime == QueueSpec => SavedInTime
BY SaveComing, RestoreKept, PTL DEF SavedInTime

-----------------------------------------------------------------------------
(* What comes back: numbers, and lists in an order                         *)

\* A set of numbers has a least, and one with a bound a greatest.
LEMMA MinOK ==
  ASSUME NEW S \in SUBSET Nat, S # {}
  PROVE  Min(S) \in S /\ \A x \in S : Min(S) <= x
<1> DEFINE R == OpToRel(<, Nat)
<1>1. IsWellFoundedOn(R, Nat)
  BY NatLessThanWellFounded
<1>2. \A x, y \in Nat : x < y => <<x, y>> \in R
  BY DEF OpToRel
<1> HIDE DEF R
<1>3. PICK n \in S : \A m \in S : ~(<<m, n>> \in R)
  BY <1>1, WFMin
<1>4. \A m \in S : ~(m < n)
  BY <1>2, <1>3, Zenon
<1>5. n \in S /\ \A m \in S : n <= m
  BY <1>4
<1> QED BY <1>5 DEF Min

\* The greatest of some numbers up to n is one of them.
LEMMA MaxOK ==
  ASSUME NEW n \in Nat, NEW S \in SUBSET (0 .. n), S # {}
  PROVE  Max(S) \in S /\ \A x \in S : x <= Max(S)
<1> DEFINE T == {n - x : x \in S}
<1>1. T \in SUBSET Nat /\ T # {} /\ \A x \in S : n - x \in T
  <2>1. \A x \in S : x \in Nat /\ x <= n /\ n - x \in Nat
    OBVIOUS
  <2> QED BY <2>1
<1>2. \A y \in T : \E x \in S : y = n - x
  OBVIOUS
<1> HIDE DEF T
<1>3. Min(T) \in T /\ \A y \in T : Min(T) <= y
  BY <1>1, MinOK
<1>4. PICK m \in S : Min(T) = n - m
  BY <1>2, <1>3
<1>5. \A x \in S : n - m <= n - x
  BY <1>1, <1>3, <1>4
<1>6. \A x \in S : m >= x
  BY <1>5
<1> QED BY <1>6 DEF Max

\* Counting up to n.
LEMMA CountUp ==
  ASSUME NEW n \in Nat, NEW P \in SUBSET (0 .. n), 0 \in P,
         \A k \in 0 .. n - 1 : k \in P => k + 1 \in P
  PROVE  P = 0 .. n
<1> SUFFICES ASSUME (0 .. n) \ P # {}
             PROVE  FALSE
  OBVIOUS
<1> DEFINE S == (0 .. n) \ P
<1>1. S \in SUBSET Nat /\ S # {}
  OBVIOUS
<1>2. \A k \in S : k \in 0 .. n /\ k \notin P
  OBVIOUS
<1>3. \A k \in 0 .. n : k \in S \/ k \in P
  OBVIOUS
<1> HIDE DEF S
<1>4. PICK m \in S : \A k \in S : m <= k
  BY <1>1, MinOK
<1>5. m # 0 /\ m \in 0 .. n
  BY <1>2
<1>6. m - 1 \in 0 .. n - 1 /\ m - 1 \notin S
  BY <1>4, <1>5
<1>7. m - 1 \in P /\ (m - 1) + 1 = m
  BY <1>3, <1>5, <1>6
<1> QED BY <1>2, <1>6, <1>7

\* There is one list of a set in an order.
LEMMA ListOnly ==
  ASSUME NEW D, IsFiniteSet(D), NEW R, Orders(R, D), NEW s, NEW t, Lists(s, R, D), Lists(t, R, D)
  PROVE  s = t
<1> DEFINE n == Cardinality(D)
<1>1. n \in Nat
  BY FS_CardinalityType
<1>2. /\ s \in [1 .. n -> D] /\ t \in [1 .. n -> D]
      /\ \A i, j \in 1 .. n : i < j => <<s[i], s[j]>> \in R /\ <<t[i], t[j]>> \in R
  BY DEF Lists
<1>3. ToSet(s) = D /\ ToSet(t) = D
  BY ListAll
<1>4. /\ \A x \in D : \E i \in 1 .. n : s[i] = x
      /\ \A x \in D : \E i \in 1 .. n : t[i] = x
  BY <1>2, <1>3 DEF ToSet
<1> HIDE DEF n
<1> DEFINE S == {i \in 1 .. n : s[i] # t[i]}
<1>5. SUFFICES ASSUME S # {} PROVE FALSE
  <2>1. ASSUME S = {} PROVE s = t
    <3>1. \A i \in 1 .. n : s[i] = t[i]
      BY <2>1
    <3>2. s = [i \in 1 .. n |-> s[i]] /\ t = [i \in 1 .. n |-> t[i]]
      BY <1>2
    <3>3. [i \in 1 .. n |-> s[i]] = [i \in 1 .. n |-> t[i]]
      BY <3>1
    <3> QED BY <3>2, <3>3
  <2> QED BY <2>1
<1>6. S \in SUBSET Nat /\ \A i \in 1 .. n : i \in S <=> s[i] # t[i]
  BY <1>1
<1>7. S \subseteq 1 .. n
  OBVIOUS
<1> HIDE DEF S
<1>8. PICK i \in S : \A k \in S : i <= k
  BY <1>5, <1>6, MinOK
<1>9. \A k \in 1 .. n : k < i => s[k] = t[k]
  BY <1>6, <1>7, <1>8
<1>10. i \in 1 .. n /\ s[i] # t[i]
  BY <1>6, <1>7, <1>8
<1>11. /\ \A x \in D : <<x, x>> \notin R
       /\ \A x, y, z \in D : <<x, y>> \in R /\ <<y, z>> \in R => <<x, z>> \in R
  BY DEF Orders
<1>12. s[i] \in D /\ t[i] \in D
  BY <1>2, <1>10
<1>13. PICK j \in 1 .. n : t[j] = s[i]
  BY <1>4, <1>12
<1>14. PICK k \in 1 .. n : s[k] = t[i]
  BY <1>4, <1>12
<1>15. ~(j < i) /\ j # i
  <2>1. ASSUME j < i PROVE FALSE
    <3>1. s[j] = s[i] /\ <<s[j], s[i]>> \in R
      BY <1>2, <1>9, <1>10, <1>13, <2>1
    <3> QED BY <1>11, <1>12, <3>1
  <2> QED BY <1>10, <1>13, <2>1
<1>16. ~(k < i) /\ k # i
  <2>1. ASSUME k < i PROVE FALSE
    <3>1. t[k] = t[i] /\ <<t[k], t[i]>> \in R
      BY <1>2, <1>9, <1>10, <1>14, <2>1
    <3> QED BY <1>11, <1>12, <3>1
  <2> QED BY <1>10, <1>14, <2>1
<1>17. i < j /\ i < k
  BY <1>10, <1>15, <1>16
<1>18. <<s[i], t[i]>> \in R
  BY <1>2, <1>10, <1>14, <1>17
<1>19. <<t[i], s[i]>> \in R
  BY <1>2, <1>10, <1>13, <1>17
<1> QED BY <1>11, <1>12, <1>18, <1>19

-----------------------------------------------------------------------------
(* Pane ids                                                                *)

\* The state of a walk that has given k ids, the numbers from n on taken.
Given(x, I, n, kind, k) ==
    /\ x = [ids |-> x.ids, n |-> x.n] /\ x.n \in Nat /\ n <= x.n
    /\ x.ids \in Seq(I \cup ({kind} \X (n .. x.n - 1))) /\ Len(x.ids) = k

\* x grown by one id to y: id i, unless x has it.
Grown(x, y, i, k) ==
    /\ \A j \in 1 .. k : y.ids[j] = x.ids[j]
    /\ i \notin ToSet(x.ids) => y.ids[k + 1] = i

\* Giving an id: one more, that was not there.
LEMMA GiveIdOK ==
  ASSUME NEW I, NEW n \in Nat, NEW kind, NEW k \in Nat, NEW x, Given(x, I, n, kind, k), NEW i \in I
  PROVE  /\ Given(GiveId(x, i, kind), I, n, kind, k + 1)
         /\ Grown(x, GiveId(x, i, kind), i, k)
<1> DEFINE J(m) == I \cup ({kind} \X (n .. m - 1))
           y == GiveId(x, i, kind)
<1>1. /\ x = [ids |-> x.ids, n |-> x.n] /\ x.n \in Nat /\ n <= x.n
      /\ x.ids \in Seq(J(x.n)) /\ Len(x.ids) = k
  BY DEF Given
<1>2. CASE i \in ToSet(x.ids)
  <2>1. y = [ids |-> Append(x.ids, <<kind, x.n>>), n |-> x.n + 1]
    BY <1>2 DEF GiveId
  <2>2. x.ids \in Seq(J(x.n + 1)) /\ <<kind, x.n>> \in J(x.n + 1)
    <3>1. n .. x.n - 1 \subseteq n .. x.n /\ x.n \in n .. x.n /\ x.n + 1 - 1 = x.n
      BY <1>1
    <3>2. J(x.n) \subseteq J(x.n + 1) /\ <<kind, x.n>> \in J(x.n + 1)
      BY <3>1
    <3> HIDE DEF J
    <3>3. \A j \in 1 .. Len(x.ids) : x.ids[j] \in J(x.n + 1)
      BY <1>1, <3>2
    <3> QED BY <1>1, <3>2, <3>3
  <2> HIDE DEF J, y
  <2>3. /\ Append(x.ids, <<kind, x.n>>) \in Seq(J(x.n + 1))
        /\ Len(Append(x.ids, <<kind, x.n>>)) = k + 1
        /\ \A j \in 1 .. k : Append(x.ids, <<kind, x.n>>)[j] = x.ids[j]
    BY <1>1, <2>2, AppendOK
  <2>4. y.ids = Append(x.ids, <<kind, x.n>>) /\ y.n = x.n + 1 /\ y = [ids |-> y.ids, n |-> y.n]
    BY <2>1
  <2>5. y.n \in Nat /\ n <= y.n /\ y.ids \in Seq(J(y.n)) /\ Len(y.ids) = k + 1
    BY <1>1, <2>3, <2>4
  <2>6. Given(y, I, n, kind, k + 1)
    BY <2>4, <2>5 DEF Given, J
  <2> QED BY <1>2, <2>3, <2>4, <2>6 DEF y, Grown
<1>3. CASE i \notin ToSet(x.ids)
  <2>1. y = [ids |-> Append(x.ids, i), n |-> x.n]
    BY <1>1, <1>3 DEF GiveId
  <2>2. i \in J(x.n)
    OBVIOUS
  <2> HIDE DEF J, y
  <2>3. /\ Append(x.ids, i) \in Seq(J(x.n)) /\ Len(Append(x.ids, i)) = k + 1
        /\ \A j \in 1 .. k : Append(x.ids, i)[j] = x.ids[j]
        /\ Append(x.ids, i)[k + 1] = i
    BY <1>1, <2>2, AppendOK
  <2>4. y.ids = Append(x.ids, i) /\ y.n = x.n /\ y = [ids |-> y.ids, n |-> y.n]
    BY <2>1
  <2>5. Given(y, I, n, kind, k + 1)
    BY <1>1, <2>3, <2>4 DEF Given, J
  <2> QED BY <2>3, <2>4, <2>5 DEF y, Grown
<1> QED BY <1>2, <1>3

\* The walk gives as many ids as are wanted, those wanted where they differ.
LEMMA UnrepeatedOK ==
  ASSUME NEW I, NEW wanted \in Seq(I), NEW n \in Nat, NEW kind
  PROVE  /\ Given(Unrepeated(wanted, n, kind), I, n, kind, Len(wanted))
         /\ Distinct(wanted) => Unrepeated(wanted, n, kind).ids = wanted
<1> DEFINE m == Len(wanted)
           a == [ids |-> <<>>, n |-> n]
           Walks(f, k) == f = [j \in 0 .. k |-> IF j = 0 THEN a ELSE GiveId(f[j - 1], wanted[j], kind)]
           g == CHOOSE f : Walks(f, m)
<1>1. m \in Nat /\ wanted \in [1 .. m -> I]
  OBVIOUS
<1>2. Unrepeated(wanted, n, kind) = g[m]
  BY DEF Unrepeated
<1> HIDE DEF m
<1>3. \E f : Walks(f, m)
  <2> DEFINE P == {k \in 0 .. m : \E f : Walks(f, k)}
  <2>1. 0 \in P
    <3> DEFINE f0 == [j \in 0 .. 0 |-> a]
    <3>1. Walks(f0, 0)
      <4>1. \A j \in 0 .. 0 : j = 0
        OBVIOUS
      <4> HIDE DEF a
      <4> QED BY <4>1
    <3> HIDE DEF Walks, f0
    <3> QED BY <1>1, <3>1
  <2>2. ASSUME NEW k \in 0 .. m - 1, k \in P
        PROVE  k + 1 \in P
    <3>1. PICK f : Walks(f, k)
      BY <2>2
    <3> DEFINE h == [j \in 0 .. k + 1 |-> IF j <= k THEN f[j] ELSE GiveId(f[k], wanted[k + 1], kind)]
    <3>2. ASSUME NEW j \in 0 .. k + 1
          PROVE  h[j] = IF j = 0 THEN a ELSE GiveId(h[j - 1], wanted[j], kind)
      <4> HIDE DEF a
      <4>1. CASE j = 0
        BY <3>1, <4>1
      <4>2. CASE j \in 1 .. k
        <5>1. j \in 0 .. k /\ j - 1 \in 0 .. k /\ j # 0
          BY <4>2
        <5>2. f[j] = GiveId(f[j - 1], wanted[j], kind)
          BY <3>1, <5>1
        <5> QED BY <4>2, <5>1, <5>2
      <4>3. CASE j = k + 1
        <5>1. j # 0 /\ j - 1 = k /\ ~(j <= k) /\ k \in 0 .. k + 1 /\ k <= k
          BY <4>3
        <5> QED BY <4>3, <5>1
      <4> QED BY <4>1, <4>2, <4>3
    <3>3. h = [j \in 0 .. k + 1 |-> h[j]]
      OBVIOUS
    <3> HIDE DEF h, a
    <3>4. Walks(h, k + 1)
      BY <3>2, <3>3
    <3>5. k + 1 \in 0 .. m
      BY <1>1
    <3> HIDE DEF Walks
    <3> QED BY <3>4, <3>5
  <2>3. P \in SUBSET (0 .. m)
    OBVIOUS
  <2> HIDE DEF P
  <2>4. P = 0 .. m
    BY <1>1, <2>1, <2>2, <2>3, CountUp
  <2>5. m \in P
    BY <1>1, <2>4
  <2> QED BY <2>5 DEF P
<1>4. Walks(g, m)
  <2> HIDE DEF Walks
  <2> QED BY <1>3
<1>5. /\ g[0] = a
      /\ \A k \in 0 .. m - 1 : g[k + 1] = GiveId(g[k], wanted[k + 1], kind)
  <2> HIDE DEF g, a
  <2>1. \A j \in 0 .. m : g[j] = IF j = 0 THEN a ELSE GiveId(g[j - 1], wanted[j], kind)
    BY <1>4
  <2>2. ASSUME NEW k \in 0 .. m - 1
        PROVE  g[k + 1] = GiveId(g[k], wanted[k + 1], kind)
    <3>1. k + 1 \in 0 .. m /\ k + 1 # 0 /\ (k + 1) - 1 = k
      BY <1>1
    <3> QED BY <2>1, <3>1
  <2> QED BY <1>1, <2>1, <2>2
<1> HIDE DEF g
<1> DEFINE P == {k \in 0 .. m : /\ Given(g[k], I, n, kind, k)
                                /\ Distinct(wanted) => \A j \in 1 .. k : g[k].ids[j] = wanted[j]}
<1>6. 0 \in P
  <2>1. Given(a, I, n, kind, 0)
    BY DEF Given
  <2>2. 1 .. 0 = {}
    OBVIOUS
  <2> HIDE DEF a
  <2> QED BY <1>1, <1>5, <2>1, <2>2
<1>7. ASSUME NEW k \in 0 .. m - 1, k \in P
      PROVE  k + 1 \in P
  <2>1. /\ k \in Nat /\ k + 1 \in 0 .. m /\ Given(g[k], I, n, kind, k)
        /\ Distinct(wanted) => \A j \in 1 .. k : g[k].ids[j] = wanted[j]
    BY <1>1, <1>7
  <2>2. wanted[k + 1] \in I /\ g[k + 1] = GiveId(g[k], wanted[k + 1], kind)
    BY <1>1, <1>5, <2>1
  <2>3. /\ Given(g[k + 1], I, n, kind, k + 1)
        /\ \A j \in 1 .. k : g[k + 1].ids[j] = g[k].ids[j]
        /\ wanted[k + 1] \notin ToSet(g[k].ids) => g[k + 1].ids[k + 1] = wanted[k + 1]
    <3> DEFINE x == g[k]
               i == wanted[k + 1]
               y == GiveId(x, i, kind)
    <3>1. k \in Nat /\ Given(x, I, n, kind, k) /\ i \in I
      BY <2>1, <2>2
    <3> HIDE DEF x, i
    <3>2. Given(y, I, n, kind, k + 1)
      BY <3>1, GiveIdOK
    <3>4. Grown(x, y, i, k)
      BY <3>1, GiveIdOK
    <3>3. g[k + 1] = y
      BY <2>2 DEF x, i
    <3> HIDE DEF y
    <3> QED BY <3>2, <3>3, <3>4 DEF x, i, Grown
  <2>4. ASSUME Distinct(wanted)
        PROVE  \A j \in 1 .. k + 1 : g[k + 1].ids[j] = wanted[j]
    <3>1. \A j \in 1 .. k : g[k].ids[j] = wanted[j]
      BY <2>1, <2>4
    <3>2. DOMAIN g[k].ids = 1 .. k
      BY <2>1 DEF Given
    <3>3. wanted[k + 1] \notin ToSet(g[k].ids)
      <4>1. ASSUME NEW j \in 1 .. k, wanted[j] = wanted[k + 1]
            PROVE  FALSE
        <5>1. j \in 1 .. m /\ k + 1 \in 1 .. m /\ DOMAIN wanted = 1 .. m /\ j # k + 1
          BY <1>1
        <5> QED BY <2>4, <4>1, <5>1 DEF Distinct
      <4> QED BY <3>1, <3>2, <4>1 DEF ToSet
    <3>4. \A j \in 1 .. k + 1 : j \in 1 .. k \/ j = k + 1
      BY <2>1
    <3> QED BY <2>3, <3>1, <3>3, <3>4
  <2> QED BY <2>1, <2>3, <2>4
<1>8. P \in SUBSET (0 .. m)
  OBVIOUS
<1> HIDE DEF P
<1>9. P = 0 .. m
  BY <1>1, <1>6, <1>7, <1>8, CountUp
<1>10. m \in P
  BY <1>1, <1>9
<1>11. /\ Given(g[m], I, n, kind, m)
       /\ Distinct(wanted) => \A j \in 1 .. m : g[m].ids[j] = wanted[j]
  BY <1>10 DEF P
<1>12. ASSUME Distinct(wanted) PROVE g[m].ids = wanted
  <2>1. DOMAIN g[m].ids = 1 .. m /\ g[m].ids = [j \in 1 .. m |-> g[m].ids[j]]
    BY <1>1, <1>11 DEF Given
  <2>2. wanted = [j \in 1 .. m |-> wanted[j]]
    BY <1>1
  <2>3. \A j \in 1 .. m : g[m].ids[j] = wanted[j]
    BY <1>11, <1>12
  <2>4. [j \in 1 .. m |-> g[m].ids[j]] = [j \in 1 .. m |-> wanted[j]]
    BY <2>3
  <2> QED BY <2>1, <2>2, <2>4, Zenon
<1> QED BY <1>2, <1>11, <1>12 DEF m

-----------------------------------------------------------------------------
(* The layout of a workspace, built again                                  *)

\* A strict prefix is shorter.
LEMMA StrictOK ==
  ASSUME NEW a \in Path, NEW b \in Path
  PROVE  IsStrictPrefix(a, b) <=> Len(a) < Len(b) /\ \A k \in 1 .. Len(a) : a[k] = b[k]
<1>1. /\ a \in Seq({"s", "e"}) /\ b \in Seq({"s", "e"}) /\ Len(a) \in Nat /\ Len(b) \in Nat
  BY PathOK
<1>2. IsPrefix(a, b) <=> Len(a) <= Len(b) /\ \A k \in 1 .. Len(a) : a[k] = b[k]
  BY PrefixOK
<1>3. ASSUME Len(a) = Len(b), \A k \in 1 .. Len(a) : a[k] = b[k]
      PROVE  a = b
  BY <1>1, <1>3, SeqEqual
<1>4. ASSUME IsStrictPrefix(a, b)
      PROVE  Len(a) < Len(b) /\ \A k \in 1 .. Len(a) : a[k] = b[k]
  <2>1. Len(a) <= Len(b) /\ (\A k \in 1 .. Len(a) : a[k] = b[k]) /\ a # b
    BY <1>2, <1>4 DEF IsStrictPrefix
  <2>2. Len(a) # Len(b)
    BY <1>3, <2>1
  <2> QED BY <1>1, <2>1, <2>2
<1>5. ASSUME Len(a) < Len(b), \A k \in 1 .. Len(a) : a[k] = b[k]
      PROVE  IsStrictPrefix(a, b)
  <2>1. a # b /\ Len(a) <= Len(b)
    BY <1>1, <1>5
  <2> QED BY <1>2, <1>5, <2>1 DEF IsStrictPrefix
<1> QED BY <1>4, <1>5

\* The nodes above come first, then those at the start side.
LEMMA SplitBeforeStrict ==
  ASSUME NEW a \in Path
  PROVE  ~SplitBefore(a, a)
<1>1. ~Before(a, a) /\ ~IsStrictPrefix(a, a)
  BY BeforeStrict DEF IsStrictPrefix
<1> QED BY <1>1 DEF SplitBefore

\* The order of the splits is one: it is transitive...
LEMMA SplitBeforeTransitive ==
  ASSUME NEW a \in Path, NEW b \in Path, NEW c \in Path, SplitBefore(a, b), SplitBefore(b, c)
  PROVE  SplitBefore(a, c)
<1>1. Len(a) \in Nat /\ Len(b) \in Nat /\ Len(c) \in Nat
  BY PathOK
<1>2. CASE IsStrictPrefix(a, b) /\ IsStrictPrefix(b, c)
  <2>1. /\ Len(a) < Len(b) /\ \A k \in 1 .. Len(a) : a[k] = b[k]
        /\ Len(b) < Len(c) /\ \A k \in 1 .. Len(b) : b[k] = c[k]
    BY <1>2, StrictOK
  <2>2. Len(a) < Len(c) /\ \A k \in 1 .. Len(a) : a[k] = c[k]
    BY <1>1, <2>1
  <2> QED BY <2>2, StrictOK DEF SplitBefore
<1>3. CASE IsStrictPrefix(a, b) /\ Before(b, c)
  <2>1. Len(a) < Len(b) /\ \A k \in 1 .. Len(a) : a[k] = b[k]
    BY <1>3, StrictOK
  <2>2. PICK k \in Nat : Splits(b, c, k) /\ b[k] = "s"
    BY <1>3, BeforeOK
  <2>3. /\ k \in 1 .. Len(b) /\ k \in 1 .. Len(c) /\ \A j \in 1 .. k - 1 : b[j] = c[j]
        /\ b[k] # c[k]
    BY <2>2 DEF Splits
  <2>4. CASE k <= Len(a)
    <3>1. Splits(a, c, k) /\ a[k] = "s"
      BY <1>1, <2>1, <2>2, <2>3, <2>4 DEF Splits
    <3> QED BY <3>1, BeforeOK DEF SplitBefore
  <2>5. CASE k > Len(a)
    <3>1. Len(a) < Len(c) /\ \A j \in 1 .. Len(a) : a[j] = c[j]
      BY <1>1, <2>1, <2>3, <2>5
    <3> QED BY <3>1, StrictOK DEF SplitBefore
  <2> QED BY <1>1, <2>3, <2>4, <2>5
<1>4. CASE Before(a, b) /\ IsStrictPrefix(b, c)
  <2>1. Len(b) < Len(c) /\ \A k \in 1 .. Len(b) : b[k] = c[k]
    BY <1>4, StrictOK
  <2>2. PICK k \in Nat : Splits(a, b, k) /\ a[k] = "s"
    BY <1>4, BeforeOK
  <2>3. Splits(a, c, k)
    BY <1>1, <2>1, <2>2 DEF Splits
  <2> QED BY <2>2, <2>3, BeforeOK DEF SplitBefore
<1>5. CASE Before(a, b) /\ Before(b, c)
  BY <1>5, BeforeTransitive DEF SplitBefore
<1> QED BY <1>2, <1>3, <1>4, <1>5 DEF SplitBefore

\* ... and of two nodes one is split first.
LEMMA SplitBeforeTotal ==
  ASSUME NEW a \in Path, NEW b \in Path, a # b
  PROVE  SplitBefore(a, b) \/ SplitBefore(b, a)
<1>1. CASE \E k \in Nat : Splits(a, b, k)
  BY <1>1, BeforeTotal DEF SplitBefore
<1>2. CASE ~\E k \in Nat : Splits(a, b, k)
  <2>1. IsPrefix(a, b) \/ IsPrefix(b, a)
    BY <1>2, PartOK
  <2> QED BY <2>1 DEF SplitBefore, IsStrictPrefix
<1> QED BY <1>1, <1>2

\* The relation R that an order is on D.
LEMMA SplitOrders ==
  ASSUME NEW D \in SUBSET Path
  PROVE  Orders({z \in D \X D : SplitBefore(z[1], z[2])}, D)
<1> DEFINE R == {z \in D \X D : SplitBefore(z[1], z[2])}
<1>1. \A x, y \in D : <<x, y>> \in R <=> SplitBefore(x, y)
  OBVIOUS
<1> HIDE DEF R
<1>2. \A x \in D : x \in Path
  OBVIOUS
<1>3. \A x \in D : <<x, x>> \notin R
  BY <1>1, <1>2, SplitBeforeStrict
<1>4. ASSUME NEW x \in D, NEW y \in D, NEW z \in D, <<x, y>> \in R, <<y, z>> \in R
      PROVE  <<x, z>> \in R
  <2>1. SplitBefore(x, y) /\ SplitBefore(y, z)
    BY <1>1, <1>4
  <2>2. SplitBefore(x, z)
    BY <1>2, <2>1, SplitBeforeTransitive
  <2> QED BY <1>1, <2>2
<1>5. ASSUME NEW x \in D, NEW y \in D
      PROVE  x = y \/ <<x, y>> \in R \/ <<y, x>> \in R
  BY <1>1, <1>2, SplitBeforeTotal
<1>6. Orders(R, D)
  BY <1>3, <1>4, <1>5 DEF Orders
<1> QED BY <1>6 DEF R

\* Inner nodes are the proper prefixes of the leaves.
LEMMA InnerOK ==
  ASSUME NEW L \in SUBSET Path, NEW a
  PROVE  a \in Inner(L) <=> a \in Path /\ \E l \in L : IsStrictPrefix(a, l)
<1>1. \A l \in L : l \in Path /\ l \in Seq({"s", "e"}) /\ Len(l) \in Nat
  BY PathOK
<1>2. ASSUME NEW l \in L, NEW n \in 0 .. Len(l) - 1
      PROVE  SubSeq(l, 1, n) \in Path /\ IsStrictPrefix(SubSeq(l, 1, n), l)
  <2> DEFINE b == SubSeq(l, 1, n)
  <2>1. b \in Seq({"s", "e"}) /\ Len(b) = n /\ \A k \in 1 .. n : b[k] = l[k]
    BY <1>1, <1>2, SubSeqProperties
  <2> HIDE DEF b
  <2>2. b \in Path /\ Len(b) < Len(l) /\ \A k \in 1 .. Len(b) : b[k] = l[k]
    BY <1>1, <2>1 DEF Path
  <2>3. IsStrictPrefix(b, l)
    BY <1>1, <2>2, StrictOK
  <2> QED BY <2>2, <2>3 DEF b
<1>3. ASSUME a \in Path, NEW l \in L, IsStrictPrefix(a, l)
      PROVE  a \in {SubSeq(l, 1, n) : n \in 0 .. Len(l) - 1}
  <2> DEFINE n == Len(a)
             b == SubSeq(l, 1, n)
  <2>1. /\ a \in Seq({"s", "e"}) /\ n \in Nat /\ n < Len(l) /\ \A k \in 1 .. n : a[k] = l[k]
    BY <1>1, <1>3, PathOK, StrictOK
  <2>2. n \in 0 .. Len(l) - 1
    BY <1>1, <2>1
  <2> HIDE DEF n
  <2>3. b \in Seq({"s", "e"}) /\ Len(b) = n /\ \A k \in 1 .. n : b[k] = l[k]
    BY <1>1, <2>1, <2>2, SubSeqProperties
  <2> HIDE DEF b
  <2>4. a = b
    <3>1. Len(a) = n
      BY DEF n
    <3> QED BY <2>1, <2>3, <3>1, SeqEqual
  <2> QED BY <2>2, <2>4 DEF b
<1>4. a \in Inner(L) <=> \E l \in L : a \in {SubSeq(l, 1, n) : n \in 0 .. Len(l) - 1}
  BY DEF Inner
<1>5. \A l \in L : a \in {SubSeq(l, 1, n) : n \in 0 .. Len(l) - 1} => a \in Path /\ IsStrictPrefix(a, l)
  BY <1>2
<1> QED BY <1>3, <1>4, <1>5

\* A tree has finitely many nodes.
LEMMA InnerFinite ==
  ASSUME NEW L \in SUBSET Path, IsFiniteSet(L)
  PROVE  IsFiniteSet(Inner(L))
<1> DEFINE B(l) == {SubSeq(l, 1, n) : n \in 0 .. Len(l) - 1}
           F == [l \in L |-> B(l)]
           S == {B(l) : l \in L}
<1>1. ASSUME NEW l \in L
      PROVE  IsFiniteSet(B(l))
  <2> DEFINE g == [n \in 0 .. Len(l) - 1 |-> SubSeq(l, 1, n)]
  <2>1. Len(l) - 1 \in Int
    BY PathOK
  <2>2. IsFiniteSet(0 .. Len(l) - 1)
    BY <2>1, FS_Interval
  <2>3. g \in Surjection(0 .. Len(l) - 1, B(l))
    BY DEF Surjection
  <2> HIDE DEF g, B
  <2> QED BY <2>2, <2>3, FS_Surjection
<1>2. IsFiniteSet(S)
  <2>1. F \in Surjection(L, S)
    BY DEF Surjection
  <2> HIDE DEF F, S
  <2> QED BY <2>1, FS_Surjection
<1>3. \A T \in S : IsFiniteSet(T)
  <2> HIDE DEF B
  <2> QED BY <1>1
<1>4. Inner(L) = UNION S
  BY DEF Inner
<1> HIDE DEF S
<1> QED BY <1>2, <1>3, <1>4, FS_UNION

\* nodes lists D, in the order the splits are made.
SplitList(nodes, D) ==
    /\ nodes \in Seq(D) /\ Len(nodes) = Cardinality(D) /\ Distinct(nodes) /\ ToSet(nodes) = D
    /\ \A i, j \in DOMAIN nodes : i < j => SplitBefore(nodes[i], nodes[j])

\* There is such a list of the nodes, and it is the one a restore walks along.
LEMMA SplitListOK ==
  ASSUME NEW D \in SUBSET Path, IsFiniteSet(D)
  PROVE  SplitList(InOrder(D, SplitBefore), D)
<1> DEFINE R == {z \in D \X D : SplitBefore(z[1], z[2])}
           Sorted(s) == /\ s \in [1 .. Cardinality(D) -> D]
                        /\ \A i, j \in DOMAIN s : i < j => SplitBefore(s[i], s[j])
           t == InOrder(D, SplitBefore)
<1>1. Orders(R, D)
  BY SplitOrders
<1>2. \A x, y \in D : <<x, y>> \in R <=> SplitBefore(x, y)
  OBVIOUS
<1> HIDE DEF R
<1>3. ASSUME NEW s, s \in [1 .. Cardinality(D) -> D]
      PROVE  Lists(s, R, D) <=> Sorted(s)
  <2>1. \A i \in DOMAIN s : s[i] \in D
    BY <1>3
  <2> QED BY <1>2, <1>3, <2>1 DEF Lists
<1>4. PICK s : Lists(s, R, D)
  BY <1>1, ListExists
<1>5. Sorted(s) /\ s \in [1 .. Cardinality(D) -> D]
  BY <1>3, <1>4 DEF Lists
<1>6. t \in [1 .. Cardinality(D) -> D] /\ Sorted(t)
  BY <1>5 DEF InOrder
<1> HIDE DEF t
<1>7. Lists(t, R, D)
  BY <1>3, <1>6
<1>8. t \in Seq(D) /\ Len(t) = Cardinality(D) /\ Distinct(t) /\ ToSet(t) = D
  BY <1>1, <1>7, ListAll
<1>9. SplitList(t, D)
  BY <1>6, <1>8 DEF SplitList
<1> QED BY <1>9 DEF t

Paths(pl) == {pl[p].path : p \in DOMAIN pl}

Child(b, a) == a = Append(b, "s") \/ a = Append(b, "e")

\* A child of a node has its path and one step more.
LEMMA ChildOK ==
  ASSUME NEW b \in Path, NEW a, Child(b, a)
  PROVE  /\ a \in Path /\ Len(a) = Len(b) + 1 /\ \A k \in 1 .. Len(b) : a[k] = b[k]
         /\ IsStrictPrefix(b, a)
<1>1. b \in Seq({"s", "e"}) /\ Len(b) \in Nat
  BY PathOK
<1>2. \A x \in {"s", "e"} :
         /\ Append(b, x) \in Seq({"s", "e"}) /\ Len(Append(b, x)) = Len(b) + 1
         /\ \A k \in 1 .. Len(b) : Append(b, x)[k] = b[k]
  BY <1>1, AppendOK
<1>3. a \in Path /\ Len(a) = Len(b) + 1 /\ \A k \in 1 .. Len(b) : a[k] = b[k]
  BY <1>2 DEF Child, Path
<1>4. Len(b) < Len(a)
  BY <1>1, <1>3
<1> QED BY <1>3, <1>4, StrictOK

\* Every path is empty or the child of a node above it.
LEMMA ParentOK ==
  ASSUME NEW a \in Path, a # <<>>
  PROVE  \E b \in Path : Child(b, a) /\ IsStrictPrefix(b, a)
<1>1. a \in Seq({"s", "e"}) /\ Len(a) \in Nat /\ \A k \in 1 .. Len(a) : a[k] \in {"s", "e"}
  BY PathOK
<1> DEFINE n == Len(a)
           b == SubSeq(a, 1, n - 1)
           c == Append(b, a[n])
<1>2. n >= 1
  <2>1. n # 0
    BY <1>1
  <2> QED BY <1>1, <2>1
<1>3. a[n] \in {"s", "e"} /\ n \in Nat
  BY <1>1, <1>2
<1>n. n = Len(a)
  OBVIOUS
<1> HIDE DEF n
<1>4. b \in Seq({"s", "e"}) /\ Len(b) = n - 1 /\ \A k \in 1 .. n - 1 : b[k] = a[k]
  BY <1>1, <1>2, <1>3, <1>n, SubSeqProperties
<1> HIDE DEF b
<1>5. c \in Seq({"s", "e"}) /\ Len(c) = n /\ \A k \in 1 .. n : c[k] = IF k <= n - 1 THEN b[k] ELSE a[n]
  BY <1>2, <1>3, <1>4, AppendOK
<1>6. \A k \in 1 .. n : c[k] = a[k]
  BY <1>2, <1>3, <1>4, <1>5
<1>7. c = a
  <2> HIDE DEF c
  <2> QED BY <1>1, <1>5, <1>6, <1>n, SeqEqual
<1>8. b \in Path /\ Child(b, a)
  BY <1>3, <1>4, <1>7 DEF Child, Path
<1> QED BY <1>8, ChildOK

\* The leaves of a whole tree are the children of its nodes that are no nodes.
LEMMA WholeLeaves ==
  ASSUME NEW D, D # {}, NEW pl \in [D -> Place({"overlay"})], Whole(pl), NEW a
  PROVE  a \in Paths(pl) <=> /\ a = <<>> \/ \E b \in Inner(Paths(pl)) : Child(b, a)
                             /\ a \notin Inner(Paths(pl))
<1> DEFINE L == Paths(pl)
<1>1. \A x \in D : pl[x].path \in Path /\ pl[x].root = "overlay"
  BY PlaceFields
<1>2. InRoot(pl, "overlay") = D
  BY <1>1 DEF InRoot
<1>3. /\ \A x \in D : \A n \in 1 .. Len(pl[x].path) : \E y \in D : Splits(pl[x].path, pl[y].path, n)
      /\ \A x \in D : \A y \in D \ {x} : \E k \in Nat : Splits(pl[x].path, pl[y].path, k)
  BY <1>1, <1>2 DEF Whole
<1>4. L \in SUBSET Path /\ L # {}
  BY <1>1 DEF Paths
<1>5. \A l \in L : \E x \in D : l = pl[x].path
  BY DEF Paths
<1>6. \A x \in D : pl[x].path \in L
  BY DEF Paths
<1> HIDE DEF L
<1>7. \A b : b \in Inner(L) <=> b \in Path /\ \E l \in L : IsStrictPrefix(b, l)
  BY <1>4, InnerOK
\* No leaf is a node.
<1>8. ASSUME a \in L PROVE a \notin Inner(L)
  <2>1. SUFFICES ASSUME NEW l \in L, IsStrictPrefix(a, l) PROVE FALSE
    BY <1>7
  <2>2. PICK x \in D, y \in D : a = pl[x].path /\ l = pl[y].path
    BY <1>5, <1>8
  <2>3. x # y
    BY <2>1, <2>2 DEF IsStrictPrefix
  <2>4. \E k \in Nat : Splits(a, l, k)
    BY <1>3, <2>2, <2>3
  <2>5. a \in Path /\ l \in Path /\ IsPrefix(a, l)
    BY <1>1, <2>1, <2>2 DEF IsStrictPrefix
  <2> QED BY <2>4, <2>5, PartOK
<1>9. ASSUME a \in L, a # <<>> PROVE \E b \in Inner(L) : Child(b, a)
  <2>1. PICK b \in Path : Child(b, a) /\ IsStrictPrefix(b, a)
    BY <1>4, <1>9, ParentOK
  <2> QED BY <1>7, <1>9, <2>1
\* What is no node but a prefix of a leaf is that leaf.
<1>10. ASSUME a \in Path, a \notin Inner(L), NEW l \in L, IsPrefix(a, l) PROVE a \in L
  <2>1. a = l \/ IsStrictPrefix(a, l)
    BY <1>10 DEF IsStrictPrefix
  <2> QED BY <1>7, <1>10, <2>1
<1>11. ASSUME a = <<>>, a \notin Inner(L) PROVE a \in L
  <2>1. PICK l \in L : TRUE
    BY <1>4
  <2>2. a \in Path /\ Len(a) = 0 /\ l \in Path /\ Len(l) \in Nat
    BY <1>4, <1>11, PathOK DEF Path
  <2>3. IsPrefix(a, l)
    BY <2>2, PrefixOK
  <2> QED BY <1>10, <1>11, <2>2, <2>3
<1>12. ASSUME NEW b \in Inner(L), Child(b, a), a \notin Inner(L) PROVE a \in L
  <2>1. b \in Path /\ \E l \in L : IsStrictPrefix(b, l)
    BY <1>7
  <2>2. PICK x \in D : IsStrictPrefix(b, pl[x].path)
    BY <1>5, <2>1
  <2> DEFINE l == pl[x].path
             n == Len(b) + 1
  <2>3. l \in Path /\ Len(b) \in Nat /\ Len(l) \in Nat /\ Len(b) < Len(l) /\ l \in L
        /\ \A k \in 1 .. Len(b) : b[k] = l[k]
    BY <1>1, <1>6, <2>1, <2>2, PathOK, StrictOK
  <2>4. a \in Path /\ Len(a) = n /\ \A k \in 1 .. Len(b) : a[k] = b[k]
    BY <1>12, <2>1, ChildOK
  <2>l. pl[x].path = l
    OBVIOUS
  <2> HIDE DEF l
  <2>5. CASE a[n] = l[n]
    <3>1. Len(a) <= Len(l) /\ \A k \in 1 .. Len(a) : a[k] = l[k]
      BY <2>3, <2>4, <2>5
    <3> QED BY <1>10, <1>12, <2>3, <2>4, <3>1, PrefixOK
  <2>6. CASE a[n] # l[n]
    <3>1. n \in 1 .. Len(l)
      BY <2>3
    <3>2. PICK y \in D : Splits(l, pl[y].path, n)
      BY <1>3, <2>l, <3>1
    <3> DEFINE m == pl[y].path
    <3>3. m \in Path /\ m \in L
      BY <1>1, <1>6
    <3> HIDE DEF m
    <3>4. n \in 1 .. Len(m) /\ (\A k \in 1 .. n - 1 : l[k] = m[k]) /\ l[n] # m[n]
      BY <3>2 DEF Splits, m
    <3>5. a[n] \in {"s", "e"} /\ l[n] \in {"s", "e"} /\ m[n] \in {"s", "e"} /\ Len(m) \in Nat
      BY <2>3, <2>4, <3>1, <3>3, <3>4, PathOK
    <3>6. a[n] = m[n]
      BY <2>6, <3>4, <3>5
    <3>7. Len(a) <= Len(m) /\ \A k \in 1 .. Len(a) : a[k] = m[k]
      BY <2>3, <2>4, <3>4, <3>5, <3>6
    <3> QED BY <1>10, <1>12, <2>4, <3>3, <3>7, PrefixOK
  <2> QED BY <2>5, <2>6
<1>13. a \in L <=> /\ a = <<>> \/ \E b \in Inner(L) : Child(b, a)
                   /\ a \notin Inner(L)
  BY <1>8, <1>9, <1>11, <1>12
<1> QED BY <1>13 DEF L

\* A node is split after those above it.
LEMMA SplitListEarlier ==
  ASSUME NEW D \in SUBSET Path, NEW nodes, SplitList(nodes, D),
         NEW i \in DOMAIN nodes, NEW j \in DOMAIN nodes, SplitBefore(nodes[i], nodes[j])
  PROVE  i < j
<1>1. /\ i \in Nat /\ j \in Nat /\ nodes[i] \in Path /\ nodes[j] \in Path
      /\ j < i => SplitBefore(nodes[j], nodes[i])
  BY DEF SplitList
<1>2. i # j
  BY <1>1, SplitBeforeStrict
<1>3. ~(j < i)
  BY <1>1, SplitBeforeTransitive, SplitBeforeStrict
<1> QED BY <1>1, <1>2, <1>3

\* The tree after the first k splits: its leaves are the children of those k
\* nodes that are not themselves among them.
Halfway(pl, nodes, k) ==
    /\ pl \in [1 .. k + 1 -> Place({"overlay"})] /\ Whole(pl)
    /\ \A a : a \in Paths(pl) <=> /\ a = <<>> \/ \E i \in 1 .. k : Child(nodes[i], a)
                                  /\ \A i \in 1 .. k : a # nodes[i]

\* Before the first split there is one pane, at the root.
LEMMA HalfwayStart ==
  ASSUME NEW nodes, NEW pl, pl = [p \in {1} |-> At("overlay", <<>>)]
  PROVE  Halfway(pl, nodes, 0)
<1>1. <<>> \in Path /\ 1 .. 0 = {} /\ 1 .. 0 + 1 = {1}
  BY DEF Path
<1>2. At("overlay", <<>>) \in Place({"overlay"}) /\ At("overlay", <<>>).path = <<>>
  BY <1>1, PlaceOK DEF At
<1>3. pl \in [{1} -> Place({"overlay"})] /\ DOMAIN pl = {1} /\ pl[1].path = <<>>
  BY <1>2
<1>4. Len(<<>>) = 0
  OBVIOUS
<1>5. Whole(pl)
  <2>1. \A x \in DOMAIN pl : Len(pl[x].path) = 0 /\ DOMAIN pl \ {x} = {}
    BY <1>3, <1>4
  <2>2. \A x \in DOMAIN pl : InRoot(pl, pl[x].root) \ {x} = {}
    BY <2>1 DEF InRoot
  <2> QED BY <1>1, <2>1, <2>2 DEF Whole
<1>6. \A a : a \in Paths(pl) <=> a = <<>>
  BY <1>3 DEF Paths
<1> QED BY <1>1, <1>3, <1>5, <1>6 DEF Halfway

\* Paths of a whole tree are those of different panes.
LEMMA WholePaths ==
  ASSUME NEW D, NEW pl \in [D -> Place({"overlay"})], Whole(pl), NEW x \in D, NEW y \in D, x # y
  PROVE  pl[x].path # pl[y].path
<1>1. \A z \in D : pl[z].path \in Path /\ pl[z].root = "overlay"
  BY PlaceFields
<1>2. y \in InRoot(pl, pl[x].root) \ {x}
  BY <1>1 DEF InRoot
<1>3. PICK k \in Nat : Splits(pl[x].path, pl[y].path, k)
  BY <1>2 DEF Whole
<1> QED BY <1>3 DEF Splits

\* A split puts two children in the place of a leaf.
LEMMA SplitPaths ==
  ASSUME NEW R, NEW pl, pl \in [DOMAIN pl -> Place(R)], NEW p \in DOMAIN pl,
         NEW q, q \notin DOMAIN pl
  PROVE  /\ DOMAIN SplitLeaf(pl, p, q) = DOMAIN pl \cup {q}
         /\ SplitLeaf(pl, p, q)[p].path = Append(pl[p].path, "s")
         /\ SplitLeaf(pl, p, q)[q].path = Append(pl[p].path, "e")
         /\ \A x \in DOMAIN pl \ {p} : SplitLeaf(pl, p, q)[x] = pl[x]
BY DEF SplitLeaf, At

\* One split more.
LEMMA HalfwayStep ==
  ASSUME NEW D \in SUBSET Path, \A b \in D : b = <<>> \/ \E c \in D : Child(c, b),
         NEW nodes, SplitList(nodes, D), NEW k \in 0 .. Len(nodes) - 1,
         NEW pl, Halfway(pl, nodes, k)
  PROVE  Halfway(SplitNode(pl, nodes[k + 1]), nodes, k + 1)
<1> DEFINE b == nodes[k + 1]
           p == CHOOSE x \in DOMAIN pl : pl[x].path = b
           q == k + 2
           v == SplitLeaf(pl, p, q)
<1>1. /\ nodes \in Seq(D) /\ Distinct(nodes) /\ k \in Nat /\ k + 1 \in DOMAIN nodes
      /\ DOMAIN nodes = 1 .. Len(nodes) /\ \A i \in 1 .. k : i \in DOMAIN nodes
  BY DEF SplitList
<1>2. b \in D /\ b \in Path /\ \A i \in 1 .. k : nodes[i] \in D /\ nodes[i] \in Path
  BY <1>1
<1>3. /\ pl \in [1 .. k + 1 -> Place({"overlay"})] /\ Whole(pl) /\ DOMAIN pl = 1 .. k + 1
      /\ \A a : a \in Paths(pl) <=> /\ a = <<>> \/ \E i \in 1 .. k : Child(nodes[i], a)
                                    /\ \A i \in 1 .. k : a # nodes[i]
  BY DEF Halfway
<1>4. b \in Paths(pl)
  <2>1. \A i \in 1 .. k : b # nodes[i]
    BY <1>1 DEF Distinct
  <2>2. ASSUME b # <<>> PROVE \E i \in 1 .. k : Child(nodes[i], b)
    <3>1. PICK c \in D : Child(c, b)
      BY <1>2, <2>2
    <3>2. PICK i \in DOMAIN nodes : nodes[i] = c
      BY DEF SplitList, ToSet
    <3>3. SplitBefore(nodes[i], nodes[k + 1])
      BY <1>1, <1>2, <3>1, <3>2, ChildOK DEF SplitBefore
    <3>4. i < k + 1
      BY <1>1, <3>3, SplitListEarlier
    <3>5. i \in 1 .. k
      BY <1>1, <3>4
    <3> QED BY <3>1, <3>2, <3>5
  <2> HIDE DEF b
  <2> QED BY <1>3, <2>1, <2>2
<1> HIDE DEF b
<1>5. p \in DOMAIN pl /\ pl[p].path = b
  <2>1. \E x \in DOMAIN pl : pl[x].path = b
    BY <1>4 DEF Paths
  <2> QED BY <2>1
<1>6. q \notin DOMAIN pl /\ DOMAIN pl \cup {q} = 1 .. (k + 1) + 1
  BY <1>1, <1>3
<1>7. Cardinality(DOMAIN pl) + 1 = q
  BY <1>1, <1>3, FS_Interval
<1>8. SplitNode(pl, b) = v
  BY <1>7 DEF SplitNode
<1> HIDE DEF p, q
<1>9. /\ DOMAIN v = DOMAIN pl \cup {q}
      /\ v[p].path = Append(b, "s") /\ v[q].path = Append(b, "e")
      /\ \A x \in DOMAIN pl \ {p} : v[x] = pl[x]
  <2>1. pl \in [DOMAIN pl -> Place({"overlay"})]
    BY <1>3
  <2>2. /\ DOMAIN SplitLeaf(pl, p, q) = DOMAIN pl \cup {q}
        /\ SplitLeaf(pl, p, q)[p].path = Append(pl[p].path, "s")
        /\ SplitLeaf(pl, p, q)[q].path = Append(pl[p].path, "e")
        /\ \A x \in DOMAIN pl \ {p} : SplitLeaf(pl, p, q)[x] = pl[x]
    BY <1>5, <1>6, <2>1, SplitPaths
  <2> QED BY <1>5, <2>2
<1>10. v \in [1 .. (k + 1) + 1 -> Place({"overlay"})]
  <2>1. v \in [1 .. k + 1 \cup {q} -> Place({"overlay"})]
    BY <1>3, <1>5, SplitLeafOK
  <2> QED BY <1>3, <1>6, <2>1
<1>11. Whole(v)
  <2>1. pl \in [DOMAIN pl -> Place({"overlay"})]
    BY <1>3
  <2> QED BY <1>3, <1>5, <1>6, <2>1, SplitLeafWhole
<1> HIDE DEF v
<1>12. \A x \in DOMAIN pl : x # p => pl[x].path # b
  BY <1>3, <1>5, WholePaths
<1>13. ASSUME NEW a
       PROVE  a \in Paths(v) <=> (a \in Paths(pl) /\ a # b) \/ Child(b, a)
  <2>1. ASSUME a \in Paths(v) PROVE (a \in Paths(pl) /\ a # b) \/ Child(b, a)
    <3>1. PICK x \in DOMAIN v : a = v[x].path
      BY <2>1 DEF Paths
    <3>2. x = p \/ x = q \/ x \in DOMAIN pl \ {p}
      BY <1>9, <3>1
    <3>3. CASE x = p \/ x = q
      BY <1>9, <3>1, <3>3 DEF Child
    <3>4. CASE x \in DOMAIN pl \ {p}
      BY <1>9, <1>12, <3>1, <3>4 DEF Paths
    <3> QED BY <3>2, <3>3, <3>4
  <2>2. ASSUME a \in Paths(pl), a # b PROVE a \in Paths(v)
    <3>1. PICK x \in DOMAIN pl : a = pl[x].path
      BY <2>2 DEF Paths
    <3>2. x # p
      BY <1>5, <2>2, <3>1
    <3> QED BY <1>9, <3>1, <3>2 DEF Paths
  <2>3. ASSUME Child(b, a) PROVE a \in Paths(v)
    BY <1>5, <1>9, <2>3 DEF Paths, Child
  <2> QED BY <2>1, <2>2, <2>3
\* No child of the new node is an earlier node.
<1>14. ASSUME NEW a, Child(b, a), NEW i \in 1 .. k + 1
       PROVE  a # nodes[i]
  <2>1. SUFFICES ASSUME a = nodes[i] PROVE FALSE
    OBVIOUS
  <2>2. i \in DOMAIN nodes /\ i <= k + 1
    BY <1>1
  <2>3. SplitBefore(nodes[k + 1], nodes[i])
    BY <1>2, <1>14, <2>1, ChildOK DEF SplitBefore, b
  <2>4. k + 1 < i
    BY <1>1, <2>2, <2>3, SplitListEarlier
  <2> QED BY <1>1, <2>2, <2>4
<1>15. \A i : i \in 1 .. k + 1 <=> i \in 1 .. k \/ i = k + 1
  BY <1>1
<1>16. ASSUME NEW a
       PROVE  a \in Paths(v) <=> /\ a = <<>> \/ \E i \in 1 .. k + 1 : Child(nodes[i], a)
                                 /\ \A i \in 1 .. k + 1 : a # nodes[i]
  <2>1. b = nodes[k + 1]
    BY DEF b
  <2>2. a \in Paths(pl) <=> /\ a = <<>> \/ \E i \in 1 .. k : Child(nodes[i], a)
                            /\ \A i \in 1 .. k : a # nodes[i]
    BY <1>3
  <2>3. a \in Paths(v) <=> (a \in Paths(pl) /\ a # b) \/ Child(b, a)
    BY <1>13
  <2>4. Child(b, a) => \A i \in 1 .. k + 1 : a # nodes[i]
    BY <1>14
  <2> QED BY <1>15, <2>1, <2>2, <2>3, <2>4
<1>17. Halfway(v, nodes, k + 1)
  BY <1>10, <1>11, <1>16 DEF Halfway
<1> QED BY <1>8, <1>17 DEF b

\* The splits, one after the other, lead to the tree after all of them.
LEMMA RestoreLayoutWalk ==
  ASSUME NEW L \in SUBSET Path, IsFiniteSet(L)
  PROVE  LET nodes == InOrder(Inner(L), SplitBefore)
         IN  SplitList(nodes, Inner(L)) /\ Halfway(RestoreLayout(L), nodes, Len(nodes))
<1> DEFINE D == Inner(L)
           nodes == InOrder(D, SplitBefore)
           m == Len(nodes)
           a == [p \in {1} |-> At("overlay", <<>>)]
           Walks(f, k) == f = [j \in 0 .. k |-> IF j = 0 THEN a ELSE SplitNode(f[j - 1], nodes[j])]
           g == CHOOSE f : Walks(f, m)
<1>1. RestoreLayout(L) = g[m]
  BY DEF RestoreLayout
<1>2. D \in SUBSET Path /\ IsFiniteSet(D)
  BY InnerOK, InnerFinite
<1>3. \A b \in D : b = <<>> \/ \E c \in D : Child(c, b)
  <2>1. SUFFICES ASSUME NEW b \in D, b # <<>> PROVE \E c \in D : Child(c, b)
    OBVIOUS
  <2>2. PICK c \in Path : Child(c, b) /\ IsStrictPrefix(c, b)
    BY <1>2, <2>1, ParentOK
  <2>3. PICK l \in L : IsStrictPrefix(b, l)
    BY <2>1, InnerOK
  <2>4. b \in Path /\ l \in Path /\ Len(b) \in Nat /\ Len(c) \in Nat /\ Len(l) \in Nat
    BY <1>2, <2>1, <2>2, <2>3, PathOK
  <2>5. /\ Len(c) < Len(b) /\ \A k \in 1 .. Len(c) : c[k] = b[k]
        /\ Len(b) < Len(l) /\ \A k \in 1 .. Len(b) : b[k] = l[k]
    BY <2>2, <2>3, <2>4, StrictOK
  <2>6. Len(c) < Len(l) /\ \A k \in 1 .. Len(c) : c[k] = l[k]
    BY <2>4, <2>5
  <2>7. IsStrictPrefix(c, l)
    BY <2>2, <2>4, <2>6, StrictOK
  <2>8. c \in D
    BY <2>2, <2>7, InnerOK
  <2> QED BY <2>2, <2>8
<1> HIDE DEF D
<1>4. SplitList(nodes, D)
  BY <1>2, SplitListOK
<1>5. nodes \in Seq(D) /\ m \in Nat
  BY <1>4 DEF SplitList
<1> HIDE DEF nodes, m
<1>6. \E f : Walks(f, m)
  <2> DEFINE P == {k \in 0 .. m : \E f : Walks(f, k)}
  <2>1. 0 \in P
    <3> DEFINE f0 == [j \in 0 .. 0 |-> a]
    <3>1. Walks(f0, 0)
      <4>1. \A j \in 0 .. 0 : j = 0
        OBVIOUS
      <4> HIDE DEF a
      <4> QED BY <4>1
    <3> HIDE DEF Walks, f0
    <3> QED BY <1>5, <3>1
  <2>2. ASSUME NEW k \in 0 .. m - 1, k \in P
        PROVE  k + 1 \in P
    <3>1. PICK f : Walks(f, k)
      BY <2>2
    <3> DEFINE h == [j \in 0 .. k + 1 |-> IF j <= k THEN f[j] ELSE SplitNode(f[k], nodes[k + 1])]
    <3>2. ASSUME NEW j \in 0 .. k + 1
          PROVE  h[j] = IF j = 0 THEN a ELSE SplitNode(h[j - 1], nodes[j])
      <4> HIDE DEF a
      <4>1. CASE j = 0
        BY <3>1, <4>1
      <4>2. CASE j \in 1 .. k
        <5>1. j \in 0 .. k /\ j - 1 \in 0 .. k /\ j # 0
          BY <4>2
        <5>2. f[j] = SplitNode(f[j - 1], nodes[j])
          BY <3>1, <5>1
        <5> QED BY <4>2, <5>1, <5>2
      <4>3. CASE j = k + 1
        <5>1. j # 0 /\ j - 1 = k /\ ~(j <= k) /\ k \in 0 .. k + 1 /\ k <= k
          BY <4>3
        <5> QED BY <4>3, <5>1
      <4> QED BY <4>1, <4>2, <4>3
    <3>3. h = [j \in 0 .. k + 1 |-> h[j]]
      OBVIOUS
    <3> HIDE DEF h, a
    <3>4. Walks(h, k + 1)
      BY <3>2, <3>3
    <3>5. k + 1 \in 0 .. m
      BY <1>5
    <3> HIDE DEF Walks
    <3> QED BY <3>4, <3>5
  <2>3. P \in SUBSET (0 .. m)
    OBVIOUS
  <2> HIDE DEF P
  <2>4. P = 0 .. m
    BY <1>5, <2>1, <2>2, <2>3, CountUp
  <2>5. m \in P
    BY <1>5, <2>4
  <2> QED BY <2>5 DEF P
<1>7. Walks(g, m)
  <2> HIDE DEF Walks
  <2> QED BY <1>6
<1>8. /\ g[0] = a
      /\ \A k \in 0 .. m - 1 : g[k + 1] = SplitNode(g[k], nodes[k + 1])
  <2> HIDE DEF g, a
  <2>1. \A j \in 0 .. m : g[j] = IF j = 0 THEN a ELSE SplitNode(g[j - 1], nodes[j])
    BY <1>7
  <2>2. ASSUME NEW k \in 0 .. m - 1
        PROVE  g[k + 1] = SplitNode(g[k], nodes[k + 1])
    <3>1. k + 1 \in 0 .. m /\ k + 1 # 0 /\ (k + 1) - 1 = k
      BY <1>5
    <3> QED BY <2>1, <3>1
  <2> QED BY <1>5, <2>1, <2>2
<1> HIDE DEF g
<1> DEFINE P == {k \in 0 .. m : Halfway(g[k], nodes, k)}
<1>9. 0 \in P
  BY <1>5, <1>8, HalfwayStart
<1>10. ASSUME NEW k \in 0 .. m - 1, k \in P
       PROVE  k + 1 \in P
  <2>1. Halfway(g[k], nodes, k) /\ k \in 0 .. Len(nodes) - 1 /\ k + 1 \in 0 .. m
    BY <1>5, <1>10 DEF m
  <2>2. Halfway(SplitNode(g[k], nodes[k + 1]), nodes, k + 1)
    BY <1>2, <1>3, <1>4, <2>1, HalfwayStep
  <2> QED BY <1>8, <2>1, <2>2
<1>11. P \in SUBSET (0 .. m)
  OBVIOUS
<1> HIDE DEF P
<1>12. P = 0 .. m
  BY <1>5, <1>9, <1>10, <1>11, CountUp
<1>13. m \in P
  BY <1>5, <1>12
<1>14. Halfway(g[m], nodes, m)
  BY <1>13 DEF P
<1> QED BY <1>1, <1>4, <1>14 DEF m, nodes, D

\* A whole tree is built again: as many panes, numbered from 1, on the same
\* places.
LEMMA RestoreLayoutOK ==
  ASSUME NEW D, D # {}, IsFiniteSet(D), NEW pl \in [D -> Place({"overlay"})], Whole(pl),
         NEW v, v = RestoreLayout(Paths(pl))
  PROVE  /\ v \in [1 .. Cardinality(D) -> Place({"overlay"})] /\ Whole(v)
         /\ Paths(v) = Paths(pl)
<1> DEFINE L == Paths(pl)
           nodes == InOrder(Inner(L), SplitBefore)
           m == Len(nodes)
<1>1. L \in SUBSET Path
  BY PlaceFields DEF Paths
<1>2. IsFiniteSet(L) /\ Cardinality(D) = Cardinality(L)
  <2> DEFINE f == [x \in D |-> pl[x].path]
  <2>1. f \in Surjection(D, L)
    BY DEF Surjection, Paths
  <2>2. f \in Injection(D, L)
    <3>1. \A x, y \in D : f[x] = f[y] => x = y
      BY WholePaths
    <3>2. f \in [D -> L]
      BY <2>1 DEF Surjection
    <3> HIDE DEF f, L
    <3> QED BY <3>1, <3>2 DEF Injection, IsInjective
  <2> HIDE DEF f, L
  <2> QED BY <2>1, <2>2, FS_Surjection
<1>3. SplitList(nodes, Inner(L)) /\ Halfway(v, nodes, m)
  <2> HIDE DEF L
  <2>1. v = RestoreLayout(L)
    BY DEF L
  <2> QED BY <1>1, <1>2, <2>1, RestoreLayoutWalk
<1>4. \A a : a \in L <=> /\ a = <<>> \/ \E b \in Inner(L) : Child(b, a)
                         /\ a \notin Inner(L)
  BY WholeLeaves
<1> HIDE DEF L
<1>5. nodes \in Seq(Inner(L)) /\ ToSet(nodes) = Inner(L) /\ m \in Nat
  BY <1>3 DEF SplitList
<1> HIDE DEF nodes
<1>6. \A b : b \in Inner(L) <=> \E i \in 1 .. m : nodes[i] = b
  BY <1>5 DEF ToSet
<1>m. m = Len(nodes)
  OBVIOUS
<1> HIDE DEF m
<1>7. \A a : a \in Paths(v) <=> /\ a = <<>> \/ \E i \in 1 .. m : Child(nodes[i], a)
                                /\ \A i \in 1 .. m : a # nodes[i]
  BY <1>3 DEF Halfway
<1>8. Paths(v) = L
  <2>1. ASSUME NEW a PROVE a \in Paths(v) <=> a \in L
    <3>1. (\E i \in 1 .. m : Child(nodes[i], a)) <=> \E b \in Inner(L) : Child(b, a)
      BY <1>6
    <3>2. (\A i \in 1 .. m : a # nodes[i]) <=> a \notin Inner(L)
      BY <1>6
    <3>3. a \in Paths(v) <=> /\ a = <<>> \/ \E i \in 1 .. m : Child(nodes[i], a)
                             /\ \A i \in 1 .. m : a # nodes[i]
      BY <1>7
    <3>4. a \in L <=> /\ a = <<>> \/ \E b \in Inner(L) : Child(b, a)
                      /\ a \notin Inner(L)
      BY <1>4
    <3> QED BY <3>1, <3>2, <3>3, <3>4
  <2> QED BY <2>1
<1>9. v \in [1 .. m + 1 -> Place({"overlay"})] /\ Whole(v)
  BY <1>3 DEF Halfway
<1>10. Cardinality(L) = m + 1
  <2> DEFINE f == [x \in 1 .. m + 1 |-> v[x].path]
  <2>1. f \in Surjection(1 .. m + 1, L)
    <3>1. DOMAIN v = 1 .. m + 1
      BY <1>9
    <3>2. L = {v[x].path : x \in 1 .. m + 1}
      BY <1>8, <3>1 DEF Paths
    <3> QED BY <3>2 DEF Surjection
  <2>2. f \in Injection(1 .. m + 1, L)
    <3>0. \A x, y \in 1 .. m + 1 : x # y => v[x].path # v[y].path
      <4> DEFINE E == 1 .. m + 1
      <4> HIDE DEF E
      <4>1. v \in [E -> Place({"overlay"})] /\ Whole(v)
        BY <1>9 DEF E
      <4>2. \A x, y \in E : x # y => v[x].path # v[y].path
        BY <4>1, WholePaths
      <4> QED BY <4>2 DEF E
    <3>1. \A x, y \in 1 .. m + 1 : f[x] = f[y] => x = y
      BY <3>0
    <3>2. f \in [1 .. m + 1 -> L]
      BY <2>1 DEF Surjection
    <3> HIDE DEF f
    <3> QED BY <3>1, <3>2 DEF Injection, IsInjective
  <2>3. IsFiniteSet(1 .. m + 1) /\ Cardinality(1 .. m + 1) = m + 1
    BY <1>5, FS_Interval
  <2> HIDE DEF f
  <2>4. Cardinality(1 .. m + 1) = Cardinality(L)
    BY <2>1, <2>2, <2>3, FS_Surjection
  <2> QED BY <2>3, <2>4
<1> QED BY <1>2, <1>8, <1>9, <1>10 DEF L

\* Where a list has an element.
LEMMA IndexOK ==
  ASSUME NEW S, NEW s \in Seq(S), NEW x \in ToSet(s)
  PROVE  /\ IndexOf(s, x) \in 1 .. Len(s) /\ s[IndexOf(s, x)] = x
         /\ Distinct(s) => \A i \in 1 .. Len(s) : IndexOf(s, s[i]) = i
<1>1. DOMAIN s = 1 .. Len(s)
  OBVIOUS
<1>2. ASSUME NEW y \in ToSet(s) PROVE IndexOf(s, y) \in 1 .. Len(s) /\ s[IndexOf(s, y)] = y
  <2>1. \E i \in DOMAIN s : s[i] = y
    BY DEF ToSet
  <2> QED BY <1>1, <2>1 DEF IndexOf
<1>3. ASSUME Distinct(s), NEW i \in 1 .. Len(s) PROVE IndexOf(s, s[i]) = i
  <2>1. s[i] \in ToSet(s)
    BY <1>1 DEF ToSet
  <2>2. IndexOf(s, s[i]) \in 1 .. Len(s) /\ s[IndexOf(s, s[i])] = s[i]
    BY <1>2, <2>1
  <2> QED BY <1>1, <1>3, <2>2 DEF Distinct
<1> QED BY <1>2, <1>3

\* Each pane of T has an id, its own where they differ.
Normalizes(x, T, ids, I, n, kind) ==
    /\ x.n \in Nat /\ n <= x.n
    /\ x.id \in [T -> I \cup ({kind} \X (n .. x.n - 1))]
    /\ IsInjective(ids) => x.id = ids

\* What a normalization gives: an id to each pane, and no new one where they
\* differ.
LEMMA NormalizedOK ==
  ASSUME NEW S, NEW panes \in Seq(S), Distinct(panes), NEW I, NEW ids \in [ToSet(panes) -> I],
         NEW n \in Nat, NEW kind, NEW x, x = Normalized(panes, ids, n, kind)
  PROVE  Normalizes(x, ToSet(panes), ids, I, n, kind)
<1> DEFINE wanted == [k \in DOMAIN panes |-> ids[panes[k]]]
           u == Unrepeated(wanted, n, kind)
           J == I \cup ({kind} \X (n .. u.n - 1))
<1>1. DOMAIN panes = 1 .. Len(panes) /\ Len(panes) \in Nat /\ \A k \in DOMAIN panes : panes[k] \in ToSet(panes)
  BY DEF ToSet
<1>2. wanted \in Seq(I) /\ Len(wanted) = Len(panes) /\ \A k \in DOMAIN panes : wanted[k] = ids[panes[k]]
  BY <1>1
<1>3. x = [id |-> [p \in ToSet(panes) |-> u.ids[IndexOf(panes, p)]], n |-> u.n]
  BY DEF Normalized
<1>w. DOMAIN wanted = DOMAIN panes
  OBVIOUS
<1> HIDE DEF wanted
<1>4. Given(u, I, n, kind, Len(wanted)) /\ (Distinct(wanted) => u.ids = wanted)
  BY <1>2, UnrepeatedOK
<1> HIDE DEF u
<1>5. u.n \in Nat /\ n <= u.n /\ u.ids \in Seq(J) /\ Len(u.ids) = Len(panes)
  BY <1>2, <1>4 DEF Given
<1> HIDE DEF J
<1>6. \A p \in ToSet(panes) : IndexOf(panes, p) \in 1 .. Len(panes) /\ panes[IndexOf(panes, p)] = p
  BY IndexOK
<1>7. x.id = [p \in ToSet(panes) |-> u.ids[IndexOf(panes, p)]] /\ x.n = u.n
  BY <1>3
<1>8. x.id \in [ToSet(panes) -> J]
  <2>1. \A p \in ToSet(panes) : u.ids[IndexOf(panes, p)] \in J
    BY <1>5, <1>6
  <2> QED BY <1>7, <2>1
<1>9. ASSUME IsInjective(ids) PROVE x.id = ids
  <2>1. Distinct(wanted)
    <3>1. ASSUME NEW j \in DOMAIN panes, NEW k \in DOMAIN panes, ids[panes[j]] = ids[panes[k]] PROVE j = k
      BY <1>1, <1>9, <3>1 DEF IsInjective, Distinct
    <3> QED BY <1>2, <1>w, <3>1 DEF Distinct
  <2>2. u.ids = wanted
    BY <1>4, <2>1
  <2>3. \A p \in ToSet(panes) : u.ids[IndexOf(panes, p)] = ids[p]
    BY <1>1, <1>2, <1>6, <2>2
  <2>4. ids = [p \in ToSet(panes) |-> ids[p]]
    OBVIOUS
  <2> QED BY <1>7, <2>3, <2>4
<1> QED BY <1>5, <1>7, <1>8, <1>9 DEF J, Normalizes

\* The panes 1 to m have ids, those that were kept where these differ.
Assigns(x, kept, m, I, n, kind) ==
    /\ x.n \in Nat /\ n <= x.n
    /\ x.id \in [1 .. m -> I \cup ({kind} \X (n .. x.n - 1))]
    /\ (\A j, k \in 1 .. m : kept[j].id = kept[k].id => j = k)
          => \A k \in 1 .. m : x.id[k] = kept[k].id

\* What a restore gives, from the ids that were saved.
LEMMA AssignedOK ==
  ASSUME NEW I, NEW m \in Nat, NEW kept, DOMAIN kept = 1 .. m, \A k \in 1 .. m : kept[k].id \in I,
         NEW n \in Nat, NEW kind, NEW x, x = Assigned(kept, n, kind)
  PROVE  Assigns(x, kept, m, I, n, kind)
<1> DEFINE wanted == [k \in DOMAIN kept |-> kept[k].id]
           u == Unrepeated(wanted, n, kind)
           J == I \cup ({kind} \X (n .. u.n - 1))
<1>1. wanted \in Seq(I) /\ Len(wanted) = m /\ \A k \in 1 .. m : wanted[k] = kept[k].id
  OBVIOUS
<1>2. x = [id |-> u.ids, n |-> u.n]
  BY DEF Assigned
<1>w. DOMAIN wanted = 1 .. m
  OBVIOUS
<1> HIDE DEF wanted
<1>3. Given(u, I, n, kind, Len(wanted)) /\ (Distinct(wanted) => u.ids = wanted)
  BY <1>1, UnrepeatedOK
<1> HIDE DEF u
<1>4. u.n \in Nat /\ n <= u.n /\ u.ids \in Seq(J) /\ Len(u.ids) = m
  BY <1>1, <1>3 DEF Given
<1>5. x.id = u.ids /\ x.n = u.n
  BY <1>2
<1> HIDE DEF J
<1>6. x.id \in [1 .. m -> J]
  BY <1>4, <1>5
<1>7. ASSUME \A j, k \in 1 .. m : kept[j].id = kept[k].id => j = k
      PROVE  \A k \in 1 .. m : x.id[k] = kept[k].id
  <2>1. Distinct(wanted)
    BY <1>1, <1>w, <1>7 DEF Distinct
  <2> QED BY <1>1, <1>3, <1>5, <2>1
<1> QED BY <1>4, <1>5, <1>6, <1>7 DEF J, Assigns

-----------------------------------------------------------------------------
(* Numbers in order                                                        *)

\* t lists D, the smallest first.
Ascending(t, D) ==
    /\ t \in Seq(D) /\ Len(t) = Cardinality(D) /\ Distinct(t) /\ ToSet(t) = D
    /\ \A i, j \in DOMAIN t : i < j => t[i] < t[j]

\* Numbers are ordered.
LEMMA NumbersOrder ==
  ASSUME NEW D \in SUBSET Nat, NEW R, R = {z \in D \X D : z[1] < z[2]}
  PROVE  Orders(R, D)
<1>1. \A x, y \in D : <<x, y>> \in R <=> x < y
  OBVIOUS
<1> QED BY <1>1 DEF Orders

\* A finite set of numbers has such a list.
LEMMA AscendingOK ==
  ASSUME NEW D \in SUBSET Nat, IsFiniteSet(D)
  PROVE  Ascending(InOrder(D, LAMBDA c, d : c < d), D)
<1> DEFINE R == {z \in D \X D : z[1] < z[2]}
           Sorted(s) == /\ s \in [1 .. Cardinality(D) -> D]
                        /\ \A i, j \in DOMAIN s : i < j => s[i] < s[j]
           t == InOrder(D, LAMBDA c, d : c < d)
<1>1. Orders(R, D)
  BY NumbersOrder
<1>2. \A x, y \in D : <<x, y>> \in R <=> x < y
  OBVIOUS
<1> HIDE DEF R
<1>3. ASSUME NEW s, s \in [1 .. Cardinality(D) -> D]
      PROVE  Lists(s, R, D) <=> Sorted(s)
  <2>1. \A i \in DOMAIN s : s[i] \in D
    BY <1>3
  <2> QED BY <1>2, <1>3, <2>1 DEF Lists
<1>4. PICK s : Lists(s, R, D)
  BY <1>1, ListExists
<1>5. Sorted(s) /\ s \in [1 .. Cardinality(D) -> D]
  BY <1>3, <1>4 DEF Lists
<1>6. t \in [1 .. Cardinality(D) -> D] /\ Sorted(t)
  BY <1>5 DEF InOrder
<1> HIDE DEF t
<1>7. Lists(t, R, D)
  BY <1>3, <1>6
<1>8. t \in Seq(D) /\ Len(t) = Cardinality(D) /\ Distinct(t) /\ ToSet(t) = D
  BY <1>1, <1>7, ListAll
<1>9. Ascending(t, D)
  BY <1>6, <1>8 DEF Ascending
<1> QED BY <1>9 DEF t

\* The numbers 1 to n in order.
LEMMA AscendingCount ==
  ASSUME NEW n \in Nat, NEW t, Ascending(t, 1 .. n)
  PROVE  t = [k \in 1 .. n |-> k]
<1> DEFINE D == 1 .. n
           R == {z \in D \X D : z[1] < z[2]}
           s == [k \in 1 .. n |-> k]
<1>1. Cardinality(D) = n /\ IsFiniteSet(D)
  BY FS_Interval
<1>2. Orders(R, D)
  BY NumbersOrder
<1>3. \A x, y \in D : <<x, y>> \in R <=> x < y
  OBVIOUS
<1> HIDE DEF R
<1>4. Lists(s, R, D)
  BY <1>1, <1>3 DEF Lists
<1>5. Lists(t, R, D)
  <2>1. t \in Seq(D) /\ Len(t) = n /\ \A i, j \in DOMAIN t : i < j => t[i] < t[j]
    BY <1>1 DEF Ascending
  <2>2. t \in [1 .. n -> D] /\ \A i \in DOMAIN t : t[i] \in D
    BY <2>1
  <2> QED BY <1>1, <1>3, <2>1, <2>2 DEF Lists
<1> HIDE DEF D, s
<1>6. s = t
  BY <1>1, <1>2, <1>4, <1>5, ListOnly
<1> QED BY <1>6 DEF s

\* A saved column whose ids are in K.
SavedOf(K) == [ids : Seq(K), focused : K, maximized : BOOLEAN, half : BOOLEAN]

HomesOf(kept, ids, n) == {Home(kept, p, ids) : p \in 1 .. n}

\* What a pane is found by: at most one pane answers to an id.
LEMMA ByIdOK ==
  ASSUME NEW n \in Nat, NEW ids, DOMAIN ids = 1 .. n, NEW i
  PROVE  /\ \A p \in ById(ids, i) : p \in 1 .. n /\ ids[p] = i
         /\ \A p, q \in ById(ids, i) : p = q
         /\ (\E p \in 1 .. n : ids[p] = i) => ById(ids, i) # {}
<1> DEFINE S == {p \in DOMAIN ids : ids[p] = i}
<1>1. ById(ids, i) = IF S = {} THEN {} ELSE {Min(S)}
  BY DEF ById
<1>2. S \in SUBSET Nat /\ \A p \in S : p \in 1 .. n /\ ids[p] = i
  OBVIOUS
<1>3. (\E p \in 1 .. n : ids[p] = i) => S # {}
  OBVIOUS
<1> HIDE DEF S
<1>4. S # {} => Min(S) \in S
  BY <1>2, MinOK
<1> QED BY <1>1, <1>2, <1>3, <1>4

\* Where a pane goes: to a line of a saved column that names it, else to a
\* column of its own.
Housed(h, p, kept, ids) ==
    /\ h = [pane |-> p, col |-> h.col, at |-> h.at] /\ h.col \in Nat /\ h.at \in Nat
    /\ \/ /\ h.col \in 1 .. Len(kept) /\ h.at \in DOMAIN kept[h.col].ids
          /\ p \in ById(ids, kept[h.col].ids[h.at])
       \/ h.col = Len(kept) + p /\ h.at = 1

\* Where a pane goes is such a place.
LEMMA HomeOK ==
  ASSUME NEW K, NEW kept \in Seq(SavedOf(K)), NEW ids, NEW p \in Nat
  PROVE  Housed(Home(kept, p, ids), p, kept, ids)
<1> DEFINE cs == NamedIn(kept, p, ids)
           c == Min(cs)
           ks == NamedAt(kept, p, ids, c)
           h == Home(kept, p, ids)
<1>1. DOMAIN kept = 1 .. Len(kept) /\ Len(kept) \in Nat
  OBVIOUS
<1>2. cs \in SUBSET Nat /\ \A d \in cs : d \in 1 .. Len(kept) /\ \E i \in ToSet(kept[d].ids) : p \in ById(ids, i)
  BY <1>1 DEF NamedIn
<1>3. h = IF cs = {} THEN [pane |-> p, col |-> Len(kept) + p, at |-> 1]
          ELSE [pane |-> p, col |-> c, at |-> Min(ks)]
  BY DEF Home
<1> HIDE DEF h, cs
<1>4. CASE cs = {}
  <2>1. h = [pane |-> p, col |-> Len(kept) + p, at |-> 1]
    BY <1>3, <1>4
  <2>2. h.col = Len(kept) + p /\ h.at = 1 /\ h = [pane |-> p, col |-> h.col, at |-> h.at]
    BY <2>1
  <2>3. Housed(h, p, kept, ids)
    BY <1>1, <2>2 DEF Housed
  <2> QED BY <2>3 DEF h
<1>5. CASE cs # {}
  <2>1. c \in cs
    BY <1>2, <1>5, MinOK
  <2> HIDE DEF c
  <2>2. c \in 1 .. Len(kept) /\ c \in Nat /\ \E i \in ToSet(kept[c].ids) : p \in ById(ids, i)
    BY <1>1, <1>2, <2>1
  <2>3. kept[c] \in SavedOf(K)
    BY <2>2
  <2>4. kept[c].ids \in Seq(K)
    BY <2>3 DEF SavedOf
  <2>5. PICK k \in DOMAIN kept[c].ids : p \in ById(ids, kept[c].ids[k])
    BY <2>2 DEF ToSet
  <2>6. k \in ks
    BY <2>5 DEF NamedAt
  <2>7. ks \in SUBSET Nat /\ \A j \in ks : j \in DOMAIN kept[c].ids /\ p \in ById(ids, kept[c].ids[j])
    BY <2>4 DEF NamedAt
  <2> HIDE DEF ks
  <2>8. Min(ks) \in ks
    BY <2>6, <2>7, MinOK
  <2>9. h = [pane |-> p, col |-> c, at |-> Min(ks)]
    BY <1>3, <1>5
  <2>10. h.col = c /\ h.at = Min(ks) /\ h = [pane |-> p, col |-> h.col, at |-> h.at]
    BY <2>9
  <2>11. Min(ks) \in Nat /\ Min(ks) \in DOMAIN kept[c].ids /\ p \in ById(ids, kept[c].ids[Min(ks)])
    BY <2>7, <2>8
  <2>12. Housed(h, p, kept, ids)
    BY <2>2, <2>10, <2>11 DEF Housed
  <2> QED BY <2>12 DEF h
<1> QED BY <1>4, <1>5

\* No two panes go to the same place.
LEMMA HomesApart ==
  ASSUME NEW K, NEW kept \in Seq(SavedOf(K)), NEW n \in Nat, NEW ids, DOMAIN ids = 1 .. n,
         NEW p \in 1 .. n, NEW q \in 1 .. n, NEW g, NEW h,
         Housed(g, p, kept, ids), Housed(h, q, kept, ids), g.col = h.col, g.at = h.at
  PROVE  p = q /\ g = h
<1>1. Len(kept) \in Nat /\ p \in Nat /\ q \in Nat /\ p >= 1 /\ q >= 1
  OBVIOUS
<1>2. /\ g = [pane |-> p, col |-> g.col, at |-> g.at]
      /\ h = [pane |-> q, col |-> h.col, at |-> h.at]
      /\ \/ g.col <= Len(kept) /\ p \in ById(ids, kept[g.col].ids[g.at])
         \/ g.col = Len(kept) + p
      /\ \/ h.col <= Len(kept) /\ q \in ById(ids, kept[h.col].ids[h.at])
         \/ h.col = Len(kept) + q
  BY DEF Housed
<1>3. p = q
  <2>1. \A x, y \in ById(ids, kept[g.col].ids[g.at]) : x = y
    BY ByIdOK
  <2>2. CASE g.col <= Len(kept)
    <3>1. p \in ById(ids, kept[g.col].ids[g.at]) /\ q \in ById(ids, kept[g.col].ids[g.at])
      BY <1>1, <1>2, <2>2
    <3> QED BY <2>1, <3>1
  <2>3. CASE ~(g.col <= Len(kept))
    BY <1>1, <1>2, <2>3
  <2> QED BY <2>2, <2>3
<1> QED BY <1>2, <1>3

\* The places are ordered by column and line.
LEMMA HomesOrder ==
  ASSUME NEW K, NEW kept \in Seq(SavedOf(K)), NEW n \in Nat, NEW ids, DOMAIN ids = 1 .. n,
         NEW G \in SUBSET HomesOf(kept, ids, n), NEW R, R = {z \in G \X G : Earlier(z[1], z[2])}
  PROVE  Orders(R, G)
<1>1. ASSUME NEW h \in G
      PROVE  \E p \in 1 .. n : Housed(h, p, kept, ids)
  <2>1. PICK p \in 1 .. n : h = Home(kept, p, ids)
    BY DEF HomesOf
  <2> QED BY <2>1, HomeOK
<1>2. \A h \in G : h.col \in Nat /\ h.at \in Nat
  BY <1>1 DEF Housed
<1>3. \A g, h \in G : <<g, h>> \in R <=> g.col < h.col \/ (g.col = h.col /\ g.at < h.at)
  BY DEF Earlier
<1> HIDE DEF HomesOf
<1>4. \A x \in G : <<x, x>> \notin R
  BY <1>2, <1>3
<1>5. \A x, y, z \in G : <<x, y>> \in R /\ <<y, z>> \in R => <<x, z>> \in R
  <2>1. SUFFICES ASSUME NEW x \in G, NEW y \in G, NEW z \in G, <<x, y>> \in R, <<y, z>> \in R
                 PROVE  <<x, z>> \in R
    OBVIOUS
  <2>2. /\ x.col < y.col \/ (x.col = y.col /\ x.at < y.at)
        /\ y.col < z.col \/ (y.col = z.col /\ y.at < z.at)
    BY <1>3, <2>1
  <2>3. x.col < z.col \/ (x.col = z.col /\ x.at < z.at)
    BY <1>2, <2>2
  <2> QED BY <1>3, <2>3
<1>6. \A x, y \in G : x = y \/ <<x, y>> \in R \/ <<y, x>> \in R
  <2>1. SUFFICES ASSUME NEW x \in G, NEW y \in G, <<x, y>> \notin R, <<y, x>> \notin R
                 PROVE  x = y
    OBVIOUS
  <2>2. x.col = y.col /\ x.at = y.at
    BY <1>2, <1>3, <2>1
  <2>3. PICK p \in 1 .. n : Housed(x, p, kept, ids)
    BY <1>1
  <2>4. PICK q \in 1 .. n : Housed(y, q, kept, ids)
    BY <1>1
  <2> QED BY <2>2, <2>3, <2>4, HomesApart
<1> QED BY <1>4, <1>5, <1>6 DEF Orders

\* There are finitely many.
LEMMA HomesFinite ==
  ASSUME NEW kept, NEW n \in Nat, NEW ids, NEW G \in SUBSET HomesOf(kept, ids, n)
  PROVE  IsFiniteSet(G)
<1> DEFINE f == [p \in 1 .. n |-> Home(kept, p, ids)]
<1>1. f \in Surjection(1 .. n, HomesOf(kept, ids, n))
  BY DEF Surjection, HomesOf
<1>2. IsFiniteSet(1 .. n)
  BY FS_Interval
<1> HIDE DEF f
<1>3. IsFiniteSet(HomesOf(kept, ids, n))
  BY <1>1, <1>2, FS_Surjection
<1> QED BY <1>3, FS_Subset

\* s has the places G in their order, and these panes.
Sorts(s, G) ==
    s \in [1 .. Cardinality(G) -> G] /\ \A i, j \in DOMAIN s : i < j => Earlier(s[i], s[j])

PanesOf(s, G) == [k \in 1 .. Cardinality(G) |-> s[k].pane]

\* The panes at some of the places, in the order of the places.
LEMMA PanesAtOK ==
  ASSUME NEW K, NEW kept \in Seq(SavedOf(K)), NEW n \in Nat, NEW ids, DOMAIN ids = 1 .. n,
         NEW G \in SUBSET HomesOf(kept, ids, n)
  PROVE  /\ PanesAt(G) \in Seq(1 .. n) /\ Len(PanesAt(G)) = Cardinality(G)
         /\ Distinct(PanesAt(G)) /\ ToSet(PanesAt(G)) = {h.pane : h \in G}
         /\ \A s : Sorts(s, G) => PanesAt(G) = PanesOf(s, G)
<1> DEFINE R == {z \in G \X G : Earlier(z[1], z[2])}
           Sorted(s) == /\ s \in [1 .. Cardinality(G) -> G]
                        /\ \A i, j \in DOMAIN s : i < j => Earlier(s[i], s[j])
           t == InOrder(G, Earlier)
           u == PanesAt(G)
<1>1. Orders(R, G) /\ IsFiniteSet(G)
  BY HomesOrder, HomesFinite
<1>2. \A x, y \in G : <<x, y>> \in R <=> Earlier(x, y)
  OBVIOUS
<1>u. u = [k \in DOMAIN t |-> t[k].pane]
  BY DEF PanesAt
<1> HIDE DEF R, u
<1>3. ASSUME NEW s, s \in [1 .. Cardinality(G) -> G]
      PROVE  Lists(s, R, G) <=> Sorted(s)
  <2>1. \A i \in DOMAIN s : s[i] \in G
    BY <1>3
  <2> QED BY <1>2, <1>3, <2>1 DEF Lists
<1>4. PICK s : Lists(s, R, G)
  BY <1>1, ListExists
<1>5. Sorted(s) /\ s \in [1 .. Cardinality(G) -> G]
  BY <1>3, <1>4 DEF Lists
<1>6. t \in [1 .. Cardinality(G) -> G] /\ Sorted(t)
  BY <1>5 DEF InOrder
<1> HIDE DEF t
<1>7. Lists(t, R, G)
  BY <1>3, <1>6
<1>8. t \in Seq(G) /\ Len(t) = Cardinality(G) /\ Distinct(t) /\ ToSet(t) = G
  BY <1>1, <1>7, ListAll
<1>9. ASSUME NEW h \in G
      PROVE  h.pane \in 1 .. n /\ h = Home(kept, h.pane, ids)
  <2>1. PICK p \in 1 .. n : h = Home(kept, p, ids)
    BY DEF HomesOf
  <2>2. Housed(h, p, kept, ids)
    BY <2>1, HomeOK
  <2>3. h.pane = p
    BY <2>2 DEF Housed
  <2> QED BY <2>1, <2>3
<1>10. DOMAIN t = 1 .. Len(t) /\ Len(t) \in Nat /\ \A k \in DOMAIN t : t[k] \in G
  BY <1>8
<1>11. \A k \in DOMAIN t : t[k].pane \in 1 .. n
  BY <1>9, <1>10
<1>12. u \in Seq(1 .. n) /\ Len(u) = Cardinality(G) /\ DOMAIN u = DOMAIN t /\ \A k \in DOMAIN t : u[k] = t[k].pane
  BY <1>8, <1>10, <1>11, <1>u
<1>13. Distinct(u)
  <2>1. ASSUME NEW j \in DOMAIN t, NEW k \in DOMAIN t, t[j].pane = t[k].pane
        PROVE  j = k
    <3>1. t[j] = t[k]
      BY <1>9, <1>10, <2>1
    <3> QED BY <1>8, <3>1 DEF Distinct
  <2> QED BY <1>12, <2>1 DEF Distinct
<1>14. ToSet(u) = {h.pane : h \in G}
  <2>1. ASSUME NEW k \in DOMAIN t PROVE u[k] \in {h.pane : h \in G}
    BY <1>10, <1>12
  <2>2. ASSUME NEW h \in G PROVE h.pane \in ToSet(u)
    <3>1. PICK k \in DOMAIN t : t[k] = h
      BY <1>8 DEF ToSet
    <3> QED BY <1>12, <3>1 DEF ToSet
  <2> QED BY <1>12, <2>1, <2>2 DEF ToSet
<1>15. ASSUME NEW r, Sorts(r, G)
       PROVE  u = PanesOf(r, G)
  <2>1. Lists(r, R, G)
    BY <1>3, <1>15 DEF Sorts
  <2>2. r = t
    BY <1>1, <1>7, <2>1, ListOnly
  <2>3. DOMAIN t = 1 .. Cardinality(G)
    BY <1>8
  <2> QED BY <1>u, <2>2, <2>3 DEF PanesOf
<1> QED BY <1>12, <1>13, <1>14, <1>15 DEF u

ColumnOver(S) == [panes : Seq(S), focused : Nat, maximized : BOOLEAN, half : BOOLEAN]

\* Columns over S: each pane at one place, a focused pane in each.
Stacked(cols, S) ==
    /\ cols \in Seq(ColumnOver(S))
    /\ \A c \in DOMAIN cols : cols[c].focused \in DOMAIN cols[c].panes /\ Distinct(cols[c].panes)
    /\ \A c \in DOMAIN cols : \A d \in DOMAIN cols \ {c} :
          ToSet(cols[c].panes) \cap ToSet(cols[d].panes) = {}

StackedPanes(cols) == UNION {ToSet(cols[c].panes) : c \in DOMAIN cols}

\* The pane of a column that has the focus is one of its panes, the one with the
\* id if no other has it.
LEMMA FocusedInOK ==
  ASSUME NEW S, NEW list \in Seq(S), list # <<>>, NEW ids, NEW i
  PROVE  /\ FocusedIn(list, ids, i) \in 1 .. Len(list)
         /\ \A k \in 1 .. Len(list) :
               (\A j \in 1 .. Len(list) : ids[list[j]] = i <=> j = k) => FocusedIn(list, ids, i) = k
<1> DEFINE T == {k \in DOMAIN list : ids[list[k]] = i}
<1>1. FocusedIn(list, ids, i) = IF T = {} THEN 1 ELSE Min(T)
  BY DEF FocusedIn
<1>2. DOMAIN list = 1 .. Len(list) /\ 1 \in 1 .. Len(list)
  BY EmptySeq
<1>3. T \in SUBSET Nat /\ T \subseteq 1 .. Len(list) /\ \A k \in 1 .. Len(list) : k \in T <=> ids[list[k]] = i
  BY <1>2
<1> HIDE DEF T
<1>4. T # {} => Min(T) \in T
  BY <1>3, MinOK
<1>5. FocusedIn(list, ids, i) \in 1 .. Len(list)
  BY <1>1, <1>2, <1>3, <1>4
<1>6. ASSUME NEW k \in 1 .. Len(list), \A j \in 1 .. Len(list) : ids[list[j]] = i <=> j = k
      PROVE  FocusedIn(list, ids, i) = k
  <2>1. T = {k}
    BY <1>3, <1>6
  <2> QED BY <1>1, <1>4, <2>1
<1> QED BY <1>5, <1>6

\* The columns a restored strip is built with: every pane at one place.
LEMMA RebuildColumnsOK ==
  ASSUME NEW K, NEW kept \in Seq(SavedOf(K)), NEW n \in Nat, n >= 1, NEW ids, DOMAIN ids = 1 .. n,
         NEW x, x = RebuildColumns(kept, ids)
  PROVE  /\ x.panes \in Seq(1 .. n) /\ Distinct(x.panes) /\ ToSet(x.panes) = 1 .. n
         /\ Len(x.panes) = n
         /\ Stacked(x.columns, 1 .. n) /\ StackedPanes(x.columns) = 1 .. n
<1> DEFINE H == HomesOf(kept, ids, n)
           D == {h.col : h \in H}
           used == InOrder(D, LAMBDA c, d : c < d)
           In(c) == {h \in H : h.col = c}
           col(k) == RebuiltColumn(PanesAt(In(used[k])), kept, ids, used[k])
<1>1. x = [panes |-> PanesAt(H), columns |-> [k \in DOMAIN used |-> col(k)]]
  BY DEF RebuildColumns, HomesOf
<1>2. /\ \A h \in H : h.pane \in 1 .. n /\ h.col \in Nat /\ h = Home(kept, h.pane, ids)
      /\ \A p \in 1 .. n : Home(kept, p, ids) \in H /\ Home(kept, p, ids).pane = p
  <2>1. \A p \in 1 .. n : Housed(Home(kept, p, ids), p, kept, ids)
    BY HomeOK
  <2>2. \A p \in 1 .. n : Home(kept, p, ids).pane = p /\ Home(kept, p, ids).col \in Nat
    BY <2>1 DEF Housed
  <2> QED BY <2>2 DEF HomesOf
<1>3. IsFiniteSet(H)
  BY HomesFinite
<1>4. D \in SUBSET Nat /\ IsFiniteSet(D)
  <2> DEFINE f == [h \in H |-> h.col]
  <2>1. f \in Surjection(H, D)
    BY DEF Surjection
  <2>2. D \in SUBSET Nat
    BY <1>2
  <2> HIDE DEF f, D, H
  <2> QED BY <1>3, <2>1, <2>2, FS_Surjection
<1>5. Ascending(used, D)
  <2> HIDE DEF D, H
  <2> QED BY <1>4, AscendingOK
<1>6. /\ used \in Seq(D) /\ Distinct(used) /\ ToSet(used) = D
      /\ DOMAIN used = 1 .. Len(used) /\ Len(used) \in Nat
  <2> HIDE DEF used, D, H
  <2> QED BY <1>5 DEF Ascending
<1>7. \A c : In(c) \in SUBSET HomesOf(kept, ids, n)
  OBVIOUS
<1>8. /\ PanesAt(H) \in Seq(1 .. n) /\ Distinct(PanesAt(H)) /\ ToSet(PanesAt(H)) = {h.pane : h \in H}
  <2>1. H \in SUBSET HomesOf(kept, ids, n)
    OBVIOUS
  <2> HIDE DEF H
  <2> QED BY <2>1, PanesAtOK
<1>9. {h.pane : h \in H} = 1 .. n
  <2> HIDE DEF H
  <2> QED BY <1>2
<1>10. Len(PanesAt(H)) = n
  <2>1. Cardinality(ToSet(PanesAt(H))) = Len(PanesAt(H))
    BY <1>8, DistinctCount
  <2>2. Cardinality(1 .. n) = n
    BY FS_Interval
  <2> QED BY <1>8, <1>9, <2>1, <2>2
<1>11. \A c : /\ PanesAt(In(c)) \in Seq(1 .. n) /\ Distinct(PanesAt(In(c)))
              /\ ToSet(PanesAt(In(c))) = {h.pane : h \in In(c)}
  <2> HIDE DEF In
  <2> QED BY <1>7, PanesAtOK
<1> HIDE DEF used
<1>12. ASSUME NEW k \in DOMAIN used
       PROVE  /\ used[k] \in D
              /\ PanesAt(In(used[k])) # <<>>
  <2>1. used[k] \in D
    BY <1>6 DEF ToSet
  <2>2. PICK h \in H : h.col = used[k]
    BY <2>1
  <2>3. h.pane \in ToSet(PanesAt(In(used[k])))
    <3>1. ToSet(PanesAt(In(used[k]))) = {g.pane : g \in In(used[k])}
      <4> HIDE DEF In
      <4> QED BY <1>11
    <3>2. h \in In(used[k])
      BY <2>2
    <3> QED BY <3>1, <3>2
  <2>4. ToSet(<<>>) = {}
    BY DEF ToSet
  <2> QED BY <2>1, <2>3, <2>4
<1>13. ASSUME NEW k \in DOMAIN used
       PROVE  /\ col(k) \in ColumnOver(1 .. n)
              /\ col(k).panes = PanesAt(In(used[k]))
              /\ col(k).focused \in DOMAIN col(k).panes
  <2> DEFINE list == PanesAt(In(used[k]))
             f == IF used[k] \in DOMAIN kept THEN FocusedIn(list, ids, kept[used[k]].focused) ELSE 1
  <2>1. list \in Seq(1 .. n) /\ list # <<>>
    BY <1>11, <1>12
  <2>2. col(k) = [panes |-> list, maximized |-> FALSE, half |-> FALSE, focused |-> f]
    BY DEF RebuiltColumn
  <2> HIDE DEF list
  <2>3. DOMAIN list = 1 .. Len(list) /\ 1 \in 1 .. Len(list) /\ Len(list) \in Nat
    BY <2>1, EmptySeq
  <2>4. \A i : FocusedIn(list, ids, i) \in 1 .. Len(list)
    BY <2>1, FocusedInOK
  <2>5. f \in 1 .. Len(list)
    BY <2>3, <2>4
  <2> HIDE DEF f, col
  <2>6. f \in Nat
    BY <2>3, <2>5
  <2>7. col(k).panes = list /\ col(k).focused = f /\ col(k) \in ColumnOver(1 .. n)
    BY <2>1, <2>2, <2>6 DEF ColumnOver
  <2> QED BY <2>3, <2>5, <2>7 DEF list
<1>14. \A k \in DOMAIN used : ToSet(col(k).panes) = {h.pane : h \in In(used[k])} /\ Distinct(col(k).panes)
  BY <1>11, <1>13
<1> DEFINE cols == [k \in DOMAIN used |-> col(k)]
<1> HIDE DEF col
<1>15. cols \in Seq(ColumnOver(1 .. n)) /\ DOMAIN cols = DOMAIN used /\ \A k \in DOMAIN used : cols[k] = col(k)
  <2>1. \A k \in 1 .. Len(used) : col(k) \in ColumnOver(1 .. n)
    BY <1>6, <1>13
  <2>2. cols = [k \in 1 .. Len(used) |-> col(k)]
    BY <1>6
  <2> QED BY <1>6, <2>1, <2>2
<1> HIDE DEF cols
<1>16. ASSUME NEW c \in DOMAIN used, NEW d \in DOMAIN used, c # d
       PROVE  ToSet(col(c).panes) \cap ToSet(col(d).panes) = {}
  <2>1. SUFFICES ASSUME NEW p \in ToSet(col(c).panes), p \in ToSet(col(d).panes) PROVE FALSE
    OBVIOUS
  <2>2. PICK g \in In(used[c]) : g.pane = p
    BY <1>14, <2>1
  <2>3. PICK h \in In(used[d]) : h.pane = p
    BY <1>14, <2>1
  <2>4. g = h /\ g.col = used[c] /\ h.col = used[d]
    BY <1>2, <2>2, <2>3
  <2>5. used[c] = used[d]
    BY <2>4
  <2> QED BY <1>6, <1>16, <2>5 DEF Distinct
<1>17. Stacked(cols, 1 .. n)
  BY <1>13, <1>14, <1>15, <1>16 DEF Stacked
<1>18. StackedPanes(cols) = 1 .. n
  <2>1. ASSUME NEW p \in 1 .. n PROVE p \in StackedPanes(cols)
    <3> DEFINE h == Home(kept, p, ids)
    <3>1. h \in H /\ h.pane = p /\ h.col \in D
      BY <1>2
    <3> HIDE DEF h
    <3>2. PICK k \in DOMAIN used : used[k] = h.col
      BY <1>6, <3>1 DEF ToSet
    <3>3. h \in In(used[k])
      BY <3>1, <3>2
    <3>4. p \in ToSet(col(k).panes)
      BY <1>14, <3>1, <3>3
    <3> QED BY <1>15, <3>2, <3>4 DEF StackedPanes
  <2>2. ASSUME NEW p \in StackedPanes(cols) PROVE p \in 1 .. n
    <3>1. PICK k \in DOMAIN used : p \in ToSet(col(k).panes)
      BY <1>15, <2>2 DEF StackedPanes
    <3>2. PICK h \in In(used[k]) : h.pane = p
      BY <1>14, <3>1
    <3>3. h \in H
      OBVIOUS
    <3> QED BY <1>2, <3>2, <3>3
  <2> QED BY <2>1, <2>2
<1>19. x.panes = PanesAt(H) /\ x.columns = cols
  BY <1>1 DEF cols, col
<1> QED BY <1>8, <1>9, <1>10, <1>17, <1>18, <1>19

\* The same panes in the same columns.
SamePanes(cols, new) == DOMAIN new = DOMAIN cols /\ \A c \in DOMAIN cols : new[c].panes = cols[c].panes

\* A column of a stack: its parts, and the pane in it that has the focus.
LEMMA StackedColumn ==
  ASSUME NEW S, NEW cols, Stacked(cols, S), NEW c \in DOMAIN cols
  PROVE  /\ cols[c] \in ColumnOver(S)
         /\ cols[c] = [panes |-> cols[c].panes, focused |-> cols[c].focused,
                       maximized |-> cols[c].maximized, half |-> cols[c].half]
         /\ cols[c].panes \in Seq(S) /\ cols[c].panes # <<>> /\ Distinct(cols[c].panes)
         /\ cols[c].focused \in 1 .. Len(cols[c].panes)
         /\ cols[c].maximized \in BOOLEAN /\ cols[c].half \in BOOLEAN
<1>1. cols[c] \in ColumnOver(S)
  BY DEF Stacked
<1>2. cols[c].focused \in DOMAIN cols[c].panes /\ Distinct(cols[c].panes)
  BY DEF Stacked
<1>3. /\ cols[c].panes \in Seq(S) /\ cols[c].maximized \in BOOLEAN /\ cols[c].half \in BOOLEAN
      /\ cols[c] = [panes |-> cols[c].panes, focused |-> cols[c].focused,
                    maximized |-> cols[c].maximized, half |-> cols[c].half]
  BY <1>1 DEF ColumnOver
<1>4. cols[c].panes # <<>> /\ DOMAIN cols[c].panes = 1 .. Len(cols[c].panes)
  BY <1>2, <1>3
<1> QED BY <1>1, <1>2, <1>3, <1>4

\* What keeps the panes of the columns and their shape keeps them stacked.
LEMMA SameStacked ==
  ASSUME NEW S, NEW cols, Stacked(cols, S), NEW new, SamePanes(cols, new),
         \A c \in DOMAIN cols : new[c] \in ColumnOver(S) /\ new[c].focused \in 1 .. Len(cols[c].panes),
         new = [c \in DOMAIN cols |-> new[c]]
  PROVE  Stacked(new, S) /\ StackedPanes(new) = StackedPanes(cols)
<1>1. cols \in Seq(ColumnOver(S)) /\ DOMAIN cols = 1 .. Len(cols) /\ Len(cols) \in Nat
  BY DEF Stacked
<1>2. DOMAIN new = DOMAIN cols /\ \A c \in DOMAIN cols : new[c].panes = cols[c].panes
  BY DEF SamePanes
<1>3. new \in Seq(ColumnOver(S))
  <2>1. \A c \in 1 .. Len(cols) : new[c] \in ColumnOver(S)
    BY <1>1
  <2>2. new = [c \in 1 .. Len(cols) |-> new[c]]
    BY <1>1
  <2> QED BY <1>1, <2>1, <2>2
<1>4. \A c \in DOMAIN cols : new[c].focused \in DOMAIN new[c].panes /\ Distinct(new[c].panes)
  <2>1. SUFFICES ASSUME NEW c \in DOMAIN cols PROVE new[c].focused \in DOMAIN new[c].panes /\ Distinct(new[c].panes)
    OBVIOUS
  <2>2. cols[c].panes \in Seq(S) /\ Distinct(cols[c].panes)
    BY StackedColumn
  <2>3. DOMAIN cols[c].panes = 1 .. Len(cols[c].panes)
    BY <2>2
  <2> QED BY <1>2, <2>2, <2>3
<1>5. \A c \in DOMAIN new : \A d \in DOMAIN new \ {c} : ToSet(new[c].panes) \cap ToSet(new[d].panes) = {}
  BY <1>2 DEF Stacked
<1>6. Stacked(new, S)
  BY <1>2, <1>3, <1>4, <1>5 DEF Stacked
<1>7. StackedPanes(new) = StackedPanes(cols)
  BY <1>2 DEF StackedPanes
<1> QED BY <1>6, <1>7

\* What a column is found by its id: one of the columns, the one that has it if
\* no other has.
LEMMA ColumnByIdOK ==
  ASSUME NEW cols, NEW n \in Nat, DOMAIN cols = 1 .. n, NEW ids, NEW i, NEW k
  PROVE  /\ ColumnById(cols, ids, i, k) \subseteq 1 .. n
         /\ ColumnById(cols, ids, i, k) # {} => Only(ColumnById(cols, ids, i, k)) \in 1 .. n
         /\ \A c \in 1 .. n :
               (\A d \in 1 .. n : (\E p \in ToSet(cols[d].panes) : ids[p] = i) <=> d = c)
                  => ColumnById(cols, ids, i, k) = {c}
<1> DEFINE T == {c \in DOMAIN cols : \E p \in ToSet(cols[c].panes) : ids[p] = i}
<1>1. ColumnById(cols, ids, i, k) = IF T # {} THEN {Min(T)} ELSE {k} \cap DOMAIN cols
  BY DEF ColumnById
<1>2. T \in SUBSET Nat /\ T \subseteq 1 .. n
      /\ \A d \in 1 .. n : d \in T <=> \E p \in ToSet(cols[d].panes) : ids[p] = i
  OBVIOUS
<1> HIDE DEF T
<1>3. T # {} => Min(T) \in T
  BY <1>2, MinOK
<1>4. ColumnById(cols, ids, i, k) \subseteq 1 .. n
  BY <1>1, <1>2, <1>3
<1>5. ASSUME NEW c \in 1 .. n, \A d \in 1 .. n : (\E p \in ToSet(cols[d].panes) : ids[p] = i) <=> d = c
      PROVE  ColumnById(cols, ids, i, k) = {c}
  <2>1. T = {c}
    BY <1>2, <1>5
  <2> QED BY <1>1, <1>3, <2>1
<1>6. ColumnById(cols, ids, i, k) # {} => Only(ColumnById(cols, ids, i, k)) \in ColumnById(cols, ids, i, k)
  BY DEF Only
<1> QED BY <1>4, <1>5, <1>6

\* Restoring the flags and the focus of columns moves no pane.
LEMMA RestoreFlagsOK ==
  ASSUME NEW S, NEW cols, Stacked(cols, S), NEW K, NEW kept \in Seq(SavedOf(K)), NEW ids,
         NEW new, new = RestoreFlags(cols, kept, ids)
  PROVE  Stacked(new, S) /\ SamePanes(cols, new) /\ StackedPanes(new) = StackedPanes(cols)
<1> DEFINE from(c) == {k \in DOMAIN kept : c \in ColumnById(cols, ids, kept[k].focused, k)}
           s(c) == kept[Max(from(c))]
<1>1. new = [c \in DOMAIN cols |->
               IF from(c) = {} THEN cols[c]
               ELSE [cols[c] EXCEPT !.maximized = s(c).maximized, !.half = s(c).half,
                                    !.focused = FocusedIn(cols[c].panes, ids, s(c).focused)]]
  BY DEF RestoreFlags
<1>2. \A c : from(c) # {} => s(c) \in SavedOf(K)
  <2>1. SUFFICES ASSUME NEW c, from(c) # {} PROVE s(c) \in SavedOf(K)
    OBVIOUS
  <2>2. DOMAIN kept = 1 .. Len(kept) /\ Len(kept) \in Nat
    OBVIOUS
  <2>3. from(c) \in SUBSET (0 .. Len(kept)) /\ from(c) \subseteq DOMAIN kept
    BY <2>2
  <2> HIDE DEF from
  <2>4. Max(from(c)) \in from(c)
    BY <2>1, <2>2, <2>3, MaxOK
  <2>5. Max(from(c)) \in DOMAIN kept
    BY <2>3, <2>4
  <2> QED BY <2>2, <2>5
<1> HIDE DEF from, s
<1>3. ASSUME NEW c \in DOMAIN cols
      PROVE  /\ new[c] \in ColumnOver(S) /\ new[c].panes = cols[c].panes
             /\ new[c].focused \in 1 .. Len(cols[c].panes)
  <2>1. /\ cols[c] \in ColumnOver(S)
        /\ cols[c] = [panes |-> cols[c].panes, focused |-> cols[c].focused,
                      maximized |-> cols[c].maximized, half |-> cols[c].half]
        /\ cols[c].panes \in Seq(S) /\ cols[c].panes # <<>>
        /\ cols[c].focused \in 1 .. Len(cols[c].panes)
    BY StackedColumn
  <2>2. CASE from(c) = {}
    BY <1>1, <2>1, <2>2
  <2>3. CASE from(c) # {}
    <3> DEFINE f == FocusedIn(cols[c].panes, ids, s(c).focused)
    <3>1. s(c).maximized \in BOOLEAN /\ s(c).half \in BOOLEAN
      BY <1>2, <2>3 DEF SavedOf
    <3>2. f \in 1 .. Len(cols[c].panes)
      BY <2>1, FocusedInOK
    <3>3. new[c] = [cols[c] EXCEPT !.maximized = s(c).maximized, !.half = s(c).half, !.focused = f]
      BY <1>1, <2>3
    <3> HIDE DEF f
    <3>4. new[c] = [panes |-> cols[c].panes, focused |-> f,
                    maximized |-> s(c).maximized, half |-> s(c).half]
      BY <2>1, <3>3
    <3>5. f \in Nat
      BY <3>2
    <3>6. new[c] \in ColumnOver(S)
      BY <2>1, <3>1, <3>4, <3>5 DEF ColumnOver
    <3> QED BY <3>2, <3>4, <3>6
  <2> QED BY <2>2, <2>3
<1>4. new = [c \in DOMAIN cols |-> new[c]]
  BY <1>1
<1>5. SamePanes(cols, new)
  BY <1>3, <1>4 DEF SamePanes
<1> QED BY <1>3, <1>4, <1>5, SameStacked

StripOf(fc, list, cols) ==
    [mode |-> "strip", tree |-> <<>>, focusedCol |-> fc, panes |-> list, columns |-> cols]

\* A strip: panes on S, each column at one place.
StripOver(w, S) ==
    /\ w = StripOf(w.focusedCol, w.panes, w.columns)
    /\ Stacked(w.columns, S) /\ w.focusedCol \in DOMAIN w.columns

\* w becomes v, and no pane moves.
Refocused(w, v) ==
    v.panes = w.panes /\ SamePanes(w.columns, v.columns) /\ StackedPanes(v.columns) = StackedPanes(w.columns)

\* The parts of a strip.
LEMMA StripFields ==
  ASSUME NEW fc, NEW list, NEW cols, NEW v, v = StripOf(fc, list, cols)
  PROVE  /\ v.focusedCol = fc /\ v.panes = list /\ v.columns = cols /\ v.mode = "strip" /\ v.tree = <<>>
         /\ v = StripOf(v.focusedCol, v.panes, v.columns)
BY DEF StripOf

\* A strip whose focus goes to another column.
LEMMA StripFocused ==
  ASSUME NEW fc, NEW list, NEW cols, NEW d, NEW w, w = StripOf(fc, list, cols), NEW v,
         v = [w EXCEPT !.focusedCol = d]
  PROVE  v = StripOf(d, list, cols)
BY DEF StripOf

\* Pane f of column c gets the focus.
FocusedAt(cols, c, f) == [cols EXCEPT ![c].focused = f]

\* Focusing a pane of a column keeps a strip a strip.
LEMMA FocusColumn ==
  ASSUME NEW S, NEW w, StripOver(w, S), NEW c \in DOMAIN w.columns, NEW f \in 1 .. Len(w.columns[c].panes),
         NEW v, v = StripOf(c, w.panes, FocusedAt(w.columns, c, f))
  PROVE  StripOver(v, S) /\ Refocused(w, v)
<1> DEFINE cols == w.columns
           new == [cols EXCEPT ![c].focused = f]
<1>1. w = StripOf(w.focusedCol, w.panes, cols) /\ Stacked(cols, S)
  BY DEF StripOver
<1>2. v = StripOf(c, w.panes, new)
  BY DEF FocusedAt
<1> HIDE DEF cols
<1>3. cols \in Seq(ColumnOver(S)) /\ cols = [d \in DOMAIN cols |-> cols[d]] /\ c \in DOMAIN cols
  BY <1>1 DEF Stacked, cols
<1>4. ASSUME NEW d \in DOMAIN cols
      PROVE  /\ new[d] \in ColumnOver(S) /\ new[d].panes = cols[d].panes
             /\ new[d].focused \in 1 .. Len(cols[d].panes)
  <2>1. /\ cols[d] \in ColumnOver(S)
        /\ cols[d] = [panes |-> cols[d].panes, focused |-> cols[d].focused,
                      maximized |-> cols[d].maximized, half |-> cols[d].half]
        /\ cols[d].panes \in Seq(S) /\ cols[d].maximized \in BOOLEAN /\ cols[d].half \in BOOLEAN
        /\ cols[d].focused \in 1 .. Len(cols[d].panes)
    BY <1>1, StackedColumn
  <2>2. CASE d # c
    BY <1>3, <2>1, <2>2
  <2>3. CASE d = c
    <3>1. new[d] = [panes |-> cols[d].panes, focused |-> f,
                    maximized |-> cols[d].maximized, half |-> cols[d].half]
      BY <1>3, <2>1, <2>3
    <3>2. f \in 1 .. Len(cols[d].panes) /\ f \in Nat
      BY <2>3 DEF cols
    <3>3. new[d] \in ColumnOver(S)
      BY <2>1, <3>1, <3>2 DEF ColumnOver
    <3> QED BY <3>1, <3>2, <3>3
  <2> QED BY <2>2, <2>3
<1>5. DOMAIN new = DOMAIN cols /\ new = [d \in DOMAIN cols |-> new[d]]
  BY <1>3
<1> HIDE DEF new
<1>6. SamePanes(cols, new)
  BY <1>4, <1>5 DEF SamePanes
<1>7. Stacked(new, S) /\ StackedPanes(new) = StackedPanes(cols)
  BY <1>1, <1>4, <1>5, <1>6, SameStacked
<1>8. v.columns = new /\ v.panes = w.panes /\ v.focusedCol = c
      /\ v = StripOf(v.focusedCol, v.panes, v.columns)
  BY <1>2, StripFields
<1>9. StripOver(v, S)
  BY <1>3, <1>5, <1>7, <1>8 DEF StripOver
<1>10. Refocused(w, v)
  BY <1>6, <1>7, <1>8 DEF Refocused, cols
<1> QED BY <1>8, <1>9, <1>10 DEF new, cols

\* FocusPane keeps a strip a strip, whatever id it is given.
LEMMA FocusPaneOK ==
  ASSUME NEW S, NEW w, StripOver(w, S), NEW ids, NEW i, NEW k, NEW v, v = FocusPane(w, ids, i, k)
  PROVE  StripOver(v, S) /\ Refocused(w, v)
<1> DEFINE at == ColumnById(w.columns, ids, i, k)
           c == Only(at)
<1>1. /\ w = StripOf(w.focusedCol, w.panes, w.columns)
      /\ Stacked(w.columns, S) /\ w.focusedCol \in DOMAIN w.columns
  BY DEF StripOver
<1>2. DOMAIN w.columns = 1 .. Len(w.columns) /\ Len(w.columns) \in Nat
  BY <1>1 DEF Stacked
<1>3. 1 \in DOMAIN w.columns
  BY <1>1, <1>2
<1>4. at # {} => c \in DOMAIN w.columns
  BY <1>2, ColumnByIdOK
<1>5. v = IF at = {} THEN [w EXCEPT !.focusedCol = 1]
          ELSE IF \A p \in InColumn(w, c) : ids[p] # i THEN [w EXCEPT !.focusedCol = c]
          ELSE [w EXCEPT !.focusedCol = c, !.columns[c].focused = FocusedIn(w.columns[c].panes, ids, i)]
  BY DEF FocusPane
<1> HIDE DEF c, at
<1>6. ASSUME NEW d \in DOMAIN w.columns, v = [w EXCEPT !.focusedCol = d]
      PROVE  StripOver(v, S) /\ Refocused(w, v)
  <2>1. v = StripOf(d, w.panes, w.columns)
    BY <1>1, <1>6, StripFocused
  <2>2. v.columns = w.columns /\ v.panes = w.panes /\ v.focusedCol = d
        /\ v = StripOf(v.focusedCol, v.panes, v.columns)
    BY <2>1, StripFields
  <2> QED BY <1>1, <2>2 DEF StripOver, Refocused, SamePanes
<1>7. CASE at = {}
  BY <1>3, <1>5, <1>6, <1>7
<1>8. CASE at # {} /\ \A p \in InColumn(w, c) : ids[p] # i
  BY <1>4, <1>5, <1>6, <1>8
<1>9. CASE at # {} /\ ~\A p \in InColumn(w, c) : ids[p] # i
  <2> DEFINE f == FocusedIn(w.columns[c].panes, ids, i)
  <2>1. c \in DOMAIN w.columns
    BY <1>4, <1>9
  <2>2. w.columns[c].panes \in Seq(S) /\ w.columns[c].panes # <<>>
    BY <1>1, <2>1, StackedColumn
  <2>3. f \in 1 .. Len(w.columns[c].panes)
    BY <2>2, FocusedInOK
  <2>4. v = StripOf(c, w.panes, FocusedAt(w.columns, c, f))
    <3>1. v = [w EXCEPT !.focusedCol = c, !.columns[c].focused = f]
      BY <1>5, <1>9
    <3> DEFINE list == w.panes
               fc == w.focusedCol
               cols == w.columns
               new == [cols EXCEPT ![c].focused = f]
    <3>2. w = StripOf(fc, list, cols)
      BY <1>1
    <3>c. w.columns = cols /\ w.panes = list
      OBVIOUS
    <3> HIDE DEF list, fc, cols, f
    <3>3. v = [key \in {"mode", "tree", "focusedCol", "panes", "columns"} |-> v[key]]
      BY <3>1, <3>2 DEF StripOf
    <3>4. v.focusedCol = c /\ v.panes = list /\ v.mode = "strip" /\ v.tree = <<>>
      BY <3>1, <3>2 DEF StripOf
    <3>5. v.columns = new
      BY <3>1, <3>2, <3>c DEF StripOf
    <3>6. new = FocusedAt(cols, c, f)
      BY DEF FocusedAt
    <3> HIDE DEF new
    <3>7. v = StripOf(c, list, FocusedAt(cols, c, f))
      BY <3>3, <3>4, <3>5, <3>6 DEF StripOf
    <3> QED BY <3>7, <3>c
  <2> HIDE DEF f
  <2>5. StripOver(v, S) /\ Refocused(w, v)
    BY <2>1, <2>3, <2>4, FocusColumn
  <2> QED BY <2>5
<1> QED BY <1>7, <1>8, <1>9

\* A strip has the panes and columns it was built with.
BuiltFrom(x, v, S) ==
    /\ StripOver(v, S) /\ v.panes = x.panes /\ SamePanes(x.columns, v.columns)
    /\ StackedPanes(v.columns) = StackedPanes(x.columns)

\* A restored strip has the panes and the columns it was built with.
LEMMA RestoreStripOK ==
  ASSUME NEW S, NEW f, NEW K, f.columns \in Seq(SavedOf(K)), NEW x, Stacked(x.columns, S), x.columns # <<>>,
         NEW ids, NEW v, v = RestoreStrip(f, x, ids)
  PROVE  BuiltFrom(x, v, S)
<1> DEFINE new == RestoreFlags(x.columns, f.columns, ids)
           w == StripOf(1, x.panes, new)
           u == FocusPane(w, ids, f.columns[f.focused].focused, f.focused)
<1>1. v = IF f.active = {} THEN u ELSE FocusPane(u, ids, Only(f.active), u.focusedCol)
  BY DEF RestoreStrip, StripOf
<1>2. Stacked(new, S) /\ SamePanes(x.columns, new) /\ StackedPanes(new) = StackedPanes(x.columns)
  BY RestoreFlagsOK
<1> HIDE DEF new
<1>3. 1 \in DOMAIN new
  <2>1. DOMAIN new = DOMAIN x.columns /\ x.columns \in Seq(ColumnOver(S))
    BY <1>2 DEF SamePanes, Stacked
  <2> QED BY <2>1, EmptySeq
<1>4. StripOver(w, S) /\ w.panes = x.panes /\ w.columns = new
  <2>1. /\ w.columns = new /\ w.panes = x.panes /\ w.focusedCol = 1
        /\ w = StripOf(w.focusedCol, w.panes, w.columns)
    BY StripFields
  <2> QED BY <1>2, <1>3, <2>1 DEF StripOver
<1> HIDE DEF w
<1>5. StripOver(u, S) /\ Refocused(w, u)
  BY <1>4, FocusPaneOK
<1> HIDE DEF u
<1>6. StripOver(v, S) /\ (v = u \/ Refocused(u, v))
  BY <1>1, <1>5, FocusPaneOK
<1>7. v.panes = x.panes /\ SamePanes(x.columns, v.columns) /\ StackedPanes(v.columns) = StackedPanes(x.columns)
  BY <1>2, <1>4, <1>5, <1>6 DEF Refocused, SamePanes
<1> QED BY <1>6, <1>7 DEF BuiltFrom

-----------------------------------------------------------------------------
(* A workspace                                                             *)

\* Panes of S in a tree, each on its place.
ClassicOver(w, S) ==
    /\ w = [mode |-> "classic", tree |-> w.tree, focusedCol |-> w.focusedCol, panes |-> w.panes,
            columns |-> <<>>]
    /\ w.tree \in [ToSet(w.panes) -> Place({"overlay"})] /\ Whole(w.tree)

Workspace(w, S) ==
    /\ w.panes \in Seq(S) /\ Distinct(w.panes) /\ w.panes # <<>>
    /\ \/ ClassicOver(w, S)
       \/ StripOver(w, S) /\ StackedPanes(w.columns) = ToSet(w.panes)

\* What the two kinds of workspace are made of.
LEMMA WorkspaceParts ==
  ASSUME NEW S, NEW w, Workspace(w, S)
  PROVE  /\ DOMAIN w.panes = 1 .. Len(w.panes) /\ Len(w.panes) \in Nat /\ Len(w.panes) >= 1
         /\ \A k \in 1 .. Len(w.panes) : w.panes[k] \in ToSet(w.panes)
         /\ ToSet(w.panes) \subseteq S
         /\ w.mode \in {"classic", "strip"}
         /\ w.mode = "classic" => ClassicOver(w, S) /\ w.columns = <<>>
         /\ w.mode = "strip" => /\ StripOver(w, S) /\ StackedPanes(w.columns) = ToSet(w.panes)
                                /\ w.tree = <<>> /\ DOMAIN w.columns = 1 .. Len(w.columns)
                                /\ Len(w.columns) \in Nat
<1>1. w.panes \in Seq(S) /\ w.panes # <<>>
  BY DEF Workspace
<1>2. DOMAIN w.panes = 1 .. Len(w.panes) /\ Len(w.panes) \in Nat /\ Len(w.panes) >= 1
  BY <1>1, EmptySeq
<1>3. /\ \A k \in 1 .. Len(w.panes) : w.panes[k] \in ToSet(w.panes)
      /\ ToSet(w.panes) \subseteq S
  BY <1>1, <1>2 DEF ToSet
<1>4. CASE ClassicOver(w, S)
  <2>1. w.mode = "classic" /\ w.columns = <<>>
    BY <1>4 DEF ClassicOver
  <2> QED BY <1>2, <1>3, <1>4, <2>1
<1>5. CASE StripOver(w, S) /\ StackedPanes(w.columns) = ToSet(w.panes)
  <2>1. w = StripOf(w.focusedCol, w.panes, w.columns) /\ Stacked(w.columns, S)
    BY <1>5 DEF StripOver
  <2>2. w.mode = "strip" /\ w.tree = <<>>
    BY <2>1, StripFields
  <2>3. DOMAIN w.columns = 1 .. Len(w.columns) /\ Len(w.columns) \in Nat
    BY <2>1 DEF Stacked
  <2> QED BY <1>2, <1>3, <1>5, <2>2, <2>3
<1> QED BY <1>4, <1>5 DEF Workspace

\* A workspace of some panes is one of more.
LEMMA WorkspaceIn ==
  ASSUME NEW T, NEW S \in SUBSET T, NEW w, Workspace(w, S)
  PROVE  Workspace(w, T)
<1>1. w.panes \in Seq(S)
  BY DEF Workspace
<1>2. w.panes \in Seq(T)
  <2>1. \A k \in 1 .. Len(w.panes) : w.panes[k] \in T
    BY <1>1
  <2> QED BY <1>1, <2>1
<1>3. StripOver(w, S) => StripOver(w, T)
  <2>1. SUFFICES ASSUME StripOver(w, S) PROVE StripOver(w, T)
    OBVIOUS
  <2>2. Stacked(w.columns, S)
    BY <2>1 DEF StripOver
  <2>3. w.columns \in Seq(ColumnOver(S))
    BY <2>2 DEF Stacked
  <2>4. \A c \in 1 .. Len(w.columns) : w.columns[c] \in ColumnOver(T)
    <3>1. SUFFICES ASSUME NEW c \in 1 .. Len(w.columns) PROVE w.columns[c] \in ColumnOver(T)
      OBVIOUS
    <3> DEFINE col == w.columns[c]
    <3>2. col \in ColumnOver(S)
      BY <2>3
    <3> HIDE DEF col
    <3>3. col.panes \in Seq(S)
      BY <3>2 DEF ColumnOver
    <3>4. \A k \in 1 .. Len(col.panes) : col.panes[k] \in T
      BY <3>3
    <3>5. col.panes \in Seq(T)
      BY <3>3, <3>4
    <3>6. col \in ColumnOver(T)
      BY <3>2, <3>5 DEF ColumnOver
    <3> QED BY <3>6 DEF col
  <2>5. w.columns \in Seq(ColumnOver(T))
    BY <2>3, <2>4
  <2>6. Stacked(w.columns, T)
    BY <2>2, <2>5 DEF Stacked
  <2> QED BY <2>1, <2>6 DEF StripOver
<1>4. ClassicOver(w, S) => ClassicOver(w, T)
  BY DEF ClassicOver
<1> QED BY <1>2, <1>3, <1>4 DEF Workspace

\* A pane of a strip is in its column.
LEMMA ColumnOfOK ==
  ASSUME NEW S, NEW w, Workspace(w, S), w.mode = "strip", NEW p \in ToSet(w.panes)
  PROVE  /\ ColumnOf(w.columns, p) \in DOMAIN w.columns
         /\ p \in ToSet(w.columns[ColumnOf(w.columns, p)].panes)
<1>1. p \in StackedPanes(w.columns)
  BY WorkspaceParts
<1>2. \E c \in DOMAIN w.columns : p \in ToSet(w.columns[c].panes)
  BY <1>1 DEF StackedPanes
<1> QED BY <1>2 DEF ColumnOf

\* A workspace is one of those Arranged allows.
LEMMA WorkspaceArranged ==
  ASSUME NEW w, Workspace(w, Pane)
  PROVE  Arranged(w)
<1>1. w.panes \in Seq(Pane) /\ IsInjective(w.panes) /\ w.panes # <<>>
  BY DEF Workspace, Distinct, IsInjective
<1>2. CASE w.mode = "classic"
  <2>1. ClassicOver(w, Pane) /\ w.columns = <<>>
    BY <1>2, WorkspaceParts
  <2>2. w.tree \in [ToSet(w.panes) -> Place({"overlay"})] /\ Whole(w.tree)
    BY <2>1 DEF ClassicOver
  <2>3. DOMAIN w.tree = ToSet(w.panes) /\ w.tree \in [DOMAIN w.tree -> Place({"overlay"})]
    BY <2>2
  <2>4. WellFormed(w.tree)
    BY <2>2, <2>3, WholeOK
  <2>5. Listed(w) = {}
    BY <2>1 DEF Listed
  <2>6. w.columns \in Seq(Column)
    BY <2>1
  <2> QED BY <1>1, <1>2, <2>1, <2>3, <2>4, <2>5, <2>6 DEF Arranged, Registered
<1>3. CASE w.mode = "strip"
  <2>1. /\ StripOver(w, Pane) /\ StackedPanes(w.columns) = ToSet(w.panes)
        /\ w.tree = <<>>
    BY <1>3, WorkspaceParts
  <2>2. Stacked(w.columns, Pane) /\ w.focusedCol \in DOMAIN w.columns
    BY <2>1 DEF StripOver
  <2>3. w.columns \in Seq(Column)
    BY <2>2 DEF Stacked, Column, ColumnOver
  <2>4. DOMAIN w.tree = {} /\ w.tree \in [DOMAIN w.tree -> Place({"overlay"})]
    BY <2>1
  <2>5. Listed(w) = Registered(w)
    BY <2>1 DEF Listed, InColumn, StackedPanes, Registered
  <2>6. \A c \in DOMAIN w.columns :
           /\ w.columns[c].focused \in DOMAIN w.columns[c].panes
           /\ IsInjective(w.columns[c].panes)
           /\ \A d \in DOMAIN w.columns \ {c} : InColumn(w, c) \cap InColumn(w, d) = {}
    BY <2>2 DEF Stacked, Distinct, IsInjective, InColumn
  <2> QED BY <1>1, <1>3, <2>2, <2>3, <2>4, <2>5, <2>6 DEF Arranged
<1> QED BY <1>2, <1>3, WorkspaceParts

\* As many columns of one pane.
LEMMA NewColumnsOK ==
  ASSUME NEW n \in Nat, NEW cols, cols = [k \in 1 .. n |-> NewColumn(k)]
  PROVE  Stacked(cols, 1 .. n) /\ StackedPanes(cols) = 1 .. n
<1>1. ASSUME NEW k \in 1 .. n
      PROVE  /\ NewColumn(k) \in ColumnOver(1 .. n) /\ NewColumn(k).panes = <<k>>
             /\ NewColumn(k).focused = 1
  <2>1. <<k>> \in Seq(1 .. n)
    OBVIOUS
  <2> QED BY <2>1 DEF NewColumn, ColumnOver
<1>2. \A k : DOMAIN <<k>> = {1} /\ ToSet(<<k>>) = {k} /\ Distinct(<<k>>)
  BY DEF ToSet, Distinct
<1>3. cols \in Seq(ColumnOver(1 .. n)) /\ DOMAIN cols = 1 .. n
  BY <1>1
<1>4. \A k \in 1 .. n : cols[k].panes = <<k>> /\ cols[k].focused = 1 /\ ToSet(cols[k].panes) = {k}
  BY <1>1, <1>2
<1>5. Stacked(cols, 1 .. n)
  <2>1. \A c \in 1 .. n : cols[c].focused \in DOMAIN cols[c].panes /\ Distinct(cols[c].panes)
    <3>1. SUFFICES ASSUME NEW c \in 1 .. n
                   PROVE  cols[c].focused \in DOMAIN cols[c].panes /\ Distinct(cols[c].panes)
      OBVIOUS
    <3>2. cols[c].panes = <<c>> /\ cols[c].focused = 1
      BY <1>4
    <3>3. DOMAIN <<c>> = {1} /\ Distinct(<<c>>)
      BY <1>2
    <3> QED BY <3>2, <3>3
  <2>2. \A c \in 1 .. n : \A d \in 1 .. n \ {c} : ToSet(cols[c].panes) \cap ToSet(cols[d].panes) = {}
    BY <1>4
  <2> QED BY <1>3, <2>1, <2>2 DEF Stacked
<1>6. StackedPanes(cols) = 1 .. n
  <2>1. ASSUME NEW p \in 1 .. n PROVE p \in StackedPanes(cols)
    <3>1. p \in DOMAIN cols /\ p \in ToSet(cols[p].panes)
      BY <1>3, <1>4
    <3> QED BY <3>1 DEF StackedPanes
  <2>2. ASSUME NEW p \in StackedPanes(cols) PROVE p \in 1 .. n
    <3>1. PICK c \in DOMAIN cols : p \in ToSet(cols[c].panes)
      BY <2>2 DEF StackedPanes
    <3> QED BY <1>3, <1>4, <3>1
  <2> QED BY <2>1, <2>2
<1> QED BY <1>5, <1>6

-----------------------------------------------------------------------------
(* What is written, and the workspace it becomes                           *)

\* f is what the restores read of w whose ids are ids.
Describes(f, w, ids, I) ==
    /\ f.mode = w.mode /\ f.layout = Layout(w) /\ f.columns \in Seq(SavedOf(I))
    /\ DOMAIN f.panes = DOMAIN w.panes
    /\ \A k \in DOMAIN w.panes : f.panes[k] = [id |-> ids[w.panes[k]], body |-> w.panes[k]]

\* A column is written with the ids of its panes.
LEMMA SavedColumnOK ==
  ASSUME NEW S, NEW cols, Stacked(cols, S), NEW I, NEW ids, \A p \in StackedPanes(cols) : ids[p] \in I,
         NEW c \in DOMAIN cols
  PROVE  /\ SavedColumn(cols[c], ids) \in SavedOf(I)
         /\ DOMAIN SavedColumn(cols[c], ids).ids = 1 .. Len(cols[c].panes)
<1> DEFINE col == cols[c]
           list == [k \in DOMAIN col.panes |-> ids[col.panes[k]]]
           f == ids[col.panes[col.focused]]
<1>1. /\ col.panes \in Seq(S) /\ col.focused \in 1 .. Len(col.panes)
      /\ col.maximized \in BOOLEAN /\ col.half \in BOOLEAN
  BY StackedColumn
<1>2. \A k \in 1 .. Len(col.panes) : col.panes[k] \in StackedPanes(cols)
  <2>1. \A k \in 1 .. Len(col.panes) : col.panes[k] \in ToSet(col.panes)
    BY <1>1, ToSetOK
  <2> QED BY <2>1 DEF StackedPanes
<1>3. SavedColumn(col, ids) = [ids |-> list, focused |-> f, maximized |-> col.maximized, half |-> col.half]
  BY DEF SavedColumn
<1> HIDE DEF col
<1>4. DOMAIN col.panes = 1 .. Len(col.panes) /\ \A k \in 1 .. Len(col.panes) : ids[col.panes[k]] \in I
  BY <1>1, <1>2
<1>5. list \in Seq(I) /\ DOMAIN list = 1 .. Len(col.panes)
  BY <1>1, <1>4
<1>6. f \in I
  BY <1>1, <1>4
<1> HIDE DEF list, f
<1>7. SavedColumn(col, ids) \in SavedOf(I) /\ SavedColumn(col, ids).ids = list
  BY <1>1, <1>3, <1>5, <1>6 DEF SavedOf
<1> QED BY <1>5, <1>7 DEF col

\* What a save writes describes the workspace.
LEMMA SaveSessionOK ==
  ASSUME NEW S, NEW w, Workspace(w, S), NEW I, NEW ids \in [ToSet(w.panes) -> I],
         NEW f, f = SaveSession(w, ids)
  PROVE  /\ Describes(f, w, ids, I)
         /\ f.columns = [c \in DOMAIN w.columns |-> SavedColumn(w.columns[c], ids)]
         /\ f.focused = w.focusedCol /\ f.active = {}
<1> DEFINE cols == [c \in DOMAIN w.columns |-> SavedColumn(w.columns[c], ids)]
           list == [k \in DOMAIN w.panes |-> [id |-> ids[w.panes[k]], body |-> w.panes[k]]]
<1>1. f = [mode |-> w.mode, layout |-> Layout(w), panes |-> list, columns |-> cols,
           focused |-> w.focusedCol, active |-> {}]
  BY DEF SaveSession
<1>2. DOMAIN list = DOMAIN w.panes
      /\ \A k \in DOMAIN w.panes : list[k] = [id |-> ids[w.panes[k]], body |-> w.panes[k]]
  OBVIOUS
<1>3. cols \in Seq(SavedOf(I))
  <2>1. CASE w.mode = "classic"
    <3>1. w.columns = <<>>
      BY <2>1, WorkspaceParts
    <3>2. DOMAIN w.columns = {}
      BY <3>1
    <3>3. cols = [c \in 1 .. 0 |-> SavedColumn(w.columns[c], ids)]
      BY <3>2
    <3> QED BY <3>3
  <2>2. CASE w.mode = "strip"
    <3>1. /\ StripOver(w, S) /\ StackedPanes(w.columns) = ToSet(w.panes)
          /\ DOMAIN w.columns = 1 .. Len(w.columns) /\ Len(w.columns) \in Nat
      BY <2>2, WorkspaceParts
    <3>2. Stacked(w.columns, S)
      BY <3>1 DEF StripOver
    <3>3. \A p \in StackedPanes(w.columns) : ids[p] \in I
      BY <3>1
    <3>4. \A c \in 1 .. Len(w.columns) : SavedColumn(w.columns[c], ids) \in SavedOf(I)
      BY <3>1, <3>2, <3>3, SavedColumnOK
    <3> QED BY <3>1, <3>4
  <2> QED BY <2>1, <2>2, WorkspaceParts
<1> HIDE DEF cols, list
<1>4. /\ f.mode = w.mode /\ f.layout = Layout(w) /\ f.columns = cols /\ f.panes = list
      /\ f.focused = w.focusedCol /\ f.active = {}
  BY <1>1
<1>5. Describes(f, w, ids, I)
  BY <1>2, <1>3, <1>4 DEF Describes
<1> QED BY <1>4, <1>5 DEF cols

\* What an export writes describes the workspace.
LEMMA ExportOK ==
  ASSUME NEW S, NEW w, Workspace(w, S), NEW I, NEW ids \in [ToSet(w.panes) -> I],
         NEW f, f = Export(w, ids)
  PROVE  Describes(f, w, ids, I)
<1> DEFINE s == SaveSession(w, ids)
           cols == [k \in DOMAIN w.panes |-> ExportedColumn(w, w.panes[k], ids)]
           a == {ids[w.columns[w.focusedCol].panes[w.columns[w.focusedCol].focused]]}
<1>1. Describes(s, w, ids, I)
  BY SaveSessionOK
<1>2. f = IF w.mode = "classic" THEN s ELSE [s EXCEPT !.columns = cols, !.active = a]
  BY DEF Export
<1>s. /\ DOMAIN s = {"mode", "layout", "panes", "columns", "focused", "active"}
  BY DEF SaveSession
<1> HIDE DEF s, a
<1>3. CASE w.mode = "classic"
  BY <1>1, <1>2, <1>3
<1>4. CASE w.mode = "strip"
  <2>1. /\ StripOver(w, S) /\ StackedPanes(w.columns) = ToSet(w.panes)
        /\ DOMAIN w.panes = 1 .. Len(w.panes) /\ Len(w.panes) \in Nat
        /\ \A k \in 1 .. Len(w.panes) : w.panes[k] \in ToSet(w.panes)
    BY <1>4, WorkspaceParts
  <2>2. Stacked(w.columns, S)
    BY <2>1 DEF StripOver
  <2>3. ASSUME NEW p \in ToSet(w.panes) PROVE ExportedColumn(w, p, ids) \in SavedOf(I)
    <3> DEFINE col == w.columns[ColumnOf(w.columns, p)]
               m == Len(col.panes) = 1 /\ col.maximized
    <3>1. ids[p] \in I /\ m \in BOOLEAN
      OBVIOUS
    <3>2. ExportedColumn(w, p, ids) = [ids |-> <<ids[p]>>, focused |-> ids[p], maximized |-> m, half |-> FALSE]
      BY DEF ExportedColumn
    <3> HIDE DEF m
    <3>3. <<ids[p]>> \in Seq(I)
      BY <3>1
    <3> QED BY <3>1, <3>2, <3>3 DEF SavedOf
  <2>4. cols \in Seq(SavedOf(I))
    BY <2>1, <2>3
  <2> HIDE DEF cols
  <2>5. f = [s EXCEPT !.columns = cols, !.active = a]
    BY <1>2, <1>4
  <2>6. f.mode = s.mode /\ f.layout = s.layout /\ f.panes = s.panes /\ f.columns = cols
    BY <1>s, <2>5
  <2> QED BY <1>1, <2>4, <2>6 DEF Describes
<1> QED BY <1>3, <1>4, WorkspaceParts

\* The workspace built from a description of w: as many panes, each with the
\* body of one of w, and the splits of w.
LEMMA RestoredOK ==
  ASSUME NEW S, NEW w, Workspace(w, S), NEW I, NEW ids, NEW f, Describes(f, w, ids, I),
         \A p \in ToSet(w.panes) : ids[p] \in I,
         NEW n \in Nat, NEW kind, NEW x, x = Restored(f, n, kind)
  PROVE  LET m == Len(w.panes)
         IN  /\ Workspace(x.ws, 1 .. m) /\ x.ws.mode = w.mode /\ Layout(x.ws) = Layout(w)
             /\ ToSet(x.ws.panes) = 1 .. m /\ Len(x.ws.panes) = m
             /\ x.body = w.panes
             /\ x.n \in Nat /\ n <= x.n /\ x.id \in [1 .. m -> I \cup ({kind} \X (n .. x.n - 1))]
             /\ (\A j, k \in 1 .. m : ids[w.panes[j]] = ids[w.panes[k]] => j = k)
                   => \A k \in 1 .. m : x.id[k] = ids[w.panes[k]]
<1> DEFINE m == Len(w.panes)
           J == I \cup ({kind} \X (n .. x.n - 1))
           list == [k \in DOMAIN f.panes |-> k]
           a == Assigned(f.panes, n, kind)
           y == IF kind = "restored" THEN RebuildColumns(f.columns, a.id)
                ELSE [panes |-> list, columns |-> [k \in DOMAIN list |-> NewColumn(k)]]
           v == IF f.mode = "strip" THEN RestoreStrip(f, y, a.id)
                ELSE [mode |-> f.mode, panes |-> list, tree |-> RestoreLayout(f.layout),
                      columns |-> <<>>, focusedCol |-> 0]
<1>1. x.ws = v /\ x.id = a.id /\ x.n = a.n /\ x.body = RestoredBodies(f)
  BY DEF Restored
<1>2. /\ DOMAIN w.panes = 1 .. m /\ m \in Nat /\ m >= 1
      /\ \A k \in 1 .. m : w.panes[k] \in ToSet(w.panes)
      /\ w.mode \in {"classic", "strip"} /\ w.panes \in Seq(S) /\ Distinct(w.panes)
  BY WorkspaceParts DEF Workspace
<1>3. /\ f.mode = w.mode /\ f.layout = Layout(w) /\ f.columns \in Seq(SavedOf(I))
      /\ DOMAIN f.panes = 1 .. m
      /\ \A k \in 1 .. m : f.panes[k] = [id |-> ids[w.panes[k]], body |-> w.panes[k]]
  BY <1>2 DEF Describes
<1>m. Cardinality(ToSet(w.panes)) = m /\ IsFiniteSet(ToSet(w.panes))
  <2>1. Cardinality(ToSet(w.panes)) = m
    BY <1>2, DistinctCount
  <2> DEFINE g == [k \in 1 .. m |-> w.panes[k]]
  <2>2. g \in Surjection(1 .. m, ToSet(w.panes))
    BY <1>2 DEF Surjection, ToSet
  <2>3. IsFiniteSet(1 .. m)
    BY <1>2, FS_Interval
  <2> HIDE DEF g, m
  <2> QED BY <2>1, <2>2, <2>3, FS_Surjection
<1> HIDE DEF m
<1>4. \A k \in 1 .. m : f.panes[k].id = ids[w.panes[k]] /\ f.panes[k].body = w.panes[k] /\ f.panes[k].id \in I
  <2>1. SUFFICES ASSUME NEW k \in 1 .. m
                 PROVE  f.panes[k].id = ids[w.panes[k]] /\ f.panes[k].body = w.panes[k] /\ f.panes[k].id \in I
    OBVIOUS
  <2>2. f.panes[k] = [id |-> ids[w.panes[k]], body |-> w.panes[k]]
    BY <1>3
  <2>3. w.panes[k] \in ToSet(w.panes)
    BY <1>2
  <2>4. ids[w.panes[k]] \in I
    BY <2>3
  <2> QED BY <2>2, <2>4
<1>5. /\ a.n \in Nat /\ n <= a.n /\ a.id \in [1 .. m -> I \cup ({kind} \X (n .. a.n - 1))]
      /\ (\A j, k \in 1 .. m : f.panes[j].id = f.panes[k].id => j = k)
               => \A k \in 1 .. m : a.id[k] = f.panes[k].id
  <2> DEFINE fp == f.panes
  <2>1. DOMAIN fp = 1 .. m /\ \A k \in 1 .. m : fp[k].id \in I
    BY <1>3, <1>4
  <2>2. a = Assigned(fp, n, kind)
    OBVIOUS
  <2> HIDE DEF a, fp
  <2>3. /\ a.n \in Nat /\ n <= a.n /\ a.id \in [1 .. m -> I \cup ({kind} \X (n .. a.n - 1))]
        /\ (\A j, k \in 1 .. m : fp[j].id = fp[k].id => j = k)
               => \A k \in 1 .. m : a.id[k] = fp[k].id
    <3>1. Assigns(a, fp, m, I, n, kind)
      BY <1>2, <2>1, <2>2, AssignedOK
    <3> QED BY <3>1 DEF Assigns
  <2> QED BY <2>3 DEF fp
<1> HIDE DEF a
<1>6. /\ x.n \in Nat /\ n <= x.n /\ x.id \in [1 .. m -> J]
      /\ (\A j, k \in 1 .. m : ids[w.panes[j]] = ids[w.panes[k]] => j = k)
                   => \A k \in 1 .. m : x.id[k] = ids[w.panes[k]]
  BY <1>1, <1>4, <1>5
<1>7. x.body = w.panes
  <2>1. x.body = [k \in 1 .. m |-> f.panes[k].body]
    BY <1>1, <1>3 DEF RestoredBodies
  <2>2. w.panes = [k \in 1 .. m |-> w.panes[k]]
    BY <1>2
  <2> QED BY <1>4, <2>1, <2>2
<1>8. list \in Seq(1 .. m) /\ Len(list) = m /\ ToSet(list) = 1 .. m /\ Distinct(list) /\ list # <<>>
  <2>1. list = [k \in 1 .. m |-> k]
    BY <1>3
  <2> HIDE DEF list
  <2>2. list \in Seq(1 .. m) /\ Len(list) = m /\ DOMAIN list = 1 .. m /\ \A k \in 1 .. m : list[k] = k
    BY <1>2, <2>1
  <2>3. list # <<>>
    BY <1>2, <2>2
  <2> QED BY <2>2, <2>3 DEF ToSet, Distinct
<1>9. DOMAIN list = 1 .. m
  BY <1>3
<1> HIDE DEF list, y
<1>10. CASE w.mode = "classic"
  <2> DEFINE t == RestoreLayout(f.layout)
  <2>1. ClassicOver(w, S)
    BY <1>10, WorkspaceParts
  <2>2. w.tree \in [ToSet(w.panes) -> Place({"overlay"})] /\ Whole(w.tree)
    BY <2>1 DEF ClassicOver
  <2>3. Layout(w) = Paths(w.tree) /\ ToSet(w.panes) # {}
    BY <1>2 DEF Layout, Paths
  <2>4. t = RestoreLayout(Paths(w.tree))
    BY <1>3, <2>3
  <2> HIDE DEF t
  <2>5. t \in [1 .. m -> Place({"overlay"})] /\ Whole(t) /\ Paths(t) = Paths(w.tree)
    BY <1>m, <2>2, <2>3, <2>4, RestoreLayoutOK
  <2>6. v = [mode |-> "classic", panes |-> list, tree |-> t, columns |-> <<>>, focusedCol |-> 0]
    BY <1>3, <1>10 DEF t
  <2> HIDE DEF v
  <2>7. /\ v = [mode |-> "classic", tree |-> v.tree, focusedCol |-> v.focusedCol, panes |-> v.panes,
                columns |-> <<>>]
        /\ v.tree = t /\ v.panes = list /\ v.mode = "classic"
    BY <2>6
  <2>8. ClassicOver(v, 1 .. m)
    BY <1>8, <2>5, <2>7 DEF ClassicOver
  <2>9. Workspace(v, 1 .. m)
    BY <1>8, <2>7, <2>8 DEF Workspace
  <2>10. Layout(v) = Paths(t)
    BY <2>7 DEF Layout, Paths
  <2>11. /\ Workspace(v, 1 .. m) /\ v.mode = w.mode /\ Layout(v) = Layout(w)
         /\ ToSet(v.panes) = 1 .. m /\ Len(v.panes) = m
    BY <1>8, <1>10, <2>3, <2>5, <2>7, <2>9, <2>10
  <2> QED BY <1>1, <1>6, <1>7, <2>11 DEF m
<1>11. CASE w.mode = "strip"
  <2>1. /\ y.panes \in Seq(1 .. m) /\ Distinct(y.panes) /\ ToSet(y.panes) = 1 .. m /\ Len(y.panes) = m
        /\ Stacked(y.columns, 1 .. m) /\ StackedPanes(y.columns) = 1 .. m
    <3>1. CASE kind = "restored"
      <4>1. y = RebuildColumns(f.columns, a.id)
        BY <3>1 DEF y
      <4>2. DOMAIN a.id = 1 .. m
        BY <1>5
      <4> QED BY <1>2, <1>3, <4>1, <4>2, RebuildColumnsOK
    <3>2. CASE kind # "restored"
      <4>1. y.panes = list /\ y.columns = [k \in 1 .. m |-> NewColumn(k)]
        BY <1>9, <3>2 DEF y
      <4> QED BY <1>2, <1>8, <4>1, NewColumnsOK
    <3> QED BY <3>1, <3>2
  <2>2. y.columns # <<>>
    <3>1. 1 \in StackedPanes(y.columns)
      BY <1>2, <2>1
    <3>2. PICK c \in DOMAIN y.columns : TRUE
      BY <3>1 DEF StackedPanes
    <3> QED BY <3>2
  <2>3. v = RestoreStrip(f, y, a.id)
    BY <1>3, <1>11
  <2> HIDE DEF v
  <2>4. /\ StripOver(v, 1 .. m) /\ v.panes = y.panes
        /\ StackedPanes(v.columns) = StackedPanes(y.columns)
    <3> DEFINE ai == a.id
               R == 1 .. m
    <3>1. v = RestoreStrip(f, y, ai) /\ Stacked(y.columns, R) /\ f.columns \in Seq(SavedOf(I))
      BY <1>3, <2>1, <2>3
    <3> HIDE DEF ai, R
    <3>2. /\ StripOver(v, R) /\ v.panes = y.panes /\ SamePanes(y.columns, v.columns)
          /\ StackedPanes(v.columns) = StackedPanes(y.columns)
      <4>1. BuiltFrom(y, v, R)
        BY <2>2, <3>1, RestoreStripOK
      <4> QED BY <4>1 DEF BuiltFrom
    <3> QED BY <3>2 DEF R
  <2>5. y.panes # <<>>
    BY <1>2, <2>1
  <2>6. Workspace(v, 1 .. m)
    BY <2>1, <2>4, <2>5 DEF Workspace
  <2>7. v.mode = "strip" /\ v.tree = <<>>
    BY <2>4, StripFields DEF StripOver
  <2>8. w.tree = <<>>
    BY <1>11, WorkspaceParts
  <2>9. Layout(v) = Layout(w)
    BY <2>7, <2>8 DEF Layout
  <2>10. /\ Workspace(v, 1 .. m) /\ v.mode = w.mode /\ Layout(v) = Layout(w)
         /\ ToSet(v.panes) = 1 .. m /\ Len(v.panes) = m
    BY <1>11, <2>1, <2>4, <2>6, <2>7, <2>9
  <2> QED BY <1>1, <1>6, <1>7, <2>10 DEF m
<1> QED BY <1>2, <1>10, <1>11

-----------------------------------------------------------------------------
(* Columns that come, go and change                                        *)

\* Columns with one more, or one less, and the panes in them.
LEMMA SkipsStacked ==
  ASSUME NEW S, NEW s \in Seq(ColumnOver(S)), NEW t \in Seq(ColumnOver(S)), NEW i \in DOMAIN t, Skips(s, t, i)
  PROVE  /\ StackedPanes(t) = StackedPanes(s) \cup ToSet(t[i].panes)
         /\ Stacked(t, S) => Stacked(s, S) /\ StackedPanes(s) = StackedPanes(t) \ ToSet(t[i].panes)
         /\ /\ Stacked(s, S) /\ t[i].focused \in DOMAIN t[i].panes /\ Distinct(t[i].panes)
            /\ ToSet(t[i].panes) \cap StackedPanes(s) = {}
            => Stacked(t, S)
<1>1. PICK g \in [DOMAIN s -> DOMAIN t \ {i}] :
        /\ \A j \in DOMAIN s : s[j] = t[g[j]]
        /\ \A j, k \in DOMAIN s : g[j] = g[k] => j = k
        /\ \A k \in DOMAIN t \ {i} : \E j \in DOMAIN s : g[j] = k
  BY DEF Skips
<1>2. \A j \in DOMAIN s : g[j] \in DOMAIN t /\ g[j] # i /\ s[j] = t[g[j]]
  BY <1>1
<1>3. \A k \in DOMAIN t : k = i \/ \E j \in DOMAIN s : g[j] = k /\ t[k] = s[j]
  BY <1>1
<1>4. ASSUME NEW p PROVE p \in StackedPanes(s) <=> \E j \in DOMAIN s : p \in ToSet(s[j].panes)
  BY DEF StackedPanes
<1>5. ASSUME NEW p PROVE p \in StackedPanes(t) <=> \E j \in DOMAIN t : p \in ToSet(t[j].panes)
  BY DEF StackedPanes
<1>6. StackedPanes(t) = StackedPanes(s) \cup ToSet(t[i].panes)
  <2>1. ASSUME NEW p PROVE p \in StackedPanes(t) <=> p \in StackedPanes(s) \/ p \in ToSet(t[i].panes)
    BY <1>2, <1>3, <1>4, <1>5
  <2> QED BY <2>1
<1>7. ASSUME Stacked(t, S)
      PROVE  Stacked(s, S) /\ StackedPanes(s) = StackedPanes(t) \ ToSet(t[i].panes)
  <2>1. /\ \A c \in DOMAIN t : t[c].focused \in DOMAIN t[c].panes /\ Distinct(t[c].panes)
        /\ \A c \in DOMAIN t : \A d \in DOMAIN t \ {c} : ToSet(t[c].panes) \cap ToSet(t[d].panes) = {}
    BY <1>7 DEF Stacked
  <2>2. \A c \in DOMAIN s : s[c].focused \in DOMAIN s[c].panes /\ Distinct(s[c].panes)
    BY <1>2, <2>1
  <2>3. ASSUME NEW c \in DOMAIN s, NEW d \in DOMAIN s \ {c}
        PROVE  ToSet(s[c].panes) \cap ToSet(s[d].panes) = {}
    <3>1. g[c] # g[d] /\ g[c] \in DOMAIN t /\ g[d] \in DOMAIN t
      BY <1>1
    <3> QED BY <1>2, <2>1, <3>1
  <2>4. Stacked(s, S)
    BY <2>2, <2>3 DEF Stacked
  <2>5. \A j \in DOMAIN s : ToSet(s[j].panes) \cap ToSet(t[i].panes) = {}
    BY <1>2, <2>1
  <2>6. StackedPanes(s) \cap ToSet(t[i].panes) = {}
    BY <1>4, <2>5
  <2> QED BY <1>6, <2>4, <2>6
<1>8. ASSUME Stacked(s, S), t[i].focused \in DOMAIN t[i].panes, Distinct(t[i].panes),
             ToSet(t[i].panes) \cap StackedPanes(s) = {}
      PROVE  Stacked(t, S)
  <2>1. /\ \A c \in DOMAIN s : s[c].focused \in DOMAIN s[c].panes /\ Distinct(s[c].panes)
        /\ \A c \in DOMAIN s : \A d \in DOMAIN s \ {c} : ToSet(s[c].panes) \cap ToSet(s[d].panes) = {}
    BY <1>8 DEF Stacked
  <2>2. \A c \in DOMAIN t : t[c].focused \in DOMAIN t[c].panes /\ Distinct(t[c].panes)
    BY <1>3, <1>8, <2>1
  <2>3. \A j \in DOMAIN s : ToSet(s[j].panes) \cap ToSet(t[i].panes) = {}
    BY <1>4, <1>8
  <2>4. ASSUME NEW c \in DOMAIN t, NEW d \in DOMAIN t \ {c}
        PROVE  ToSet(t[c].panes) \cap ToSet(t[d].panes) = {}
    <3>1. CASE c = i
      BY <1>3, <2>3, <3>1
    <3>2. CASE d = i
      BY <1>3, <2>3, <3>2
    <3>3. CASE c # i /\ d # i
      <4>1. PICK j \in DOMAIN s : g[j] = c /\ t[c] = s[j]
        BY <1>3, <3>3
      <4>2. PICK k \in DOMAIN s : g[k] = d /\ t[d] = s[k]
        BY <1>3, <3>3
      <4>3. j # k
        BY <4>1, <4>2
      <4> QED BY <2>1, <4>1, <4>2, <4>3
    <3> QED BY <3>1, <3>2, <3>3
  <2> QED BY <2>2, <2>4 DEF Stacked
<1> QED BY <1>6, <1>7, <1>8

\* A new column keeps the others stacked.
LEMMA InsertColumn ==
  ASSUME NEW S, NEW cols, Stacked(cols, S), NEW i \in 1 .. Len(cols) + 1, NEW q \in S, q \notin StackedPanes(cols)
  PROVE  /\ Stacked(InsertAt(cols, i, NewColumn(q)), S) /\ i \in DOMAIN InsertAt(cols, i, NewColumn(q))
         /\ StackedPanes(InsertAt(cols, i, NewColumn(q))) = StackedPanes(cols) \cup {q}
<1> DEFINE e == NewColumn(q)
           t == InsertAt(cols, i, e)
<1>1. cols \in Seq(ColumnOver(S))
  BY DEF Stacked
<1>2. DOMAIN <<q>> = {1} /\ ToSet(<<q>>) = {q} /\ Distinct(<<q>>) /\ <<q>> \in Seq(S)
  BY DEF ToSet, Distinct
<1>3. e.panes = <<q>> /\ e.focused = 1 /\ e \in ColumnOver(S)
  BY <1>2 DEF NewColumn, ColumnOver
<1> HIDE DEF e
<1>4. t \in Seq(ColumnOver(S))
  BY <1>1, <1>3, InsertAtOK
<1>5. Skips(cols, t, i) /\ i \in DOMAIN t /\ t[i] = e
  BY <1>1, <1>3, InsertSkips
<1> HIDE DEF t
<1>6. Stacked(t, S) /\ StackedPanes(t) = StackedPanes(cols) \cup {q}
  BY <1>1, <1>2, <1>3, <1>4, <1>5, SkipsStacked
<1> QED BY <1>5, <1>6 DEF t, e

\* So does a column that goes, with its panes.
LEMMA RemoveColumn ==
  ASSUME NEW S, NEW cols, Stacked(cols, S), NEW i \in DOMAIN cols
  PROVE  /\ Stacked(RemoveAt(cols, i), S) /\ Len(RemoveAt(cols, i)) = Len(cols) - 1
         /\ StackedPanes(RemoveAt(cols, i)) = StackedPanes(cols) \ ToSet(cols[i].panes)
<1> DEFINE t == RemoveAt(cols, i)
<1>1. cols \in Seq(ColumnOver(S)) /\ i \in 1 .. Len(cols)
  BY DEF Stacked
<1>2. t \in Seq(ColumnOver(S)) /\ Len(t) = Len(cols) - 1
  BY <1>1, RemoveAtOK
<1>3. Skips(t, cols, i)
  BY <1>1, RemoveSkips
<1> HIDE DEF t
<1>4. Stacked(t, S) /\ StackedPanes(t) = StackedPanes(cols) \ ToSet(cols[i].panes)
  BY <1>1, <1>2, <1>3, SkipsStacked
<1> QED BY <1>2, <1>4 DEF t

\* Column c becomes col.
ChangedAt(cols, c, col) == [cols EXCEPT ![c] = col]

Rearranged(new, cols, c, col, S) ==
    /\ Stacked(new, S) /\ DOMAIN new = DOMAIN cols
    /\ StackedPanes(new) = (StackedPanes(cols) \ ToSet(cols[c].panes)) \cup ToSet(col.panes)

\* A column may change if its panes are in no other.
LEMMA ChangeColumn ==
  ASSUME NEW S, NEW cols, Stacked(cols, S), NEW c \in DOMAIN cols, NEW col \in ColumnOver(S),
         col.focused \in DOMAIN col.panes, Distinct(col.panes),
         ToSet(col.panes) \cap (StackedPanes(cols) \ ToSet(cols[c].panes)) = {},
         NEW new, new = ChangedAt(cols, c, col)
  PROVE  Rearranged(new, cols, c, col, S)
<1>1. /\ cols \in Seq(ColumnOver(S))
      /\ \A d \in DOMAIN cols : cols[d].focused \in DOMAIN cols[d].panes /\ Distinct(cols[d].panes)
      /\ \A d \in DOMAIN cols : \A e \in DOMAIN cols \ {d} :
            ToSet(cols[d].panes) \cap ToSet(cols[e].panes) = {}
  BY DEF Stacked
<1>2. /\ DOMAIN new = DOMAIN cols /\ new[c] = col /\ \A d \in DOMAIN cols \ {c} : new[d] = cols[d]
  BY <1>1 DEF ChangedAt
<1>3. new \in Seq(ColumnOver(S))
  BY <1>1 DEF ChangedAt
<1>4. \A d \in DOMAIN cols \ {c} : ToSet(cols[d].panes) \cap ToSet(col.panes) = {}
  <2>1. SUFFICES ASSUME NEW d \in DOMAIN cols \ {c}, NEW p \in ToSet(cols[d].panes), p \in ToSet(col.panes)
                 PROVE  FALSE
    OBVIOUS
  <2>2. p \in StackedPanes(cols)
    BY <2>1 DEF StackedPanes
  <2>3. p \notin ToSet(cols[c].panes)
    BY <1>1, <2>1
  <2> QED BY <2>1, <2>2, <2>3
<1>5. \A d \in DOMAIN new : new[d].focused \in DOMAIN new[d].panes /\ Distinct(new[d].panes)
  BY <1>1, <1>2
<1>6. ASSUME NEW d \in DOMAIN new, NEW e \in DOMAIN new \ {d}
      PROVE  ToSet(new[d].panes) \cap ToSet(new[e].panes) = {}
  <2>1. CASE d = c
    BY <1>2, <1>4, <2>1
  <2>2. CASE e = c
    BY <1>2, <1>4, <2>2
  <2>3. CASE d # c /\ e # c
    BY <1>1, <1>2, <2>3
  <2> QED BY <2>1, <2>2, <2>3
<1>7. Stacked(new, S)
  BY <1>3, <1>5, <1>6 DEF Stacked
<1>8. ASSUME NEW p
      PROVE  p \in StackedPanes(new)
               <=> (p \in StackedPanes(cols) /\ p \notin ToSet(cols[c].panes)) \/ p \in ToSet(col.panes)
  <2>1. p \in StackedPanes(new) <=> \E d \in DOMAIN cols : p \in ToSet(new[d].panes)
    BY <1>2 DEF StackedPanes
  <2>2. p \in StackedPanes(cols) <=> \E d \in DOMAIN cols : p \in ToSet(cols[d].panes)
    BY DEF StackedPanes
  <2>3. \A d \in DOMAIN cols \ {c} : p \in ToSet(cols[d].panes) => p \notin ToSet(cols[c].panes)
    BY <1>1
  <2> QED BY <1>2, <2>1, <2>2, <2>3
<1>9. StackedPanes(new) = (StackedPanes(cols) \ ToSet(cols[c].panes)) \cup ToSet(col.panes)
  BY <1>8
<1> QED BY <1>2, <1>7, <1>9 DEF Rearranged

\* The two kinds of workspace, put together.
Made(v, S, mode, list) == Workspace(v, S) /\ v.mode = mode /\ v.panes = list

\* Stacked columns and their panes make a strip.
LEMMA StripMade ==
  ASSUME NEW S, NEW fc, NEW list \in Seq(S), Distinct(list), list # <<>>, NEW cols, Stacked(cols, S),
         fc \in DOMAIN cols, StackedPanes(cols) = ToSet(list), NEW v, v = StripOf(fc, list, cols)
  PROVE  Made(v, S, "strip", list)
<1>1. v.focusedCol = fc /\ v.panes = list /\ v.columns = cols /\ v.mode = "strip"
      /\ v = StripOf(v.focusedCol, v.panes, v.columns)
  BY StripFields
<1>2. StripOver(v, S)
  BY <1>1 DEF StripOver
<1> QED BY <1>1, <1>2 DEF Workspace, Made

ClassicOf(fc, t, list) ==
    [mode |-> "classic", tree |-> t, focusedCol |-> fc, panes |-> list, columns |-> <<>>]

\* A workspace whose tree and registry change.
LEMMA ClassicChanged ==
  ASSUME NEW w, w = ClassicOf(w.focusedCol, w.tree, w.panes), NEW t, NEW list
  PROVE  [w EXCEPT !.tree = t, !.panes = list] = ClassicOf(w.focusedCol, t, list)
<1> DEFINE fc == w.focusedCol
           tr == w.tree
           pp == w.panes
           v == [w EXCEPT !.tree = t, !.panes = list]
<1>1. w = ClassicOf(fc, tr, pp)
  OBVIOUS
<1> HIDE DEF fc, tr, pp
<1>2. v = [x \in {"mode", "tree", "focusedCol", "panes", "columns"} |-> v[x]]
  BY <1>1 DEF ClassicOf
<1>3. v.mode = "classic" /\ v.tree = t /\ v.focusedCol = fc /\ v.panes = list /\ v.columns = <<>>
  BY <1>1 DEF ClassicOf
<1> HIDE DEF v
<1>4. v = ClassicOf(fc, t, list)
  BY <1>2, <1>3 DEF ClassicOf
<1> QED BY <1>4 DEF v, fc

\* A whole tree and its panes make a workspace.
LEMMA ClassicMade ==
  ASSUME NEW S, NEW fc, NEW list \in Seq(S), Distinct(list), list # <<>>,
         NEW t \in [ToSet(list) -> Place({"overlay"})], Whole(t), NEW v, v = ClassicOf(fc, t, list)
  PROVE  Made(v, S, "classic", list)
<1>1. v.mode = "classic" /\ v.tree = t /\ v.focusedCol = fc /\ v.panes = list
      /\ v = [mode |-> "classic", tree |-> v.tree, focusedCol |-> v.focusedCol, panes |-> v.panes,
              columns |-> <<>>]
  BY DEF ClassicOf
<1>2. ClassicOver(v, S)
  BY <1>1 DEF ClassicOver
<1> QED BY <1>1, <1>2 DEF Workspace, Made

-----------------------------------------------------------------------------
(* The life of a workspace                                                 *)

\* PanesTypeOK, and what ws is made of.
PanesIInv ==
    /\ ws.mode \in Modes /\ Workspace(ws, Pane)
    /\ paneId \in [Registered(ws) -> Id]
    /\ serial \in 1 .. MaxSerial + 1 /\ gen \in 1 .. MaxSerial + 1

\* A workspace has a pane, and as many as there are slots; a slot is free if it
\* has fewer.
LEMMA PaneCount ==
  ASSUME NEW w, Workspace(w, Pane)
  PROVE  /\ Len(w.panes) \in 1 .. MaxPanes
         /\ Len(w.panes) < MaxPanes =>
               FreeSlot(Registered(w)) \in Pane /\ FreeSlot(Registered(w)) \notin Registered(w)
<1> DEFINE R == Registered(w)
<1>1. /\ w.panes \in Seq(Pane) /\ Distinct(w.panes) /\ R = ToSet(w.panes) /\ R \subseteq Pane
      /\ Len(w.panes) \in Nat /\ Len(w.panes) >= 1
  BY WorkspaceParts DEF Workspace, Registered
<1>2. MaxPanes \in Nat /\ Pane \in SUBSET Nat
  BY PanesAssumption DEF Pane
<1>3. IsFiniteSet(Pane) /\ Cardinality(Pane) = MaxPanes
  BY <1>2, FS_Interval DEF Pane
<1>4. Cardinality(R) = Len(w.panes)
  BY <1>1, DistinctCount
<1> HIDE DEF R
<1>5. Cardinality(R) <= Cardinality(Pane)
  BY <1>1, <1>3, FS_Subset
<1>6. Len(w.panes) \in 1 .. MaxPanes
  BY <1>1, <1>2, <1>3, <1>4, <1>5
<1>7. ASSUME Len(w.panes) < MaxPanes
      PROVE  FreeSlot(R) \in Pane /\ FreeSlot(R) \notin R
  <2>1. R # Pane
    BY <1>1, <1>3, <1>4, <1>7
  <2>2. Pane \ R # {} /\ Pane \ R \in SUBSET Nat
    BY <1>1, <1>2, <2>1
  <2>3. Min(Pane \ R) \in Pane \ R
    BY <2>2, MinOK
  <2> QED BY <2>3 DEF FreeSlot
<1> QED BY <1>6, <1>7 DEF R

\* A list without one of its elements.
LEMMA WithoutOK ==
  ASSUME NEW S, NEW s \in Seq(S), Distinct(s), NEW x \in ToSet(s)
  PROVE  /\ Without(s, x) \in Seq(S) /\ Len(Without(s, x)) = Len(s) - 1
         /\ Distinct(Without(s, x)) /\ ToSet(Without(s, x)) = ToSet(s) \ {x}
<1> DEFINE i == IndexOf(s, x)
<1>1. i \in 1 .. Len(s) /\ s[i] = x
  BY IndexOK
<1> HIDE DEF i
<1>2. /\ RemoveAt(s, i) \in Seq(S) /\ Len(RemoveAt(s, i)) = Len(s) - 1
      /\ Distinct(RemoveAt(s, i)) /\ ToSet(RemoveAt(s, i)) = ToSet(s) \ {x}
  BY <1>1, RemoveAtOK, RemoveDistinct
<1> QED BY <1>2 DEF Without, i

\* Ids that a new number makes are ids.
LEMMA IdsMade ==
  ASSUME NEW kind \in {"pane", "restored"}, NEW n \in Nat, n >= 1, NEW m \in Nat, m <= MaxSerial + 1
  PROVE  Id \cup ({kind} \X (n .. m - 1)) = Id
<1>1. MaxSerial \in Nat
  BY SerialAssumption
<1>2. n .. m - 1 \subseteq 1 .. MaxSerial
  BY <1>1
<1> QED BY <1>2 DEF Id

\* The id of a pane that is made.
LEMMA CreateOK ==
  ASSUME PanesIInv, NEW q, Create(q)
  PROVE  /\ paneId' \in [Registered(ws) \cup {q} -> Id]
         /\ serial' \in 1 .. MaxSerial + 1 /\ gen' \in 1 .. MaxSerial + 1
<1>1. MaxSerial \in Nat /\ serial \in 1 .. MaxSerial /\ DOMAIN paneId = Registered(ws)
  BY SerialAssumption DEF PanesIInv, Create
<1>2. <<"pane", serial>> \in Id
  BY <1>1 DEF Id
<1>3. paneId' \in [Registered(ws) \cup {q} -> Id]
  <2>1. paneId' = [p \in Registered(ws) \cup {q} |-> IF p = q THEN <<"pane", serial>> ELSE paneId[p]]
    BY <1>1 DEF Create
  <2>2. \A p \in Registered(ws) : paneId[p] \in Id
    BY DEF PanesIInv
  <2> QED BY <1>2, <2>1, <2>2
<1>4. serial' = serial + 1 /\ gen' = gen
  BY DEF Create
<1> QED BY <1>1, <1>3, <1>4 DEF PanesIInv

\* The ids that are left when a pane goes.
LEMMA ForgetOK ==
  ASSUME PanesIInv, NEW p, Forget(p)
  PROVE  /\ paneId' \in [Registered(ws) \ {p} -> Id]
         /\ serial' \in 1 .. MaxSerial + 1 /\ gen' \in 1 .. MaxSerial + 1
BY DEF PanesIInv, Forget

\* A split keeps every pane on its place in the tree.
LEMMA SplitKeeps ==
  ASSUME PanesIInv, NEW p \in Registered(ws), Split(p)
  PROVE  PanesIInv'
<1> DEFINE q == FreeSlot(Registered(ws))
           t == SplitLeaf(ws.tree, p, q)
           list == Append(ws.panes, q)
<1>1. Workspace(ws, Pane) /\ ws.mode \in Modes /\ ws.mode = "classic" /\ Create(q)
  BY DEF PanesIInv, Split
<1>2. ws' = [ws EXCEPT !.tree = t, !.panes = list]
  BY DEF Split
<1>3. Len(ws.panes) < MaxPanes
  BY <1>1 DEF Create
<1>4. q \in Pane /\ q \notin Registered(ws)
  BY <1>1, <1>3, PaneCount
<1> HIDE DEF q
<1>5. /\ ClassicOver(ws, Pane) /\ ws.panes \in Seq(Pane) /\ Distinct(ws.panes)
      /\ Registered(ws) = ToSet(ws.panes)
  BY <1>1, WorkspaceParts DEF Workspace, Registered
<1>6. ws.tree \in [ToSet(ws.panes) -> Place({"overlay"})] /\ Whole(ws.tree)
  BY <1>5 DEF ClassicOver
<1>7. list \in Seq(Pane) /\ Len(list) = Len(ws.panes) + 1 /\ Distinct(list) /\ ToSet(list) = ToSet(ws.panes) \cup {q}
  BY <1>4, <1>5, AppendOK, AppendDistinct
<1> HIDE DEF list
<1>8. list # <<>>
  <2>1. q \in ToSet(list)
    BY <1>7
  <2> QED BY <2>1 DEF ToSet
<1>9. t \in [ToSet(list) -> Place({"overlay"})] /\ Whole(t)
  <2>1. t \in [ToSet(ws.panes) \cup {q} -> Place({"overlay"})]
    BY <1>5, <1>6, SplitLeafOK
  <2>2. DOMAIN ws.tree = ToSet(ws.panes)
    BY <1>6
  <2>3. Whole(t)
    BY <1>4, <1>5, <1>6, <2>2, SplitLeafWhole
  <2> QED BY <1>7, <2>1, <2>3
<1> HIDE DEF t
<1>c. ws' = ClassicOf(ws.focusedCol, t, list)
  <2>1. ws = ClassicOf(ws.focusedCol, ws.tree, ws.panes)
    BY <1>5 DEF ClassicOver, ClassicOf
  <2> QED BY <1>2, <2>1, ClassicChanged
<1>10. Workspace(ws', Pane) /\ ws'.mode = "classic" /\ ws'.panes = list
  <2>1. Made(ws', Pane, "classic", list)
    BY <1>c, <1>7, <1>8, <1>9, ClassicMade
  <2> QED BY <2>1 DEF Made
<1>11. Registered(ws') = Registered(ws) \cup {q}
  BY <1>5, <1>7, <1>10 DEF Registered
<1>12. /\ paneId' \in [Registered(ws) \cup {q} -> Id]
       /\ serial' \in 1 .. MaxSerial + 1 /\ gen' \in 1 .. MaxSerial + 1
  BY <1>1, CreateOK
<1> QED BY <1>1, <1>10, <1>11, <1>12 DEF PanesIInv

\* So does a close, of any pane but the last.
LEMMA CloseKeeps ==
  ASSUME PanesIInv, NEW p \in Registered(ws), Close(p)
  PROVE  PanesIInv'
<1> DEFINE t == CloseLeaf(ws.tree, p)
           list == Without(ws.panes, p)
<1>1. Workspace(ws, Pane) /\ ws.mode \in Modes /\ ws.mode = "classic" /\ Len(ws.panes) > 1 /\ Forget(p)
  BY DEF PanesIInv, Close
<1>2. ws' = [ws EXCEPT !.tree = t, !.panes = list]
  BY DEF Close
<1>3. /\ ClassicOver(ws, Pane) /\ ws.panes \in Seq(Pane) /\ Distinct(ws.panes)
      /\ Registered(ws) = ToSet(ws.panes) /\ Len(ws.panes) \in Nat
  BY <1>1, WorkspaceParts DEF Workspace, Registered
<1>4. /\ ws.tree \in [ToSet(ws.panes) -> Place({"overlay"})] /\ Whole(ws.tree)
      /\ DOMAIN ws.tree = ToSet(ws.panes)
  BY <1>3 DEF ClassicOver
<1>5. list \in Seq(Pane) /\ Len(list) = Len(ws.panes) - 1 /\ Distinct(list) /\ ToSet(list) = ToSet(ws.panes) \ {p}
  BY <1>3, WithoutOK
<1> HIDE DEF list
<1>6. list # <<>>
  BY <1>1, <1>3, <1>5
\* Another pane hangs somewhere else: p is not the whole tree.
<1>7. ws.tree[p].path # <<>>
  <2>1. PICK x \in ToSet(ws.panes) : x # p
    <3>1. 1 \in 1 .. Len(list)
      BY <1>5, <1>6, EmptySeq
    <3>2. list[1] \in ToSet(list)
      BY <1>5, <3>1, ToSetOK
    <3> QED BY <1>5, <3>2
  <2>2. ws.tree[p].root = "overlay" /\ ws.tree[x].root = "overlay"
        /\ ws.tree[p].path \in Path
    BY <1>3, <1>4, PlaceFields
  <2>3. x \in InRoot(ws.tree, ws.tree[p].root) \ {p}
    BY <1>4, <2>1, <2>2 DEF InRoot
  <2>4. PICK k \in Nat : Splits(ws.tree[p].path, ws.tree[x].path, k)
    BY <1>3, <1>4, <2>3 DEF Whole
  <2>5. k \in 1 .. Len(ws.tree[p].path)
    BY <2>4 DEF Splits
  <2> QED BY <2>5
<1>8. t \in [ToSet(list) -> Place({"overlay"})] /\ Whole(t)
  <2>1. t \in [ToSet(ws.panes) \ {p} -> Place({"overlay"})]
    BY <1>3, <1>4, <1>7, CloseLeafOK
  <2>2. Whole(t)
    BY <1>3, <1>4, <1>7, CloseLeafWhole
  <2> QED BY <1>5, <2>1, <2>2
<1> HIDE DEF t
<1>c. ws' = ClassicOf(ws.focusedCol, t, list)
  <2>1. ws = ClassicOf(ws.focusedCol, ws.tree, ws.panes)
    BY <1>3 DEF ClassicOver, ClassicOf
  <2> QED BY <1>2, <2>1, ClassicChanged
<1>9. Workspace(ws', Pane) /\ ws'.mode = "classic" /\ ws'.panes = list
  <2>1. Made(ws', Pane, "classic", list)
    BY <1>c, <1>5, <1>6, <1>8, ClassicMade
  <2> QED BY <2>1 DEF Made
<1>10. Registered(ws') = Registered(ws) \ {p}
  BY <1>3, <1>5, <1>9 DEF Registered
<1>11. /\ paneId' \in [Registered(ws) \ {p} -> Id]
       /\ serial' \in 1 .. MaxSerial + 1 /\ gen' \in 1 .. MaxSerial + 1
  BY <1>1, ForgetOK
<1> QED BY <1>1, <1>9, <1>10, <1>11 DEF PanesIInv

\* A strip that a step made, with its ids.
LEMMA StripKeeps ==
  ASSUME PanesIInv, ws.mode = "strip", NEW fc, NEW list \in Seq(Pane), Distinct(list), list # <<>>,
         NEW cols, Stacked(cols, Pane), fc \in DOMAIN cols, StackedPanes(cols) = ToSet(list),
         ws' = StripOf(fc, list, cols), paneId' \in [ToSet(list) -> Id],
         serial' \in 1 .. MaxSerial + 1, gen' \in 1 .. MaxSerial + 1
  PROVE  PanesIInv'
<1>1. Workspace(ws', Pane) /\ ws'.mode = "strip" /\ ws'.panes = list
  <2>1. Made(ws', Pane, "strip", list)
    BY StripMade
  <2> QED BY <2>1 DEF Made
<1>2. Registered(ws') = ToSet(list)
  BY <1>1 DEF Registered
<1> QED BY <1>1, <1>2 DEF PanesIInv

\* What is known of a strip.
LEMMA StripKnown ==
  ASSUME PanesIInv, ws.mode = "strip"
  PROVE  /\ ws = StripOf(ws.focusedCol, ws.panes, ws.columns)
         /\ Stacked(ws.columns, Pane) /\ ws.focusedCol \in DOMAIN ws.columns
         /\ StackedPanes(ws.columns) = ToSet(ws.panes)
         /\ DOMAIN ws.columns = 1 .. Len(ws.columns) /\ Len(ws.columns) \in Nat
         /\ ws.panes \in Seq(Pane) /\ Distinct(ws.panes) /\ ws.panes # <<>>
         /\ Registered(ws) = ToSet(ws.panes) /\ Len(ws.panes) \in Nat
         /\ \A p \in Registered(ws) : /\ ColumnOf(ws.columns, p) \in DOMAIN ws.columns
                                      /\ p \in ToSet(ws.columns[ColumnOf(ws.columns, p)].panes)
<1>1. Workspace(ws, Pane)
  BY DEF PanesIInv
<1>2. /\ StripOver(ws, Pane) /\ StackedPanes(ws.columns) = ToSet(ws.panes)
      /\ DOMAIN ws.columns = 1 .. Len(ws.columns) /\ Len(ws.columns) \in Nat
      /\ Len(ws.panes) \in Nat
  BY <1>1, WorkspaceParts
<1>3. \A p \in ToSet(ws.panes) : /\ ColumnOf(ws.columns, p) \in DOMAIN ws.columns
                                 /\ p \in ToSet(ws.columns[ColumnOf(ws.columns, p)].panes)
  BY <1>1, ColumnOfOK
<1>4. ws.panes \in Seq(Pane) /\ Distinct(ws.panes) /\ ws.panes # <<>>
  BY <1>1 DEF Workspace
<1>5. /\ ws = StripOf(ws.focusedCol, ws.panes, ws.columns)
      /\ Stacked(ws.columns, Pane) /\ ws.focusedCol \in DOMAIN ws.columns
  BY <1>2 DEF StripOver
<1>6. Registered(ws) = ToSet(ws.panes)
  BY DEF Registered
<1> QED BY <1>2, <1>3, <1>4, <1>5, <1>6

\* A split of a strip keeps every pane in one column.
LEMMA SplitStripKeeps ==
  ASSUME PanesIInv, NEW p \in Registered(ws), NEW stacked \in BOOLEAN, SplitStrip(p, stacked)
  PROVE  PanesIInv'
<1> DEFINE q == FreeSlot(Registered(ws))
           list == ws.panes
           cols == ws.columns
           fc == ws.focusedCol
           c == ColumnOf(cols, p)
           after == InsertAt(list, IndexOf(list, p) + 1, q)
           i == IndexOf(cols[c].panes, p) + 1
<1>1. ws.mode = "strip" /\ Create(q) /\ Len(list) < MaxPanes
  BY DEF SplitStrip, Create
<1>2. /\ ws' = IF stacked
               THEN [ws EXCEPT !.panes = after, !.focusedCol = c,
                               !.columns[c].panes = InsertAt(@, i, q),
                               !.columns[c].focused = i]
               ELSE [ws EXCEPT !.panes = after, !.focusedCol = c + 1,
                               !.columns = InsertAt(@, c + 1, NewColumn(q))]
  BY DEF SplitStrip
<1>3. q \in Pane /\ q \notin Registered(ws)
  BY <1>1, PaneCount DEF PanesIInv
<1>4. /\ ws = StripOf(fc, list, cols) /\ Stacked(cols, Pane) /\ fc \in DOMAIN cols
      /\ StackedPanes(cols) = ToSet(list)
      /\ DOMAIN cols = 1 .. Len(cols) /\ Len(cols) \in Nat
      /\ list \in Seq(Pane) /\ Distinct(list) /\ Registered(ws) = ToSet(list) /\ Len(list) \in Nat
      /\ c \in DOMAIN cols /\ p \in ToSet(cols[c].panes)
  BY <1>1, StripKnown
<1>5. /\ paneId' \in [Registered(ws) \cup {q} -> Id]
      /\ serial' \in 1 .. MaxSerial + 1 /\ gen' \in 1 .. MaxSerial + 1
  BY <1>1, CreateOK
<1> HIDE DEF q, c, list, cols, fc
<1>6. /\ after \in Seq(Pane) /\ Distinct(after) /\ ToSet(after) = ToSet(list) \cup {q}
  <2>1. IndexOf(list, p) \in 1 .. Len(list)
    BY <1>4, IndexOK
  <2>2. IndexOf(list, p) + 1 \in 1 .. Len(list) + 1
    BY <1>4, <2>1
  <2> QED BY <1>3, <1>4, <2>2, InsertAtOK, InsertDistinct
<1> HIDE DEF after
<1>7. after # <<>>
  <2>1. q \in ToSet(after)
    BY <1>6
  <2> QED BY <2>1 DEF ToSet
<1>8. CASE stacked
  <2> DEFINE x == cols[c]
             l == InsertAt(x.panes, i, q)
             col == [panes |-> l, focused |-> i, maximized |-> x.maximized, half |-> x.half]
             new == [cols EXCEPT ![c] = col]
  <2>1. /\ x \in ColumnOver(Pane)
        /\ x = [panes |-> x.panes, focused |-> x.focused, maximized |-> x.maximized, half |-> x.half]
        /\ x.panes \in Seq(Pane) /\ Distinct(x.panes)
        /\ x.maximized \in BOOLEAN /\ x.half \in BOOLEAN
    BY <1>4, StackedColumn
  <2>2. i \in 1 .. Len(x.panes) + 1 /\ Len(x.panes) \in Nat /\ i \in Nat
    <3>1. IndexOf(x.panes, p) \in 1 .. Len(x.panes)
      BY <1>4, <2>1, IndexOK
    <3> QED BY <2>1, <3>1
  <2>3. ToSet(x.panes) \subseteq ToSet(list)
    BY <1>4 DEF StackedPanes
  <2>4. q \notin ToSet(x.panes)
    BY <1>3, <1>4, <2>3
  <2> HIDE DEF i
  <2>x. x = cols[c]
    OBVIOUS
  <2> HIDE DEF x
  <2>5. /\ l \in Seq(Pane) /\ Len(l) = Len(x.panes) + 1 /\ Distinct(l) /\ ToSet(l) = ToSet(x.panes) \cup {q}
    BY <1>3, <2>1, <2>2, <2>4, InsertAtOK, InsertDistinct
  <2>l. l = InsertAt(x.panes, i, q)
    OBVIOUS
  <2> HIDE DEF l
  <2>6. col \in ColumnOver(Pane) /\ col.panes = l /\ col.focused = i
    BY <2>1, <2>2, <2>5 DEF ColumnOver
  <2>7. col.focused \in DOMAIN col.panes
    BY <2>2, <2>5, <2>6
  <2>8. ws'.columns = new
    <3>1. [[cols EXCEPT ![c].panes = l] EXCEPT ![c].focused = i] = new
      <4> DEFINE u == [[cols EXCEPT ![c].panes = l] EXCEPT ![c].focused = i]
      <4>1. cols = [d \in DOMAIN cols |-> cols[d]]
        BY <1>4 DEF Stacked
      <4>2. DOMAIN u = DOMAIN cols /\ u = [d \in DOMAIN cols |-> u[d]]
        OBVIOUS
      <4>3. \A d \in DOMAIN cols \ {c} : u[d] = cols[d] /\ new[d] = cols[d]
        BY <1>4
      <4>4. u[c] = col
        BY <1>4, <2>1, <2>x
      <4>5. new[c] = col /\ new = [d \in DOMAIN cols |-> new[d]]
        BY <1>4
      <4> HIDE DEF u, new
      <4>6. \A d \in DOMAIN cols : u[d] = new[d]
        BY <4>3, <4>4, <4>5
      <4>7. u = new
        BY <4>2, <4>5, <4>6
      <4> QED BY <4>7 DEF u
    <3>2. ws'.columns = [[cols EXCEPT ![c].panes = InsertAt(cols[c].panes, i, q)] EXCEPT ![c].focused = i]
      BY <1>2, <1>4, <1>8 DEF StripOf
    <3> HIDE DEF new
    <3> QED BY <2>l, <2>x, <3>1, <3>2
  <2>9. ws' = StripOf(c, after, new)
    <3>1. ws' = [k \in {"mode", "tree", "focusedCol", "panes", "columns"} |-> ws'[k]]
      BY <1>2, <1>4, <1>8 DEF StripOf
    <3>2. ws'.focusedCol = c /\ ws'.panes = after /\ ws'.mode = "strip" /\ ws'.tree = <<>>
      BY <1>2, <1>4, <1>8 DEF StripOf
    <3> HIDE DEF new
    <3> QED BY <2>8, <3>1, <3>2 DEF StripOf
  <2> HIDE DEF col
  <2>10. /\ Stacked(new, Pane) /\ DOMAIN new = DOMAIN cols
         /\ StackedPanes(new) = (StackedPanes(cols) \ ToSet(cols[c].panes)) \cup ToSet(col.panes)
    <3>1. ToSet(col.panes) \cap (StackedPanes(cols) \ ToSet(cols[c].panes)) = {}
      BY <1>3, <1>4, <2>5, <2>6, <2>x
    <3>2. Distinct(col.panes)
      BY <2>5, <2>6
    <3>3. new = ChangedAt(cols, c, col)
      BY DEF ChangedAt
    <3> HIDE DEF new
    <3>4. Rearranged(new, cols, c, col, Pane)
      BY <1>4, <2>6, <2>7, <3>1, <3>2, <3>3, ChangeColumn
    <3> QED BY <3>4 DEF Rearranged
  <2> HIDE DEF new
  <2>11. StackedPanes(new) = ToSet(after) /\ c \in DOMAIN new
    BY <1>4, <1>6, <2>3, <2>5, <2>6, <2>10, <2>x
  <2>12. paneId' \in [ToSet(after) -> Id]
    BY <1>4, <1>5, <1>6
  <2> QED BY <1>1, <1>5, <1>6, <1>7, <2>9, <2>10, <2>11, <2>12, StripKeeps
<1>9. CASE ~stacked
  <2> DEFINE new == InsertAt(cols, c + 1, NewColumn(q))
  <2>1. ws' = StripOf(c + 1, after, new)
    <3> HIDE DEF new
    <3>0. ws' = [ws EXCEPT !.panes = after, !.focusedCol = c + 1, !.columns = new]
      <4>1. ws.columns = cols
        BY DEF cols
      <4> QED BY <1>2, <1>9, <4>1 DEF new
    <3>1. ws' = [k \in {"mode", "tree", "focusedCol", "panes", "columns"} |-> ws'[k]]
      BY <3>0, <1>4 DEF StripOf
    <3>2. ws'.focusedCol = c + 1 /\ ws'.panes = after /\ ws'.columns = new
          /\ ws'.mode = "strip" /\ ws'.tree = <<>>
      BY <3>0, <1>4 DEF StripOf
    <3> QED BY <3>1, <3>2 DEF StripOf
  <2>2. c + 1 \in 1 .. Len(cols) + 1 /\ q \notin StackedPanes(cols)
    BY <1>3, <1>4
  <2>3. /\ Stacked(new, Pane) /\ c + 1 \in DOMAIN new /\ StackedPanes(new) = StackedPanes(cols) \cup {q}
    BY <1>3, <1>4, <2>2, InsertColumn
  <2> HIDE DEF new
  <2>4. StackedPanes(new) = ToSet(after)
    BY <1>4, <1>6, <2>3
  <2>5. paneId' \in [ToSet(after) -> Id]
    BY <1>4, <1>5, <1>6
  <2> QED BY <1>1, <1>5, <1>6, <1>7, <2>1, <2>3, <2>4, <2>5, StripKeeps
<1> QED BY <1>8, <1>9

\* What focuses a pane of what is left.
LEMMA FocusLeftOK ==
  ASSUME NEW i \in Nat, NEW n \in Nat, i >= 1, n >= 1
  PROVE  FocusLeft(i, n) \in 1 .. n
<1>1. {i, n} \in SUBSET Nat /\ {i, n} # {}
  OBVIOUS
<1>2. Min({i, n}) \in {i, n} /\ \A x \in {i, n} : Min({i, n}) <= x
  BY <1>1, MinOK
<1> QED BY <1>2 DEF FocusLeft

\* So does a close, also of the last pane of a column.
LEMMA CloseStripKeeps ==
  ASSUME PanesIInv, NEW p \in Registered(ws), CloseStrip(p)
  PROVE  PanesIInv'
<1> DEFINE list == ws.panes
           cols == ws.columns
           fc == ws.focusedCol
           c == ColumnOf(cols, p)
           x == cols[c]
           after == Without(list, p)
           l == Without(x.panes, p)
           f == FocusLeft(IndexOf(x.panes, p), Len(l))
           g == Min({c, Len(cols) - 1})
<1>1. ws.mode = "strip" /\ Len(list) > 1 /\ Forget(p)
  BY DEF CloseStrip
<1>2. /\ l # <<>> => ws' = [ws EXCEPT !.panes = after, !.focusedCol = c,
                                      !.columns[c] = [x EXCEPT !.panes = l, !.focused = f]]
      /\ l = <<>> => ws' = [ws EXCEPT !.panes = after, !.columns = RemoveAt(cols, c),
                                      !.focusedCol = g]
  BY DEF CloseStrip
<1>3. /\ ws = StripOf(fc, list, cols) /\ Stacked(cols, Pane) /\ fc \in DOMAIN cols
      /\ StackedPanes(cols) = ToSet(list)
      /\ DOMAIN cols = 1 .. Len(cols) /\ Len(cols) \in Nat
      /\ list \in Seq(Pane) /\ Distinct(list) /\ Registered(ws) = ToSet(list) /\ Len(list) \in Nat
      /\ c \in DOMAIN cols /\ p \in ToSet(x.panes)
  BY <1>1, StripKnown
<1>4. /\ paneId' \in [Registered(ws) \ {p} -> Id]
      /\ serial' \in 1 .. MaxSerial + 1 /\ gen' \in 1 .. MaxSerial + 1
  BY <1>1, ForgetOK
<1>c. ws.columns = cols
  OBVIOUS
<1> HIDE DEF list, cols, fc, c, g
<1>5. /\ after \in Seq(Pane) /\ Len(after) = Len(list) - 1 /\ Distinct(after)
      /\ ToSet(after) = ToSet(list) \ {p}
  BY <1>3, WithoutOK
<1> HIDE DEF after
<1>6. after # <<>> /\ ToSet(after) # {}
  <2>1. 1 \in 1 .. Len(after)
    BY <1>1, <1>3, <1>5
  <2>2. after[1] \in ToSet(after)
    BY <1>5, <2>1, ToSetOK
  <2>3. DOMAIN after = 1 .. Len(after)
    BY <1>5
  <2> QED BY <2>1, <2>2, <2>3
<1>7. /\ x = [panes |-> x.panes, focused |-> x.focused, maximized |-> x.maximized, half |-> x.half]
      /\ x.panes \in Seq(Pane) /\ Distinct(x.panes) /\ Len(x.panes) \in Nat
      /\ x.maximized \in BOOLEAN /\ x.half \in BOOLEAN
  BY <1>3, StackedColumn
<1>8. IndexOf(x.panes, p) \in 1 .. Len(x.panes)
  BY <1>3, <1>7, IndexOK
<1>x. x = cols[c]
  OBVIOUS
<1> HIDE DEF x
<1>9. l \in Seq(Pane) /\ Distinct(l) /\ ToSet(l) = ToSet(x.panes) \ {p} /\ Len(l) \in Nat
  BY <1>3, <1>7, WithoutOK
<1> HIDE DEF l
<1>10. ToSet(x.panes) \subseteq ToSet(list)
  BY <1>3, <1>x DEF StackedPanes
<1>11. paneId' \in [ToSet(after) -> Id]
  BY <1>3, <1>4, <1>5
<1>12. CASE l # <<>>
  <2> DEFINE col == [panes |-> l, focused |-> f, maximized |-> x.maximized, half |-> x.half]
             new == ChangedAt(cols, c, col)
  <2>1. Len(l) >= 1
    BY <1>9, <1>12, EmptySeq
  <2>2. f \in 1 .. Len(l)
    BY <1>7, <1>8, <1>9, <2>1, FocusLeftOK
  <2>3. [x EXCEPT !.panes = l, !.focused = f] = col
    <3> DEFINE u == [x EXCEPT !.panes = l, !.focused = f]
    <3>1. u = [k \in {"panes", "focused", "maximized", "half"} |-> u[k]]
      BY <1>7
    <3>2. u.panes = l /\ u.focused = f /\ u.maximized = x.maximized /\ u.half = x.half
      BY <1>7
    <3> HIDE DEF u, f
    <3>3. u = col
      BY <3>1, <3>2
    <3> QED BY <3>3 DEF u
  <2> HIDE DEF f
  <2>4. f \in Nat /\ DOMAIN l = 1 .. Len(l)
    BY <1>9, <2>2
  <2>5. col \in ColumnOver(Pane) /\ col.panes = l /\ col.focused \in DOMAIN col.panes
    BY <1>7, <1>9, <2>2, <2>4 DEF ColumnOver
  <2>6. ws' = [ws EXCEPT !.panes = after, !.focusedCol = c, !.columns[c] = col]
    BY <1>2, <1>12, <2>3
  <2> HIDE DEF col
  <2>7. ws' = StripOf(c, after, new)
    <3>1. ws' = [k \in {"mode", "tree", "focusedCol", "panes", "columns"} |-> ws'[k]]
      BY <2>6, <1>3 DEF StripOf
    <3>2. ws'.focusedCol = c /\ ws'.panes = after /\ ws'.mode = "strip" /\ ws'.tree = <<>>
      BY <2>6, <1>3 DEF StripOf
    <3>3. ws'.columns = [cols EXCEPT ![c] = col]
      BY <2>6, <1>3, <1>c DEF StripOf
    <3>4. ws'.columns = new
      BY <3>3 DEF ChangedAt
    <3> HIDE DEF new
    <3> QED BY <3>1, <3>2, <3>4 DEF StripOf
  <2>n. new = ChangedAt(cols, c, col)
    OBVIOUS
  <2> HIDE DEF new
  <2>8. /\ Stacked(new, Pane) /\ DOMAIN new = DOMAIN cols
        /\ StackedPanes(new) = (StackedPanes(cols) \ ToSet(x.panes)) \cup ToSet(l)
    <3>1. ToSet(col.panes) \cap (StackedPanes(cols) \ ToSet(cols[c].panes)) = {}
      BY <1>9, <1>x, <2>5
    <3>2. Distinct(col.panes)
      BY <1>9, <2>5
    <3>3. Rearranged(new, cols, c, col, Pane)
      BY <1>3, <2>5, <2>n, <3>1, <3>2, ChangeColumn
    <3> QED BY <1>x, <2>5, <3>3 DEF Rearranged
  <2>9. StackedPanes(new) = ToSet(after) /\ c \in DOMAIN new
    BY <1>3, <1>5, <1>9, <1>10, <2>8
  <2> QED BY <1>1, <1>4, <1>5, <1>6, <1>11, <2>7, <2>8, <2>9, StripKeeps
\* The column goes with its last pane.
<1>13. CASE l = <<>>
  <2> DEFINE new == RemoveAt(cols, c)
  <2>1. ws' = [ws EXCEPT !.panes = after, !.columns = new, !.focusedCol = g]
    BY <1>2, <1>13
  <2>2. /\ Stacked(new, Pane) /\ Len(new) = Len(cols) - 1
        /\ StackedPanes(new) = StackedPanes(cols) \ ToSet(x.panes)
    BY <1>3, <1>x, RemoveColumn
  <2> HIDE DEF new
  <2>3. ws' = StripOf(g, after, new)
    <3>1. ws' = [k \in {"mode", "tree", "focusedCol", "panes", "columns"} |-> ws'[k]]
      BY <2>1, <1>3 DEF StripOf
    <3>2. ws'.focusedCol = g /\ ws'.panes = after /\ ws'.mode = "strip" /\ ws'.tree = <<>> /\ ws'.columns = new
      BY <2>1, <1>3 DEF StripOf
    <3> QED BY <3>1, <3>2 DEF StripOf
  <2>4. ToSet(x.panes) = {p}
    <3>1. ToSet(l) = {}
      BY <1>13 DEF ToSet
    <3> QED BY <1>3, <1>9, <3>1
  <2>5. StackedPanes(new) = ToSet(after)
    BY <1>3, <1>5, <2>2, <2>4
  <2>6. new \in Seq(ColumnOver(Pane)) /\ new # <<>>
    <3>1. PICK d \in DOMAIN new : TRUE
      BY <1>6, <2>5 DEF StackedPanes
    <3> QED BY <2>2, <3>1 DEF Stacked
  <2>7. DOMAIN new = 1 .. Len(new) /\ Len(new) \in Nat /\ Len(new) >= 1
    BY <2>6, EmptySeq
  <2>8. g \in 1 .. Len(new)
    <3>1. {c, Len(cols) - 1} \in SUBSET Nat /\ c >= 1
      BY <1>3, <2>2, <2>7
    <3>2. g \in {c, Len(cols) - 1} /\ g <= Len(cols) - 1
      BY <3>1, MinOK DEF g
    <3> QED BY <1>3, <2>2, <2>7, <3>1, <3>2
  <2> QED BY <1>1, <1>4, <1>5, <1>6, <1>11, <2>2, <2>3, <2>5, <2>7, <2>8, StripKeeps
<1> QED BY <1>12, <1>13

\* A strip whose panes stay where they are.
LEMMA StripRefocused ==
  ASSUME PanesIInv, ws.mode = "strip", StripOver(ws', Pane), Refocused(ws, ws'),
         UNCHANGED <<paneId, serial, gen>>
  PROVE  PanesIInv'
<1>1. /\ StackedPanes(ws.columns) = ToSet(ws.panes)
      /\ ws.panes \in Seq(Pane) /\ Distinct(ws.panes) /\ ws.panes # <<>>
      /\ Registered(ws) = ToSet(ws.panes)
  BY StripKnown
<1>2. ws'.panes = ws.panes /\ StackedPanes(ws'.columns) = StackedPanes(ws.columns)
  BY DEF Refocused
<1>3. ws' = StripOf(ws'.focusedCol, ws'.panes, ws'.columns)
  BY DEF StripOver
<1>4. ws'.mode = "strip"
  BY <1>3, StripFields
<1>5. Workspace(ws', Pane)
  BY <1>1, <1>2 DEF Workspace
<1>6. Registered(ws') = Registered(ws)
  BY <1>2 DEF Registered
<1> QED BY <1>4, <1>5, <1>6 DEF PanesIInv

\* Focusing a pane moves none.
LEMMA FocusKeeps ==
  ASSUME PanesIInv, NEW p \in Registered(ws), Focus(p)
  PROVE  PanesIInv'
<1> DEFINE c == ColumnOf(ws.columns, p)
           f == IndexOf(ws.columns[c].panes, p)
<1>1. ws.mode = "strip" /\ UNCHANGED <<paneId, serial, gen>>
  BY DEF Focus
<1>2. ws' = [ws EXCEPT !.focusedCol = c, !.columns[c].focused = f]
  BY DEF Focus
<1>3. /\ ws = StripOf(ws.focusedCol, ws.panes, ws.columns)
      /\ Stacked(ws.columns, Pane) /\ ws.focusedCol \in DOMAIN ws.columns
      /\ StackedPanes(ws.columns) = ToSet(ws.panes)
      /\ ws.panes \in Seq(Pane) /\ Distinct(ws.panes) /\ ws.panes # <<>>
      /\ Registered(ws) = ToSet(ws.panes)
      /\ c \in DOMAIN ws.columns /\ p \in ToSet(ws.columns[c].panes)
  BY <1>1, StripKnown
<1>4. f \in 1 .. Len(ws.columns[c].panes)
  <2>1. ws.columns[c].panes \in Seq(Pane)
    BY <1>3, StackedColumn
  <2> QED BY <1>3, <2>1, IndexOK
<1> HIDE DEF c, f
<1>5. ws' = StripOf(c, ws.panes, FocusedAt(ws.columns, c, f))
  <2> DEFINE list == ws.panes
             fc == ws.focusedCol
             cols == ws.columns
             new == [cols EXCEPT ![c].focused = f]
  <2>1. ws = StripOf(fc, list, cols)
    BY <1>3
  <2>c. ws.columns = cols
    OBVIOUS
  <2>p. ws.panes = list
    OBVIOUS
  <2> HIDE DEF list, fc, cols
  <2>2. ws' = [k \in {"mode", "tree", "focusedCol", "panes", "columns"} |-> ws'[k]]
    BY <1>2, <2>1 DEF StripOf
  <2>3. ws'.focusedCol = c /\ ws'.panes = list /\ ws'.mode = "strip" /\ ws'.tree = <<>>
    BY <1>2, <2>1 DEF StripOf
  <2>4. ws'.columns = new
    BY <1>2, <2>1 DEF StripOf
  <2>5. new = FocusedAt(cols, c, f)
    BY DEF FocusedAt
  <2> HIDE DEF new
  <2>6. ws' = StripOf(c, list, FocusedAt(cols, c, f))
    BY <2>2, <2>3, <2>4, <2>5 DEF StripOf
  <2> QED BY <2>6, <2>c, <2>p
<1>6. StripOver(ws, Pane)
  BY <1>3 DEF StripOver
<1>7. StripOver(ws', Pane) /\ Refocused(ws, ws')
  BY <1>3, <1>4, <1>5, <1>6, FocusColumn
<1> QED BY <1>1, <1>3, <1>7, StripRefocused

\* Nor does maximizing a column.
LEMMA MaximizeKeeps ==
  ASSUME PanesIInv, Maximize
  PROVE  PanesIInv'
<1> DEFINE list == ws.panes
           cols == ws.columns
           fc == ws.focusedCol
           x == cols[fc]
           big == ~x.maximized
           col == [panes |-> x.panes, focused |-> x.focused, maximized |-> big, half |-> FALSE]
           new == ChangedAt(cols, fc, col)
<1>1. ws.mode = "strip" /\ UNCHANGED <<paneId, serial, gen>>
  BY DEF Maximize
<1>2. ws' = [ws EXCEPT !.columns[fc].maximized = big, !.columns[fc].half = FALSE]
  BY DEF Maximize
<1>3. /\ ws = StripOf(fc, list, cols) /\ Stacked(cols, Pane) /\ fc \in DOMAIN cols
      /\ StackedPanes(cols) = ToSet(list)
      /\ list \in Seq(Pane) /\ Distinct(list) /\ list # <<>> /\ Registered(ws) = ToSet(list)
  BY <1>1, StripKnown
<1> HIDE DEF list, cols, fc
<1>4. /\ x = [panes |-> x.panes, focused |-> x.focused, maximized |-> x.maximized, half |-> x.half]
      /\ x.panes \in Seq(Pane) /\ Distinct(x.panes)
      /\ x.focused \in 1 .. Len(x.panes)
  BY <1>3, StackedColumn
<1>x. x = cols[fc]
  OBVIOUS
<1> HIDE DEF x
<1>5. big \in BOOLEAN
  OBVIOUS
<1> HIDE DEF big
<1>6. col \in ColumnOver(Pane) /\ col.panes = x.panes /\ col.focused \in DOMAIN col.panes
  BY <1>4, <1>5 DEF ColumnOver
<1>7. [[cols EXCEPT ![fc].maximized = big] EXCEPT ![fc].half = FALSE] = new
  <2> DEFINE u == [[cols EXCEPT ![fc].maximized = big] EXCEPT ![fc].half = FALSE]
  <2>1. cols = [d \in DOMAIN cols |-> cols[d]]
    BY <1>3 DEF Stacked
  <2>2. DOMAIN u = DOMAIN cols /\ u = [d \in DOMAIN cols |-> u[d]]
    OBVIOUS
  <2>3. \A d \in DOMAIN cols \ {fc} : u[d] = cols[d] /\ new[d] = cols[d]
    BY <1>3 DEF ChangedAt
  <2>4. u[fc] = col
    BY <1>3, <1>4, <1>x
  <2>5. new[fc] = col /\ DOMAIN new = DOMAIN cols /\ new = [d \in DOMAIN cols |-> new[d]]
    BY <1>3 DEF ChangedAt
  <2> HIDE DEF u, new
  <2>6. \A d \in DOMAIN cols : u[d] = new[d]
    BY <2>3, <2>4, <2>5
  <2>7. u = new
    BY <2>2, <2>5, <2>6
  <2> QED BY <2>7 DEF u
<1>8. ws' = StripOf(fc, list, new)
  <2>1. ws' = [k \in {"mode", "tree", "focusedCol", "panes", "columns"} |-> ws'[k]]
    BY <1>2, <1>3 DEF StripOf
  <2>2. ws'.focusedCol = fc /\ ws'.panes = list /\ ws'.mode = "strip" /\ ws'.tree = <<>>
    BY <1>2, <1>3 DEF StripOf
  <2>3. ws'.columns = [[cols EXCEPT ![fc].maximized = big] EXCEPT ![fc].half = FALSE]
    BY <1>2, <1>3 DEF StripOf
  <2> HIDE DEF new
  <2> QED BY <1>7, <2>1, <2>2, <2>3 DEF StripOf
<1>n. new = ChangedAt(cols, fc, col)
  OBVIOUS
<1> HIDE DEF new, col
<1>9. /\ Stacked(new, Pane) /\ DOMAIN new = DOMAIN cols
      /\ StackedPanes(new) = (StackedPanes(cols) \ ToSet(x.panes)) \cup ToSet(x.panes)
  <2>1. ToSet(col.panes) \cap (StackedPanes(cols) \ ToSet(cols[fc].panes)) = {}
    BY <1>6, <1>x
  <2>2. Distinct(col.panes)
    BY <1>4, <1>6
  <2>3. Rearranged(new, cols, fc, col, Pane)
    BY <1>3, <1>6, <1>n, <2>1, <2>2, ChangeColumn
  <2> QED BY <1>6, <1>x, <2>3 DEF Rearranged
<1>10. ToSet(x.panes) \subseteq StackedPanes(cols)
  BY <1>3, <1>x DEF StackedPanes
<1>11. StackedPanes(new) = ToSet(list) /\ fc \in DOMAIN new
  BY <1>3, <1>9, <1>10
<1>12. /\ paneId' \in [ToSet(list) -> Id]
       /\ serial' \in 1 .. MaxSerial + 1 /\ gen' \in 1 .. MaxSerial + 1
  BY <1>1, <1>3 DEF PanesIInv
<1> QED BY <1>1, <1>3, <1>8, <1>9, <1>11, <1>12, StripKeeps

\* The ids a save or an export writes.
LEMMA SavedIdsOK ==
  ASSUME PanesIInv, NEW n \in Nat, n >= 1, NEW kind \in {"pane", "restored"},
         NEW x, x = Normalized(ws.panes, paneId, n, kind)
  PROVE  /\ x.n \in Nat /\ n <= x.n
         /\ x.id \in [ToSet(ws.panes) -> Id \cup ({kind} \X (n .. x.n - 1))]
         /\ x.n <= MaxSerial + 1 => x.id \in [ToSet(ws.panes) -> Id]
         /\ IsInjective(paneId) => x.id = paneId
<1>1. ws.panes \in Seq(Pane) /\ Distinct(ws.panes) /\ paneId \in [ToSet(ws.panes) -> Id]
  BY DEF PanesIInv, Workspace, Registered
<1>2. /\ x.n \in Nat /\ n <= x.n
      /\ x.id \in [ToSet(ws.panes) -> Id \cup ({kind} \X (n .. x.n - 1))]
      /\ IsInjective(paneId) => x.id = paneId
  <2>1. Normalizes(x, ToSet(ws.panes), paneId, Id, n, kind)
    BY <1>1, NormalizedOK
  <2> QED BY <2>1 DEF Normalizes
<1>3. x.n <= MaxSerial + 1 => Id \cup ({kind} \X (n .. x.n - 1)) = Id
  BY <1>2, IdsMade
<1> QED BY <1>2, <1>3

\* A save gives every pane an id.
LEMMA SavePanesKeeps ==
  ASSUME PanesIInv, SavePanes
  PROVE  PanesIInv'
<1> DEFINE x == Normalized(ws.panes, paneId, gen, "restored")
<1>1. x.n <= MaxSerial + 1 /\ paneId' = x.id /\ gen' = x.n /\ UNCHANGED <<ws, serial>>
  BY DEF SavePanes, SavedIds
<1>2. MaxSerial \in Nat /\ gen \in Nat /\ gen >= 1
  BY SerialAssumption DEF PanesIInv
<1>3. x.n \in Nat /\ gen <= x.n /\ x.id \in [ToSet(ws.panes) -> Id]
  <2> DEFINE r == "restored"
  <2>1. /\ x.n \in Nat /\ gen <= x.n
        /\ x.n <= MaxSerial + 1 => x.id \in [ToSet(ws.panes) -> Id]
    BY <1>2, SavedIdsOK
  <2> QED BY <1>1, <2>1
<1> HIDE DEF x
<1>4. gen' \in 1 .. MaxSerial + 1
  BY <1>1, <1>2, <1>3
<1> QED BY <1>1, <1>3, <1>4 DEF PanesIInv, Registered

\* x is what becomes of w, whose panes were saved with ids.
Returns(x, w, ids, I, n, kind) ==
    LET m == Len(w.panes)
    IN  /\ Workspace(x.ws, 1 .. m) /\ x.ws.mode = w.mode /\ Layout(x.ws) = Layout(w)
        /\ ToSet(x.ws.panes) = 1 .. m /\ Len(x.ws.panes) = m
        /\ x.body = w.panes
        /\ x.n \in Nat /\ n <= x.n /\ x.id \in [1 .. m -> I \cup ({kind} \X (n .. x.n - 1))]
        /\ (\A j, k \in 1 .. m : ids[w.panes[j]] = ids[w.panes[k]] => j = k)
              => \A k \in 1 .. m : x.id[k] = ids[w.panes[k]]

\* What is built from a description of w is w again.
LEMMA RestoredReturns ==
  ASSUME NEW S, NEW w, Workspace(w, S), NEW I, NEW ids, NEW f, Describes(f, w, ids, I),
         \A p \in ToSet(w.panes) : ids[p] \in I,
         NEW n \in Nat, NEW kind, NEW x, x = Restored(f, n, kind)
  PROVE  Returns(x, w, ids, I, n, kind)
BY RestoredOK DEF Returns

\* The ids of a run, and those that a save adds to them.
SavedIn == Id \cup ({"restored"} \X (gen .. SavedIds.n - 1))
ExportedIn == Id \cup ({"pane"} \X (serial .. ExportedIds.n - 1))

\* What a restart builds is ws again, with the ids of the save.
LEMMA RestartReturns ==
  ASSUME PanesIInv
  PROVE  /\ Returns(AfterRestart, ws, SavedIds.id, SavedIn, 1, "restored")
         /\ SavedIds.n <= MaxSerial + 1 => Returns(AfterRestart, ws, SavedIds.id, Id, 1, "restored")
<1> DEFINE a == Normalized(ws.panes, paneId, gen, "restored")
           I == Id \cup ({"restored"} \X (gen .. a.n - 1))
           f == SaveSession(ws, a.id)
           x == Restored(f, 1, "restored")
<1>1. MaxSerial \in Nat /\ gen \in Nat /\ gen >= 1 /\ Workspace(ws, Pane)
  BY SerialAssumption DEF PanesIInv
<1>2. /\ a.id \in [ToSet(ws.panes) -> I]
      /\ a.n <= MaxSerial + 1 => a.id \in [ToSet(ws.panes) -> Id]
  BY <1>1, SavedIdsOK
<1>3. ASSUME NEW J, a.id \in [ToSet(ws.panes) -> J]
      PROVE  Returns(x, ws, a.id, J, 1, "restored")
  <2> HIDE DEF a
  <2>1. Describes(f, ws, a.id, J)
    BY <1>1, <1>3, SaveSessionOK
  <2> HIDE DEF f
  <2>2. \A p \in ToSet(ws.panes) : a.id[p] \in J
    BY <1>3
  <2>3. x = Restored(f, 1, "restored") /\ 1 \in Nat
    OBVIOUS
  <2> HIDE DEF x
  <2> QED BY <1>1, <2>1, <2>2, <2>3, RestoredReturns
<1>4. x = AfterRestart /\ a = SavedIds /\ I = SavedIn
  BY DEF AfterRestart, SavedIds, SavedIn
<1> HIDE DEF x, a, I
<1>5. Returns(x, ws, a.id, I, 1, "restored") /\ (a.n <= MaxSerial + 1 => Returns(x, ws, a.id, Id, 1, "restored"))
  BY <1>2, <1>3
<1> QED BY <1>4, <1>5

\* So is what a move builds.
LEMMA MoveReturns ==
  ASSUME PanesIInv
  PROVE  /\ Returns(AfterMove, ws, ExportedIds.id, ExportedIn, 2 + Len(ws.panes), "pane")
         /\ ExportedIds.n <= MaxSerial + 1 =>
               Returns(AfterMove, ws, ExportedIds.id, Id, 2 + Len(ws.panes), "pane")
<1> DEFINE a == Normalized(ws.panes, paneId, serial, "pane")
           I == Id \cup ({"pane"} \X (serial .. a.n - 1))
           f == Export(ws, a.id)
           n == 2 + Len(ws.panes)
           x == Restored(f, n, "pane")
<1>1. MaxSerial \in Nat /\ serial \in Nat /\ serial >= 1 /\ Workspace(ws, Pane)
  BY SerialAssumption DEF PanesIInv
<1>2. /\ a.id \in [ToSet(ws.panes) -> I]
      /\ a.n <= MaxSerial + 1 => a.id \in [ToSet(ws.panes) -> Id]
  BY <1>1, SavedIdsOK
<1>n. n \in Nat
  BY <1>1, WorkspaceParts
<1>3. ASSUME NEW J, a.id \in [ToSet(ws.panes) -> J]
      PROVE  Returns(x, ws, a.id, J, n, "pane")
  <2> HIDE DEF a
  <2>1. Describes(f, ws, a.id, J)
    BY <1>1, <1>3, ExportOK
  <2> HIDE DEF f
  <2>2. \A p \in ToSet(ws.panes) : a.id[p] \in J
    BY <1>3
  <2>3. x = Restored(f, n, "pane")
    OBVIOUS
  <2> HIDE DEF x, n
  <2> QED BY <1>1, <1>n, <2>1, <2>2, <2>3, RestoredReturns
<1>4. x = AfterMove /\ a = ExportedIds /\ I = ExportedIn
  BY DEF AfterMove, ExportedIds, ExportedIn
<1> HIDE DEF x, a, I, n
<1>5. Returns(x, ws, a.id, I, n, "pane") /\ (a.n <= MaxSerial + 1 => Returns(x, ws, a.id, Id, n, "pane"))
  BY <1>2, <1>3
<1>6. n = 2 + Len(ws.panes)
  BY DEF n
<1> QED BY <1>4, <1>5, <1>6

\* What comes back is a workspace like the one that went, with ids.
LEMMA BecomesKeeps ==
  ASSUME PanesIInv, NEW x, NEW ids, NEW n \in Nat, n >= 1, NEW kind \in {"pane", "restored"},
         Returns(x, ws, ids, Id, n, kind), x.n <= MaxSerial + 1, Becomes(x),
         serial' \in 1 .. MaxSerial + 1, gen' \in 1 .. MaxSerial + 1
  PROVE  PanesIInv'
<1> DEFINE m == Len(ws.panes)
<1>1. Workspace(ws, Pane) /\ ws.mode \in Modes
  BY DEF PanesIInv
<1>2. m \in 1 .. MaxPanes /\ MaxPanes \in Nat
  BY <1>1, PaneCount, PanesAssumption
<1>3. /\ Workspace(x.ws, 1 .. m) /\ x.ws.mode = ws.mode /\ ToSet(x.ws.panes) = 1 .. m
      /\ x.n \in Nat /\ x.id \in [1 .. m -> Id \cup ({kind} \X (n .. x.n - 1))]
  BY DEF Returns
<1> HIDE DEF m
<1>4. 1 .. m \in SUBSET Pane
  BY <1>2 DEF Pane
<1>5. Workspace(x.ws, Pane)
  BY <1>3, <1>4, WorkspaceIn
<1>6. x.id \in [1 .. m -> Id]
  <2>1. Id \cup ({kind} \X (n .. x.n - 1)) = Id
    BY <1>3, IdsMade
  <2> QED BY <1>3, <2>1
<1>7. ws' = x.ws /\ paneId' = x.id
  BY DEF Becomes
<1>8. Registered(ws') = 1 .. m
  BY <1>3, <1>7 DEF Registered
<1> QED BY <1>1, <1>3, <1>5, <1>6, <1>7, <1>8 DEF PanesIInv

\* A restart leads to a workspace with ids.
LEMMA RestartKeeps ==
  ASSUME PanesIInv, Restart
  PROVE  PanesIInv'
<1> DEFINE x == AfterRestart
           ids == SavedIds.id
           m == Len(ws.panes)
<1>1. SavedIds.n <= MaxSerial + 1 /\ x.n <= MaxSerial + 1 /\ Becomes(x) /\ gen' = x.n /\ serial' = m + 1
  BY DEF Restart
<1>2. Returns(x, ws, ids, Id, 1, "restored")
  BY <1>1, RestartReturns
<1> HIDE DEF x, ids
<1>3. x.n \in Nat /\ 1 <= x.n
  BY <1>2 DEF Returns
<1>4. m \in 1 .. MaxPanes
  BY PaneCount DEF PanesIInv
<1> HIDE DEF m
<1>5. serial' \in 1 .. MaxSerial + 1 /\ gen' \in 1 .. MaxSerial + 1
  BY <1>1, <1>3, <1>4, PanesAssumption, SerialAssumption
<1>6. 1 \in Nat /\ 1 >= 1
  OBVIOUS
<1> QED BY <1>1, <1>2, <1>5, <1>6, BecomesKeeps

\* So does a move.
LEMMA MoveOutKeeps ==
  ASSUME PanesIInv, MoveOut
  PROVE  PanesIInv'
<1> DEFINE x == AfterMove
           ids == ExportedIds.id
           m == Len(ws.panes)
           n == 2 + m
<1>1. ExportedIds.n <= MaxSerial + 1 /\ x.n <= MaxSerial + 1 /\ Becomes(x) /\ serial' = x.n /\ gen' = 1
  BY DEF MoveOut
<1>2. Returns(x, ws, ids, Id, n, "pane")
  BY <1>1, MoveReturns
<1> HIDE DEF x, ids
<1>4. m \in 1 .. MaxPanes
  BY PaneCount DEF PanesIInv
<1> HIDE DEF m
<1>5. n \in Nat /\ n >= 1
  BY <1>4, PanesAssumption
<1> HIDE DEF n
<1>3. x.n \in Nat /\ n <= x.n
  BY <1>2 DEF Returns
<1>6. serial' \in 1 .. MaxSerial + 1 /\ gen' \in 1 .. MaxSerial + 1
  BY <1>1, <1>3, <1>5, SerialAssumption
<1> QED BY <1>1, <1>2, <1>5, <1>6, BecomesKeeps

\* The workspace that is added first.
LEMMA PanesInitOK ==
  ASSUME PanesInit
  PROVE  PanesIInv
<1>1. PICK m \in Modes :
        ws = [mode |-> m, panes |-> <<1>>, focusedCol |-> IF m = "strip" THEN 1 ELSE 0,
              tree |-> IF m = "classic" THEN [p \in {1} |-> At("overlay", <<>>)] ELSE <<>>,
              columns |-> IF m = "strip" THEN <<NewColumn(1)>> ELSE <<>>]
  BY DEF PanesInit
<1>2. MaxPanes \in Nat /\ MaxPanes >= 1 /\ MaxSerial \in Nat /\ MaxSerial >= MaxPanes /\ 1 \in Pane
  BY PanesAssumption, SerialAssumption DEF Pane
<1>3. m \in {"classic", "strip"}
  BY ModesAssumption
<1>4. <<1>> \in Seq(Pane) /\ Distinct(<<1>>) /\ <<1>> # <<>> /\ ToSet(<<1>>) = {1} /\ DOMAIN <<1>> = {1}
  BY <1>2 DEF Distinct, ToSet
<1>5. ws.mode = m /\ ws.panes = <<1>>
  BY <1>1
<1>6. Workspace(ws, Pane)
  <2>1. CASE m = "classic"
    <3> DEFINE t == [p \in {1} |-> At("overlay", <<>>)]
    <3>1. ws = ClassicOf(0, t, <<1>>)
      <4> HIDE DEF t
      <4>1. ws = [mode |-> "classic", panes |-> <<1>>, focusedCol |-> 0, tree |-> t, columns |-> <<>>]
        BY <1>1, <2>1 DEF t
      <4> QED BY <4>1 DEF ClassicOf
    <3>2. t \in [ToSet(<<1>>) -> Place({"overlay"})]
      <4>1. At("overlay", <<>>) \in Place({"overlay"})
        BY DEF At, Place, Path
      <4> QED BY <1>4, <4>1
    <3>3. Whole(t)
      <4>1. \A r : \A p \in InRoot(t, r) : InRoot(t, r) \ {p} = {}
        BY DEF InRoot
      <4> QED BY DEF Whole, InRoot, At
    <3> HIDE DEF t
    <3>4. Made(ws, Pane, "classic", <<1>>)
      BY <1>4, <3>1, <3>2, <3>3, ClassicMade
    <3> QED BY <3>4 DEF Made
  <2>2. CASE m = "strip"
    <3> DEFINE cols == <<NewColumn(1)>>
    <3>1. ws = StripOf(1, <<1>>, cols)
      <4> HIDE DEF cols
      <4>1. ws = [mode |-> "strip", panes |-> <<1>>, focusedCol |-> 1, tree |-> <<>>, columns |-> cols]
        BY <1>1, <2>2 DEF cols
      <4> QED BY <4>1 DEF StripOf
    <3>2. /\ cols \in Seq(ColumnOver(Pane)) /\ DOMAIN cols = {1} /\ cols[1] = NewColumn(1)
      <4>1. NewColumn(1) \in ColumnOver(Pane)
        BY <1>4 DEF NewColumn, ColumnOver
      <4> QED BY <4>1
    <3>3. NewColumn(1).panes = <<1>> /\ NewColumn(1).focused = 1
      BY DEF NewColumn
    <3> HIDE DEF cols
    <3>4. Stacked(cols, Pane)
      BY <1>4, <3>2, <3>3 DEF Stacked
    <3>5. StackedPanes(cols) = ToSet(<<1>>)
      BY <3>2, <3>3 DEF StackedPanes
    <3>6. Made(ws, Pane, "strip", <<1>>)
      BY <1>4, <3>1, <3>2, <3>4, <3>5, StripMade
    <3> QED BY <3>6 DEF Made
  <2> QED BY <1>3, <2>1, <2>2
<1>7. paneId \in [Registered(ws) -> Id] /\ serial = 2 /\ gen = 1
  <2>1. Registered(ws) = {1}
    BY <1>4, <1>5 DEF Registered
  <2>2. <<"pane", 1>> \in Id
    BY <1>2 DEF Id
  <2> QED BY <2>1, <2>2 DEF PanesInit
<1> QED BY <1>2, <1>5, <1>6, <1>7 DEF PanesIInv

\* Every step keeps PanesIInv.
LEMMA PanesNextOK ==
  ASSUME PanesIInv, [PanesNext]_panesVars
  PROVE  PanesIInv'
<1>1. CASE UNCHANGED panesVars
  BY <1>1 DEF PanesIInv, panesVars, Registered
<1>2. ASSUME NEW p \in Registered(ws), Split(p) PROVE PanesIInv'
  BY <1>2, SplitKeeps
<1>3. ASSUME NEW p \in Registered(ws), Close(p) PROVE PanesIInv'
  BY <1>3, CloseKeeps
<1>4. ASSUME NEW p \in Registered(ws), CloseStrip(p) PROVE PanesIInv'
  BY <1>4, CloseStripKeeps
<1>5. ASSUME NEW p \in Registered(ws), Focus(p) PROVE PanesIInv'
  BY <1>5, FocusKeeps
<1>6. ASSUME NEW p \in Registered(ws), NEW stacked \in BOOLEAN, SplitStrip(p, stacked) PROVE PanesIInv'
  BY <1>6, SplitStripKeeps
<1> QED BY <1>1, <1>2, <1>3, <1>4, <1>5, <1>6,
           MaximizeKeeps, SavePanesKeeps, RestartKeeps, MoveOutKeeps DEF PanesNext

\* PanesIInv always holds.
LEMMA PanesInvariant == PanesSpec => []PanesIInv
<1>1. PanesInit => PanesIInv
  BY PanesInitOK
<1>2. PanesIInv /\ [PanesNext]_panesVars => PanesIInv'
  BY PanesNextOK
<1> QED BY <1>1, <1>2, PTL DEF PanesSpec

\* A workspace is always arranged in one of the two ways: every registered pane
\* at one place of the tree, or in one column with a focused pane, whatever was
\* split, closed, saved, restored and moved.
THEOREM PanesTypeCorrect == PanesSpec => []PanesTypeOK
<1>1. PanesIInv => PanesTypeOK
  BY WorkspaceArranged DEF PanesIInv, PanesTypeOK
<1> QED BY <1>1, PanesInvariant, PTL

\* What comes back has all the panes and the splits of ws.
LEMMA BackOK ==
  ASSUME PanesIInv, NEW x, NEW ids, NEW I, NEW n, NEW kind, Returns(x, ws, ids, I, n, kind)
  PROVE  /\ x.ws.mode = ws.mode
         /\ ToSet(x.body) = Registered(ws) /\ Layout(x.ws) = Layout(ws)
         /\ IsInjective(x.ws.panes) /\ Len(x.ws.panes) = Len(ws.panes)
         /\ ws.mode = "strip" => Listed(x.ws) = Registered(x.ws)
<1> DEFINE m == Len(ws.panes)
           R == 1 .. m
<1>1. /\ Workspace(x.ws, R) /\ x.ws.mode = ws.mode /\ Layout(x.ws) = Layout(ws)
      /\ Len(x.ws.panes) = m /\ x.body = ws.panes
  BY DEF Returns
<1>2. ToSet(x.body) = Registered(ws)
  BY <1>1 DEF Registered
<1> HIDE DEF R
<1>3. IsInjective(x.ws.panes)
  BY <1>1 DEF Workspace, Distinct, IsInjective
<1>4. ws.mode = "strip" => Listed(x.ws) = Registered(x.ws)
  <2>1. SUFFICES ASSUME x.ws.mode = "strip" PROVE Listed(x.ws) = Registered(x.ws)
    BY <1>1
  <2>2. StackedPanes(x.ws.columns) = ToSet(x.ws.panes)
    BY <1>1, <2>1, WorkspaceParts
  <2> QED BY <2>2 DEF Listed, InColumn, StackedPanes, Registered
<1> QED BY <1>1, <1>2, <1>3, <1>4

\* PanesComeBack of every workspace.
LEMMA PanesBackOK ==
  ASSUME PanesIInv
  PROVE  PanesComeBack
<1>1. SUFFICES ASSUME NEW x \in {AfterRestart, AfterMove}
               PROVE  /\ x.ws.mode = ws.mode
                      /\ ToSet(x.body) = Registered(ws) /\ Layout(x.ws) = Layout(ws)
                      /\ IsInjective(x.ws.panes) /\ Len(x.ws.panes) = Len(ws.panes)
                      /\ ws.mode = "strip" => Listed(x.ws) = Registered(x.ws)
  BY DEF PanesComeBack
<1>2. \E ids, I, n, kind : Returns(x, ws, ids, I, n, kind)
  BY RestartReturns, MoveReturns
<1> QED BY <1>2, BackOK

\* A restart and a move bring back every pane once and the same splits.
THEOREM AllComeBack == PanesSpec => []PanesComeBack
<1>1. PanesIInv => PanesComeBack
  BY PanesBackOK
<1> QED BY <1>1, PanesInvariant, PTL

-----------------------------------------------------------------------------
(* Columns that come back                                                  *)

\* kept describes the columns R of the panes 1 to n, whose ids differ.
Faithful(kept, R, ids, n, K) ==
    /\ n \in Nat /\ DOMAIN ids = 1 .. n /\ \A p, q \in 1 .. n : ids[p] = ids[q] => p = q
    /\ Stacked(R, 1 .. n) /\ StackedPanes(R) = 1 .. n
    /\ kept \in Seq(SavedOf(K)) /\ DOMAIN kept = DOMAIN R
    /\ \A c \in DOMAIN R : kept[c] = SavedColumn(R[c], ids)

\* What a faithful description says of each column.
LEMMA FaithfulParts ==
  ASSUME NEW kept, NEW R, NEW ids, NEW n, NEW K, Faithful(kept, R, ids, n, K)
  PROVE  /\ DOMAIN R = 1 .. Len(R) /\ Len(R) \in Nat /\ Len(kept) = Len(R)
         /\ \A c \in DOMAIN R :
               /\ DOMAIN R[c].panes = 1 .. Len(R[c].panes) /\ Len(R[c].panes) \in Nat
               /\ R[c].panes \in Seq(1 .. n) /\ R[c].panes # <<>> /\ Distinct(R[c].panes)
               /\ R[c].focused \in 1 .. Len(R[c].panes)
               /\ \A k \in 1 .. Len(R[c].panes) : R[c].panes[k] \in 1 .. n
               /\ DOMAIN kept[c].ids = 1 .. Len(R[c].panes)
               /\ \A k \in 1 .. Len(R[c].panes) : kept[c].ids[k] = ids[R[c].panes[k]]
               /\ kept[c].focused = ids[R[c].panes[R[c].focused]]
               /\ kept[c].maximized = R[c].maximized /\ kept[c].half = R[c].half
<1> DEFINE S == 1 .. n
<1>1. Stacked(R, S) /\ kept \in Seq(SavedOf(K)) /\ DOMAIN kept = DOMAIN R
      /\ \A c \in DOMAIN R : kept[c] = SavedColumn(R[c], ids)
  BY DEF Faithful
<1> HIDE DEF S
<1>2. DOMAIN R = 1 .. Len(R) /\ Len(R) \in Nat
  BY <1>1 DEF Stacked
<1>3. Len(kept) = Len(R)
  BY <1>1, <1>2
<1>4. ASSUME NEW c \in DOMAIN R
      PROVE  /\ DOMAIN R[c].panes = 1 .. Len(R[c].panes) /\ Len(R[c].panes) \in Nat
             /\ R[c].panes \in Seq(S) /\ R[c].panes # <<>> /\ Distinct(R[c].panes)
             /\ R[c].focused \in 1 .. Len(R[c].panes)
             /\ \A k \in 1 .. Len(R[c].panes) : R[c].panes[k] \in S
             /\ DOMAIN kept[c].ids = 1 .. Len(R[c].panes)
             /\ \A k \in 1 .. Len(R[c].panes) : kept[c].ids[k] = ids[R[c].panes[k]]
             /\ kept[c].focused = ids[R[c].panes[R[c].focused]]
             /\ kept[c].maximized = R[c].maximized /\ kept[c].half = R[c].half
  <2> DEFINE r == R[c]
             list == [k \in DOMAIN r.panes |-> ids[r.panes[k]]]
             g == ids[r.panes[r.focused]]
  <2>1. r.panes \in Seq(S) /\ r.panes # <<>> /\ Distinct(r.panes) /\ r.focused \in 1 .. Len(r.panes)
    BY <1>1, StackedColumn
  <2>2. kept[c] = [ids |-> list, focused |-> g, maximized |-> r.maximized, half |-> r.half]
    BY <1>1 DEF SavedColumn
  <2> HIDE DEF r
  <2>3. DOMAIN r.panes = 1 .. Len(r.panes) /\ Len(r.panes) \in Nat
        /\ \A k \in 1 .. Len(r.panes) : r.panes[k] \in S
    BY <2>1
  <2>4. DOMAIN list = 1 .. Len(r.panes) /\ \A k \in 1 .. Len(r.panes) : list[k] = ids[r.panes[k]]
    BY <2>3
  <2> HIDE DEF list
  <2>5. kept[c].ids = list /\ kept[c].focused = g /\ kept[c].maximized = r.maximized /\ kept[c].half = r.half
    BY <2>2
  <2>6. /\ DOMAIN kept[c].ids = 1 .. Len(r.panes)
        /\ \A k \in 1 .. Len(r.panes) : kept[c].ids[k] = ids[r.panes[k]]
    BY <2>4, <2>5
  <2> QED BY <2>1, <2>3, <2>5, <2>6 DEF r
<1> QED BY <1>2, <1>3, <1>4 DEF S

\* A pane has its own id, and its place in its column.
LEMMA FaithfulHome ==
  ASSUME NEW kept, NEW R, NEW ids, NEW n, NEW K, Faithful(kept, R, ids, n, K),
         NEW c \in DOMAIN R, NEW k \in DOMAIN R[c].panes
  PROVE  Home(kept, R[c].panes[k], ids) = [pane |-> R[c].panes[k], col |-> c, at |-> k]
<1> DEFINE p == R[c].panes[k]
<1>1. /\ n \in Nat /\ DOMAIN ids = 1 .. n /\ \A q, r \in 1 .. n : ids[q] = ids[r] => q = r
      /\ DOMAIN kept = DOMAIN R
      /\ \A d \in DOMAIN R : \A e \in DOMAIN R \ {d} : ToSet(R[d].panes) \cap ToSet(R[e].panes) = {}
  BY DEF Faithful, Stacked
<1>2. /\ DOMAIN R = 1 .. Len(R) /\ Len(R) \in Nat
      /\ \A d \in DOMAIN R :
            /\ DOMAIN R[d].panes = 1 .. Len(R[d].panes) /\ Distinct(R[d].panes)
            /\ \A j \in 1 .. Len(R[d].panes) : R[d].panes[j] \in 1 .. n
            /\ DOMAIN kept[d].ids = 1 .. Len(R[d].panes)
            /\ \A j \in 1 .. Len(R[d].panes) : kept[d].ids[j] = ids[R[d].panes[j]]
  BY FaithfulParts
<1>3. \A d \in DOMAIN R : \A j \in DOMAIN kept[d].ids : p \in ById(ids, kept[d].ids[j]) <=> R[d].panes[j] = p
  <2>1. SUFFICES ASSUME NEW d \in DOMAIN R, NEW j \in DOMAIN kept[d].ids
                 PROVE  p \in ById(ids, kept[d].ids[j]) <=> R[d].panes[j] = p
    OBVIOUS
  <2> DEFINE q == R[d].panes[j]
  <2>2. kept[d].ids[j] = ids[q] /\ q \in 1 .. n /\ p \in 1 .. n
    BY <1>2
  <2> HIDE DEF q, p
  <2>3. /\ \A r \in ById(ids, ids[q]) : r \in 1 .. n /\ ids[r] = ids[q]
        /\ ById(ids, ids[q]) # {}
    BY <1>1, <2>2, ByIdOK
  <2>4. ById(ids, ids[q]) = {q}
    BY <1>1, <2>2, <2>3
  <2>5. p \in ById(ids, kept[d].ids[j]) <=> p = q
    BY <2>2, <2>4
  <2> QED BY <2>5 DEF q
<1>4. NamedIn(kept, p, ids) = {c}
  <2>1. ASSUME NEW d \in DOMAIN R
        PROVE  (\E i \in ToSet(kept[d].ids) : p \in ById(ids, i)) <=> p \in ToSet(R[d].panes)
    <3> HIDE DEF p
    <3>1. (\E i \in ToSet(kept[d].ids) : p \in ById(ids, i)) <=> \E j \in DOMAIN kept[d].ids : p \in ById(ids, kept[d].ids[j])
      BY DEF ToSet
    <3>2. p \in ToSet(R[d].panes) <=> \E j \in DOMAIN R[d].panes : R[d].panes[j] = p
      BY DEF ToSet
    <3> QED BY <1>2, <1>3, <3>1, <3>2
  <2>2. p \in ToSet(R[c].panes)
    BY DEF ToSet
  <2> HIDE DEF p
  <2>3. \A d \in DOMAIN R \ {c} : p \notin ToSet(R[d].panes)
    BY <1>1, <2>2
  <2>4. NamedIn(kept, p, ids) = {d \in DOMAIN R : p \in ToSet(R[d].panes)}
    BY <1>1, <2>1 DEF NamedIn
  <2> QED BY <2>2, <2>3, <2>4
<1>5. NamedAt(kept, p, ids, c) = {k}
  <2>1. \A j \in DOMAIN R[c].panes : R[c].panes[j] = p => j = k
    BY <1>2 DEF Distinct
  <2>2. R[c].panes[k] = p
    OBVIOUS
  <2> HIDE DEF p
  <2>3. DOMAIN kept[c].ids = DOMAIN R[c].panes
    BY <1>2
  <2>4. \A j \in DOMAIN kept[c].ids : p \in ById(ids, kept[c].ids[j]) <=> j = k
    BY <1>3, <2>1, <2>2, <2>3
  <2>5. k \in DOMAIN kept[c].ids
    BY <2>3
  <2> QED BY <2>4, <2>5 DEF NamedAt
<1> HIDE DEF p
<1>6. c \in Nat /\ k \in Nat
  BY <1>2
<1>7. ASSUME NEW i \in Nat PROVE Min({i}) = i
  <2>1. {i} \in SUBSET Nat /\ {i} # {}
    OBVIOUS
  <2> QED BY <2>1, MinOK
<1>8. Home(kept, p, ids) = [pane |-> p, col |-> c, at |-> k]
  <2>1. Min({c}) = c /\ Min({k}) = k
    BY <1>6, <1>7
  <2> QED BY <1>4, <1>5, <2>1 DEF Home
<1> QED BY <1>8 DEF p

\* The panes of a column come back in their order.
LEMMA FaithfulColumn ==
  ASSUME NEW kept, NEW R, NEW ids, NEW n, NEW K, Faithful(kept, R, ids, n, K), NEW c \in DOMAIN R,
         NEW G, G = {h \in HomesOf(kept, ids, n) : h.col = c}
  PROVE  PanesAt(G) = R[c].panes
<1> DEFINE list == R[c].panes
           s == [k \in 1 .. Len(list) |-> [pane |-> list[k], col |-> c, at |-> k]]
<1>1. /\ n \in Nat /\ DOMAIN ids = 1 .. n /\ kept \in Seq(SavedOf(K))
      /\ StackedPanes(R) = 1 .. n
  BY DEF Faithful
<1>2. /\ list \in Seq(1 .. n) /\ Distinct(list) /\ DOMAIN list = 1 .. Len(list) /\ Len(list) \in Nat
      /\ \A k \in 1 .. Len(list) : list[k] \in 1 .. n
  BY FaithfulParts
<1>3. \A k \in 1 .. Len(list) : Home(kept, list[k], ids) = [pane |-> list[k], col |-> c, at |-> k]
  BY <1>2, FaithfulHome
<1>l. list = R[c].panes
  OBVIOUS
<1> HIDE DEF list
<1>4. ASSUME NEW k \in 1 .. Len(list) PROVE s[k] \in G
  <2>1. Home(kept, list[k], ids) \in HomesOf(kept, ids, n)
    BY <1>2 DEF HomesOf
  <2>2. s[k] = Home(kept, list[k], ids) /\ s[k].col = c
    BY <1>3
  <2> QED BY <2>1, <2>2
<1>5. ASSUME NEW h \in G PROVE h.pane \in ToSet(list)
  <2>1. h \in HomesOf(kept, ids, n) /\ h.col = c
    OBVIOUS
  <2>2. PICK p \in 1 .. n : h = Home(kept, p, ids)
    BY <2>1 DEF HomesOf
  <2>3. p \in StackedPanes(R)
    BY <1>1
  <2>4. PICK d \in DOMAIN R : p \in ToSet(R[d].panes)
    BY <2>3 DEF StackedPanes
  <2>5. PICK j \in DOMAIN R[d].panes : p = R[d].panes[j]
    BY <2>4 DEF ToSet
  <2>6. h = [pane |-> p, col |-> d, at |-> j]
    BY <2>2, <2>5, FaithfulHome
  <2>7. h.pane = p /\ h.col = d
    BY <2>6
  <2> QED BY <1>l, <2>1, <2>4, <2>7
<1>6. {h.pane : h \in G} = ToSet(list)
  <2>1. ASSUME NEW k \in 1 .. Len(list) PROVE list[k] \in {h.pane : h \in G}
    <3>1. s[k].pane = list[k]
      OBVIOUS
    <3> QED BY <1>4, <3>1
  <2>2. ToSet(list) = {list[k] : k \in 1 .. Len(list)}
    BY <1>2 DEF ToSet
  <2> QED BY <1>5, <2>1, <2>2
<1>7. G \in SUBSET HomesOf(kept, ids, n)
  OBVIOUS
<1> DEFINE u == PanesAt(G)
<1>8. u \in Seq(1 .. n) /\ Len(u) = Cardinality(G) /\ Distinct(u) /\ ToSet(u) = {h.pane : h \in G}
  <2> HIDE DEF s
  <2> QED BY <1>1, <1>7, PanesAtOK
<1>r. \A r : Sorts(r, G) => u = PanesOf(r, G)
  <2> HIDE DEF s
  <2> QED BY <1>1, <1>7, PanesAtOK
<1> HIDE DEF u
<1>9. Cardinality(G) = Len(list)
  <2>1. Cardinality(ToSet(u)) = Len(u) /\ Cardinality(ToSet(list)) = Len(list)
    BY <1>2, <1>8, DistinctCount
  <2> QED BY <1>6, <1>8, <2>1
<1>10. s \in [1 .. Cardinality(G) -> G]
  <2>1. DOMAIN s = 1 .. Len(list) /\ s = [k \in 1 .. Len(list) |-> s[k]]
    OBVIOUS
  <2> HIDE DEF s
  <2> QED BY <1>4, <1>9, <2>1
<1>11. \A i, j \in DOMAIN s : i < j => Earlier(s[i], s[j])
  BY DEF Earlier
<1>12. u = [k \in 1 .. Cardinality(G) |-> s[k].pane]
  <2> HIDE DEF s
  <2>1. Sorts(s, G)
    BY <1>10, <1>11 DEF Sorts
  <2> QED BY <1>r, <2>1 DEF PanesOf
<1>13. u = [k \in 1 .. Len(list) |-> list[k]]
  <2>1. \A k \in 1 .. Len(list) : s[k].pane = list[k]
    OBVIOUS
  <2> HIDE DEF s
  <2> QED BY <1>9, <1>12, <2>1
<1>14. list = [k \in 1 .. Len(list) |-> list[k]]
  BY <1>2
<1> QED BY <1>13, <1>14 DEF list, u

\* The focused pane of a saved column is found again, in its column.
LEMMA FaithfulFound ==
  ASSUME NEW kept, NEW R, NEW ids, NEW n, NEW K, Faithful(kept, R, ids, n, K),
         NEW cols, SamePanes(R, cols), NEW c \in DOMAIN R
  PROVE  /\ ColumnById(cols, ids, kept[c].focused, c) = {c}
         /\ FocusedIn(R[c].panes, ids, kept[c].focused) = R[c].focused
<1> DEFINE f == R[c].focused
           i == kept[c].focused
           q == R[c].panes[f]
           N == Len(R)
<1>1. /\ n \in Nat /\ \A p, r \in 1 .. n : ids[p] = ids[r] => p = r
      /\ \A d \in DOMAIN R : \A e \in DOMAIN R \ {d} : ToSet(R[d].panes) \cap ToSet(R[e].panes) = {}
  BY DEF Faithful, Stacked
<1>2. /\ DOMAIN R = 1 .. N /\ N \in Nat
      /\ \A d \in DOMAIN R : /\ DOMAIN R[d].panes = 1 .. Len(R[d].panes)
                             /\ \A k \in 1 .. Len(R[d].panes) : R[d].panes[k] \in 1 .. n
      /\ R[c].panes \in Seq(1 .. n) /\ R[c].panes # <<>> /\ Distinct(R[c].panes)
      /\ f \in 1 .. Len(R[c].panes) /\ i = ids[q]
  BY FaithfulParts
<1>3. DOMAIN cols = DOMAIN R /\ \A d \in DOMAIN R : cols[d].panes = R[d].panes
  BY DEF SamePanes
<1>4. q \in 1 .. n /\ q \in ToSet(R[c].panes)
  BY <1>2 DEF ToSet
<1>q. q = R[c].panes[f]
  OBVIOUS
<1> HIDE DEF f, i, q, N
<1>5. ASSUME NEW d \in 1 .. N
      PROVE  (\E p \in ToSet(cols[d].panes) : ids[p] = i) <=> d = c
  <2>1. cols[d].panes = R[d].panes /\ \A p \in ToSet(R[d].panes) : p \in 1 .. n
    <3>1. d \in DOMAIN R
      BY <1>2
    <3>2. cols[d].panes = R[d].panes
      BY <1>3, <3>1
    <3> DEFINE list == R[d].panes
    <3>3. DOMAIN list = 1 .. Len(list) /\ \A k \in 1 .. Len(list) : list[k] \in 1 .. n
      BY <1>2, <3>1
    <3> HIDE DEF list
    <3>4. \A p \in ToSet(list) : p \in 1 .. n
      BY <3>3 DEF ToSet
    <3> QED BY <3>2, <3>4 DEF list
  <2>2. (\E p \in ToSet(cols[d].panes) : ids[p] = i) <=> q \in ToSet(R[d].panes)
    BY <1>1, <1>2, <1>4, <2>1
  <2>3. d # c => q \notin ToSet(R[d].panes)
    BY <1>1, <1>2, <1>4
  <2> QED BY <1>4, <2>2, <2>3
<1>6. ColumnById(cols, ids, i, c) = {c}
  <2>1. DOMAIN cols = 1 .. N /\ N \in Nat /\ c \in 1 .. N
    BY <1>2, <1>3
  <2>2. \A d \in 1 .. N : (\E p \in ToSet(cols[d].panes) : ids[p] = i) <=> d = c
    BY <1>5
  <2> QED BY <2>1, <2>2, ColumnByIdOK
<1>7. FocusedIn(R[c].panes, ids, i) = f
  <2> DEFINE list == R[c].panes
  <2>1. \A j \in 1 .. Len(list) : ids[list[j]] = i <=> j = f
    <3>1. \A j \in 1 .. Len(list) : list[j] \in 1 .. n
      BY <1>2
    <3>2. \A j \in 1 .. Len(list) : ids[list[j]] = i <=> list[j] = q
      BY <1>1, <1>2, <1>4, <3>1
    <3> QED BY <1>2, <1>q, <3>2 DEF Distinct
  <2>2. list \in Seq(1 .. n) /\ list # <<>> /\ f \in 1 .. Len(list)
    BY <1>2
  <2> HIDE DEF list
  <2>3. FocusedIn(list, ids, i) = f
    BY <2>1, <2>2, FocusedInOK
  <2> QED BY <2>3 DEF list
<1> QED BY <1>6, <1>7 DEF i, f

\* R without its flags.
Plain(cols, R) ==
    cols = [c \in DOMAIN R |-> [panes |-> R[c].panes, focused |-> R[c].focused,
                                 maximized |-> FALSE, half |-> FALSE]]

\* A strip is built with the columns that were saved.
LEMMA FaithfulRebuilt ==
  ASSUME NEW kept, NEW R, NEW ids, NEW n, NEW K, Faithful(kept, R, ids, n, K),
         NEW y, y = RebuildColumns(kept, ids)
  PROVE  Plain(y.columns, R) /\ SamePanes(R, y.columns)
<1> DEFINE H == HomesOf(kept, ids, n)
           D == {h.col : h \in H}
           used == InOrder(D, LAMBDA c, d : c < d)
           In(c) == {h \in H : h.col = c}
           N == Len(R)
           col(c) == RebuiltColumn(PanesAt(In(c)), kept, ids, c)
<1>1. DOMAIN ids = 1 .. n /\ DOMAIN kept = DOMAIN R /\ StackedPanes(R) = 1 .. n
  BY DEF Faithful
<1>2. y.columns = [k \in DOMAIN used |-> col(used[k])]
  BY <1>1 DEF RebuildColumns, HomesOf
<1>3. /\ DOMAIN R = 1 .. N /\ N \in Nat
      /\ \A c \in DOMAIN R :
               /\ DOMAIN R[c].panes = 1 .. Len(R[c].panes) /\ R[c].focused \in 1 .. Len(R[c].panes)
               /\ \A k \in 1 .. Len(R[c].panes) : R[c].panes[k] \in 1 .. n
  BY FaithfulParts
<1> HIDE DEF N
<1>4. D = 1 .. N
  <2>1. ASSUME NEW h \in H PROVE h.col \in 1 .. N
    <3>1. PICK p \in 1 .. n : h = Home(kept, p, ids)
      BY DEF HomesOf
    <3>2. PICK d \in DOMAIN R : p \in ToSet(R[d].panes)
      BY <1>1 DEF StackedPanes
    <3>3. PICK j \in DOMAIN R[d].panes : p = R[d].panes[j]
      BY <3>2 DEF ToSet
    <3>4. h = [pane |-> p, col |-> d, at |-> j]
      BY <3>1, <3>3, FaithfulHome
    <3>5. h.col = d
      BY <3>4
    <3> QED BY <1>3, <3>5
  <2>2. ASSUME NEW c \in 1 .. N PROVE c \in D
    <3> DEFINE k == R[c].focused
               h == Home(kept, R[c].panes[k], ids)
    <3>1. c \in DOMAIN R /\ k \in DOMAIN R[c].panes /\ R[c].panes[k] \in 1 .. n
      BY <1>3
    <3>2. h = [pane |-> R[c].panes[k], col |-> c, at |-> k]
      BY <3>1, FaithfulHome
    <3>3. h \in H
      BY <3>1 DEF HomesOf
    <3>4. h.col = c
      BY <3>2
    <3> HIDE DEF h, H
    <3> QED BY <3>3, <3>4
  <2> HIDE DEF H
  <2> QED BY <2>1, <2>2
<1>5. used = [k \in 1 .. N |-> k]
  <2> DEFINE t == InOrder(1 .. N, LAMBDA c, d : c < d)
  <2>f. IsFiniteSet(1 .. N)
    <3> HIDE DEF t, D, used
    <3>1. N \in Int /\ 1 \in Int
      BY <1>3
    <3> QED BY <3>1, FS_Interval
  <2>1. 1 .. N \in SUBSET Nat
    OBVIOUS
  <2>2. Ascending(t, 1 .. N)
    BY <2>1, <2>f, AscendingOK
  <2>3. used = t
    BY <1>4
  <2> HIDE DEF t, used
  <2>4. t = [k \in 1 .. N |-> k]
    BY <1>3, <2>2, AscendingCount
  <2> QED BY <2>3, <2>4
<1> HIDE DEF used, D
<1>6. ASSUME NEW c \in DOMAIN R
      PROVE  col(c) = [panes |-> R[c].panes, focused |-> R[c].focused, maximized |-> FALSE, half |-> FALSE]
  <2>1. PanesAt(In(c)) = R[c].panes
    <3>1. In(c) = {h \in HomesOf(kept, ids, n) : h.col = c}
      OBVIOUS
    <3> HIDE DEF In
    <3> QED BY <3>1, FaithfulColumn
  <2>2. FocusedIn(R[c].panes, ids, kept[c].focused) = R[c].focused
    <3>1. SamePanes(R, R)
      BY DEF SamePanes
    <3> QED BY <3>1, FaithfulFound
  <2> HIDE DEF In
  <2>3. col(c) = [panes |-> R[c].panes, maximized |-> FALSE, half |-> FALSE,
                  focused |-> FocusedIn(R[c].panes, ids, kept[c].focused)]
    BY <1>1, <2>1 DEF RebuiltColumn
  <2> QED BY <2>2, <2>3
<1> HIDE DEF col
<1>7. y.columns = [c \in DOMAIN R |-> col(c)]
  BY <1>2, <1>3, <1>5
<1>8. Plain(y.columns, R)
  BY <1>6, <1>7 DEF Plain
<1>9. SamePanes(R, y.columns)
  BY <1>6, <1>7 DEF SamePanes
<1> QED BY <1>8, <1>9

\* The flags and the focus of every column come back.
LEMMA FaithfulFlags ==
  ASSUME NEW kept, NEW R, NEW ids, NEW n, NEW K, Faithful(kept, R, ids, n, K),
         NEW cols, SamePanes(R, cols), Plain(cols, R)
  PROVE  RestoreFlags(cols, kept, ids) = R
<1> DEFINE new == RestoreFlags(cols, kept, ids)
           from(c) == {k \in DOMAIN kept : c \in ColumnById(cols, ids, kept[k].focused, k)}
           s(c) == kept[Max(from(c))]
<1>1. new = [c \in DOMAIN cols |->
               IF from(c) = {} THEN cols[c]
               ELSE [cols[c] EXCEPT !.maximized = s(c).maximized, !.half = s(c).half,
                                    !.focused = FocusedIn(cols[c].panes, ids, s(c).focused)]]
  BY DEF RestoreFlags
<1>2. DOMAIN kept = DOMAIN R /\ DOMAIN cols = DOMAIN R
  BY DEF Faithful, Plain
<1>3. /\ DOMAIN R = 1 .. Len(R) /\ Len(R) \in Nat
      /\ \A c \in DOMAIN R : kept[c].maximized = R[c].maximized /\ kept[c].half = R[c].half
  BY FaithfulParts
<1>4. ASSUME NEW c \in DOMAIN R PROVE from(c) = {c} /\ s(c) = kept[c]
  <2>1. ASSUME NEW k \in DOMAIN R PROVE ColumnById(cols, ids, kept[k].focused, k) = {k}
    <3> HIDE DEF new, from, s
    <3>1. SamePanes(R, cols)
      OBVIOUS
    <3> QED BY <3>1, FaithfulFound
  <2>2. from(c) = {c}
    <3>1. \A k \in DOMAIN kept : c \in ColumnById(cols, ids, kept[k].focused, k) <=> c = k
      BY <1>2, <2>1
    <3>2. c \in DOMAIN kept
      BY <1>2
    <3> QED BY <3>1, <3>2
  <2>3. {c} \in SUBSET (0 .. c) /\ {c} # {} /\ c \in Nat
    BY <1>3
  <2>4. Max({c}) \in {c}
    BY <2>3, MaxOK
  <2> HIDE DEF from
  <2> QED BY <2>2, <2>4
<1> HIDE DEF from, s
<1>5. ASSUME NEW c \in DOMAIN R PROVE new[c] = R[c]
  <2>1. FocusedIn(R[c].panes, ids, kept[c].focused) = R[c].focused
    BY FaithfulFound
  <2>2. cols[c] = [panes |-> R[c].panes, focused |-> R[c].focused, maximized |-> FALSE, half |-> FALSE]
        /\ cols[c].panes = R[c].panes
    BY DEF Plain
  <2>3. new[c] = [cols[c] EXCEPT !.maximized = s(c).maximized, !.half = s(c).half,
                                 !.focused = FocusedIn(cols[c].panes, ids, s(c).focused)]
    BY <1>1, <1>2, <1>4
  <2> HIDE DEF new
  <2>4. new[c] = [cols[c] EXCEPT !.maximized = R[c].maximized, !.half = R[c].half, !.focused = R[c].focused]
    <3>1. s(c).maximized = R[c].maximized /\ s(c).half = R[c].half /\ s(c).focused = kept[c].focused
      BY <1>3, <1>4
    <3>2. FocusedIn(cols[c].panes, ids, s(c).focused) = R[c].focused
      BY <2>1, <2>2, <3>1
    <3> QED BY <2>3, <3>1, <3>2
  <2>5. new[c] = [panes |-> R[c].panes, focused |-> R[c].focused, maximized |-> R[c].maximized, half |-> R[c].half]
    BY <2>2, <2>4
  <2>6. R[c] = [panes |-> R[c].panes, focused |-> R[c].focused, maximized |-> R[c].maximized, half |-> R[c].half]
    BY StackedColumn DEF Faithful
  <2> QED BY <2>5, <2>6
<1>6. new = [c \in DOMAIN R |-> new[c]]
  BY <1>1, <1>2
<1>7. R = [c \in DOMAIN R |-> R[c]]
  BY DEF Faithful, Stacked
<1> HIDE DEF new
<1>8. new = R
  BY <1>5, <1>6, <1>7
<1> QED BY <1>8 DEF new

\* The strip that is restored has the columns R and the focused one.
LEMMA FaithfulStrip ==
  ASSUME NEW f, NEW R, NEW ids, NEW n, NEW K, Faithful(f.columns, R, ids, n, K),
         NEW y, y = RebuildColumns(f.columns, ids), f.focused \in DOMAIN R, f.active = {}
  PROVE  RestoreStrip(f, y, ids) = StripOf(f.focused, y.panes, R)
<1> DEFINE kept == f.columns
           c == f.focused
           new == RestoreFlags(y.columns, kept, ids)
           i == kept[c].focused
           g == FocusedIn(R[c].panes, ids, i)
<1>1. Faithful(kept, R, ids, n, K)
  OBVIOUS
<1>e. RestoreStrip(f, y, ids) = FocusPane(StripOf(1, y.panes, new), ids, i, c)
  BY DEF RestoreStrip, StripOf
<1>y. y = RebuildColumns(kept, ids) /\ c \in DOMAIN R
  OBVIOUS
<1>i. i = kept[c].focused
  OBVIOUS
<1> HIDE DEF kept, c
<1>2. new = R
  <2> DEFINE cols == y.columns
  <2>1. Plain(cols, R) /\ SamePanes(R, cols)
    BY <1>1, <1>y, FaithfulRebuilt
  <2> HIDE DEF cols
  <2>2. RestoreFlags(cols, kept, ids) = R
    BY <1>1, <2>1, FaithfulFlags
  <2> QED BY <2>2 DEF cols
<1> HIDE DEF new
<1> DEFINE list == y.panes
           w == StripOf(1, list, R)
           at == ColumnById(R, ids, i, c)
<1>3. at = {c} /\ g = R[c].focused
  <2>1. SamePanes(R, R)
    BY DEF SamePanes
  <2> QED BY <1>1, <1>y, <2>1, FaithfulFound
<1>4. i = ids[R[c].panes[R[c].focused]] /\ R[c].focused \in 1 .. Len(R[c].panes)
      /\ DOMAIN R[c].panes = 1 .. Len(R[c].panes)
  BY <1>1, <1>y, FaithfulParts
<1>5. w.columns = R /\ w = StripOf(w.focusedCol, w.panes, w.columns) /\ w.panes = list
  BY StripFields
<1> HIDE DEF i, w, list, g
<1>6. \E p \in InColumn(w, c) : ids[p] = i
  BY <1>4, <1>5 DEF InColumn, ToSet
<1>7. Only(at) = c /\ at # {}
  BY <1>3 DEF Only
<1> HIDE DEF at
<1>8. FocusPane(w, ids, i, c)
        = [w EXCEPT !.focusedCol = c, !.columns[c].focused = R[c].focused]
  <2>1. at = ColumnById(w.columns, ids, i, c)
    BY <1>5 DEF at
  <2>2. ~\A p \in InColumn(w, c) : ids[p] # i
    BY <1>6
  <2>3. FocusedIn(w.columns[c].panes, ids, i) = R[c].focused
    BY <1>3, <1>5 DEF g
  <2> QED BY <1>7, <2>1, <2>2, <2>3 DEF FocusPane
<1>9. [R EXCEPT ![c].focused = R[c].focused] = R
  <2> DEFINE S == 1 .. n
  <2>s. Stacked(R, S)
    BY <1>1 DEF Faithful
  <2> HIDE DEF S
  <2>1. R = [d \in DOMAIN R |-> R[d]]
    BY <2>s DEF Stacked
  <2>2. R[c] = [panes |-> R[c].panes, focused |-> R[c].focused, maximized |-> R[c].maximized, half |-> R[c].half]
    BY <1>y, <2>s, StackedColumn
  <2>3. [R[c] EXCEPT !.focused = R[c].focused] = R[c]
    <3> DEFINE r == R[c]
               u == [r EXCEPT !.focused = r.focused]
    <3>1. u = [k \in {"panes", "focused", "maximized", "half"} |-> u[k]]
      BY <2>2
    <3>2. u.panes = r.panes /\ u.focused = r.focused /\ u.maximized = r.maximized /\ u.half = r.half
      BY <2>2
    <3> HIDE DEF u
    <3>3. u = [panes |-> r.panes, focused |-> r.focused, maximized |-> r.maximized, half |-> r.half]
      BY <3>1, <3>2
    <3> QED BY <2>2, <3>3 DEF u
  <2> QED BY <2>1, <2>3
<1>10. FocusPane(w, ids, i, c) = StripOf(c, list, R)
  <2> DEFINE v == FocusPane(w, ids, i, c)
  <2>1. v = [k \in {"mode", "tree", "focusedCol", "panes", "columns"} |-> v[k]]
    BY <1>8 DEF w, StripOf
  <2>2. v.focusedCol = c /\ v.panes = list /\ v.mode = "strip" /\ v.tree = <<>>
    BY <1>8 DEF w, StripOf
  <2>3. v.columns = [R EXCEPT ![c].focused = R[c].focused]
    BY <1>8 DEF w, StripOf
  <2> HIDE DEF v
  <2>4. v = StripOf(c, list, R)
    BY <1>9, <2>1, <2>2, <2>3 DEF StripOf
  <2> QED BY <2>4 DEF v
<1> QED BY <1>e, <1>2, <1>10 DEF w, list, c

\* The columns by the places of their panes in the registry.
Renumbered(cols, list) ==
    [c \in DOMAIN cols |->
        [panes |-> [k \in DOMAIN cols[c].panes |-> IndexOf(list, cols[c].panes[k])],
         focused |-> cols[c].focused, maximized |-> cols[c].maximized, half |-> cols[c].half]]

\* r is the column o by the places in list.
Moved(r, o, list) ==
    /\ r.focused = o.focused /\ r.maximized = o.maximized /\ r.half = o.half
    /\ r = [panes |-> r.panes, focused |-> r.focused, maximized |-> r.maximized, half |-> r.half]
    /\ DOMAIN r.panes = 1 .. Len(o.panes) /\ DOMAIN o.panes = 1 .. Len(o.panes)
    /\ \A k \in 1 .. Len(o.panes) : r.panes[k] \in 1 .. Len(list) /\ list[r.panes[k]] = o.panes[k]

\* A column by the places of its panes.
LEMMA RenumberedColumn ==
  ASSUME NEW S, NEW list \in Seq(S), Distinct(list), NEW cols, Stacked(cols, S),
         StackedPanes(cols) = ToSet(list), NEW R, R = Renumbered(cols, list), NEW c \in DOMAIN cols
  PROVE  R[c] \in ColumnOver(1 .. Len(list)) /\ Moved(R[c], cols[c], list)
<1> DEFINE m == Len(list)
           q == cols[c].panes
           l == [k \in DOMAIN q |-> IndexOf(list, q[k])]
<1>1. /\ q \in Seq(S) /\ cols[c].focused \in 1 .. Len(q)
      /\ cols[c].maximized \in BOOLEAN /\ cols[c].half \in BOOLEAN
  BY StackedColumn
<1>2. R[c] = [panes |-> l, focused |-> cols[c].focused, maximized |-> cols[c].maximized, half |-> cols[c].half]
  BY DEF Renumbered
<1>3. ToSet(q) \subseteq ToSet(list)
  BY DEF StackedPanes
<1> HIDE DEF q, m
<1>4. DOMAIN q = 1 .. Len(q) /\ Len(q) \in Nat /\ \A k \in 1 .. Len(q) : q[k] \in ToSet(q)
  BY <1>1 DEF ToSet
<1>5. \A k \in 1 .. Len(q) : IndexOf(list, q[k]) \in 1 .. m /\ list[IndexOf(list, q[k])] = q[k]
  <2>1. \A k \in 1 .. Len(q) : q[k] \in ToSet(list)
    BY <1>3, <1>4
  <2> QED BY <2>1, IndexOK DEF m
<1>6. /\ l \in Seq(1 .. m) /\ Len(l) = Len(q) /\ DOMAIN l = 1 .. Len(q)
      /\ \A k \in 1 .. Len(q) : l[k] \in 1 .. m /\ list[l[k]] = q[k]
  BY <1>4, <1>5
<1> HIDE DEF l
<1>7. R[c].panes = l /\ R[c].focused = cols[c].focused
      /\ R[c].maximized = cols[c].maximized /\ R[c].half = cols[c].half
  BY <1>2
<1>8. cols[c].focused \in Nat
  BY <1>1
<1>9. R[c] \in ColumnOver(1 .. m)
  BY <1>1, <1>2, <1>6, <1>8 DEF ColumnOver
<1>o. R[c] = [panes |-> R[c].panes, focused |-> R[c].focused, maximized |-> R[c].maximized, half |-> R[c].half]
  BY <1>2, <1>7
<1>10. /\ DOMAIN R[c].panes = 1 .. Len(q)
       /\ \A k \in 1 .. Len(q) : R[c].panes[k] \in 1 .. m /\ list[R[c].panes[k]] = q[k]
  BY <1>6, <1>7
<1>11. q = cols[c].panes
  BY DEF q
<1>12. Moved(R[c], cols[c], list)
  BY <1>4, <1>7, <1>10, <1>11, <1>o DEF Moved, m
<1> QED BY <1>9, <1>12 DEF m

\* kept describes the columns of panes whose ids are ids.
SavedAs(kept, cols, ids) ==
    DOMAIN kept = DOMAIN cols /\ \A c \in DOMAIN cols : kept[c] = SavedColumn(cols[c], ids)

\* Columns stay stacked when their panes are numbered.
LEMMA RenumberedStacked ==
  ASSUME NEW S, NEW list \in Seq(S), Distinct(list), NEW cols, Stacked(cols, S),
         StackedPanes(cols) = ToSet(list), NEW R, R = Renumbered(cols, list)
  PROVE  Stacked(R, 1 .. Len(list)) /\ StackedPanes(R) = 1 .. Len(list)
<1> DEFINE m == Len(list)
           N == 1 .. m
<1>1. m \in Nat /\ DOMAIN list = N /\ \A k \in N : list[k] \in ToSet(list)
  BY DEF ToSet
<1>2. DOMAIN cols = 1 .. Len(cols) /\ Len(cols) \in Nat
  BY DEF Stacked
<1>d. \A d \in DOMAIN cols : \A e \in DOMAIN cols \ {d} :
            ToSet(cols[d].panes) \cap ToSet(cols[e].panes) = {}
  BY DEF Stacked
<1>3. DOMAIN R = DOMAIN cols /\ R = [c \in DOMAIN cols |-> R[c]]
  BY DEF Renumbered
<1>4. \A c \in DOMAIN cols : R[c] \in ColumnOver(N) /\ Moved(R[c], cols[c], list)
  BY RenumberedColumn
<1>5. R \in Seq(ColumnOver(N))
  <2> HIDE DEF N
  <2>1. \A c \in 1 .. Len(cols) : R[c] \in ColumnOver(N)
    BY <1>2, <1>4
  <2>2. R = [c \in 1 .. Len(cols) |-> R[c]]
    BY <1>2, <1>3
  <2> QED BY <1>2, <2>1, <2>2
<1>6. ASSUME NEW c \in DOMAIN cols
      PROVE  /\ R[c].focused \in DOMAIN R[c].panes /\ Distinct(R[c].panes)
             /\ \A p : p \in ToSet(cols[c].panes) <=> \E i \in ToSet(R[c].panes) : list[i] = p
             /\ \A i \in ToSet(R[c].panes) : i \in N
  <2> DEFINE r == R[c]
             o == cols[c]
             n == Len(o.panes)
  <2>1. o.focused \in 1 .. n /\ Distinct(o.panes)
    BY StackedColumn
  <2>2. Moved(r, o, list)
    BY <1>4
  <2> HIDE DEF r, o
  <2>3. /\ r.focused = o.focused /\ DOMAIN r.panes = 1 .. n /\ DOMAIN o.panes = 1 .. n
        /\ \A k \in 1 .. n : r.panes[k] \in N /\ list[r.panes[k]] = o.panes[k]
    BY <2>2 DEF Moved
  <2> HIDE DEF n, N
  <2>4. r.focused \in DOMAIN r.panes
    BY <2>1, <2>3
  <2>5. Distinct(r.panes)
    BY <2>1, <2>3 DEF Distinct
  <2>6. \A p : p \in ToSet(o.panes) <=> \E k \in 1 .. n : o.panes[k] = p
    BY <2>3 DEF ToSet
  <2>7. \A i : i \in ToSet(r.panes) <=> \E k \in 1 .. n : r.panes[k] = i
    BY <2>3 DEF ToSet
  <2>8. /\ \A p : p \in ToSet(o.panes) <=> \E i \in ToSet(r.panes) : list[i] = p
        /\ \A i \in ToSet(r.panes) : i \in N
    BY <2>3, <2>6, <2>7
  <2> QED BY <2>4, <2>5, <2>8 DEF r, o, N
<1> HIDE DEF m, N
<1>8. ASSUME NEW d \in DOMAIN cols, NEW e \in DOMAIN cols \ {d}
      PROVE  ToSet(R[d].panes) \cap ToSet(R[e].panes) = {}
  <2>1. SUFFICES ASSUME NEW i \in ToSet(R[d].panes), i \in ToSet(R[e].panes) PROVE FALSE
    OBVIOUS
  <2>2. list[i] \in ToSet(cols[d].panes) /\ list[i] \in ToSet(cols[e].panes)
    BY <1>6, <2>1
  <2> QED BY <1>d, <2>2
<1>9. Stacked(R, N)
  BY <1>3, <1>5, <1>6, <1>8 DEF Stacked
<1>10. StackedPanes(R) = N
  <2>1. ASSUME NEW i \in N PROVE i \in StackedPanes(R)
    <3>1. list[i] \in StackedPanes(cols)
      BY <1>1
    <3>2. PICK c \in DOMAIN cols : list[i] \in ToSet(cols[c].panes)
      BY <3>1 DEF StackedPanes
    <3>3. PICK j \in ToSet(R[c].panes) : list[j] = list[i]
      BY <1>6, <3>2
    <3>4. j \in N
      BY <1>6
    <3>5. j = i
      BY <1>1, <3>3, <3>4 DEF Distinct
    <3> QED BY <1>3, <3>5 DEF StackedPanes
  <2>2. ASSUME NEW i \in StackedPanes(R) PROVE i \in N
    <3>1. PICK c \in DOMAIN cols : i \in ToSet(R[c].panes)
      BY <1>3, <2>2 DEF StackedPanes
    <3> QED BY <1>6, <3>1
  <2> QED BY <2>1, <2>2
<1> QED BY <1>9, <1>10 DEF N, m

\* What was saved describes the numbered columns.
LEMMA RenumberedOK ==
  ASSUME NEW S, NEW list \in Seq(S), Distinct(list), NEW cols, Stacked(cols, S),
         StackedPanes(cols) = ToSet(list), NEW R, R = Renumbered(cols, list),
         NEW ids, DOMAIN ids = ToSet(list), IsInjective(ids), NEW K,
         NEW kept \in Seq(SavedOf(K)), SavedAs(kept, cols, ids),
         NEW new, DOMAIN new = 1 .. Len(list), \A k \in 1 .. Len(list) : new[k] = ids[list[k]]
  PROVE  Faithful(kept, R, new, Len(list), K)
<1> DEFINE m == Len(list)
           N == 1 .. m
<1>1. m \in Nat /\ DOMAIN list = N /\ \A k \in N : list[k] \in ToSet(list)
  BY DEF ToSet
<1>2. DOMAIN R = DOMAIN cols
  BY DEF Renumbered
<1>3. Stacked(R, N) /\ StackedPanes(R) = N
  BY RenumberedStacked
<1>4. \A c \in DOMAIN cols : Moved(R[c], cols[c], list)
  BY RenumberedColumn
<1>5. ASSUME NEW c \in DOMAIN cols PROVE SavedColumn(cols[c], ids) = SavedColumn(R[c], new)
  <2> DEFINE r == R[c]
             o == cols[c]
  <2>1. Moved(r, o, list)
    BY <1>4
  <2>3. o.focused \in 1 .. Len(o.panes)
    BY StackedColumn
  <2> HIDE DEF r, o
  <2>2. /\ DOMAIN r.panes = 1 .. Len(o.panes) /\ DOMAIN o.panes = 1 .. Len(o.panes)
        /\ \A k \in 1 .. Len(o.panes) : r.panes[k] \in N /\ list[r.panes[k]] = o.panes[k]
        /\ r.focused = o.focused /\ r.maximized = o.maximized /\ r.half = o.half
    BY <2>1 DEF Moved
  <2>4. \A k \in 1 .. Len(o.panes) : new[r.panes[k]] = ids[o.panes[k]]
    BY <2>2
  <2>5. SavedColumn(o, ids) = SavedColumn(r, new)
    BY <2>2, <2>3, <2>4 DEF SavedColumn
  <2> QED BY <2>5 DEF r, o
<1>6. \A p, q \in N : new[p] = new[q] => p = q
  <2>1. \A k \in N : new[k] = ids[list[k]]
    OBVIOUS
  <2> HIDE DEF N
  <2> QED BY <1>1, <2>1 DEF IsInjective, Distinct
<1>7. DOMAIN kept = DOMAIN R /\ \A c \in DOMAIN R : kept[c] = SavedColumn(R[c], new)
  BY <1>2, <1>5 DEF SavedAs
<1>8. Faithful(kept, R, new, m, K)
  BY <1>1, <1>3, <1>6, <1>7 DEF Faithful
<1> QED BY <1>8

\* The bodies in the numbered columns are the panes there were.
LEMMA RenumberedBodies ==
  ASSUME NEW S, NEW list \in Seq(S), Distinct(list), NEW cols, Stacked(cols, S),
         StackedPanes(cols) = ToSet(list), NEW R, R = Renumbered(cols, list)
  PROVE  Bodies(R, list) = cols
<1>1. DOMAIN R = DOMAIN cols
  BY DEF Renumbered
<1>2. \A c \in DOMAIN cols : Moved(R[c], cols[c], list)
  BY RenumberedColumn
<1>3. ASSUME NEW c \in DOMAIN cols
      PROVE  [R[c] EXCEPT !.panes = [k \in DOMAIN R[c].panes |-> list[R[c].panes[k]]]] = cols[c]
  <2> DEFINE r == R[c]
             o == cols[c]
             l == [k \in DOMAIN r.panes |-> list[r.panes[k]]]
  <2>0. Moved(r, o, list)
    BY <1>2
  <2>2. /\ o = [panes |-> o.panes, focused |-> o.focused, maximized |-> o.maximized, half |-> o.half]
        /\ o.panes \in Seq(S)
    BY StackedColumn
  <2> HIDE DEF r, o
  <2>1. /\ r = [panes |-> r.panes, focused |-> r.focused, maximized |-> r.maximized, half |-> r.half]
        /\ r.focused = o.focused /\ r.maximized = o.maximized /\ r.half = o.half
        /\ DOMAIN r.panes = 1 .. Len(o.panes)
        /\ \A k \in 1 .. Len(o.panes) : list[r.panes[k]] = o.panes[k]
    BY <2>0 DEF Moved
  <2>3. l = o.panes
    <3>1. o.panes = [k \in 1 .. Len(o.panes) |-> o.panes[k]]
      BY <2>2
    <3> QED BY <2>1, <3>1
  <2> HIDE DEF l
  <2>4. [r EXCEPT !.panes = l] = o
    <3> DEFINE u == [r EXCEPT !.panes = l]
    <3>1. u = [k \in {"panes", "focused", "maximized", "half"} |-> u[k]]
      BY <2>1
    <3>2. u.panes = l /\ u.focused = o.focused /\ u.maximized = o.maximized /\ u.half = o.half
      BY <2>1
    <3> HIDE DEF u
    <3>3. u = [panes |-> o.panes, focused |-> o.focused, maximized |-> o.maximized, half |-> o.half]
      BY <2>3, <3>1, <3>2
    <3>4. u = o
      BY <2>2, <3>3
    <3> QED BY <3>4 DEF u
  <2> QED BY <2>4 DEF r, o, l
<1>4. cols = [c \in DOMAIN cols |-> cols[c]]
  BY DEF Stacked
<1> QED BY <1>1, <1>3, <1>4 DEF Bodies

\* StripComesBack of every workspace.
LEMMA StripBackOK ==
  ASSUME PanesIInv
  PROVE  StripComesBack
<1> SUFFICES ASSUME ws.mode = "strip", IsInjective(paneId)
             PROVE  /\ Bodies(AfterRestart.ws.columns, AfterRestart.body) = ws.columns
                    /\ AfterRestart.ws.focusedCol = ws.focusedCol
  BY DEF StripComesBack
<1> DEFINE list == ws.panes
           cols == ws.columns
           R == Renumbered(cols, list)
           f == SaveSession(ws, paneId)
           x == AfterRestart
           y == RebuildColumns(f.columns, x.id)
<1>1. SavedIds.id = paneId
  <2>1. gen \in Nat /\ gen >= 1
    BY SerialAssumption DEF PanesIInv
  <2> DEFINE a == Normalized(ws.panes, paneId, gen, "restored")
  <2>2. IsInjective(paneId) => a.id = paneId
    BY <2>1, SavedIdsOK
  <2> QED BY <2>2 DEF SavedIds
<1>2. Returns(x, ws, paneId, SavedIn, 1, "restored")
  BY <1>1, RestartReturns
<1>3. x = Restored(f, 1, "restored")
  BY <1>1 DEF AfterRestart
<1>4. /\ Stacked(cols, Pane) /\ ws.focusedCol \in DOMAIN cols
      /\ StackedPanes(cols) = ToSet(list)
      /\ list \in Seq(Pane) /\ Distinct(list) /\ Registered(ws) = ToSet(list)
      /\ DOMAIN list = 1 .. Len(list)
  BY StripKnown
<1>5. Workspace(ws, Pane) /\ paneId \in [ToSet(list) -> Id] /\ DOMAIN paneId = ToSet(list)
  BY DEF PanesIInv, Registered
<1>6. /\ f.columns \in Seq(SavedOf(Id))
      /\ f.columns = [c \in DOMAIN cols |-> SavedColumn(cols[c], paneId)]
      /\ f.focused = ws.focusedCol /\ f.active = {} /\ f.mode = "strip"
  <2>1. /\ Describes(f, ws, paneId, Id)
        /\ f.columns = [c \in DOMAIN ws.columns |-> SavedColumn(ws.columns[c], paneId)]
        /\ f.focused = ws.focusedCol /\ f.active = {}
    BY <1>5, SaveSessionOK
  <2> HIDE DEF f
  <2> QED BY <2>1 DEF Describes
<1>7. x.ws = RestoreStrip(f, y, x.id)
  <2> DEFINE a == Assigned(f.panes, 1, "restored")
  <2>1. x.id = a.id /\ x.ws = RestoreStrip(f, RebuildColumns(f.columns, a.id), a.id)
    <3> HIDE DEF x, f, y
    <3> QED BY <1>3, <1>6 DEF Restored
  <2> HIDE DEF a, x, f
  <2> QED BY <2>1
<1> HIDE DEF f, x
<1>8. x.body = list /\ DOMAIN x.id = 1 .. Len(list)
  BY <1>2 DEF Returns
<1>9. \A k \in 1 .. Len(list) : x.id[k] = paneId[list[k]]
  <2>1. \A j, k \in 1 .. Len(list) : paneId[list[j]] = paneId[list[k]] => j = k
    <3>1. \A k \in 1 .. Len(list) : list[k] \in ToSet(list)
      BY <1>4 DEF ToSet
    <3> QED BY <1>4, <1>5, <3>1 DEF IsInjective, Distinct
  <2> QED BY <1>2, <2>1 DEF Returns
<1> HIDE DEF list, cols
<1>10. Faithful(f.columns, R, x.id, Len(list), Id) /\ Bodies(R, list) = cols
  <2> DEFINE kept == f.columns
             new == x.id
  <2>1. /\ kept \in Seq(SavedOf(Id)) /\ SavedAs(kept, cols, paneId)
        /\ DOMAIN new = 1 .. Len(list) /\ \A k \in 1 .. Len(list) : new[k] = paneId[list[k]]
    BY <1>6, <1>8, <1>9 DEF SavedAs
  <2>r. R = Renumbered(cols, list)
    OBVIOUS
  <2> HIDE DEF kept, new, R
  <2>2. Faithful(kept, R, new, Len(list), Id) /\ Bodies(R, list) = cols
    BY <1>4, <1>5, <2>1, <2>r, RenumberedOK, RenumberedBodies
  <2> QED BY <2>2 DEF kept, new
<1>11. f.focused \in DOMAIN R
  BY <1>4, <1>6 DEF Renumbered
<1>y. y = RebuildColumns(f.columns, x.id)
  OBVIOUS
<1> HIDE DEF R, y
<1>12. RestoreStrip(f, y, x.id) = StripOf(f.focused, y.panes, R)
  <2> DEFINE ids == x.id
             n == Len(list)
  <2>1. Faithful(f.columns, R, ids, n, Id) /\ y = RebuildColumns(f.columns, ids)
    BY <1>10, <1>y
  <2> HIDE DEF ids, n
  <2>2. RestoreStrip(f, y, ids) = StripOf(f.focused, y.panes, R)
    BY <1>6, <1>11, <2>1, FaithfulStrip
  <2> QED BY <2>2 DEF ids
<1>13. x.ws.columns = R /\ x.ws.focusedCol = f.focused
  BY <1>7, <1>12, StripFields
<1> QED BY <1>6, <1>8, <1>10, <1>13 DEF x, cols

\* A restart and a move bring back every pane once and the same splits, and as
\* long as no two panes share an id a restart brings back the columns of a strip
\* in their order, with their stacks, flags and focus.
THEOREM ComesBackAlways == PanesSpec => []ComesBack
<1>1. PanesIInv => ComesBack
  BY PanesBackOK, StripBackOK DEF ComesBack
<1> QED BY <1>1, PanesInvariant, PTL

=============================================================================
