--------------------------- MODULE Wakeup_proofs ---------------------------
(***************************************************************************)
(* Proofs about Wakeup: the safety of the coalescing, for any finite set   *)
(* of threads, and that every step is a step of Mailbox or a stutter.      *)
(***************************************************************************)
EXTENDS Wakeup, FiniteSetTheorems, TLAPS

\* How the flag, the queue and the threads go together: the flag is up exactly
\* while an idle is being added, is queued, or has been dispatched and has not
\* yet put it down.
Live == queued + Cardinality(Adding) + (IF main = "reset" THEN 1 ELSE 0)

\* A message waits only while someone is about to announce it, an announcement
\* is under way, or the main loop is draining.
Announced ==
    mail # <<>> => \/ \E t \in Threads : pc[t] = "cas"
                   \/ pending = 1
                   \/ main = "tick"

IInv == TypeOK /\ Live = pending /\ Announced

-----------------------------------------------------------------------------
LEMMA AddingFinite == IsFiniteSet(Adding) /\ Cardinality(Adding) \in Nat
<1>1. Adding \subseteq Threads
  BY DEF Adding
<1>2. IsFiniteSet(Threads)
  BY ThreadsAssumption
<1> QED
  BY <1>1, <1>2, FS_Subset, FS_CardinalityType

\* A thread that moves between places other than "add" leaves Adding alone, one
\* that comes to "add" is added, and one that leaves it is taken out.
LEMMA AddingUnchanged ==
  ASSUME NEW t \in Threads, NEW v \in {"out", "cas"}, TypeOK,
         pc[t] # "add", pc' = [pc EXCEPT ![t] = v]
  PROVE  Adding' = Adding
BY DEF Adding, TypeOK

LEMMA AddingGrows ==
  ASSUME NEW t \in Threads, TypeOK, pc[t] # "add",
         pc' = [pc EXCEPT ![t] = "add"]
  PROVE  Cardinality(Adding') = Cardinality(Adding) + 1
<1>1. Adding' = Adding \cup {t} /\ t \notin Adding
  BY DEF Adding, TypeOK
<1> QED
  BY <1>1, AddingFinite, FS_AddElement

LEMMA AddingShrinks ==
  ASSUME NEW t \in Threads, TypeOK, pc[t] = "add",
         pc' = [pc EXCEPT ![t] = "out"]
  PROVE  Cardinality(Adding') = Cardinality(Adding) - 1
<1>1. Adding' = Adding \ {t} /\ t \in Adding
  BY DEF Adding, TypeOK
<1> QED
  BY <1>1, AddingFinite, FS_RemoveElement

-----------------------------------------------------------------------------
LEMMA InitIInv == Init => IInv
<1> SUFFICES ASSUME Init PROVE IInv
  OBVIOUS
<1>1. TypeOK
  BY DEF Init, TypeOK
<1>2. Adding = {}
  BY DEF Init, Adding
<1>3. Live = pending
  BY <1>2, FS_EmptySet DEF Init, Live
<1>4. Announced
  BY DEF Init, Announced
<1> QED
  BY <1>1, <1>3, <1>4 DEF IInv

LEMMA NextIInv == IInv /\ [Next]_vars => IInv'
<1> SUFFICES ASSUME IInv, [Next]_vars PROVE IInv'
  OBVIOUS
<1> USE DEF IInv
<1>c. Cardinality(Adding) \in Nat
  BY AddingFinite
<1>1. ASSUME NEW t \in Threads, Push(t) PROVE IInv'
  <2>1. TypeOK'
    BY <1>1 DEF Push, TypeOK
  <2>2. Adding' = Adding
    BY <1>1, AddingUnchanged DEF Push
  <2>3. Live' = pending'
    BY <1>1, <2>2 DEF Push, Live
  <2>4. Announced'
    BY <1>1 DEF Push, TypeOK, Announced
  <2> QED
    BY <2>1, <2>3, <2>4
<1>2. ASSUME NEW t \in Threads, CompareExchange(t) PROVE IInv'
  <2>1. TypeOK'
    BY <1>2 DEF CompareExchange, TypeOK
  <2>2. Live' = pending'
    <3>1. CASE pending = 0
      <4>1. Cardinality(Adding') = Cardinality(Adding) + 1
        BY <1>2, <3>1, AddingGrows DEF CompareExchange
      <4> QED
        BY <1>2, <1>c, <3>1, <4>1 DEF CompareExchange, Live, TypeOK
    <3>2. CASE pending = 1
      <4>1. pc[t] # "add" /\ pc' = [pc EXCEPT ![t] = "out"]
        BY <1>2, <3>2 DEF CompareExchange
      <4>2. Adding' = Adding
        BY <4>1, AddingUnchanged
      <4> QED
        BY <1>2, <3>2, <4>2 DEF CompareExchange, Live, TypeOK
    <3> QED
      BY <3>1, <3>2 DEF TypeOK
  <2>3. Announced'
    BY <1>2 DEF CompareExchange, Announced
  <2> QED
    BY <2>1, <2>2, <2>3
<1>3. ASSUME NEW t \in Threads, AddIdle(t) PROVE IInv'
  <2>1. TypeOK'
    BY <1>3 DEF AddIdle, TypeOK
  <2>2. Cardinality(Adding') = Cardinality(Adding) - 1
    BY <1>3, AddingShrinks DEF AddIdle
  <2>3. Live' = pending'
    BY <1>3, <1>c, <2>2 DEF AddIdle, Live, TypeOK
  <2>4. Announced'
    BY <1>3 DEF AddIdle, TypeOK, Announced
  <2> QED
    BY <2>1, <2>3, <2>4
<1>4. ASSUME Dispatch PROVE IInv'
  <2>1. TypeOK'
    BY <1>4 DEF Dispatch, TypeOK
  <2>2. Adding' = Adding
    BY <1>4 DEF Dispatch, Adding
  <2>3. Live' = pending'
    BY <1>4, <1>c, <2>2 DEF Dispatch, Live, TypeOK
  <2>4. Announced'
    BY <1>4 DEF Dispatch, Announced
  <2> QED
    BY <2>1, <2>3, <2>4
<1>5. ASSUME Reset PROVE IInv'
  <2>1. TypeOK'
    BY <1>5 DEF Reset, TypeOK
  <2>2. Adding' = Adding
    BY <1>5 DEF Reset, Adding
  <2>3. Live' = pending'
    BY <1>5, <1>c, <2>2 DEF Reset, Live, TypeOK
  <2>4. Announced'
    BY <1>5 DEF Reset, Announced
  <2> QED
    BY <2>1, <2>3, <2>4
<1>6. ASSUME TickPop PROVE IInv'
  <2>1. TypeOK'
    BY <1>6 DEF TickPop, TypeOK
  <2>2. Adding' = Adding
    BY <1>6 DEF TickPop, Adding
  <2>3. Live' = pending'
    BY <1>6, <2>2 DEF TickPop, Live
  <2>4. Announced'
    BY <1>6 DEF TickPop, Announced
  <2> QED
    BY <2>1, <2>3, <2>4
<1>7. ASSUME TickEnd PROVE IInv'
  <2>1. TypeOK'
    BY <1>7 DEF TickEnd, TypeOK
  <2>2. Adding' = Adding
    BY <1>7 DEF TickEnd, Adding
  <2>3. Live' = pending'
    BY <1>7, <2>2 DEF TickEnd, Live
  <2>4. Announced'
    BY <1>7 DEF TickEnd, Announced
  <2> QED
    BY <2>1, <2>3, <2>4
<1>8. ASSUME UNCHANGED vars PROVE IInv'
  BY <1>8 DEF vars, TypeOK, Live, Announced, Adding
<1> QED
  BY <1>1, <1>2, <1>3, <1>4, <1>5, <1>6, <1>7, <1>8
     DEF Next, MainLoop, InCallback

LEMMA Invariance == Spec => []IInv
BY InitIInv, NextIInv, PTL DEF Spec

-----------------------------------------------------------------------------
\* Every variable keeps its type; the queue never goes below zero.  (main.c)
THEOREM TypeCorrect == Spec => []TypeOK
BY Invariance, PTL DEF IInv

\* However many threads call wakeup_cb, at most one idle is queued or being
\* added.  (main.c, wakeup_cb.)
THEOREM Coalesced == Spec => []OneIdle
<1>1. IInv => OneIdle
  BY AddingFinite DEF IInv, OneIdle, TypeOK, Live
<1> QED
  BY <1>1, Invariance, PTL

\* A message nobody is about to announce or to take has its idle: no wakeup is
\* lost to the coalescing.  (main.c, wakeup_idle resets before it drains.)
THEOREM NothingLost == Spec => []NoLostWakeup
<1>1. IInv => NoLostWakeup
  <2> SUFFICES ASSUME IInv, mail # <<>>, main = "loop",
                      \A t \in Threads : pc[t] = "out"
               PROVE  queued > 0
    BY DEF NoLostWakeup
  <2>1. Adding = {}
    BY DEF Adding
  <2>2. Cardinality(Adding) = 0
    BY <2>1, FS_EmptySet
  <2> QED
    BY <2>2 DEF IInv, TypeOK, Live, Announced
<1> QED
  BY <1>1, Invariance, PTL

\* The safety part of Served: every step of the threads and the main loop is a
\* step of the mailbox, or changes nothing of it.
THEOREM ImplementsMailbox == Spec => Abstract!Init /\ [][Abstract!Next]_mail
<1>1. Init => Abstract!Init
  BY DEF Init, Abstract!Init
<1>2. [Next]_vars => [Abstract!Next]_mail
  BY DEF Next, MainLoop, InCallback, Push, CompareExchange, AddIdle, Dispatch,
         Reset, TickPop, TickEnd, vars, Abstract!Next, Abstract!Arrive, Abstract!Take,
         ToSet, Abstract!ToSet
<1> QED
  BY <1>1, <1>2, PTL DEF Spec

=============================================================================
