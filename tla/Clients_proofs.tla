--------------------------- MODULE Clients_proofs ---------------------------
(***************************************************************************)
(* Proofs about the clients of the window, Clipboard and TmuxCompat.       *)
(*                                                                         *)
(* Clipboard, for any terminals and any request addresses: the promise     *)
(* made to ghostty is kept, no request is settled twice, and only a live   *)
(* terminal writes the clipboard.                                          *)
(*                                                                         *)
(* TmuxCompat, for any processes, workspaces and panes, with the user      *)
(* splitting, closing, adding, moving and removing meanwhile: the next     *)
(* split goes below a pane beside the leader, teammates stay in one        *)
(* column, and text reaches the pane it was for, each until what its       *)
(* theorem excepts has happened.                                           *)
(***************************************************************************)
EXTENDS Clipboard, TmuxCompat, SequenceTheorems, FiniteSetTheorems,
        WellFoundedInduction, TLAPS

-----------------------------------------------------------------------------
(* Clipboard                                                               *)

\* ghostty's view and the terminal's record are the same.
Recorded ==
    \A a \in Addresses, t \in Terminals :
        owed[a] = t <=> (t \in alive /\ state[t] = a)

\* What is in flight for a live terminal is about the request on its record,
\* and clip_dialog tells a read from a dialog.
ReadsPend   == \A c \in reads : c.term \in alive =>
                  state[c.term] = c.state /\ c.term \notin dialog
PromptsPend == \A c \in prompts : c.term \in alive =>
                  state[c.term] = c.state /\ c.term \in dialog

\* A request on record has something in flight.
Carried ==
    \A t \in alive, a \in Addresses : state[t] = a =>
        Ctx(t, a) \in (IF t \in dialog THEN prompts ELSE reads)

\* Dialogs are torn down only under terminals that are gone.
ClosingGone == \A c \in closing : c.term \notin alive

IInv == /\ TypeOK /\ Recorded /\ ReadsPend /\ PromptsPend /\ Carried
        /\ ClosingGone /\ SettledOnce

-----------------------------------------------------------------------------
LEMMA ContextFields ==
  /\ \A c \in Context : c.term \in Terminals /\ c.state \in Addresses
  /\ \A c \in Context : c = Ctx(c.term, c.state)
  /\ \A t \in Terminals, a \in Addresses :
        Ctx(t, a) \in Context /\ Ctx(t, a).term = t /\ Ctx(t, a).state = a
BY DEF Context, Ctx

LEMMA InitIInv == Init => IInv
BY NoneAssumption
   DEF Init, IInv, TypeOK, Recorded, ReadsPend, PromptsPend, Carried,
       ClosingGone, SettledOnce

\* Settling the request a live terminal has on record, and clearing the record,
\* keeps the two views together and uses nothing that was freed.
LEMMA SettleEnd ==
  ASSUME TypeOK, Recorded, SettledOnce,
         NEW t \in Terminals, t \in alive, state[t] \in Addresses,
         alive' \in {alive, alive \ {t}}, Settle(t, state[t]), End(t)
  PROVE  Recorded' /\ SettledOnce'
<1>1. owed[state[t]] = t
  BY DEF Recorded
<1>2. SettledOnce'
  BY <1>1 DEF Settle, SettledOnce
<1>3. Recorded'
  <2> SUFFICES ASSUME NEW a \in Addresses, NEW u \in Terminals
               PROVE  owed'[a] = u <=> (u \in alive' /\ state'[u] = a)
    BY DEF Recorded
  <2>1. CASE a = state[t]
    BY <1>1, <2>1, NoneAssumption DEF Settle, End, TypeOK, Recorded
  <2>2. CASE a # state[t]
    BY <2>2, NoneAssumption DEF Settle, End, TypeOK, Recorded
  <2> QED
    BY <2>1, <2>2
<1> QED
  BY <1>2, <1>3

-----------------------------------------------------------------------------
LEMMA ReadClipboardIInv ==
  ASSUME IInv, NEW t \in Terminals, NEW a \in Addresses, ReadClipboard(t, a)
  PROVE  IInv'
<1> USE DEF IInv, ReadClipboard
<1>0. t \notin dialog /\ Ctx(t, a) \in Context
  BY ContextFields DEF TypeOK
<1>1. TypeOK'
  BY <1>0, NoneAssumption DEF TypeOK
<1>2. Recorded'
  BY NoneAssumption DEF TypeOK, Recorded
<1>3. \A c \in reads \cup prompts : c.term # t
  BY NoneAssumption DEF TypeOK, ReadsPend, PromptsPend, Context
<1>4. ReadsPend'
  BY <1>0, <1>3, ContextFields DEF TypeOK, ReadsPend
<1>5. PromptsPend'
  BY <1>0, <1>3, ContextFields DEF TypeOK, PromptsPend
<1>6. Carried'
  BY <1>0 DEF TypeOK, Carried
<1>7. ClosingGone' /\ SettledOnce'
  BY DEF ClosingGone, SettledOnce
<1> QED
  BY <1>1, <1>2, <1>4, <1>5, <1>6, <1>7

LEMMA ReadDoneIInv ==
  ASSUME IInv, NEW c \in Context, ReadDone(c)
  PROVE  IInv'
<1> USE DEF IInv, ReadDone
<1>f. c.term \in Terminals /\ c.state \in Addresses /\ c = Ctx(c.term, c.state)
  BY ContextFields
<1>n. \A d \in reads : d \in Context
  BY DEF TypeOK
<1>1. CASE IsPending(c) /\ Taken(c)
  <2>1. Recorded' /\ SettledOnce'
    BY <1>1, <1>f, SettleEnd DEF IsPending, Taken
  <2>2. TypeOK'
    BY <1>1, <1>f DEF TypeOK, Taken, Settle, End
  <2>3. ReadsPend'
    <3>1. \A d \in reads : d.term = c.term /\ d.term \in alive => d = c
      BY <1>1, <1>n, ContextFields DEF IsPending, ReadsPend
    <3> QED
      BY <1>1, <1>f, <1>n, <3>1, ContextFields DEF Taken, End, ReadsPend, TypeOK
  <2>4. PromptsPend'
    <3>1. \A d \in prompts : d.term \in alive => d.term # c.term
      BY <1>1 DEF IsPending, ReadsPend, PromptsPend
    <3> QED
      BY <1>1, <1>f, <3>1, ContextFields DEF Taken, End, PromptsPend, TypeOK
  <2>5. Carried'
    BY <1>1, <1>f, NoneAssumption, ContextFields DEF Taken, End, Carried, TypeOK
  <2>6. ClosingGone'
    BY <1>1 DEF ClosingGone
  <2> QED
    BY <2>1, <2>2, <2>3, <2>4, <2>5, <2>6
<1>2. CASE IsPending(c) /\ Confirm(c)
  <2>1. TypeOK'
    BY <1>2, <1>f, NoneAssumption DEF TypeOK, Confirm, IsPending
  <2>2. Recorded' /\ SettledOnce' /\ ClosingGone'
    BY <1>2 DEF Confirm, Recorded, SettledOnce, ClosingGone
  <2>3. ReadsPend'
    <3>1. \A d \in reads : d.term = c.term /\ d.term \in alive => d = c
      BY <1>2, <1>n, ContextFields DEF IsPending, ReadsPend
    <3> QED
      BY <1>2, <3>1 DEF Confirm, ReadsPend
  <2>4. PromptsPend'
    BY <1>2 DEF IsPending, Confirm, PromptsPend
  <2>5. Carried'
    BY <1>2, <1>f, ContextFields DEF IsPending, Confirm, Carried, TypeOK
  <2> QED
    BY <2>1, <2>2, <2>3, <2>4, <2>5
<1>3. CASE ~IsPending(c) /\ UNCHANGED <<clip, owed, prompts, freed>>
  <2>1. c.term \notin alive
    BY <1>3 DEF IsPending, ReadsPend
  <2> QED
    BY <1>3, <1>f, <2>1, ContextFields
       DEF clip, TypeOK, Recorded, ReadsPend, PromptsPend, Carried, ClosingGone,
           SettledOnce
<1> QED
  BY <1>1, <1>2, <1>3

LEMMA RespondIInv ==
  ASSUME IInv, NEW c \in Context, Respond(c)
  PROVE  IInv'
<1> USE DEF IInv, Respond
<1>f. c.term \in Terminals /\ c.state \in Addresses /\ c = Ctx(c.term, c.state)
  BY ContextFields
<1>n. \A d \in prompts : d \in Context
  BY DEF TypeOK
<1>1. CASE IsPending(c)
  <2>1. Recorded' /\ SettledOnce'
    BY <1>1, <1>f, SettleEnd DEF IsPending
  <2>2. TypeOK'
    BY <1>1, <1>f DEF TypeOK, Settle, End
  <2>3. ReadsPend'
    <3>1. \A d \in reads : d.term \in alive => d.term # c.term
      BY <1>1 DEF IsPending, ReadsPend, PromptsPend
    <3> QED
      BY <1>1, <1>f, <3>1, ContextFields DEF End, ReadsPend, TypeOK
  <2>4. PromptsPend'
    <3>1. \A d \in prompts : d.term = c.term /\ d.term \in alive => d = c
      BY <1>1, <1>n, ContextFields DEF IsPending, PromptsPend
    <3> QED
      BY <1>1, <1>f, <1>n, <3>1, ContextFields DEF End, PromptsPend, TypeOK
  <2>5. Carried'
    BY <1>1, <1>f, NoneAssumption, ContextFields DEF End, Carried, TypeOK
  <2>6. ClosingGone'
    BY <1>1 DEF ClosingGone
  <2> QED
    BY <2>1, <2>2, <2>3, <2>4, <2>5, <2>6
<1>2. CASE ~IsPending(c)
  <2>1. c.term \notin alive /\ UNCHANGED <<state, dialog, owed, freed>>
    BY <1>2 DEF IsPending, PromptsPend, clip
  <2>2. TypeOK'
    BY <2>1 DEF TypeOK
  <2>3. Recorded' /\ SettledOnce'
    BY <2>1 DEF Recorded, SettledOnce
  <2>4. ReadsPend' /\ PromptsPend' /\ ClosingGone'
    BY <2>1 DEF ReadsPend, PromptsPend, ClosingGone
  <2>5. Carried'
    BY <2>1, <1>f, ContextFields DEF TypeOK, Carried
  <2> QED
    BY <2>2, <2>3, <2>4, <2>5
<1> QED
  BY <1>1, <1>2

LEMMA DestroyDialogIInv ==
  ASSUME IInv, NEW c \in Context, DestroyDialog(c)
  PROVE  IInv'
<1>1. c.term \notin alive
  BY DEF IInv, DestroyDialog, ClosingGone
<1> QED
  BY <1>1, ContextFields
     DEF IInv, DestroyDialog, clip, TypeOK, Recorded, ReadsPend, PromptsPend,
         Carried, ClosingGone, SettledOnce

LEMMA DisposeIInv ==
  ASSUME IInv, NEW t \in Terminals, Dispose(t)
  PROVE  IInv'
<1> USE DEF IInv, Dispose
<1>1. TypeOK'
  BY DEF TypeOK, Settle, End
<1>2. Recorded' /\ SettledOnce'
  <2>1. CASE state[t] # None
    BY <2>1, SettleEnd DEF TypeOK
  <2>2. CASE state[t] = None
    BY <2>2, NoneAssumption DEF TypeOK, End, Recorded, SettledOnce
  <2> QED
    BY <2>1, <2>2
<1>3. ReadsPend' /\ PromptsPend'
  BY DEF TypeOK, End, ReadsPend, PromptsPend, Context
<1>4. Carried'
  BY DEF TypeOK, End, Carried
<1>5. ClosingGone'
  BY DEF ClosingGone
<1> QED
  BY <1>1, <1>2, <1>3, <1>4, <1>5

-----------------------------------------------------------------------------
LEMMA NextIInv == IInv /\ [Next]_vars => IInv'
<1> SUFFICES ASSUME IInv, [Next]_vars PROVE IInv'
  OBVIOUS
<1>1. ASSUME NEW t \in Terminals,
             \/ Paste(t) \/ TextReceived(t)
             \/ Write(t) \/ AskToWrite(t) \/ WriteResponse(t)
      PROVE  IInv'
  <2> USE DEF Paste, TextReceived, Write, AskToWrite, WriteResponse, clip, IInv
  <2>1. UNCHANGED <<alive, state, dialog, owed, reads, prompts, closing>>
    BY <1>1
  <2>2. TypeOK'
    BY <1>1, <2>1 DEF TypeOK
  <2>3. SettledOnce'
    BY <1>1 DEF SettledOnce
  <2>4. Recorded' /\ ReadsPend' /\ PromptsPend' /\ Carried' /\ ClosingGone'
    BY <2>1 DEF Recorded, ReadsPend, PromptsPend, Carried, ClosingGone
  <2> QED
    BY <2>2, <2>3, <2>4
<1>2. CASE UNCHANGED vars
  BY <1>2 DEF IInv, vars, clip, TypeOK, Recorded, ReadsPend, PromptsPend,
              Carried, ClosingGone, SettledOnce
<1> QED
  BY <1>1, <1>2, ReadClipboardIInv, ReadDoneIInv, RespondIInv,
     DestroyDialogIInv, DisposeIInv DEF Next

LEMMA Invariance == Spec => []IInv
BY InitIInv, NextIInv, PTL DEF Spec

-----------------------------------------------------------------------------
\* Every variable keeps its type, and clip_dialog is set only along with a
\* request.  (ghostty_terminal.c, the clip_ fields.)
THEOREM TypeCorrect == Spec => []TypeOK
BY Invariance, PTL DEF IInv

\* No request is completed or denied once ghostty has freed it, whatever the
\* addresses it reuses.  (main.c, "settles the request exactly once".)
THEOREM NeverSettledTwice == Spec => []SettledOnce
BY Invariance, PTL DEF IInv

\* A request ghostty waits for is on its terminal's record, and exactly one of
\* a read and a dialog will settle it.  (main.c, "Returning STARTED promises".)
THEOREM PromiseAlwaysKept == Spec => []PromiseKept
<1>1. IInv => PromiseKept
  <2> SUFFICES ASSUME IInv, NEW a \in Addresses, NEW t \in Terminals
               PROVE  /\ owed[a] = t <=> (t \in alive /\ state[t] = a)
                      /\ owed[a] = t =>
                            ((Ctx(t, a) \in reads) <=> (Ctx(t, a) \notin prompts))
    BY DEF PromiseKept
  <2>1. owed[a] = t <=> (t \in alive /\ state[t] = a)
    BY DEF IInv, Recorded
  <2>2. ASSUME owed[a] = t
        PROVE  (Ctx(t, a) \in reads) <=> (Ctx(t, a) \notin prompts)
    BY <2>1, <2>2, ContextFields DEF IInv, ReadsPend, PromptsPend, Carried
  <2> QED
    BY <2>1, <2>2
<1> QED
  BY <1>1, Invariance, PTL

\* A terminal that is gone does not write the clipboard, though a dialog it
\* opened may still be answered.  (main.c, clipboard_write_response_cb.)
THEOREM WritersLive == Spec => DeadDoNotWrite
<1>1. [Next]_vars => [board' # board => board' \in alive]_vars
  BY DEF Next, vars, ReadClipboard, ReadDone, Respond, DestroyDialog, Paste,
         TextReceived, Write, AskToWrite, WriteResponse, Dispose
<1> QED
  BY <1>1, PTL DEF Spec, DeadDoNotWrite

-----------------------------------------------------------------------------
(* TmuxCompat: lists                                                       *)

LEMMA SeqOK ==
  ASSUME NEW S, NEW s \in Seq(S)
  PROVE  /\ Len(s) \in Nat /\ DOMAIN s = 1 .. Len(s)
         /\ \A i \in 1 .. Len(s) : s[i] \in S
         /\ ToSet(s) \subseteq S
         /\ s = <<>> <=> Len(s) = 0
         /\ s = <<>> <=> ToSet(s) = {}
<1>1. /\ Len(s) \in Nat /\ DOMAIN s = 1 .. Len(s) /\ \A i \in 1 .. Len(s) : s[i] \in S
  OBVIOUS
<1>2. ToSet(s) \subseteq S
  BY <1>1 DEF ToSet
<1>3. s = <<>> <=> Len(s) = 0
  BY EmptySeq
<1>4. ToSet(s) = {} <=> Len(s) = 0
  <2>1. CASE Len(s) = 0
    BY <1>1, <2>1 DEF ToSet
  <2>2. CASE Len(s) # 0
    <3>1. 1 \in DOMAIN s
      BY <1>1, <2>2
    <3> QED BY <2>2, <3>1 DEF ToSet
  <2> QED BY <2>1, <2>2
<1> QED BY <1>1, <1>2, <1>3, <1>4

\* t is s with one more element, its i-th.
Skips(s, t, i) ==
    /\ Len(t) = Len(s) + 1
    /\ i \in 1 .. Len(t)
    /\ \A j \in 1 .. Len(s) : s[j] = IF j < i THEN t[j] ELSE t[j + 1]

LEMMA SkipsOK ==
  ASSUME NEW S, NEW s \in Seq(S), NEW t \in Seq(S), NEW i, Skips(s, t, i)
  PROVE  /\ ToSet(t) = ToSet(s) \cup {t[i]}
         /\ IsInjective(t) => IsInjective(s) /\ t[i] \notin ToSet(s)
         /\ IsInjective(s) /\ t[i] \notin ToSet(s) => IsInjective(t)
<1> DEFINE n == Len(s)
           up(j) == IF j < i THEN j ELSE j + 1
<1>1. /\ n \in Nat /\ DOMAIN s = 1 .. n /\ DOMAIN t = 1 .. n + 1 /\ i \in 1 .. n + 1
      /\ \A j \in 1 .. n : s[j] = IF j < i THEN t[j] ELSE t[j + 1]
  BY SeqOK DEF Skips
<1> HIDE DEF n
<1>2. \A j \in 1 .. n : up(j) \in 1 .. n + 1 /\ up(j) # i /\ s[j] = t[up(j)]
  BY <1>1
<1>3. \A j, k \in 1 .. n : up(j) = up(k) => j = k
  BY <1>1
<1>4. \A k \in 1 .. n + 1 : k # i => \E j \in 1 .. n : up(j) = k
  <2> SUFFICES ASSUME NEW k \in 1 .. n + 1, k # i
               PROVE  \E j \in 1 .. n : up(j) = k
    OBVIOUS
  <2>1. CASE k < i
    <3>1. k \in 1 .. n /\ up(k) = k
      BY <1>1, <2>1
    <3> QED BY <3>1
  <2>2. CASE k > i
    <3>1. k - 1 \in 1 .. n /\ up(k - 1) = k
      BY <1>1, <2>2
    <3> QED BY <3>1
  <2> QED BY <1>1, <2>1, <2>2
<1> HIDE DEF up
<1>5. ToSet(t) = ToSet(s) \cup {t[i]}
  <2>1. \A x \in ToSet(t) : x = t[i] \/ x \in ToSet(s)
    <3> SUFFICES ASSUME NEW k \in 1 .. n + 1, k # i
                 PROVE  t[k] \in ToSet(s)
      BY <1>1 DEF ToSet
    <3>1. PICK j \in 1 .. n : up(j) = k
      BY <1>4
    <3> QED BY <1>1, <1>2, <3>1 DEF ToSet
  <2>2. \A x \in ToSet(s) : x \in ToSet(t)
    BY <1>1, <1>2 DEF ToSet
  <2>3. t[i] \in ToSet(t)
    BY <1>1 DEF ToSet
  <2> QED BY <2>1, <2>2, <2>3
<1>6. ASSUME IsInjective(t) PROVE IsInjective(s) /\ t[i] \notin ToSet(s)
  <2>1. IsInjective(s)
    BY <1>1, <1>2, <1>3, <1>6 DEF IsInjective
  <2>2. t[i] \notin ToSet(s)
    <3> SUFFICES ASSUME NEW j \in 1 .. n, s[j] = t[i]
                 PROVE  FALSE
      BY <1>1 DEF ToSet
    <3>1. up(j) \in DOMAIN t /\ i \in DOMAIN t /\ up(j) # i /\ t[up(j)] = t[i]
      BY <1>1, <1>2
    <3> QED BY <1>6, <3>1 DEF IsInjective
  <2> QED BY <2>1, <2>2
<1>7. ASSUME IsInjective(s), t[i] \notin ToSet(s) PROVE IsInjective(t)
  <2> SUFFICES ASSUME NEW a \in 1 .. n + 1, NEW b \in 1 .. n + 1, t[a] = t[b]
               PROVE  a = b
    BY <1>1 DEF IsInjective
  <2>1. CASE a = i /\ b = i
    BY <2>1
  <2>2. CASE a = i /\ b # i
    <3>1. PICK k \in 1 .. n : up(k) = b
      BY <1>4, <2>2
    <3> QED BY <1>1, <1>2, <1>7, <2>2, <3>1 DEF ToSet
  <2>3. CASE a # i /\ b = i
    <3>1. PICK j \in 1 .. n : up(j) = a
      BY <1>4, <2>3
    <3> QED BY <1>1, <1>2, <1>7, <2>3, <3>1 DEF ToSet
  <2>4. CASE a # i /\ b # i
    <3>1. PICK j \in 1 .. n : up(j) = a
      BY <1>4, <2>4
    <3>2. PICK k \in 1 .. n : up(k) = b
      BY <1>4, <2>4
    <3>3. s[j] = s[k]
      BY <1>2, <3>1, <3>2
    <3>4. j = k
      BY <1>1, <1>7, <3>3 DEF IsInjective
    <3> QED BY <3>1, <3>2, <3>4
  <2> QED BY <2>1, <2>2, <2>3, <2>4
<1> QED BY <1>5, <1>6, <1>7

LEMMA RemoveAtOK ==
  ASSUME NEW S, NEW s \in Seq(S), NEW i \in 1 .. Len(s)
  PROVE  RemoveAt(s, i) \in Seq(S) /\ Skips(RemoveAt(s, i), s, i)
<1> DEFINE l == SubSeq(s, 1, i - 1)
           r == SubSeq(s, i + 1, Len(s))
           c == l \o r
<1>1. l \in Seq(S) /\ Len(l) = i - 1 /\ \A j \in 1 .. i - 1 : l[j] = s[j]
  BY SubSeqProperties
<1>2. r \in Seq(S) /\ Len(r) = Len(s) - i /\ \A j \in 1 .. Len(s) - i : r[j] = s[i + j]
  BY SubSeqProperties
<1>3. c = RemoveAt(s, i)
  BY DEF RemoveAt
<1> HIDE DEF l, r
<1>4. /\ c \in Seq(S) /\ Len(c) = Len(l) + Len(r)
      /\ \A j \in 1 .. Len(l) + Len(r) : c[j] = IF j <= Len(l) THEN l[j] ELSE r[j - Len(l)]
  BY <1>1, <1>2, ConcatProperties
<1> HIDE DEF c
<1>5. Len(s) \in Nat /\ Len(s) = Len(c) + 1 /\ Len(c) = Len(s) - 1 /\ i \in 1 .. Len(s)
  BY <1>1, <1>2, <1>4
<1>6. ASSUME NEW j \in 1 .. Len(c)
      PROVE  c[j] = IF j < i THEN s[j] ELSE s[j + 1]
  <2>1. CASE j < i
    BY <1>1, <1>2, <1>4, <1>5, <2>1
  <2>2. CASE ~(j < i)
    <3>1. /\ ~(j <= Len(l)) /\ j \in 1 .. Len(l) + Len(r)
          /\ j - Len(l) \in 1 .. Len(s) - i /\ i + (j - Len(l)) = j + 1
      BY <1>1, <1>2, <1>5, <2>2
    <3>2. c[j] = r[j - Len(l)]
      BY <1>4, <3>1
    <3>3. r[j - Len(l)] = s[j + 1]
      BY <1>2, <3>1
    <3> QED BY <2>2, <3>2, <3>3
  <2> QED BY <2>1, <2>2
<1> QED BY <1>3, <1>4, <1>5, <1>6 DEF Skips

LEMMA RemoveFirstOK ==
  ASSUME NEW S, NEW s \in Seq(S), IsInjective(s), NEW e \in ToSet(s)
  PROVE  /\ RemoveFirst(s, e) \in Seq(S) /\ IsInjective(RemoveFirst(s, e))
         /\ ToSet(RemoveFirst(s, e)) = ToSet(s) \ {e}
         /\ Len(s) = Len(RemoveFirst(s, e)) + 1
<1> DEFINE I == {i \in 1 .. Len(s) : s[i] = e}
           k == CHOOSE x \in I : \A y \in I : x =< y
           t == RemoveAt(s, k)
<1>1. s \in Seq(S) /\ IsInjective(s) /\ Len(s) \in Nat /\ DOMAIN s = 1 .. Len(s)
  BY SeqOK
<1>2. PICK i \in 1 .. Len(s) : s[i] = e
  BY <1>1 DEF ToSet
<1>3. I = {i}
  BY <1>1, <1>2 DEF IsInjective
<1>4. k = i
  BY <1>3
<1>5. RemoveFirst(s, e) = t
  BY <1>2 DEF RemoveFirst, SelectInSeq, Min
<1> HIDE DEF k, I
<1>6. t \in Seq(S) /\ Skips(t, s, i)
  BY <1>1, <1>4, RemoveAtOK
<1>7. Len(s) = Len(t) + 1
  BY <1>6 DEF Skips
<1> HIDE DEF t
<1>8. ToSet(s) = ToSet(t) \cup {e} /\ IsInjective(t) /\ e \notin ToSet(t)
  BY <1>1, <1>2, <1>6, SkipsOK
<1> QED BY <1>5, <1>6, <1>7, <1>8

LEMMA AppendOK ==
  ASSUME NEW S, NEW s \in Seq(S), IsInjective(s), NEW e \in S, e \notin ToSet(s)
  PROVE  /\ Append(s, e) \in Seq(S) /\ IsInjective(Append(s, e))
         /\ ToSet(Append(s, e)) = ToSet(s) \cup {e}
<1> DEFINE t == Append(s, e)
           i == Len(s) + 1
<1>1. Len(s) \in Nat /\ DOMAIN s = 1 .. Len(s)
  BY SeqOK
<1>2. t \in Seq(S) /\ t[i] = e /\ Skips(s, t, i)
  BY <1>1 DEF Skips
<1> HIDE DEF t
<1>3. ToSet(t) = ToSet(s) \cup {t[i]} /\ IsInjective(t)
  BY <1>2, SkipsOK
<1> QED BY <1>2, <1>3 DEF t

LEMMA InsertAtOK ==
  ASSUME NEW S, NEW s \in Seq(S), NEW i \in 1 .. Len(s) + 1, NEW e \in S
  PROVE  /\ InsertAt(s, i, e) \in Seq(S) /\ InsertAt(s, i, e)[i] = e
         /\ Skips(s, InsertAt(s, i, e), i)
<1> DEFINE l == SubSeq(s, 1, i - 1)
           m == l \o <<e>>
           r == SubSeq(s, i, Len(s))
           t == m \o r
<1>1. Len(s) \in Nat
  OBVIOUS
<1>2. l \in Seq(S) /\ Len(l) = i - 1 /\ \A j \in 1 .. i - 1 : l[j] = s[j]
  BY <1>1, SubSeqProperties
<1>3. /\ r \in Seq(S) /\ Len(r) = Len(s) + 1 - i
      /\ \A j \in 1 .. Len(s) + 1 - i : r[j] = s[i + j - 1]
  BY <1>1, SubSeqProperties
<1>4. t = InsertAt(s, i, e)
  BY DEF InsertAt
<1> HIDE DEF l, r
<1>5. <<e>> \in Seq(S) /\ Len(<<e>>) = 1 /\ <<e>>[1] = e
  OBVIOUS
<1>6. m \in Seq(S) /\ Len(m) = i /\ m[i] = e /\ \A j \in 1 .. i - 1 : m[j] = s[j]
  <2>1. /\ m \in Seq(S) /\ Len(m) = Len(l) + 1
        /\ \A j \in 1 .. Len(l) + 1 : m[j] = IF j <= Len(l) THEN l[j] ELSE <<e>>[j - Len(l)]
    BY <1>2, <1>5, ConcatProperties
  <2> HIDE DEF m
  <2>2. Len(m) = i /\ i \in 1 .. Len(l) + 1 /\ ~(i <= Len(l)) /\ i - Len(l) = 1
    BY <1>1, <1>2, <2>1
  <2>3. m[i] = e
    BY <1>5, <2>1, <2>2
  <2>4. \A j \in 1 .. i - 1 : m[j] = s[j]
    BY <1>1, <1>2, <2>1
  <2> QED BY <2>1, <2>2, <2>3, <2>4
<1> HIDE DEF m
<1>7. /\ t \in Seq(S) /\ Len(t) = Len(m) + Len(r)
      /\ \A j \in 1 .. Len(m) + Len(r) : t[j] = IF j <= Len(m) THEN m[j] ELSE r[j - Len(m)]
  BY <1>3, <1>6, ConcatProperties
<1> HIDE DEF t
<1>8. Len(t) = Len(s) + 1 /\ i \in 1 .. Len(t) /\ t[i] = e
  BY <1>1, <1>3, <1>6, <1>7
<1>9. ASSUME NEW j \in 1 .. Len(s)
      PROVE  s[j] = IF j < i THEN t[j] ELSE t[j + 1]
  <2>1. CASE j < i
    BY <1>1, <1>3, <1>6, <1>7, <2>1
  <2>2. CASE ~(j < i)
    <3>1. /\ ~(j + 1 <= Len(m)) /\ j + 1 \in 1 .. Len(m) + Len(r)
          /\ j + 1 - Len(m) \in 1 .. Len(s) + 1 - i /\ i + (j + 1 - Len(m)) - 1 = j
      BY <1>1, <1>3, <1>6, <2>2
    <3>2. t[j + 1] = r[j + 1 - Len(m)]
      BY <1>7, <3>1
    <3>3. r[j + 1 - Len(m)] = s[j]
      BY <1>3, <3>1
    <3> QED BY <2>2, <3>2, <3>3
  <2> QED BY <2>1, <2>2
<1> QED BY <1>4, <1>7, <1>8, <1>9 DEF Skips

-----------------------------------------------------------------------------
(* TmuxCompat: the invariant                                               *)

At(w) == ToSet(panes[w])
Ids   == {NoPane} \cup 1 .. made

Splitting == {c \in Clients : run[c].pc = "split"}

\* The steps of each command.
Phase(r) ==
    /\ r.pc = "split" => r.op = "split"
    /\ r.pc = "type"  => r.op \in {"split", "send"}
    /\ r.pc \in {"close", "list"} => r.op = "kill"
    /\ r.pc = "save"  => r.op \in Writers

\* A command is about panes that have been made.
Apt(r) == Phase(r) /\ {r.pane, r.st.leader, r.st.last} \subseteq Ids

\* What holds whatever happens; before claude runs nothing has.
Shape ==
    /\ \A w \in Ws : IsInjective(panes[w]) /\ At(w) \subseteq 1 .. made
    /\ made + Cardinality(Splitting) <= MaxPanes
    /\ \A c \in Clients : Apt(run[c])
    /\ {file.leader, file.last, typed.for} \subseteq Ids
    /\ mates \subseteq 1 .. made
    /\ team # "on" => /\ \A c \in Clients : ~Running(c)
                      /\ mates = {} /\ past = Clean
                      /\ file.last = NoPane /\ typed.for = NoPane

\* The workspace of the team, as long as the number in the file is its own.
Home == order[file.ws]

\* A command loaded the file of this team.
AtHome(r) == r.st.ws = file.ws /\ (r.op # "send" => r.st.leader = file.leader)

\* All that the team made is in its workspace, and text has gone where it should.
Homes ==
    /\ file.ws \in DOMAIN order
    /\ file.leader \notin mates
    /\ \A w \in Ws \ {Home} : At(w) \cap mates = {}
    /\ \A c \in Clients : Running(c) => AtHome(run[c])
    /\ typed.for \in At(Home) => typed.got = typed.for

Bare == mates \cap Open = {}

\* A pane for the next split to go below: a teammate's, or none because there are
\* no teammates, as long as the team is clean.
Good(q) ==
    /\ q \in {NoPane} \cup (At(Home) \ {file.leader})
    /\ past = Clean => IF q = NoPane THEN Bare ELSE q \in mates

\* A command in progress holds a good pane or is about to replace the one it
\* closed, and the file has a good one unless the command is about to save.
Held(r) ==
    /\ Good(r.st.last) \/ (r.pc = "list" /\ r.st.last = r.pane)
    /\ r.pc \in {"split", "close", "type"} => Good(file.last)
    /\ past = Clean /\ r.pc = "split" => IF r.down THEN r.pane \in mates ELSE Bare

Stacked == \A p, q \in mates \cap Open : column[p] = column[q]

Mates ==
    /\ \A c, d \in Writing : c = d
    /\ Writing = {} => Good(file.last)
    /\ \A c \in Writing : Held(run[c])
    /\ past = Clean => Stacked

TeamInv ==
    /\ TeamTypeOK /\ Shape
    /\ team = "on" /\ past # Renumbered => Homes
    /\ team = "on" /\ past < Meddled => Mates

-----------------------------------------------------------------------------
(* What the parts of a step do                                             *)

LEMMA NumbersOK ==
  /\ NumWs \in Nat /\ MaxPanes \in Nat /\ 1 \in Ws /\ Ws \subseteq Pane
  /\ NoPane \notin Pane /\ NoPane \in Nat /\ Pane \subseteq Nat /\ Attempts \in Nat /\ Attempts >= 1
  /\ Ws \subseteq Number
BY TeamAssumption DEF Ws, Number, Pane, NoPane

LEMMA MarksOK ==
  /\ \A m, n \in Mark : /\ n >= m /\ m >= n => m = n
                        /\ n >= m /\ n = Clean => m = Clean
                        /\ n >= m /\ n < Meddled => m < Meddled
                        /\ n >= m /\ n # Renumbered => m # Renumbered
                        /\ m < Meddled => m # Renumbered
                        /\ n >= m \/ m >= n
                        /\ m = Clean => m < Meddled
                        /\ m >= m
                        /\ m >= Meddled => ~(m < Meddled)
                        /\ m >= Renumbered => m = Renumbered
  /\ {Clean, Aside, Meddled, Renumbered} \subseteq Mark
  /\ Aside # Clean /\ Meddled # Renumbered
BY DEF Mark, Clean, Aside, Meddled, Renumbered

\* The worse of two marks.
LEMMA NotedOK ==
  ASSUME past \in Mark, NEW m \in Mark, Noted(m)
  PROVE  past' \in Mark /\ past' >= past /\ past' >= m /\ (m = Clean => past' = past)
<1> DEFINE S == {past, m}
<1>1. past \in Int /\ m \in Int /\ (m = Clean => past >= m)
  BY DEF Mark, Clean, Renumbered
<1>2. \A x \in S : (\A y \in S : x >= y) => x = IF past >= m THEN past ELSE m
  BY <1>1
<1>3. \E x \in S : \A y \in S : x >= y
  BY <1>1
<1> HIDE DEF S
<1>4. Max(S) = IF past >= m THEN past ELSE m
  BY <1>2, <1>3 DEF Max
<1>5. past' = IF past >= m THEN past ELSE m
  BY <1>4 DEF Noted, S
<1> QED BY <1>1, <1>5

\* A writer that begins while another is at work meddles.
LEMMA NotedAlsoOK ==
  ASSUME past \in Mark, NEW m \in Mark, NotedAlso(m)
  PROVE  /\ past' \in Mark /\ past' >= past
         /\ past' < Meddled => Writing = {} /\ past' >= m
         /\ past' # Renumbered => m # Renumbered
<1>1. CASE Writing = {} \/ m = Renumbered
  <2>1. Noted(m)
    BY <1>1 DEF NotedAlso
  <2>2. past' \in Mark /\ past' >= past /\ past' >= m
    BY <2>1, NotedOK
  <2> QED BY <1>1, <2>2, MarksOK
<1>2. CASE ~(Writing = {} \/ m = Renumbered)
  <2>1. Noted(Meddled)
    BY <1>2 DEF NotedAlso
  <2>2. past' \in Mark /\ past' >= past /\ past' >= Meddled
    BY <2>1, NotedOK, MarksOK
  <2> QED BY <1>2, <2>2, MarksOK
<1> QED BY <1>1, <1>2

\* One process moves.
LEMMA RunOK ==
  ASSUME run \in [Clients -> Command], NEW c \in Clients, NEW r \in Command,
         run' = [run EXCEPT ![c] = r]
  PROVE  /\ run' \in [Clients -> Command] /\ run'[c] = r
         /\ \A d \in Clients \ {c} : run'[d] = run[d]
         /\ Writing' = (Writing \ {c}) \cup (IF r.pc # "idle" /\ r.op \in Writers THEN {c} ELSE {})
         /\ Splitting' = (Splitting \ {c}) \cup (IF r.pc = "split" THEN {c} ELSE {})
<1>1. /\ run' \in [Clients -> Command] /\ run'[c] = r
      /\ \A d \in Clients \ {c} : run'[d] = run[d]
  OBVIOUS
<1>2. Writing' = (Writing \ {c}) \cup (IF r.pc # "idle" /\ r.op \in Writers THEN {c} ELSE {})
  BY <1>1 DEF Writing, Running
<1>3. Splitting' = (Splitting \ {c}) \cup (IF r.pc = "split" THEN {c} ELSE {})
  BY <1>1 DEF Splitting
<1> QED BY <1>1, <1>2, <1>3

\* So many panes are going to be made.
LEMMA SplittingOK ==
  /\ IsFiniteSet(Splitting) /\ Cardinality(Splitting) \in Nat
  /\ \A c : /\ Cardinality(Splitting \cup {c}) <= Cardinality(Splitting) + 1
            /\ Cardinality(Splitting \ {c}) <= Cardinality(Splitting)
            /\ Cardinality(Splitting \cup {c}) \in Nat /\ Cardinality(Splitting \ {c}) \in Nat
            /\ c \in Splitting => /\ Cardinality(Splitting \ {c}) = Cardinality(Splitting) - 1
                                  /\ Cardinality(Splitting) # 0
<1>1. Splitting \in SUBSET Clients /\ IsFiniteSet(Clients)
  BY TeamAssumption DEF Splitting
<1>2. IsFiniteSet(Splitting)
  BY <1>1, FS_Subset
<1>3. Cardinality(Splitting) \in Nat
  BY <1>2, FS_CardinalityType
<1>4. ASSUME NEW c
      PROVE  /\ Cardinality(Splitting \cup {c}) <= Cardinality(Splitting) + 1
             /\ Cardinality(Splitting \ {c}) <= Cardinality(Splitting)
             /\ Cardinality(Splitting \cup {c}) \in Nat /\ Cardinality(Splitting \ {c}) \in Nat
             /\ c \in Splitting => /\ Cardinality(Splitting \ {c}) = Cardinality(Splitting) - 1
                                   /\ Cardinality(Splitting) # 0
  <2>1. Cardinality(Splitting \cup {c}) = IF c \in Splitting THEN Cardinality(Splitting)
                                         ELSE Cardinality(Splitting) + 1
    BY <1>2, FS_AddElement
  <2>2. Cardinality(Splitting \ {c}) = IF c \in Splitting THEN Cardinality(Splitting) - 1
                                      ELSE Cardinality(Splitting)
    BY <1>2, FS_RemoveElement
  <2>3. Cardinality(Splitting \ {c}) \in Nat
    BY <1>2, FS_RemoveElement, FS_CardinalityType
  <2> QED BY <1>3, <2>1, <2>2, <2>3
<1> QED BY <1>2, <1>3, <1>4

LEMMA RoomOK ==
  ASSUME TeamTypeOK
  PROVE  /\ Room <=> made + Cardinality(Splitting) < MaxPanes
         /\ Room => made < MaxPanes
         /\ made \in Nat /\ made \in Pane /\ MaxPanes \in Nat /\ Cardinality(Splitting) \in Nat
         /\ made < MaxPanes => made + 1 \in Pane
<1>1. made \in Nat /\ made \in Pane /\ MaxPanes \in Nat /\ Cardinality(Splitting) \in Nat
  BY NumbersOK, SplittingOK DEF TeamTypeOK
<1>2. Room <=> made + Cardinality(Splitting) < MaxPanes
  BY DEF Room, Splitting
<1> QED BY <1>1, <1>2 DEF Pane

LEMMA AtOK ==
  ASSUME TeamTypeOK
  PROVE  /\ \A w \in Ws : At(w) \subseteq Pane /\ (w \in ToSet(order) <=> At(w) # {})
         /\ \A n : ToSet(PanesAt(n)) \subseteq Pane
         /\ \A n \in DOMAIN order : /\ order[n] \in Ws /\ Names(n) = {order[n]}
                                    /\ ToSet(PanesAt(n)) = At(order[n])
         /\ \A n : n \notin DOMAIN order => ToSet(PanesAt(n)) = {} /\ Names(n) = {}
         /\ ToSet(order) \subseteq Ws
<1>1. \A w \in Ws : panes[w] \in Seq(Pane) /\ (w \in ToSet(order)) = (panes[w] # <<>>)
  BY DEF TeamTypeOK
<1>2. ASSUME NEW w \in Ws
      PROVE  At(w) \subseteq Pane /\ (w \in ToSet(order) <=> At(w) # {})
  <2>1. At(w) \subseteq Pane /\ (panes[w] = <<>> <=> At(w) = {})
    BY <1>1, SeqOK DEF At
  <2> QED BY <1>1, <2>1
<1>3. /\ \A n \in DOMAIN order : order[n] \in Ws /\ ToSet(PanesAt(n)) = At(order[n])
      /\ ToSet(order) \subseteq Ws
  <2>1. order \in Seq(Ws)
    BY DEF TeamTypeOK
  <2>2. \A n \in DOMAIN order : order[n] \in Ws
    BY <2>1
  <2>3. ToSet(order) \subseteq Ws
    BY <2>1, SeqOK
  <2> QED BY <2>2, <2>3 DEF PanesAt, At
<1>4. \A n : n \notin DOMAIN order => ToSet(PanesAt(n)) = {}
  BY DEF PanesAt, ToSet
<1> QED BY <1>2, <1>3, <1>4 DEF Names

\* A split puts one new pane into one workspace.
LEMMA SplitPaneOK ==
  ASSUME TeamTypeOK, Shape, NEW w \in Ws, NEW p \in At(w), NEW down \in BOOLEAN,
         made < MaxPanes, SplitPane(w, p, down)
  PROVE  /\ made' \in Pane /\ made' = made + 1 /\ column' \in [Pane -> Pane]
         /\ panes' \in [Ws -> Seq(Pane)]
         /\ \A v \in Ws : /\ IsInjective(panes'[v])
                          /\ At(v)' = At(v) \cup (IF v = w THEN {made'} ELSE {})
                          /\ (panes'[v] # <<>>) = (panes[v] # <<>>)
         /\ \A q \in Pane \ {made'} : column'[q] = column[q]
         /\ down => column'[made'] = column[p]
<1>1. /\ made \in Pane /\ panes[w] \in Seq(Pane)
      /\ IsInjective(panes[w]) /\ At(w) \subseteq 1 .. made
  BY AtOK DEF TeamTypeOK, Shape
<1>2. made' = made + 1 /\ made' \in Pane /\ made' \notin At(w)
  BY <1>1, NumbersOK DEF SplitPane, Pane
<1> DEFINE t == Append(panes[w], made')
<1>3. t \in Seq(Pane) /\ IsInjective(t) /\ ToSet(t) = At(w) \cup {made'}
  BY <1>1, <1>2, AppendOK DEF At
<1>4. panes \in [Ws -> Seq(Pane)] /\ panes' = [panes EXCEPT ![w] = t]
  BY DEF TeamTypeOK, SplitPane
<1> HIDE DEF t
<1>5. /\ panes' \in [Ws -> Seq(Pane)] /\ panes'[w] = t
      /\ \A v \in Ws \ {w} : panes'[v] = panes[v]
  BY <1>3, <1>4
<1>6. panes[w] # <<>> /\ t # <<>>
  BY <1>1, <1>3, SeqOK DEF At
<1>7. \A v \in Ws : /\ IsInjective(panes'[v])
                    /\ At(v)' = At(v) \cup (IF v = w THEN {made'} ELSE {})
                    /\ (panes'[v] # <<>>) = (panes[v] # <<>>)
  BY <1>3, <1>5, <1>6 DEF Shape, At
<1>8. p \in Pane
  BY AtOK
<1>9. /\ column' \in [Pane -> Pane] /\ \A q \in Pane \ {made'} : column'[q] = column[q]
      /\ down => column'[made'] = column[p]
  BY <1>2, <1>8 DEF SplitPane, TeamTypeOK
<1> QED BY <1>2, <1>5, <1>7, <1>9

\* Closing takes a pane out of one workspace, which keeps others.
LEMMA ClosePaneOK ==
  ASSUME TeamTypeOK, Shape, NEW w \in Ws, NEW p \in At(w), Len(panes[w]) > 1, ClosePane(w, p)
  PROVE  /\ column' = column /\ panes' \in [Ws -> Seq(Pane)]
         /\ \A v \in Ws : /\ IsInjective(panes'[v])
                          /\ At(v)' = At(v) \ (IF v = w THEN {p} ELSE {})
                          /\ (panes'[v] # <<>>) = (panes[v] # <<>>)
<1>1. panes[w] \in Seq(Pane) /\ IsInjective(panes[w]) /\ p \in ToSet(panes[w])
  BY AtOK DEF TeamTypeOK, Shape, At
<1> DEFINE t == RemoveFirst(panes[w], p)
<1>2. /\ t \in Seq(Pane) /\ IsInjective(t) /\ ToSet(t) = At(w) \ {p}
      /\ Len(panes[w]) = Len(t) + 1
  BY <1>1, RemoveFirstOK DEF At
<1>3. /\ panes \in [Ws -> Seq(Pane)] /\ panes' = [panes EXCEPT ![w] = t]
      /\ column' = column
  BY DEF TeamTypeOK, ClosePane
<1> HIDE DEF t
<1>4. /\ panes' \in [Ws -> Seq(Pane)] /\ panes'[w] = t
      /\ \A v \in Ws \ {w} : panes'[v] = panes[v]
  BY <1>2, <1>3
<1>5. panes[w] # <<>> /\ t # <<>>
  BY <1>1, <1>2, SeqOK
<1>6. ASSUME NEW v \in Ws
      PROVE  /\ IsInjective(panes'[v])
             /\ At(v)' = At(v) \ (IF v = w THEN {p} ELSE {})
             /\ (panes'[v] # <<>>) = (panes[v] # <<>>)
  BY <1>2, <1>4, <1>5 DEF Shape, At
<1> QED BY <1>3, <1>4, <1>6

\* A set of numbers has a least.
LEMMA SmallestOK ==
  ASSUME NEW S \in SUBSET Nat, S # {}
  PROVE  Min(S) \in S
<1> DEFINE R == OpToRel(<, Nat)
<1>1. IsWellFoundedOn(R, Nat)
  BY NatLessThanWellFounded
<1>2. \A x, y \in Nat : x < y => <<x, y>> \in R
  BY DEF OpToRel
<1> HIDE DEF R
<1>3. PICK n \in S : \A m \in S : ~(<<m, n>> \in R)
  BY <1>1, WFMin
<1>4. \A m \in S : ~(m < n)
  BY <1>2, <1>3, Zenon
<1>5. \A m \in S : n <= m
  BY <1>4
<1> QED BY <1>5 DEF Min

LEMMA TypesOK ==
  ASSUME TeamTypeOK
  PROVE  /\ past \in Mark /\ file \in State /\ run \in [Clients -> Command]
         /\ file.ws \in Number /\ file.leader \in Pane \cup {NoPane} /\ file.last \in Pane \cup {NoPane}
         /\ Ids \subseteq Pane \cup {NoPane} /\ 1 .. made \subseteq Pane
<1>1. past \in Mark /\ file \in State /\ run \in [Clients -> Command]
  BY DEF TeamTypeOK
<1>2. 1 .. made \subseteq Pane
  BY RoomOK, NumbersOK DEF Pane
<1> QED BY <1>1, <1>2 DEF State, Ids

LEMMA BlankOK ==
  /\ Blank \in State /\ Idle \in Command /\ Apt(Idle)
  /\ Idle.pc = "idle" /\ Idle.op \notin Writers
  /\ Blank.last = NoPane /\ Blank.leader = NoPane
<1>1. Blank \in State /\ Blank.last = NoPane /\ Blank.leader = NoPane
  BY NumbersOK DEF Blank, State, Layout, NoPane, Pane, Number
<1>2. /\ Idle \in Command /\ Idle.pc = "idle" /\ Idle.op \notin Writers
      /\ Idle.pane = NoPane /\ Idle.st = Blank
  BY <1>1, NumbersOK DEF Idle, Command, NoPane, Pane, Writers
<1>3. Phase(Idle) /\ NoPane \in Ids
  BY <1>2 DEF Phase, Ids
<1> QED BY <1>1, <1>2, <1>3 DEF Apt

-----------------------------------------------------------------------------
(* The user                                                                *)

Text == [op : {"", "split", "send"}, for : Pane \cup {NoPane}, got : Pane \cup {NoPane}]

LEMMA TypedOK == TeamTypeOK <=>
    /\ order \in Seq(Ws) /\ IsInjective(order) /\ order # <<>>
    /\ panes \in [Ws -> Seq(Pane)]
    /\ \A w \in Ws : (w \in ToSet(order)) = (panes[w] # <<>>)
    /\ column \in [Pane -> Pane] /\ made \in Pane
    /\ team \in {"off", "asked", "on"}
    /\ file \in State /\ run \in [Clients -> Command] /\ typed \in Text
    /\ mates \subseteq Pane /\ past \in Mark
BY Zenon DEF TeamTypeOK, Text

\* Nothing of the team's is touched; panes are only closed or made, and a pane of
\* the team's workspace closed, or its number changed, is noted.
ByHandOnly ==
    /\ UNCHANGED <<team, file, run, typed, mates>>
    /\ past' >= past /\ (team # "on" => past' = past)
    /\ made' = made \/ (made' = made + 1 /\ Room)
    /\ \A w \in Ws : /\ IsInjective(panes'[w]) /\ At(w)' \subseteq 1 .. made'
                     /\ At(w)' \cap (1 .. made) \subseteq At(w)
    /\ \A q \in 1 .. made : column'[q] = column[q]
    /\ team = "on" /\ past' # Renumbered /\ file.ws \in DOMAIN order =>
          file.ws \in DOMAIN order' /\ order'[file.ws] = order[file.ws]
    /\ team = "on" /\ past' < Meddled /\ file.ws \in DOMAIN order =>
          At(order[file.ws]) \subseteq ToSet(panes'[order[file.ws]])

LEMMA ByHandOK ==
  ASSUME TeamInv, TeamTypeOK', ByHandOnly
  PROVE  TeamInv'
<1>1. /\ TeamTypeOK /\ Shape /\ past \in Mark /\ past' \in Mark /\ past' >= past
      /\ UNCHANGED <<team, file, run, typed, mates>>
      /\ past' = Clean => past = Clean
      /\ past' < Meddled => past < Meddled /\ past # Renumbered /\ past' # Renumbered
      /\ past' # Renumbered => past # Renumbered
  <2>1. TeamTypeOK /\ Shape /\ past \in Mark
    BY TypesOK DEF TeamInv
  <2>2. past' \in Mark
    BY Zenon DEF TeamTypeOK
  <2>3. past' >= past /\ UNCHANGED <<team, file, run, typed, mates>>
    BY DEF ByHandOnly
  <2> QED BY <2>1, <2>2, <2>3, MarksOK
<1>2. Splitting' = Splitting /\ Writing' = Writing /\ \A c : Running(c)' <=> Running(c)
  BY <1>1 DEF Splitting, Writing, Running
<1>3. /\ made \in Nat /\ made' \in Nat /\ made' >= made
      /\ 1 .. made \subseteq 1 .. made' /\ Ids \subseteq Ids'
  <2>1. made \in Nat /\ (made' = made \/ made' = made + 1)
    BY <1>1, RoomOK DEF ByHandOnly
  <2>2. made' \in Nat /\ made' >= made
    BY <2>1
  <2> QED BY <2>1, <2>2 DEF Ids
<1>4. Shape'
  <2>1. \A w \in Ws : IsInjective(panes'[w]) /\ At(w)' \subseteq 1 .. made'
    BY DEF ByHandOnly
  <2>2. made' + Cardinality(Splitting') <= MaxPanes
    <3>1. CASE made' = made
      BY <1>1, <1>2, <3>1 DEF Shape
    <3>2. CASE made' = made + 1 /\ Room
      BY <1>1, <1>2, <3>2, RoomOK
    <3> QED BY <3>1, <3>2 DEF ByHandOnly
  <2>3. \A c \in Clients : Apt(run[c])'
    BY <1>1, <1>3 DEF Shape, Apt, Phase
  <2>4. {file.leader, file.last, typed.for} \subseteq Ids' /\ mates' \subseteq 1 .. made'
    BY <1>1, <1>3 DEF Shape
  <2>5. team # "on" => /\ \A c \in Clients : ~Running(c)'
                       /\ mates' = {} /\ past' = Clean
                       /\ file'.last = NoPane /\ typed'.for = NoPane
    BY <1>1, <1>2 DEF Shape, ByHandOnly
  <2> QED BY <1>1, <2>1, <2>2, <2>3, <2>4, <2>5 DEF Shape
<1>5. ASSUME team = "on", past' # Renumbered
      PROVE  /\ Homes /\ Homes' /\ Home \in Ws /\ Home' = Home
             /\ \A w \in Ws : At(w)' \cap mates \subseteq At(w)
  <2>1. Homes
    BY <1>1, <1>5 DEF TeamInv
  <2>2. Home \in Ws /\ Home' = Home /\ file'.ws \in DOMAIN order'
    BY <1>1, <1>5, <2>1, AtOK DEF Homes, Home, ByHandOnly
  <2>3. \A w \in Ws : At(w)' \cap mates \subseteq At(w)
    BY <1>1 DEF Shape, ByHandOnly
  <2>4. \A w \in Ws \ {Home} : At(w)' \cap mates = {}
    BY <2>1, <2>3 DEF Homes
  <2>5. typed.for \in At(Home)' => typed.got = typed.for
    <3>1. At(Home)' \subseteq 1 .. made' /\ At(Home)' \cap (1 .. made) \subseteq At(Home)
      BY <2>2 DEF ByHandOnly
    <3>2. typed.for \in {NoPane} \cup 1 .. made
      BY <1>1 DEF Shape, Ids
    <3>3. NoPane \notin 1 .. made'
      BY DEF NoPane
    <3> QED BY <2>1, <2>2, <3>1, <3>2, <3>3 DEF Homes
  <2>6. \A c \in Clients : Running(c)' => AtHome(run[c])'
    BY <1>1, <1>2, <2>1 DEF Homes, AtHome
  <2>7. Homes'
    BY <1>1, <2>1, <2>2, <2>4, <2>5, <2>6 DEF Homes
  <2> QED BY <2>1, <2>2, <2>3, <2>7
<1>6. ASSUME team = "on", past' < Meddled PROVE Mates'
  <2>1. /\ Mates /\ Homes /\ Home \in Ws /\ Home' = Home
        /\ \A w \in Ws : At(w)' \cap mates \subseteq At(w)
    BY <1>1, <1>5, <1>6 DEF TeamInv
  <2>2. At(Home) \subseteq At(Home)'
    BY <1>6, <2>1 DEF Homes, Home, At, ByHandOnly
  <2>3. mates' \cap Open' \subseteq mates \cap Open
    BY <1>1, <2>1 DEF Open, At
  <2>4. Bare => Bare'
    BY <2>3 DEF Bare
  <2>5. ASSUME NEW q, Good(q) PROVE Good(q)'
    BY <1>1, <2>1, <2>2, <2>4, <2>5 DEF Good
  <2>6. Good(file.last) => Good(file.last)'
    BY <1>1, <2>5
  <2>7. ASSUME NEW c \in Clients, Held(run[c]) PROVE Held(run[c])'
    <3>1. Good(run[c].st.last) => Good(run[c].st.last)'
      BY <1>1, <2>5
    <3> QED BY <1>1, <2>4, <2>6, <2>7, <3>1 DEF Held
  <2>8. past' = Clean => Stacked'
    <3> SUFFICES ASSUME past' = Clean, NEW p \in mates' \cap Open', NEW q \in mates' \cap Open'
                 PROVE  column'[p] = column'[q]
      BY DEF Stacked
    <3>1. p \in mates \cap Open /\ q \in mates \cap Open /\ Stacked
      BY <1>1, <2>1, <2>3 DEF Mates
    <3>2. p \in 1 .. made /\ q \in 1 .. made
      BY <1>1, <3>1 DEF Shape
    <3> QED BY <3>1, <3>2 DEF Stacked, ByHandOnly
  <2> QED BY <1>1, <1>2, <2>1, <2>6, <2>7, <2>8 DEF Mates, Writing
<1> QED BY <1>1, <1>4, <1>5, <1>6 DEF TeamInv

\* What Renumbers says of the workspace of the team.
LEMMA RenumbersOK ==
  ASSUME TeamTypeOK, Renumbers, UNCHANGED <<team, file>>
  PROVE  /\ past' \in Mark /\ past' >= past /\ (team # "on" => past' = past)
         /\ team = "on" /\ past' # Renumbered /\ file.ws \in DOMAIN order =>
               file.ws \in DOMAIN order' /\ order'[file.ws] = order[file.ws]
<1>1. past \in Mark
  BY TypesOK
<1>2. CASE Team' = Team
  <2>1. past' \in Mark /\ past' = past /\ past' >= past
    BY <1>1, <1>2, NotedOK, MarksOK DEF Renumbers
  <2>2. ASSUME team = "on", file.ws \in DOMAIN order
        PROVE  file.ws \in DOMAIN order' /\ order'[file.ws] = order[file.ws]
    <3>1. (IF file.ws \in DOMAIN order' THEN {order'[file.ws]} ELSE {}) = {order[file.ws]}
      BY <1>2, <2>2 DEF Team, Names
    <3> QED BY <3>1
  <2> QED BY <2>1, <2>2
<1>3. CASE Team' # Team
  <2>1. team = "on"
    BY <1>3 DEF Team
  <2>2. past' \in Mark /\ past' >= past /\ past' >= Renumbered
    BY <1>1, <1>3, NotedOK, MarksOK DEF Renumbers
  <2> QED BY <2>1, <2>2, MarksOK
<1> QED BY <1>2, <1>3

LEMMA CloseByHandKeeps ==
  ASSUME TeamInv, NEW w \in Ws, NEW p \in Pane, CloseByHand(w, p)
  PROVE  TeamInv'
<1>1. /\ p \in At(w) /\ Len(panes[w]) > 1 /\ ClosePane(w, p)
      /\ Noted(IF w \in Team THEN Meddled ELSE Clean)
      /\ UNCHANGED <<order, made, team, file, run, typed, mates>>
  BY DEF CloseByHand, At
<1>2. TeamTypeOK /\ Shape /\ past \in Mark
  BY TypesOK DEF TeamInv
<1>3. /\ column' = column /\ panes' \in [Ws -> Seq(Pane)]
      /\ \A v \in Ws : /\ IsInjective(panes'[v])
                       /\ At(v)' = At(v) \ (IF v = w THEN {p} ELSE {})
                       /\ (panes'[v] # <<>>) = (panes[v] # <<>>)
  BY <1>1, <1>2, ClosePaneOK
<1>4. /\ past' \in Mark /\ past' >= past /\ (team # "on" => past' = past)
      /\ w \in Team => ~(past' < Meddled)
  <2>1. CASE w \in Team
    <3>1. past' \in Mark /\ past' >= past /\ past' >= Meddled
      BY <1>1, <1>2, <2>1, NotedOK, MarksOK
    <3> QED BY <2>1, <3>1, MarksOK DEF Team
  <2>2. CASE w \notin Team
    BY <1>1, <1>2, <2>2, NotedOK, MarksOK
  <2> QED BY <2>1, <2>2
<1>5. TeamTypeOK'
  <2>1. \A v \in Ws : (v \in ToSet(order)) = (panes'[v] # <<>>)
    BY <1>2, <1>3, TypedOK
  <2> QED BY <1>1, <1>2, <1>3, <1>4, <2>1, TypedOK DEF TeamTypeOK
<1>6. ByHandOnly
  <2>1. team = "on" /\ past' < Meddled /\ file.ws \in DOMAIN order =>
          At(order[file.ws]) \subseteq ToSet(panes'[order[file.ws]])
    <3> SUFFICES ASSUME team = "on", past' < Meddled, file.ws \in DOMAIN order
                 PROVE  At(order[file.ws]) \subseteq ToSet(panes'[order[file.ws]])
      OBVIOUS
    <3>1. Team = {order[file.ws]} /\ order[file.ws] \in Ws
      BY <1>2, AtOK DEF Team
    <3>2. order[file.ws] # w
      BY <1>4, <3>1
    <3> QED BY <1>3, <3>1, <3>2 DEF At
  <2>2. \A v \in Ws : /\ IsInjective(panes'[v]) /\ At(v)' \subseteq 1 .. made'
                      /\ At(v)' \cap (1 .. made) \subseteq At(v)
    BY <1>1, <1>2, <1>3 DEF Shape
  <2> QED BY <1>1, <1>3, <1>4, <2>1, <2>2 DEF ByHandOnly
<1> QED BY <1>5, <1>6, ByHandOK

LEMMA SplitByHandKeeps ==
  ASSUME TeamInv, NEW w \in Ws, NEW p \in Pane, NEW down \in BOOLEAN, SplitByHand(w, p, down)
  PROVE  TeamInv'
<1>1. /\ Room /\ p \in At(w) /\ SplitPane(w, p, down)
      /\ UNCHANGED <<order, team, file, run, typed, mates, past>>
  BY DEF SplitByHand, At
<1>2. TeamTypeOK /\ Shape /\ past \in Mark /\ made \in Nat /\ made < MaxPanes
  BY <1>1, TypesOK, RoomOK DEF TeamInv
<1>3. /\ made' \in Pane /\ made' = made + 1 /\ column' \in [Pane -> Pane]
      /\ panes' \in [Ws -> Seq(Pane)]
      /\ \A v \in Ws : /\ IsInjective(panes'[v])
                       /\ At(v)' = At(v) \cup (IF v = w THEN {made'} ELSE {})
                       /\ (panes'[v] # <<>>) = (panes[v] # <<>>)
      /\ \A q \in Pane \ {made'} : column'[q] = column[q]
  BY <1>1, <1>2, SplitPaneOK
<1>4. TeamTypeOK'
  <2>1. \A v \in Ws : (v \in ToSet(order)) = (panes'[v] # <<>>)
    BY <1>2, <1>3, TypedOK
  <2> QED BY <1>1, <1>2, <1>3, <2>1, TypedOK DEF TeamTypeOK
<1>5. ByHandOnly
  <2>1. \A v \in Ws : /\ IsInjective(panes'[v]) /\ At(v)' \subseteq 1 .. made'
                      /\ At(v)' \cap (1 .. made) \subseteq At(v)
    <3>1. \A v \in Ws : At(v) \subseteq 1 .. made
      BY <1>2 DEF Shape
    <3> QED BY <1>2, <1>3, <3>1
  <2>2. \A q \in 1 .. made : column'[q] = column[q]
    BY <1>2, <1>3, TypesOK
  <2>3. \A n \in DOMAIN order : At(order[n]) \subseteq ToSet(panes'[order[n]])
    BY <1>2, <1>3, AtOK DEF At
  <2>4. past' >= past
    BY <1>1, <1>2, MarksOK
  <2> QED BY <1>1, <1>3, <2>1, <2>2, <2>3, <2>4 DEF ByHandOnly
<1> QED BY <1>4, <1>5, ByHandOK

\* A workspace that is emptied, or filled with one new pane.
LEMMA RefilledOK ==
  ASSUME TeamTypeOK, Shape, NEW w \in Ws, NEW s,
         (s = <<>> /\ made' = made) \/ (s = <<made'>> /\ made' = made + 1 /\ Room),
         panes' = [panes EXCEPT ![w] = s]
  PROVE  /\ panes' \in [Ws -> Seq(Pane)] /\ panes'[w] = s /\ made' \in Pane
         /\ \A v \in Ws \ {w} : panes'[v] = panes[v]
         /\ \A v \in Ws : /\ IsInjective(panes'[v]) /\ At(v)' \subseteq 1 .. made'
                          /\ At(v)' \cap (1 .. made) \subseteq At(v)
<1>1. made \in Nat /\ made' \in Nat /\ made' >= made /\ made' \in Pane
  BY RoomOK
<1>2. s \in Seq(Pane) /\ IsInjective(s) /\ ToSet(s) \subseteq 1 .. made' /\ ToSet(s) \cap (1 .. made) = {}
  <2>1. CASE s = <<>>
    BY <2>1 DEF IsInjective, ToSet
  <2>2. CASE s = <<made'>> /\ made' = made + 1
    <3>1. s \in Seq(Pane) /\ IsInjective(s) /\ ToSet(s) = {made'}
      BY <1>1, <2>2 DEF IsInjective, ToSet
    <3>2. made' \notin 1 .. made /\ made' \in 1 .. made'
      BY <1>1, <2>2
    <3> QED BY <3>1, <3>2
  <2> QED BY <2>1, <2>2
<1>3. panes \in [Ws -> Seq(Pane)]
  BY TypedOK
<1>4. /\ panes' \in [Ws -> Seq(Pane)] /\ panes'[w] = s
      /\ \A v \in Ws \ {w} : panes'[v] = panes[v]
  BY <1>2, <1>3
<1>5. 1 .. made \subseteq 1 .. made'
  BY <1>1
<1>6. \A v \in Ws : /\ IsInjective(panes'[v]) /\ At(v)' \subseteq 1 .. made'
                    /\ At(v)' \cap (1 .. made) \subseteq At(v)
  BY <1>2, <1>4, <1>5 DEF Shape, At
<1> QED BY <1>1, <1>4, <1>6

LEMMA RemoveWorkspaceKeeps ==
  ASSUME TeamInv, NEW n \in Ws, RemoveWorkspace(n)
  PROVE  TeamInv'
<1>1. TeamTypeOK /\ Shape /\ order \in Seq(Ws) /\ IsInjective(order) /\ Len(order) \in Nat
  BY TypedOK, SeqOK DEF TeamInv
<1>2. PICK w : w = order[n]
  OBVIOUS
<1>3. /\ n \in 1 .. Len(order) /\ Len(order) > 1 /\ order' = RemoveAt(order, n)
      /\ panes' = [panes EXCEPT ![w] = <<>>] /\ Renumbers
      /\ UNCHANGED <<column, made, team, file, run, typed, mates>>
  BY <1>1, <1>2, SeqOK DEF RemoveWorkspace
<1>4. w \in Ws
  BY <1>1, <1>2, <1>3
<1>5. order' \in Seq(Ws) /\ Skips(order', order, n)
  BY <1>1, <1>3, RemoveAtOK
<1>6. /\ ToSet(order) = ToSet(order') \cup {w}
      /\ IsInjective(order') /\ w \notin ToSet(order')
  BY <1>1, <1>2, <1>5, SkipsOK
<1>7. order' # <<>>
  <2>1. Len(order) = Len(order') + 1
    BY <1>5 DEF Skips
  <2> QED BY <1>1, <1>3, <1>5, <2>1, SeqOK
<1>8. /\ panes' \in [Ws -> Seq(Pane)] /\ panes'[w] = <<>>
      /\ \A v \in Ws \ {w} : panes'[v] = panes[v]
      /\ \A v \in Ws : /\ IsInjective(panes'[v]) /\ At(v)' \subseteq 1 .. made'
                       /\ At(v)' \cap (1 .. made) \subseteq At(v)
  <2>1. PICK s : s = <<>>
    OBVIOUS
  <2>2. panes' = [panes EXCEPT ![w] = s]
    BY <1>3, <2>1
  <2> QED BY <1>1, <1>3, <1>4, <2>1, <2>2, RefilledOK
<1>9. /\ past' \in Mark /\ past' >= past /\ (team # "on" => past' = past)
      /\ team = "on" /\ past' # Renumbered /\ file.ws \in DOMAIN order =>
            file.ws \in DOMAIN order' /\ order'[file.ws] = order[file.ws]
  BY <1>1, <1>3, RenumbersOK
<1>10. \A v \in Ws : (v \in ToSet(order')) = (panes'[v] # <<>>)
  <2>1. \A v \in Ws : (v \in ToSet(order)) = (panes[v] # <<>>)
    BY <1>1, TypedOK
  <2>2. SUFFICES ASSUME NEW v \in Ws
                 PROVE  (v \in ToSet(order')) = (panes'[v] # <<>>)
    OBVIOUS
  <2>3. CASE v = w
    BY <1>6, <1>8, <2>3
  <2>4. CASE v # w
    <3>1. panes'[v] = panes[v] /\ (v \in ToSet(order')) = (v \in ToSet(order))
      BY <1>6, <1>8, <2>4
    <3> QED BY <2>1, <3>1
  <2> QED BY <2>3, <2>4
<1>11. TeamTypeOK'
  BY <1>1, <1>3, <1>5, <1>6, <1>7, <1>8, <1>9, <1>10, TypedOK DEF TeamTypeOK
<1>12. ASSUME team = "on", past' < Meddled, file.ws \in DOMAIN order
       PROVE  At(order[file.ws]) \subseteq ToSet(panes'[order[file.ws]])
  <2>1. order[file.ws] \in ToSet(order')
    BY <1>9, <1>12, MarksOK DEF ToSet
  <2>2. order[file.ws] \in Ws \ {w}
    BY <1>1, <1>6, <2>1, AtOK
  <2> QED BY <1>8, <2>2 DEF At
<1>13. ByHandOnly
  BY <1>3, <1>8, <1>9, <1>12 DEF ByHandOnly
<1> QED BY <1>11, <1>13, ByHandOK

LEMMA MoveWorkspaceKeeps ==
  ASSUME TeamInv, NEW from \in Ws, NEW to \in Ws, MoveWorkspace(from, to)
  PROVE  TeamInv'
<1>1. TeamTypeOK /\ Shape /\ order \in Seq(Ws) /\ IsInjective(order) /\ Len(order) \in Nat
  BY TypedOK, SeqOK DEF TeamInv
<1>2. PICK w, s : w = order[from] /\ s = RemoveAt(order, from)
  OBVIOUS
<1>3. /\ from \in 1 .. Len(order) /\ to \in 1 .. Len(order) /\ order' = InsertAt(s, to, w)
      /\ Renumbers
      /\ UNCHANGED <<panes, column, made, team, file, run, typed, mates>>
  BY <1>1, <1>2, SeqOK DEF MoveWorkspace
<1>4. w \in Ws
  BY <1>1, <1>2, <1>3
<1>5. s \in Seq(Ws) /\ Skips(s, order, from)
  BY <1>1, <1>2, <1>3, RemoveAtOK
<1>6. ToSet(order) = ToSet(s) \cup {w} /\ IsInjective(s) /\ w \notin ToSet(s)
  BY <1>1, <1>2, <1>5, SkipsOK
<1>7. to \in 1 .. Len(s) + 1
  BY <1>3, <1>5 DEF Skips
<1>8. order' \in Seq(Ws) /\ order'[to] = w /\ Skips(s, order', to)
  BY <1>3, <1>4, <1>5, <1>7, InsertAtOK
<1>9. ToSet(order') = ToSet(order) /\ IsInjective(order')
  BY <1>5, <1>6, <1>8, SkipsOK
<1>10. order' # <<>>
  BY <1>1, <1>8, <1>9, SeqOK, TypedOK
<1>11. /\ past' \in Mark /\ past' >= past /\ (team # "on" => past' = past)
       /\ team = "on" /\ past' # Renumbered /\ file.ws \in DOMAIN order =>
             file.ws \in DOMAIN order' /\ order'[file.ws] = order[file.ws]
  BY <1>1, <1>3, RenumbersOK
<1>12. TeamTypeOK'
  BY <1>1, <1>3, <1>8, <1>9, <1>10, <1>11, TypedOK DEF TeamTypeOK
<1>13. \A v \in Ws : /\ IsInjective(panes'[v]) /\ At(v)' \subseteq 1 .. made'
                     /\ At(v)' \cap (1 .. made) \subseteq At(v)
  BY <1>1, <1>3 DEF Shape, At
<1>14. ByHandOnly
  BY <1>3, <1>11, <1>13 DEF ByHandOnly, At
<1> QED BY <1>12, <1>14, ByHandOK

LEMMA AddWorkspaceKeeps ==
  ASSUME TeamInv, NEW w \in Ws, AddWorkspace(w)
  PROVE  TeamInv'
<1>1. TeamTypeOK /\ Shape /\ order \in Seq(Ws) /\ IsInjective(order) /\ Len(order) \in Nat
  BY TypedOK, SeqOK DEF TeamInv
<1>2. /\ Room /\ w \notin ToSet(order) /\ order' = Append(order, w)
      /\ made' = made + 1 /\ panes' = [panes EXCEPT ![w] = <<made'>>] /\ Renumbers
      /\ UNCHANGED <<column, team, file, run, typed, mates>>
  BY DEF AddWorkspace
<1>3. order' \in Seq(Ws) /\ IsInjective(order') /\ ToSet(order') = ToSet(order) \cup {w}
  BY <1>1, <1>2, AppendOK
<1>4. order' # <<>>
  BY <1>3, SeqOK
<1>5. PICK s : s = <<made'>>
  OBVIOUS
<1>6. /\ panes' \in [Ws -> Seq(Pane)] /\ panes'[w] = s /\ made' \in Pane
      /\ \A v \in Ws \ {w} : panes'[v] = panes[v]
      /\ \A v \in Ws : /\ IsInjective(panes'[v]) /\ At(v)' \subseteq 1 .. made'
                       /\ At(v)' \cap (1 .. made) \subseteq At(v)
  BY <1>1, <1>2, <1>5, RefilledOK
<1>7. s # <<>>
  BY <1>5
<1>8. \A v \in Ws : (v \in ToSet(order')) = (panes'[v] # <<>>)
  BY <1>1, <1>3, <1>6, <1>7, TypedOK
<1>9. /\ past' \in Mark /\ past' >= past /\ (team # "on" => past' = past)
      /\ team = "on" /\ past' # Renumbered /\ file.ws \in DOMAIN order =>
            file.ws \in DOMAIN order' /\ order'[file.ws] = order[file.ws]
  BY <1>1, <1>2, RenumbersOK
<1>10. TeamTypeOK'
  BY <1>1, <1>2, <1>3, <1>4, <1>6, <1>8, <1>9, TypedOK DEF TeamTypeOK
<1>11. \A n \in DOMAIN order : At(order[n]) \subseteq ToSet(panes'[order[n]])
  <2>1. \A n \in DOMAIN order : order[n] \in Ws \ {w}
    BY <1>1, <1>2, AtOK DEF ToSet
  <2> QED BY <1>6, <2>1 DEF At
<1>12. ByHandOnly
  BY <1>2, <1>6, <1>9, <1>11 DEF ByHandOnly
<1> QED BY <1>10, <1>12, ByHandOK

LEMMA DetachOnlyKeeps ==
  ASSUME TeamInv, DetachOnly
  PROVE  TeamInv'
<1>1. TeamTypeOK /\ Shape /\ past \in Mark /\ order \in Seq(Ws)
  BY TypedOK DEF TeamInv
<1>2. PICK w : w = order[1]
  OBVIOUS
<1>3. /\ Room /\ Len(order) = 1
      /\ made' = made + 1 /\ panes' = [panes EXCEPT ![w] = <<made'>>]
      /\ Noted(IF team = "on" THEN Renumbered ELSE Clean)
      /\ UNCHANGED <<order, column, team, file, run, typed, mates>>
  BY <1>2 DEF DetachOnly
<1>4. w \in Ws /\ w \in ToSet(order)
  BY <1>1, <1>2, <1>3, SeqOK DEF ToSet
<1>5. PICK s : s = <<made'>>
  OBVIOUS
<1>6. /\ panes' \in [Ws -> Seq(Pane)] /\ panes'[w] = s /\ made' \in Pane
      /\ \A v \in Ws \ {w} : panes'[v] = panes[v]
      /\ \A v \in Ws : /\ IsInjective(panes'[v]) /\ At(v)' \subseteq 1 .. made'
                       /\ At(v)' \cap (1 .. made) \subseteq At(v)
  BY <1>1, <1>3, <1>4, <1>5, RefilledOK
<1>7. s # <<>>
  BY <1>5
<1>8. \A v \in Ws : (v \in ToSet(order)) = (panes'[v] # <<>>)
  BY <1>1, <1>4, <1>6, <1>7, TypedOK
<1>9. /\ past' \in Mark /\ past' >= past /\ (team # "on" => past' = past)
      /\ team = "on" => past' = Renumbered
  <2>1. /\ past' \in Mark /\ past' >= past
        /\ past' >= (IF team = "on" THEN Renumbered ELSE Clean)
        /\ team # "on" => past' = past
    BY <1>1, <1>3, NotedOK, MarksOK
  <2> QED BY <2>1, MarksOK
<1>10. TeamTypeOK'
  BY <1>1, <1>3, <1>6, <1>8, <1>9, TypedOK DEF TeamTypeOK
<1>11. ByHandOnly
  BY <1>3, <1>6, <1>9, MarksOK DEF ByHandOnly
<1> QED BY <1>10, <1>11, ByHandOK

LEMMA ByHandKeeps ==
  ASSUME TeamInv, ByHand
  PROVE  TeamInv'
BY CloseByHandKeeps, SplitByHandKeeps, RemoveWorkspaceKeeps, AddWorkspaceKeeps,
   MoveWorkspaceKeeps, DetachOnlyKeeps DEF ByHand


-----------------------------------------------------------------------------
(* A process that begins or goes on, while the panes stay                  *)

LEMMA MovesOK ==
  ASSUME TeamInv, team = "on", NEW c \in Clients, NEW r \in Command,
         run' = [run EXCEPT ![c] = r], Apt(r), r.pc = "split" => Room,
         UNCHANGED <<order, panes, column, made, team, mates>>,
         past' \in Mark, past' >= past,
         file' \in State, {file'.leader, file'.last} \subseteq Ids,
         typed' \in Text, typed'.for \in Ids,
         past' # Renumbered =>
            /\ file'.ws = file.ws /\ file'.leader = file.leader
            /\ r.pc = "idle" \/ AtHome(r)
            /\ typed'.for \in At(Home) => typed'.got = typed'.for
  PROVE  /\ TeamTypeOK' /\ Shape' /\ (past' # Renumbered => Homes')
         /\ past' # Renumbered => past # Renumbered
<1>1. TeamTypeOK /\ Shape /\ past \in Mark /\ run \in [Clients -> Command]
  BY TypesOK DEF TeamInv
<1>2. /\ run' \in [Clients -> Command] /\ run'[c] = r
      /\ \A d \in Clients \ {c} : run'[d] = run[d]
      /\ Splitting' = (Splitting \ {c}) \cup (IF r.pc = "split" THEN {c} ELSE {})
  BY <1>1, RunOK
<1>3. TeamTypeOK'
  BY <1>1, <1>2, TypedOK, Zenon DEF TeamTypeOK, Text
<1>4. Ids' = Ids /\ \A w : At(w)' = At(w)
  BY DEF Ids, At
<1>5. Shape'
  <2>1. \A w \in Ws : IsInjective(panes'[w]) /\ At(w)' \subseteq 1 .. made'
    BY <1>1, <1>4 DEF Shape
  <2>2. made' + Cardinality(Splitting') <= MaxPanes
    <3>1. /\ made \in Nat /\ made + Cardinality(Splitting) <= MaxPanes
          /\ MaxPanes \in Nat /\ Cardinality(Splitting) \in Nat
      BY <1>1, RoomOK DEF Shape
    <3>2. CASE r.pc = "split"
      <4>1. Splitting' = Splitting \cup {c} /\ made + Cardinality(Splitting) < MaxPanes
        BY <1>1, <1>2, <3>2, RoomOK
      <4>2. /\ Cardinality(Splitting') \in Nat
            /\ Cardinality(Splitting') <= Cardinality(Splitting) + 1
        BY <4>1, SplittingOK
      <4> QED BY <3>1, <4>1, <4>2
    <3>3. CASE r.pc # "split"
      <4>1. Splitting' = Splitting \ {c}
        BY <1>2, <3>3
      <4>2. /\ Cardinality(Splitting') \in Nat
            /\ Cardinality(Splitting') <= Cardinality(Splitting)
        BY <4>1, SplittingOK
      <4> QED BY <3>1, <4>2
    <3> QED BY <3>2, <3>3
  <2>3. \A d \in Clients : Apt(run[d])'
    BY <1>1, <1>2, <1>4 DEF Shape, Apt, Phase
  <2>4. {file.leader, file.last, typed.for}' \subseteq Ids' /\ mates' \subseteq 1 .. made'
    BY <1>1, <1>4 DEF Shape
  <2> QED BY <2>1, <2>2, <2>3, <2>4 DEF Shape
<1>6. past' # Renumbered => past # Renumbered
  BY <1>1, MarksOK
<1>7. ASSUME past' # Renumbered PROVE Homes'
  <2>1. Homes
    BY <1>6, <1>7 DEF TeamInv
  <2>2. Home' = Home /\ file'.ws \in DOMAIN order'
    BY <1>7, <2>1 DEF Homes, Home
  <2>3. ASSUME NEW d \in Clients, run'[d].pc # "idle" PROVE AtHome(run[d])'
    BY <1>2, <1>7, <2>1, <2>3 DEF Homes, AtHome, Running
  <2> QED BY <1>4, <1>7, <2>1, <2>2, <2>3 DEF Homes, Running
<1> QED BY <1>3, <1>5, <1>6, <1>7

\* What was good stays good while the panes stay, and to forget that the team
\* was clean only helps.
LEMMA GoodStill ==
  ASSUME past \in Mark, past' \in Mark, past' >= past, UNCHANGED <<order, panes, column, mates>>,
         file'.ws = file.ws, file'.leader = file.leader
  PROVE  /\ \A q : Good(q) => Good(q)'
         /\ \A r : Held(r) /\ file'.last = file.last => Held(r)'
         /\ (past = Clean => Stacked) => (past' = Clean => Stacked')
         /\ past' < Meddled => past < Meddled
         /\ past' = Clean => past = Clean
<1>1. /\ past' = Clean => past = Clean
      /\ past' < Meddled => past < Meddled
  BY MarksOK
<1>2. Open' = Open /\ (\A w : At(w)' = At(w)) /\ Home' = Home
  BY DEF Open, At, Home
<1>3. \A q : Good(q) => Good(q)'
  BY <1>1, <1>2 DEF Good, Bare
<1>4. \A r : Held(r) /\ file'.last = file.last => Held(r)'
  BY <1>1, <1>2, <1>3 DEF Held, Bare
<1> QED BY <1>1, <1>2, <1>3, <1>4 DEF Stacked

\* The only writer moves.
LEMMA AloneOK ==
  ASSUME TeamTypeOK, NEW c \in Clients, NEW r \in Command, run' = [run EXCEPT ![c] = r],
         Writing \subseteq {c}, past' = Clean => Stacked',
         IF r.pc # "idle" /\ r.op \in Writers THEN Held(r)' ELSE Good(file.last)'
  PROVE  Mates'
<1>1. /\ run'[c] = r
      /\ Writing' = (Writing \ {c}) \cup (IF r.pc # "idle" /\ r.op \in Writers THEN {c} ELSE {})
  BY TypesOK, RunOK
<1>2. Writing' \subseteq {c}
  BY <1>1
<1>3. CASE r.pc # "idle" /\ r.op \in Writers
  <2>1. Writing' = {c} /\ Held(r)'
    BY <1>1, <1>3
  <2>2. \A d \in Writing' : Held(run[d])'
    BY <1>1, <2>1
  <2> QED BY <2>1, <2>2 DEF Mates
<1>4. CASE ~(r.pc # "idle" /\ r.op \in Writers)
  <2>1. Writing' = {} /\ Good(file.last)'
    BY <1>1, <1>4
  <2> QED BY <2>1 DEF Mates
<1> QED BY <1>3, <1>4

\* A process that will not save moves.
LEMMA AsideOK ==
  ASSUME TeamTypeOK, Mates, NEW c \in Clients, NEW r \in Command,
         run' = [run EXCEPT ![c] = r], r.op \notin Writers,
         c \notin Writing, past' \in Mark, past' >= past,
         UNCHANGED <<order, panes, column, file, mates>>
  PROVE  Mates'
<1>1. /\ \A d \in Clients \ {c} : run'[d] = run[d]
      /\ Writing' = Writing
  <2>1. /\ \A d \in Clients \ {c} : run'[d] = run[d]
        /\ Writing' = (Writing \ {c}) \cup (IF r.pc # "idle" /\ r.op \in Writers THEN {c} ELSE {})
    BY TypesOK, RunOK
  <2> QED BY <2>1
<1>2. past \in Mark
  BY TypesOK
<1>3. ASSUME NEW d \in Writing PROVE Held(run[d])'
  <2>1. run'[d] = run[d] /\ Held(run[d])
    BY <1>1 DEF Mates, Writing
  <2>2. PICK r0 : r0 = run[d]
    OBVIOUS
  <2>3. Held(r0)'
    BY <1>2, <2>1, <2>2, GoodStill
  <2> QED BY <2>1, <2>2, <2>3 DEF Held
<1>4. Good(file.last) => Good(file.last)'
  <2>1. PICK q : q = file.last
    OBVIOUS
  <2>2. Good(q) => Good(q)'
    BY <1>2, GoodStill
  <2> QED BY <2>1, <2>2
<1>5. past' = Clean => Stacked'
  BY <1>2, GoodStill DEF Mates
<1> QED BY <1>1, <1>3, <1>4, <1>5 DEF Mates

\* A command begins: it has loaded the file.
Begins(c, r) ==
    /\ team = "on" /\ ~Running(c)
    /\ run' = [run EXCEPT ![c] = r]
    /\ typed' = NoText
    /\ UNCHANGED <<order, panes, column, made, team, file, mates>>

LEMMA BeginOK ==
  ASSUME TeamInv, NEW c \in Clients, NEW r \in Command, Begins(c, r), Apt(r),
         r.pc = "split" => Room,
         past' \in Mark, past' >= past, past' # Renumbered => AtHome(r)
  PROVE  TeamTypeOK' /\ Shape' /\ (past' # Renumbered => Homes')
<1>1. /\ team = "on" /\ run' = [run EXCEPT ![c] = r]
      /\ UNCHANGED <<order, panes, column, made, team, file, mates>>
  BY DEF Begins
<1>2. typed' \in Text /\ typed'.for = NoPane /\ typed'.got = typed'.for
  BY DEF Begins, NoText, Text
<1>3. typed'.for \in Ids /\ {file.leader, file.last} \subseteq Ids
  BY <1>2 DEF Ids, TeamInv, Shape
<1>4. file \in State
  BY TypesOK DEF TeamInv
<1> QED BY <1>1, <1>2, <1>3, <1>4, MovesOK

LEMMA SendOrCaptureKeeps ==
  ASSUME TeamInv, NEW c \in Clients, NEW p \in Known, NEW tries \in {0, Attempts - 1},
         SendOrCapture(c, p, tries)
  PROVE  TeamInv'
<1> DEFINE st == [Blank EXCEPT !.ws = file.ws]
           r  == [[Idle EXCEPT !.pc = "type", !.op = "send", !.pane = p, !.tries = tries]
                        EXCEPT !.st = st]
<1>1. Begins(c, r) /\ past' = past
  BY DEF SendOrCapture, Begin, Begins
<1>2. team = "on" /\ TeamTypeOK
  BY <1>1 DEF Begins, TeamInv
<1>3. p \in Pane /\ p \in Ids
  BY <1>2, TypesOK DEF Known, Ids
<1>4. st \in State /\ st.ws = file.ws /\ st.last = NoPane /\ st.leader = NoPane
  BY <1>2, BlankOK, TypesOK DEF Blank, State
<1>5. tries \in 0 .. Attempts - 1
  BY NumbersOK
<1> HIDE DEF st
<1>6. r \in Command /\ r.pc = "type" /\ r.op = "send" /\ r.st = st /\ r.pane = p
  BY <1>3, <1>4, <1>5 DEF Idle, Command
<1> HIDE DEF r
<1>7. Apt(r) /\ AtHome(r) /\ r.op \notin Writers
  <2>1. Phase(r) /\ NoPane \in Ids
    BY <1>6 DEF Phase, Ids
  <2> QED BY <1>3, <1>4, <1>6, <2>1 DEF Apt, AtHome, Writers
<1>8. past' \in Mark /\ past' >= past /\ past \in Mark
  BY <1>1, <1>2, TypesOK, MarksOK
<1>9. /\ TeamTypeOK' /\ Shape' /\ (past' # Renumbered => Homes')
  BY <1>1, <1>6, <1>7, <1>8, BeginOK
<1>10. ASSUME past' < Meddled PROVE Mates'
  <2>1. /\ run' = [run EXCEPT ![c] = r] /\ c \notin Writing
        /\ UNCHANGED <<order, panes, column, file, mates>>
    BY <1>1 DEF Begins, Writing
  <2>2. Mates
    BY <1>1, <1>2, <1>10 DEF TeamInv
  <2> QED BY <1>2, <1>6, <1>7, <1>8, <2>1, <2>2, AsideOK
<1> QED BY <1>9, <1>10 DEF TeamInv

\* A command that will save begins.
LEMMA WriterOK ==
  ASSUME TeamInv, NEW c \in Clients, NEW r \in Command, Begins(c, r), Apt(r),
         r.pc # "idle", r.pc # "list", r.op \in Writers, r.pc = "split" => Room,
         NEW m \in Mark, NotedAlso(m), past' # Renumbered => AtHome(r),
         r.st.last = file.last,
         past = Clean /\ m = Clean /\ r.pc = "split" /\ Good(file.last)
            => IF r.down THEN r.pane \in mates ELSE Bare
  PROVE  TeamInv'
<1>1. past \in Mark /\ TeamTypeOK
  BY TypesOK DEF TeamInv
<1>2. /\ past' \in Mark /\ past' >= past
      /\ past' < Meddled => Writing = {} /\ past' >= m
  BY <1>1, NotedAlsoOK
<1>3. TeamTypeOK' /\ Shape' /\ (past' # Renumbered => Homes')
  BY <1>2, BeginOK
<1>4. /\ team = "on" /\ run' = [run EXCEPT ![c] = r]
      /\ UNCHANGED <<order, panes, column, file, mates>>
  BY DEF Begins
<1>5. ASSUME past' < Meddled PROVE Mates'
  <2>1. past < Meddled /\ Writing = {} /\ past' >= m
    BY <1>1, <1>2, <1>5, MarksOK
  <2>2. Mates /\ Good(file.last)
    BY <1>4, <2>1 DEF TeamInv, Mates
  <2>3. PICK q : q = file.last
    OBVIOUS
  <2>4. Good(q)' /\ file'.last = q /\ (past' = Clean => Stacked')
    <3>1. Good(q) => Good(q)'
      BY <1>1, <1>2, <1>4, GoodStill
    <3>2. past' = Clean => Stacked'
      BY <1>1, <1>2, <1>4, <2>2, GoodStill DEF Mates
    <3> QED BY <1>4, <2>2, <2>3, <3>1, <3>2
  <2>5. Held(r)'
    <3>1. Good(r.st.last)'
      BY <2>3, <2>4
    <3>2. past' = Clean => m = Clean /\ past = Clean
      BY <1>1, <1>2, <2>1, MarksOK
    <3>3. Bare' <=> Bare
      BY <1>4 DEF Bare, Open
    <3>4. past' = Clean /\ r.pc = "split" => IF r.down THEN r.pane \in mates' ELSE Bare'
      BY <1>4, <2>2, <3>2, <3>3
    <3> QED BY <2>4, <3>1, <3>4 DEF Held
  <2> QED BY <1>1, <1>4, <2>1, <2>4, <2>5, AloneOK
<1> QED BY <1>3, <1>5 DEF TeamInv

LEMMA SelectLayoutKeeps ==
  ASSUME TeamInv, NEW c \in Clients, NEW l \in Layout, NEW n \in Number, SelectLayout(c, l, n)
  PROVE  TeamInv'
<1> DEFINE st == [file EXCEPT !.layout = l, !.ws = n]
           r  == [[Idle EXCEPT !.pc = "save", !.op = "layout"] EXCEPT !.st = st]
           m  == IF n = file.ws THEN Clean ELSE Renumbered
<1>1. Begins(c, r) /\ NotedAlso(m)
  BY DEF SelectLayout, Begin, Begins
<1>2. team = "on" /\ TeamTypeOK /\ m \in Mark /\ past \in Mark
  BY <1>1, MarksOK, TypesOK DEF Begins, TeamInv
<1>3. st \in State /\ st.ws = n /\ st.last = file.last /\ st.leader = file.leader
  BY <1>2, TypesOK DEF State
<1> HIDE DEF st
<1>4. 0 \in 0 .. Attempts - 1
  BY NumbersOK
<1>5. r \in Command /\ r.op \in Writers /\ r.pc = "save" /\ r.st = st /\ r.pane = NoPane
  BY <1>3, <1>4 DEF Idle, Command, Writers
<1> HIDE DEF r
<1>6. Apt(r)
  <2>1. Phase(r) /\ NoPane \in Ids
    BY <1>5 DEF Phase, Ids
  <2> QED BY <1>3, <1>5, <2>1 DEF Apt, TeamInv, Shape
<1>7. m # Renumbered => n = file.ws
  OBVIOUS
<1> HIDE DEF m
<1>8. past' # Renumbered => AtHome(r)
  <2>1. past' # Renumbered => m # Renumbered
    BY <1>1, <1>2, NotedAlsoOK
  <2> QED BY <1>3, <1>5, <1>7, <2>1 DEF AtHome
<1> QED BY <1>1, <1>2, <1>3, <1>5, <1>6, <1>8, WriterOK

LEMMA KillPaneKeeps ==
  ASSUME TeamInv, NEW c \in Clients, NEW p \in Known, KillPane(c, p)
  PROVE  TeamInv'
<1> DEFINE r == [[Idle EXCEPT !.pc = "close", !.op = "kill", !.pane = p] EXCEPT !.st = file]
<1>1. Begins(c, r) /\ NotedAlso(Clean)
  BY DEF KillPane, Begin, Begins
<1>2. team = "on" /\ TeamTypeOK /\ Clean \in Mark
  BY <1>1, MarksOK DEF Begins, TeamInv
<1>3. p \in Pane /\ p \in Ids
  BY <1>2, TypesOK DEF Known, Ids
<1>4. 0 \in 0 .. Attempts - 1 /\ file \in State
  BY <1>2, NumbersOK, TypesOK
<1>5. r \in Command /\ r.op \in Writers /\ r.pc = "close" /\ r.op = "kill" /\ r.st = file /\ r.pane = p
  BY <1>3, <1>4 DEF Idle, Command, Writers
<1> HIDE DEF r
<1>6. Apt(r) /\ AtHome(r)
  <2>1. Phase(r)
    BY <1>5 DEF Phase
  <2> QED BY <1>3, <1>5, <2>1 DEF Apt, AtHome, TeamInv, Shape
<1> QED BY <1>1, <1>2, <1>5, <1>6, WriterOK

LEMMA SplitWindowKeeps ==
  ASSUME TeamInv, NEW c \in Clients, NEW p \in Known, NEW across \in BOOLEAN,
         SplitWindow(c, p, across)
  PROVE  TeamInv'
<1> DEFINE d == Redirected(p, across)
           r == [[Idle EXCEPT !.pc = "split", !.op = "split",
                              !.pane = IF d THEN file.last ELSE p, !.down = d \/ ~across]
                       EXCEPT !.st = file]
           m == IF file.layout = "main-vertical" /\ across /\ p = file.leader THEN Clean ELSE Aside
<1>1. Begins(c, r) /\ NotedAlso(m) /\ Room
  BY DEF SplitWindow, Begin, Begins
<1>2. team = "on" /\ TeamTypeOK /\ m \in Mark
  BY <1>1, MarksOK DEF Begins, TeamInv
<1>3. d \in BOOLEAN /\ (d => file.last # NoPane)
  BY DEF Redirected
<1>4. m = Clean => across /\ (~d => file.last = NoPane)
  BY MarksOK DEF Redirected
<1> HIDE DEF d, m
<1>5. p \in Pane /\ p \in Ids
  BY <1>2, TypesOK DEF Known, Ids
<1>6. 0 \in 0 .. Attempts - 1 /\ file \in State /\ file.last \in Pane \cup {NoPane}
  BY <1>2, NumbersOK, TypesOK
<1>7. /\ r \in Command /\ r.op \in Writers /\ r.pc = "split" /\ r.op = "split" /\ r.st = file
      /\ r.pane = (IF d THEN file.last ELSE p) /\ r.down = (d \/ ~across)
  BY <1>3, <1>5, <1>6 DEF Idle, Command, Writers
<1> HIDE DEF r
<1>8. Apt(r) /\ AtHome(r)
  <2>1. Phase(r)
    BY <1>7 DEF Phase
  <2> QED BY <1>5, <1>7, <2>1 DEF Apt, AtHome, TeamInv, Shape
<1>9. ASSUME past = Clean, m = Clean, Good(file.last)
      PROVE  IF r.down THEN r.pane \in mates ELSE Bare
  <2>1. CASE d
    BY <1>3, <1>7, <1>9, <2>1 DEF Good
  <2>2. CASE ~d
    <3>1. file.last = NoPane /\ ~r.down
      BY <1>4, <1>7, <1>9, <2>2
    <3> QED BY <1>9, <3>1 DEF Good
  <2> QED BY <2>1, <2>2
<1>10. r.st.last = file.last
  BY <1>7
<1> QED BY <1>1, <1>2, <1>7, <1>8, <1>9, <1>10, WriterOK

-----------------------------------------------------------------------------
(* The commands go on                                                      *)

\* What is known of a command in progress.
LEMMA RunningOK ==
  ASSUME TeamInv, NEW c \in Clients, Running(c)
  PROVE  /\ TeamTypeOK /\ team = "on" /\ past \in Mark
         /\ run[c] \in Command /\ Apt(run[c]) /\ run[c].st \in State
         /\ file \in State /\ {file.leader, file.last, typed.for} \subseteq Ids /\ typed \in Text
         /\ past # Renumbered => Homes /\ AtHome(run[c])
         /\ run[c].op \in Writers <=> c \in Writing
         /\ past < Meddled => Mates /\ past # Renumbered
         /\ past < Meddled /\ c \in Writing => Writing \subseteq {c} /\ Held(run[c])
<1>1. /\ TeamTypeOK /\ team = "on" /\ run[c] \in Command /\ Apt(run[c])
      /\ past \in Mark /\ file \in State /\ {file.leader, file.last, typed.for} \subseteq Ids
  BY TypesOK DEF TeamInv, Shape
<1>2. run[c].st \in State /\ typed \in Text
  BY <1>1, TypedOK DEF Command
<1>3. past # Renumbered => Homes /\ AtHome(run[c])
  BY <1>1 DEF TeamInv, Homes
<1>4. run[c].op \in Writers <=> c \in Writing
  BY DEF Writing
<1>5. past < Meddled => Mates /\ past # Renumbered
  BY <1>1, MarksOK DEF TeamInv
<1>6. past < Meddled /\ c \in Writing => Writing \subseteq {c} /\ Held(run[c])
  BY <1>5 DEF Mates
<1> QED BY <1>1, <1>2, <1>3, <1>4, <1>5, <1>6

LEMMA SaveKeeps ==
  ASSUME TeamInv, NEW c \in Clients, Save(c)
  PROVE  TeamInv'
<1> DEFINE old == run[c]
<1>1. /\ Running(c) /\ old.pc = "save"
      /\ \/ file' = old.st /\ past' = past
         \/ Noted(Meddled) /\ file' = file
      /\ UNCHANGED <<order, panes, column, made, team, typed, mates>>
  BY DEF Save, Running
<1>2. PICK r : /\ run' = [run EXCEPT ![c] = r]
               /\ r = Idle \/ (old.op = "split" /\ r = [old EXCEPT !.pc = "type"])
  BY DEF Save, Goes, Ends
<1>3. /\ TeamTypeOK /\ team = "on" /\ old \in Command /\ Apt(old) /\ old.st \in State
      /\ past \in Mark /\ file \in State /\ {file.leader, file.last, typed.for} \subseteq Ids
      /\ past # Renumbered => Homes /\ AtHome(old)
      /\ typed \in Text /\ old.op \in Writers /\ c \in Writing
  BY <1>1, RunningOK DEF Apt, Phase
<1>4. /\ r \in Command /\ Apt(r) /\ r.pc # "split" /\ r.pc # "list"
      /\ r = Idle \/ (r.pc = "type" /\ r.op = "split" /\ r.st = old.st /\ r.pane = old.pane)
  <2>1. CASE r = Idle
    BY <2>1, BlankOK
  <2>2. CASE old.op = "split" /\ r = [old EXCEPT !.pc = "type"]
    <3>1. /\ r \in Command /\ r.pc = "type" /\ r.op = "split" /\ r.st = old.st
          /\ r.pane = old.pane
      BY <1>3, <2>2 DEF Command
    <3> QED BY <1>3, <3>1 DEF Apt, Phase
  <2> QED BY <1>2, <2>1, <2>2
<1>5. /\ past' \in Mark /\ past' >= past
      /\ past' < Meddled => file' = old.st /\ past' = past
  <2>1. CASE past' = past /\ file' = old.st
    BY <1>3, <2>1, MarksOK
  <2>2. CASE Noted(Meddled)
    <3>1. past' \in Mark /\ past' >= past /\ past' >= Meddled
      BY <1>3, <2>2, NotedOK, MarksOK
    <3> QED BY <3>1, MarksOK
  <2> QED BY <1>1, <2>1, <2>2
<1>6. /\ file' \in State /\ {file'.leader, file'.last} \subseteq Ids
      /\ typed' \in Text /\ typed'.for \in Ids
  BY <1>1, <1>3 DEF Apt
<1> HIDE DEF old
<1>7. ASSUME past' # Renumbered
      PROVE  /\ file'.ws = file.ws /\ file'.leader = file.leader
             /\ r.pc = "idle" \/ AtHome(r)
             /\ typed'.for \in At(Home) => typed'.got = typed'.for
  <2>1. past # Renumbered
    BY <1>3, <1>5, <1>7, MarksOK
  <2>2. file'.ws = file.ws /\ file'.leader = file.leader
    BY <1>1, <1>3, <2>1 DEF AtHome, Writers
  <2>3. r.pc = "idle" \/ AtHome(r)
    BY <1>3, <1>4, <2>1, BlankOK DEF AtHome, Writers
  <2> QED BY <1>1, <1>3, <2>1, <2>2, <2>3 DEF Homes
<1>8. TeamTypeOK' /\ Shape' /\ (past' # Renumbered => Homes')
  BY <1>1, <1>2, <1>3, <1>4, <1>5, <1>6, <1>7, MovesOK
<1>9. ASSUME past' < Meddled PROVE Mates'
  <2>1. /\ file' = old.st /\ past' = past /\ past < Meddled /\ past # Renumbered
        /\ Mates /\ Writing \subseteq {c} /\ Held(old)
    BY <1>1, <1>3, <1>5, <1>9, RunningOK DEF old
  <2>2. Good(old.st.last)
    BY <1>1, <2>1 DEF Held
  <2>3. PICK q : q = old.st.last
    OBVIOUS
  <2>4. file'.ws = file.ws /\ file'.leader = file.leader
    BY <1>5, <1>7, <1>9, MarksOK
  <2>5. Good(q)' /\ file'.last = q /\ (past' = Clean => Stacked')
    BY <1>1, <1>3, <1>5, <2>1, <2>2, <2>3, <2>4, GoodStill DEF Mates
  <2>6. Good(file.last)'
    BY <2>5
  <2>7. CASE r = Idle
    BY <1>2, <1>3, <1>4, <2>1, <2>5, <2>6, <2>7, BlankOK, AloneOK
  <2>8. CASE r.pc = "type" /\ r.op = "split" /\ r.st = old.st
    <3>1. Held(r)'
      BY <2>3, <2>5, <2>6, <2>8 DEF Held
    <3> QED BY <1>2, <1>3, <1>4, <2>1, <2>5, <2>8, <3>1, AloneOK DEF Writers
  <2> QED BY <1>4, <2>7, <2>8
<1> QED BY <1>8, <1>9 DEF TeamInv

\* A request finds its pane, if that is in the workspace of the team.
LEMMA TargetOK ==
  ASSUME TeamTypeOK, NEW n, NEW p, NEW t \in Target(n, p)
  PROVE  /\ t \in Pane
         /\ Homes /\ n = file.ws /\ p \in At(Home) => t = p
<1> DEFINE W == IF Names(n) = {} THEN ToSet(order) ELSE Names(n)
<1>1. PICK w \in W : t \in IF p \in ToSet(panes[w]) THEN {p} ELSE ToSet(panes[w])
  BY DEF Target
<1>2. w \in Ws
  BY <1>1, AtOK
<1>3. t \in At(w) /\ At(w) \subseteq Pane
  BY <1>1, <1>2, AtOK DEF At
<1>4. ASSUME Homes, n = file.ws, p \in At(Home) PROVE t = p
  <2>1. Names(n) = {Home}
    BY <1>4, AtOK DEF Homes, Home
  <2>2. w = Home
    BY <1>1, <2>1
  <2> QED BY <1>1, <1>4, <2>2 DEF At
<1> QED BY <1>3, <1>4

LEMMA TypeKeeps ==
  ASSUME TeamInv, NEW c \in Clients, Type(c)
  PROVE  TeamInv'
<1> DEFINE old == run[c]
<1>1. /\ Running(c) /\ old.pc = "type"
      /\ UNCHANGED <<order, panes, column, made, team, file, mates, past>>
  BY DEF Type, Running
<1>2. PICK r : /\ run' = [run EXCEPT ![c] = r]
               /\ \/ r = Idle /\ \E t \in Target(old.st.ws, old.pane) :
                                    typed' = [op |-> old.op, for |-> old.pane, got |-> t]
                  \/ r = Refused(old) /\ UNCHANGED typed
  BY DEF Type, Ends
<1>3. /\ TeamTypeOK /\ team = "on" /\ old \in Command /\ Apt(old) /\ old.st \in State
      /\ past \in Mark /\ file \in State /\ {file.leader, file.last, typed.for} \subseteq Ids
      /\ past # Renumbered => Homes /\ AtHome(old)
      /\ typed \in Text /\ (old.op \in Writers <=> c \in Writing)
      /\ old.op \in {"split", "send"} /\ old.pane \in Pane \cup {NoPane} /\ old.pane \in Ids
  BY <1>1, RunningOK DEF Apt, Phase, Command
<1> HIDE DEF old
<1>4. /\ r \in Command /\ Apt(r) /\ r.pc # "split" /\ r.pc # "list"
      /\ r = Idle \/ (r.pc = "type" /\ r.op = old.op /\ r.st = old.st /\ r.pane = old.pane)
  <2>1. CASE r = Idle
    BY <2>1, BlankOK
  <2>2. CASE r = [old EXCEPT !.tries = @ + 1] /\ old.tries + 1 # Attempts
    <3>1. old.tries \in 0 .. Attempts - 1
      BY <1>3 DEF Command
    <3>2. old.tries + 1 \in 0 .. Attempts - 1
      BY <2>2, <3>1, NumbersOK
    <3>3. r \in Command
      BY <1>3, <2>2, <3>2 DEF Command
    <3>4. r.pc = "type" /\ r.op = old.op /\ r.st = old.st /\ r.pane = old.pane
      BY <1>1, <1>3, <2>2 DEF Command
    <3> QED BY <1>3, <3>3, <3>4 DEF Apt, Phase
  <2> QED BY <1>2, <2>1, <2>2 DEF Refused
<1>5. past' \in Mark /\ past' >= past /\ file' \in State /\ {file'.leader, file'.last} \subseteq Ids
  BY <1>1, <1>3, MarksOK
<1>6. past # Renumbered => r.pc = "idle" \/ AtHome(r)
  BY <1>3, <1>4, BlankOK DEF AtHome
<1>7. /\ typed' \in Text /\ typed'.for \in Ids
      /\ past # Renumbered /\ typed'.for \in At(Home) => typed'.got = typed'.for
  <2>1. CASE UNCHANGED typed
    BY <1>3, <2>1 DEF Homes
  <2>2. ASSUME NEW t \in Target(old.st.ws, old.pane),
               typed' = [op |-> old.op, for |-> old.pane, got |-> t]
        PROVE  /\ typed' \in Text /\ typed'.for \in Ids
               /\ past # Renumbered /\ typed'.for \in At(Home) => typed'.got = typed'.for
    <3>1. t \in Pane
      BY <1>3, TargetOK
    <3>2. typed' \in Text /\ typed'.for = old.pane /\ typed'.got = t
      BY <1>3, <2>2, <3>1 DEF Text
    <3>3. ASSUME past # Renumbered, old.pane \in At(Home) PROVE t = old.pane
      BY <1>3, <3>3, TargetOK DEF AtHome
    <3> QED BY <1>3, <3>2, <3>3
  <2> QED BY <1>2, <2>1, <2>2
<1>8. TeamTypeOK' /\ Shape' /\ (past' # Renumbered => Homes')
  BY <1>1, <1>2, <1>3, <1>4, <1>5, <1>6, <1>7, MovesOK
<1>9. ASSUME past' < Meddled PROVE Mates'
  <2>1. past < Meddled /\ Mates /\ (past' = Clean => Stacked')
    BY <1>1, <1>3, <1>5, <1>9, RunningOK, GoodStill DEF Mates
  <2>2. CASE old.op = "split"
    <3>1. Writing \subseteq {c} /\ Held(old)
      BY <1>1, <1>3, <2>1, <2>2, RunningOK DEF Writers, old
    <3>2. Good(file.last) /\ Good(old.st.last)
      BY <1>1, <3>1 DEF Held
    <3>3. PICK q, l : q = old.st.last /\ l = file.last
      OBVIOUS
    <3>4. Good(l)' /\ Good(q)'
      BY <1>1, <1>3, <1>5, <3>2, <3>3, GoodStill
    <3>5. Good(file.last)'
      BY <1>1, <3>3, <3>4 DEF Good
    <3>6. CASE r = Idle
      BY <1>2, <1>3, <1>4, <2>1, <3>1, <3>5, <3>6, BlankOK, AloneOK
    <3>7. CASE r.pc = "type" /\ r.op = old.op /\ r.st = old.st
      <4>1. Held(r)'
        BY <3>3, <3>4, <3>5, <3>7 DEF Held
      <4> QED BY <1>2, <1>3, <1>4, <2>1, <2>2, <3>1, <3>7, <4>1, AloneOK DEF Writers
    <3> QED BY <1>4, <3>6, <3>7
  <2>3. CASE old.op = "send"
    <3>1. r.op \notin Writers /\ c \notin Writing
      BY <1>3, <1>4, <2>3, BlankOK DEF Writers
    <3> QED BY <1>1, <1>2, <1>3, <1>4, <1>5, <2>1, <3>1, AsideOK
  <2> QED BY <1>3, <2>2, <2>3
<1> QED BY <1>8, <1>9 DEF TeamInv

LEMMA SelectOK ==
  ASSUME NEW s \in Seq(Pane), NEW l
  PROVE  \/ Replacement(s, l) = NoPane /\ ToSet(s) \subseteq {l}
         \/ Replacement(s, l) \in ToSet(s) \ {l}
<1> DEFINE I == {i \in 1 .. Len(s) : s[i] # l}
           k == IF I # {} THEN Min(I) ELSE 0
<1>1. Replacement(s, l) = IF k = 0 THEN NoPane ELSE s[k]
  BY DEF Replacement, SelectInSeq
<1>2. DOMAIN s = 1 .. Len(s) /\ Len(s) \in Nat
  BY SeqOK
<1>3. CASE I = {}
  BY <1>1, <1>2, <1>3 DEF ToSet
<1>4. CASE I # {}
  <2>1. Min(I) \in I
    <3>1. I \in SUBSET Nat
      BY <1>2
    <3> HIDE DEF I
    <3> QED BY <1>4, <3>1, SmallestOK
  <2>2. k # 0 /\ s[k] # l /\ k \in DOMAIN s
    BY <1>2, <1>4, <2>1
  <2> QED BY <1>1, <2>2 DEF ToSet
<1> QED BY <1>3, <1>4

LEMMA ListKeeps ==
  ASSUME TeamInv, NEW c \in Clients, List(c)
  PROVE  TeamInv'
<1> DEFINE old == run[c]
           n   == IF old.st.last = old.pane THEN Replacement(PanesAt(old.st.ws), old.st.leader)
                  ELSE old.st.last
           r   == [old EXCEPT !.pc = "save", !.st.last = n]
           m   == IF n \in mates \cup {NoPane} THEN Clean ELSE Aside
<1>1. /\ Running(c) /\ old.pc = "list" /\ run' = [run EXCEPT ![c] = r] /\ Noted(m)
      /\ UNCHANGED <<order, panes, column, made, team, file, typed, mates>>
  BY DEF List, Running
<1>2. /\ TeamTypeOK /\ team = "on" /\ old \in Command /\ Apt(old) /\ old.st \in State
      /\ past \in Mark /\ file \in State /\ {file.leader, file.last, typed.for} \subseteq Ids
      /\ past # Renumbered => Homes /\ AtHome(old)
      /\ typed \in Text /\ old.op = "kill" /\ old.op \in Writers /\ c \in Writing
  BY <1>1, RunningOK DEF Apt, Phase, Writers
<1>3. /\ PanesAt(old.st.ws) \in Seq(Pane) /\ ToSet(PanesAt(old.st.ws)) \subseteq Pane
      /\ ToSet(PanesAt(old.st.ws)) \subseteq 1 .. made
  <2>1. \A w \in Ws : panes[w] \in Seq(Pane) /\ At(w) \subseteq 1 .. made
    BY <1>2, TypedOK DEF TeamInv, Shape
  <2>2. /\ \A w \in DOMAIN order : order[w] \in Ws /\ ToSet(PanesAt(w)) = At(order[w])
        /\ \A w : ToSet(PanesAt(w)) \subseteq Pane
        /\ \A w : w \notin DOMAIN order => ToSet(PanesAt(w)) = {}
    BY <1>2, AtOK
  <2>3. PanesAt(old.st.ws) \in Seq(Pane)
    BY <2>1, <2>2 DEF PanesAt
  <2>4. ToSet(PanesAt(old.st.ws)) \subseteq 1 .. made
    BY <2>1, <2>2
  <2> QED BY <2>2, <2>3, <2>4
<1> HIDE DEF old
<1>4. n \in Pane \cup {NoPane} /\ n \in Ids
  BY <1>2, <1>3, SelectOK DEF State, Apt, Ids
<1>5. ASSUME past # Renumbered, old.st.last = old.pane
      PROVE  \/ n = NoPane /\ At(Home) \subseteq {file.leader}
             \/ n \in At(Home) \ {file.leader}
  <2>1. Homes /\ old.st.leader = file.leader /\ old.st.ws = file.ws
    BY <1>2, <1>5 DEF AtHome
  <2>2. ToSet(PanesAt(file.ws)) = At(Home)
    BY <1>2, <2>1, AtOK DEF Homes, Home
  <2> QED BY <1>3, <1>5, <2>1, <2>2, SelectOK
<1>6. old.st.last # old.pane => n = old.st.last
  OBVIOUS
<1> HIDE DEF n
<1>7. /\ r \in Command /\ r.pc = "save" /\ r.op = old.op /\ r.st.last = n
      /\ r.pane = old.pane /\ r.st.ws = old.st.ws /\ r.st.leader = old.st.leader
  BY <1>2, <1>4 DEF Command, State
<1> HIDE DEF r
<1>8. Apt(r) /\ (past # Renumbered => AtHome(r))
  <2>1. Phase(r)
    BY <1>2, <1>7 DEF Phase
  <2> QED BY <1>2, <1>4, <1>7, <2>1 DEF Apt, AtHome
<1>9. m \in Mark /\ (m = Clean => n \in mates \cup {NoPane})
  BY MarksOK
<1> HIDE DEF m
<1>10. /\ past' \in Mark /\ past' >= past
       /\ past' = Clean => m = Clean /\ past = Clean
       /\ past' # Renumbered => past # Renumbered
  <2>1. past' \in Mark /\ past' >= past /\ past' >= m
    BY <1>1, <1>2, <1>9, NotedOK
  <2> QED BY <1>2, <1>9, <2>1, MarksOK
<1>11. past # Renumbered /\ typed'.for \in At(Home) => typed'.got = typed'.for
  BY <1>1, <1>2 DEF Homes
<1>12. TeamTypeOK' /\ Shape' /\ (past' # Renumbered => Homes')
  BY <1>1, <1>2, <1>7, <1>8, <1>10, <1>11, MovesOK
<1>13. ASSUME past' < Meddled PROVE Mates'
  <2>1. /\ past < Meddled /\ past # Renumbered /\ Mates /\ Homes
        /\ Writing \subseteq {c} /\ Held(old) /\ (past' = Clean => Stacked')
    BY <1>1, <1>2, <1>10, <1>13, RunningOK, GoodStill DEF old, Mates
  <2>2. n \in {NoPane} \cup (At(Home) \ {file.leader})
    BY <1>5, <1>6, <2>1 DEF Held, Good
  <2>3. ASSUME past = Clean, n = NoPane PROVE Bare
    <3>1. CASE old.st.last # old.pane
      BY <1>6, <2>1, <2>3, <3>1 DEF Held, Good
    <3>2. CASE old.st.last = old.pane
      <4>1. Home \in Ws /\ NoPane \notin At(Home)
        BY <1>2, <2>1, AtOK, NumbersOK DEF Homes, Home
      <4>2. At(Home) \cap mates = {}
        BY <1>5, <2>1, <2>3, <3>2, <4>1 DEF Homes
      <4> QED BY <2>1, <4>2 DEF Homes, Bare, Open, At
    <3> QED BY <3>1, <3>2
  <2>4. PICK q : q = n
    OBVIOUS
  <2>5. Bare' = Bare /\ Home' = Home /\ \A w : At(w)' = At(w)
    BY <1>1 DEF Bare, Open, Home, At
  <2>6. Good(q)'
    BY <1>1, <1>9, <1>10, <2>2, <2>3, <2>4, <2>5 DEF Good
  <2>7. PICK x : x = r
    OBVIOUS
  <2>8. Held(x)'
    BY <1>7, <2>4, <2>6, <2>7 DEF Held
  <2> QED BY <1>1, <1>2, <1>7, <2>1, <2>7, <2>8, AloneOK
<1> QED BY <1>12, <1>13 DEF TeamInv

\* A command that ends before it has done anything leaves a good file.
LEMMA EndsOK ==
  ASSUME TeamInv, NEW c \in Clients, Running(c), run[c].pc \in {"split", "close"},
         run' = [run EXCEPT ![c] = Idle],
         UNCHANGED <<order, panes, column, made, team, file, typed, mates, past>>
  PROVE  TeamInv'
<1>1. /\ TeamTypeOK /\ team = "on" /\ (past # Renumbered => Homes)
      /\ past \in Mark /\ file \in State /\ {file.leader, file.last, typed.for} \subseteq Ids
      /\ typed \in Text /\ run[c].op \in Writers /\ c \in Writing
  BY RunningOK DEF Apt, Phase, Writers
<1>2. past' \in Mark /\ past' >= past /\ file' \in State
  BY <1>1, MarksOK
<1>3. past # Renumbered /\ typed'.for \in At(Home) => typed'.got = typed'.for
  BY <1>1 DEF Homes
<1>4. TeamTypeOK' /\ Shape' /\ (past' # Renumbered => Homes')
  BY <1>1, <1>2, <1>3, BlankOK, MovesOK
<1>5. ASSUME past' < Meddled PROVE Mates'
  <2>1. /\ past < Meddled /\ Mates /\ Writing \subseteq {c} /\ Held(run[c])
        /\ (past' = Clean => Stacked')
    BY <1>1, <1>2, <1>5, RunningOK, GoodStill DEF Mates
  <2>2. PICK q : q = file.last
    OBVIOUS
  <2>3. Good(q)' /\ file'.last = q
    BY <1>1, <1>2, <2>1, <2>2, GoodStill DEF Held
  <2> QED BY <1>1, <2>1, <2>3, BlankOK, AloneOK
<1> QED BY <1>4, <1>5 DEF TeamInv

LEMMA SplitKeeps ==
  ASSUME TeamInv, NEW c \in Clients, Split(c)
  PROVE  TeamInv'
<1> DEFINE old == run[c]
           n   == old.st.ws
           r   == [old EXCEPT !.pc = "save", !.pane = made', !.st.last = made']
<1>1. /\ Running(c) /\ old.pc = "split"
      /\ UNCHANGED <<order, team, file, typed, past>>
  BY DEF Split, Running
<1>2. /\ TeamTypeOK /\ team = "on" /\ old \in Command /\ Apt(old) /\ old.st \in State
      /\ past \in Mark /\ file \in State /\ {file.leader, file.last, typed.for} \subseteq Ids
      /\ past # Renumbered => Homes /\ AtHome(old)
      /\ old.op = "split" /\ c \in Writing /\ Shape
  BY <1>1, RunningOK DEF Apt, Phase, Writers, TeamInv
<1>3. CASE /\ old.pane \notin ToSet(PanesAt(n)) /\ run' = [run EXCEPT ![c] = Idle]
           /\ UNCHANGED <<panes, column, made, mates>>
  BY <1>1, <1>3, EndsOK
<1>4. CASE /\ old.pane \in ToSet(PanesAt(n)) /\ SplitPane(order[n], old.pane, old.down)
           /\ run' = [run EXCEPT ![c] = r] /\ mates' = mates \cup {made'}
  <2>1. PICK v : v = order[n]
    OBVIOUS
  <2>2. /\ n \in DOMAIN order /\ v \in Ws /\ v \in ToSet(order)
        /\ old.pane \in At(v) /\ old.down \in BOOLEAN
    BY <1>2, <1>4, <2>1, AtOK DEF Command, ToSet
  <2>3. c \in Splitting /\ made < MaxPanes /\ made \in Nat
    <3>1. c \in Splitting
      BY <1>1 DEF Splitting
    <3>2. /\ Cardinality(Splitting) \in Nat /\ Cardinality(Splitting) # 0
          /\ made \in Nat /\ made + Cardinality(Splitting) <= MaxPanes /\ MaxPanes \in Nat
      BY <1>2, <3>1, SplittingOK, RoomOK DEF Shape
    <3> QED BY <3>1, <3>2
  <2> HIDE DEF old, n
  <2>4. PICK o : o = old.pane
    OBVIOUS
  <2>5. /\ made' \in Pane /\ made' = made + 1 /\ column' \in [Pane -> Pane]
        /\ panes' \in [Ws -> Seq(Pane)]
        /\ \A w \in Ws : /\ IsInjective(panes'[w])
                         /\ At(w)' = At(w) \cup (IF w = v THEN {made'} ELSE {})
                         /\ (panes'[w] # <<>>) = (panes[w] # <<>>)
        /\ \A q \in Pane \ {made'} : column'[q] = column[q]
        /\ old.down => column'[made'] = column[o]
    <3>1. PICK down : down = old.down
      OBVIOUS
    <3>2. SplitPane(v, o, down) /\ o \in At(v) /\ down \in BOOLEAN
      BY <1>4, <2>1, <2>2, <2>4, <3>1
    <3> QED BY <1>2, <2>2, <2>3, <3>1, <3>2, SplitPaneOK
  <2>6. /\ r \in Command /\ r.pc = "save" /\ r.op = "split" /\ r.pane = made' /\ r.st.last = made'
        /\ r.st.ws = old.st.ws /\ r.st.leader = old.st.leader
    BY <1>2, <2>5 DEF Command, State
  <2>7. PICK x : x = r
    OBVIOUS
  <2> HIDE DEF r
  <2>8. x \in Command /\ run' = [run EXCEPT ![c] = x]
    BY <1>4, <2>6, <2>7
  <2>9. /\ run' \in [Clients -> Command] /\ run'[c] = x
        /\ \A d \in Clients \ {c} : run'[d] = run[d]
        /\ Splitting' = Splitting \ {c}
    <3>1. /\ run' \in [Clients -> Command] /\ run'[c] = x
          /\ \A d \in Clients \ {c} : run'[d] = run[d]
          /\ Splitting' = (Splitting \ {c}) \cup (IF x.pc = "split" THEN {c} ELSE {})
      BY <1>2, <2>8, TypesOK, RunOK
    <3> QED BY <2>6, <2>7, <3>1
  <2>10. /\ Ids' = Ids \cup {made'} /\ made' \notin Ids /\ made' # NoPane
         /\ 1 .. made \subseteq 1 .. made' /\ made' \in 1 .. made'
    BY <2>3, <2>5 DEF Ids, NoPane
  <2>11. TeamTypeOK'
    <3>1. \A w \in Ws : (w \in ToSet(order)) = (panes'[w] # <<>>)
      BY <1>2, <2>5, TypedOK
    <3>2. mates' \subseteq Pane /\ mates \subseteq 1 .. made
      BY <1>2, <1>4, <2>5, TypedOK DEF Shape
    <3> QED BY <1>1, <1>2, <2>5, <2>9, <3>1, <3>2, TypedOK, Zenon DEF TeamTypeOK
  <2>12. Shape'
    <3>1. \A w \in Ws : IsInjective(panes'[w]) /\ At(w)' \subseteq 1 .. made'
      <4>1. \A w \in Ws : At(w) \subseteq 1 .. made
        BY <1>2 DEF Shape
      <4> QED BY <2>5, <2>10, <4>1
    <3>2. made' + Cardinality(Splitting') <= MaxPanes
      <4>1. /\ Cardinality(Splitting') = Cardinality(Splitting) - 1
            /\ Cardinality(Splitting) \in Nat /\ MaxPanes \in Nat
        BY <1>2, <2>3, <2>9, SplittingOK, RoomOK
      <4>2. made + Cardinality(Splitting) <= MaxPanes
        BY <1>2 DEF Shape
      <4> QED BY <2>3, <2>5, <4>1, <4>2
    <3>3. \A d \in Clients : Apt(run[d])'
      <4>1. Phase(x) /\ {x.pane, x.st.leader, x.st.last} \subseteq Ids'
        BY <1>2, <2>6, <2>7, <2>10 DEF Phase, Writers, Apt
      <4>2. \A d \in Clients \ {c} : Apt(run'[d])
        BY <1>2, <2>9 DEF Shape
      <4> QED BY <2>9, <2>10, <4>1, <4>2 DEF Apt, Phase
    <3>4. mates' \subseteq 1 .. made' /\ {file.leader, file.last, typed.for} \subseteq Ids'
      BY <1>2, <1>4, <2>10 DEF Shape
    <3> QED BY <1>1, <1>2, <3>1, <3>2, <3>3, <3>4 DEF Shape
  <2>13. made' \notin Open /\ Open' = Open \cup {made'} /\ made' \notin mates
    <3>1. \A w \in Ws : made' \notin At(w)
      BY <1>2, <2>10 DEF Shape, Ids
    <3>2. made' \notin mates
      BY <1>2, <2>10 DEF Shape, Ids
    <3> QED BY <2>2, <2>5, <3>1, <3>2 DEF Open, At
  <2>14. ASSUME past # Renumbered
         PROVE  /\ Homes /\ AtHome(old) /\ n = file.ws /\ v = Home /\ Home' = Home
                /\ made' # file.leader /\ Homes'
    <3>1. Homes /\ AtHome(old) /\ n = file.ws /\ v = Home /\ Home' = Home /\ made' # file.leader
      BY <1>1, <1>2, <2>1, <2>10, <2>14 DEF Home, AtHome, n
    <3>2. \A w \in Ws \ {Home} : At(w)' \cap mates' = {}
      <4>1. \A w \in Ws \ {Home} : At(w)' = At(w) /\ At(w) \cap mates = {} /\ At(w) \subseteq Open
        BY <2>5, <3>1 DEF Homes, Open, At
      <4> QED BY <1>4, <2>13, <4>1
    <3>3. AtHome(x)'
      BY <1>1, <1>2, <2>6, <2>7, <3>1 DEF AtHome
    <3>4. \A d \in Clients \ {c} : Running(d)' => AtHome(run[d])'
      BY <1>1, <2>9, <3>1 DEF Homes, AtHome, Running
    <3>5. typed.for \in At(Home)' => typed.got = typed.for
      <4>1. At(Home)' = At(v)'
        BY <3>1 DEF At
      <4>2. At(v)' = At(Home) \cup {made'} /\ typed.for # made'
        BY <1>2, <2>2, <2>5, <2>10, <3>1
      <4> QED BY <3>1, <4>1, <4>2 DEF Homes
    <3>6. file.leader \notin mates'
      BY <1>4, <3>1 DEF Homes
    <3> QED BY <1>1, <2>9, <3>1, <3>2, <3>3, <3>4, <3>5, <3>6 DEF Homes
  <2>15. ASSUME past' < Meddled PROVE Mates'
    <3>1. past < Meddled /\ past # Renumbered /\ Mates /\ Writing \subseteq {c} /\ Held(old)
      BY <1>1, <1>2, <2>15, RunningOK DEF old
    <3>2. Good(x.st.last)'
      <4>1. made' \in At(Home)' /\ made' \in mates' /\ made' # file'.leader
        BY <1>1, <1>4, <2>2, <2>5, <2>14, <3>1
      <4>2. x.st.last = made' /\ made' # NoPane
        BY <2>6, <2>7, <2>10
      <4> QED BY <4>1, <4>2 DEF Good
    <3>3. Held(x)'
      BY <2>6, <2>7, <3>2 DEF Held
    <3>4. ASSUME past' = Clean PROVE Stacked'
      <4>1. past = Clean /\ Stacked /\ (IF old.down THEN o \in mates ELSE Bare)
        BY <1>1, <2>4, <3>1, <3>4 DEF Mates, Held
      <4>2. mates' \cap Open' = (mates \cap Open) \cup {made'}
        BY <1>4, <2>13
      <4>3. \A p \in mates \cap Open : column'[p] = column[p]
        BY <1>2, <2>5, <2>13, TypedOK
      <4>4. CASE old.down
        <5>1. o \in mates \cap Open /\ column'[made'] = column[o]
          BY <2>2, <2>4, <2>5, <4>1, <4>4 DEF Open, At
        <5>2. \A p \in mates' \cap Open' : column'[p] = column[o]
          BY <4>1, <4>2, <4>3, <5>1 DEF Stacked
        <5> QED BY <5>2 DEF Stacked
      <4>5. CASE ~old.down
        BY <4>1, <4>2, <4>5 DEF Bare, Stacked
      <4> QED BY <4>4, <4>5
    <3> QED BY <1>2, <2>6, <2>7, <2>8, <3>1, <3>3, <3>4, AloneOK DEF Writers
  <2> QED BY <2>11, <2>12, <1>1, <2>14, <2>15 DEF TeamInv
<1> QED BY <1>3, <1>4 DEF Split, Ends

LEMMA CloseKeeps ==
  ASSUME TeamInv, NEW c \in Clients, Close(c)
  PROVE  TeamInv'
<1> DEFINE old == run[c]
           n   == old.st.ws
           r   == [old EXCEPT !.pc = "list"]
<1>1. /\ Running(c) /\ old.pc = "close"
      /\ UNCHANGED <<order, made, team, file, typed, mates, past>>
  BY DEF Close, Running
<1>2. /\ TeamTypeOK /\ team = "on" /\ old \in Command /\ Apt(old) /\ old.st \in State
      /\ past \in Mark /\ file \in State /\ {file.leader, file.last, typed.for} \subseteq Ids
      /\ past # Renumbered => Homes /\ AtHome(old)
      /\ old.op = "kill" /\ c \in Writing /\ Shape
  BY <1>1, RunningOK DEF Apt, Phase, Writers, TeamInv
<1>3. CASE ~CanClose(n, old.pane)
  <2>1. UNCHANGED <<panes, column>> /\ run' = [run EXCEPT ![c] = Idle]
    BY <1>3 DEF Close, Ends
  <2> QED BY <1>1, <2>1, EndsOK
<1>4. CASE CanClose(n, old.pane)
  <2>1. PICK v, p : v = order[n] /\ p = old.pane
    OBVIOUS
  <2>2. ClosePane(v, p) /\ run' = [run EXCEPT ![c] = r]
    BY <1>4, <2>1 DEF Close, Goes
  <2>3. n \in DOMAIN order /\ v \in Ws /\ p \in At(v) /\ Len(panes[v]) > 1
    BY <1>2, <1>4, <2>1, AtOK DEF CanClose, PanesAt
  <2> HIDE DEF old, n
  <2>4. /\ r \in Command /\ r.pc = "list" /\ r.op = "kill" /\ r.st = old.st /\ r.pane = old.pane
    BY <1>2 DEF Command
  <2>5. PICK x : x = r
    OBVIOUS
  <2> HIDE DEF r
  <2>6. /\ column' = column /\ panes' \in [Ws -> Seq(Pane)]
        /\ \A w \in Ws : /\ IsInjective(panes'[w])
                         /\ At(w)' = At(w) \ (IF w = v THEN {p} ELSE {})
                         /\ (panes'[w] # <<>>) = (panes[w] # <<>>)
    BY <1>2, <2>2, <2>3, ClosePaneOK
  <2>7. /\ run' \in [Clients -> Command] /\ run'[c] = x
        /\ \A d \in Clients \ {c} : run'[d] = run[d]
        /\ Splitting' = Splitting
    <3>1. /\ run' \in [Clients -> Command] /\ run'[c] = x
          /\ \A d \in Clients \ {c} : run'[d] = run[d]
          /\ Splitting' = (Splitting \ {c}) \cup (IF x.pc = "split" THEN {c} ELSE {})
      BY <1>2, <2>2, <2>4, <2>5, RunOK, TypesOK
    <3>2. c \notin Splitting
      BY <1>1 DEF Splitting, old
    <3> QED BY <2>4, <2>5, <3>1, <3>2
  <2>8. TeamTypeOK'
    <3>1. \A w \in Ws : (w \in ToSet(order)) = (panes'[w] # <<>>)
      BY <1>2, <2>6, TypedOK
    <3> QED BY <1>1, <1>2, <2>6, <2>7, <3>1, TypedOK, Zenon DEF TeamTypeOK
  <2>9. Shape'
    <3>1. Ids' = Ids /\ \A d \in Clients : Apt(run'[d])
      BY <1>1, <1>2, <2>4, <2>5, <2>7 DEF Ids, Shape, Apt, Phase
    <3>2. \A d \in Clients : Apt(run[d])'
      BY <3>1 DEF Apt, Phase
    <3>3. \A w \in Ws : IsInjective(panes'[w]) /\ At(w)' \subseteq 1 .. made'
      BY <1>1, <1>2, <2>6 DEF Shape
    <3> QED BY <1>1, <1>2, <2>7, <3>1, <3>2, <3>3 DEF Shape
  <2>10. ASSUME past # Renumbered
         PROVE  /\ Homes /\ AtHome(old) /\ v = Home /\ Home' = Home /\ Homes'
    <3>1. Homes /\ AtHome(old) /\ v = Home /\ Home' = Home
      BY <1>1, <1>2, <2>1, <2>10 DEF Home, AtHome, n
    <3>2. \A w \in Ws \ {Home} : At(w)' \cap mates = {}
      BY <2>6, <3>1 DEF Homes
    <3>3. AtHome(x)'
      BY <1>1, <1>2, <2>4, <2>5, <3>1 DEF AtHome
    <3>4. \A d \in Clients \ {c} : Running(d)' => AtHome(run[d])'
      BY <1>1, <2>7, <3>1 DEF Homes, AtHome, Running
    <3>5. typed.for \in At(Home)' => typed.got = typed.for
      BY <2>3, <2>6, <3>1 DEF Homes
    <3> QED BY <1>1, <2>7, <3>1, <3>2, <3>3, <3>4, <3>5 DEF Homes
  <2>11. ASSUME past' < Meddled PROVE Mates'
    <3>1. /\ past < Meddled /\ past # Renumbered /\ Mates /\ Writing \subseteq {c} /\ Held(old)
      BY <1>1, <1>2, <2>11, RunningOK DEF old
    <3>2. Good(old.st.last)
      BY <1>1, <3>1 DEF Held
    <3>3. mates' \cap Open' \subseteq mates \cap Open
      BY <1>1, <2>6 DEF Open, At
    <3>4. ASSUME NEW i, Good(i), i # p PROVE Good(i)'
      <4>1. i \in {NoPane} \cup (At(Home)' \ {file'.leader})
        BY <1>1, <2>3, <2>6, <2>10, <3>1, <3>4 DEF Good
      <4>2. Bare => Bare'
        BY <3>3 DEF Bare
      <4> QED BY <1>1, <3>4, <4>1, <4>2, <2>10, <3>1 DEF Good
    <3>5. Held(x)'
      <4>1. PICK q : q = old.st.last
        OBVIOUS
      <4>2. x.pc = "list" /\ x.st.last = q /\ x.pane = p
        BY <2>1, <2>4, <2>5, <4>1
      <4>3. q # p => Good(q)'
        BY <3>2, <3>4, <4>1
      <4> QED BY <4>2, <4>3 DEF Held
    <3>6. ASSUME past' = Clean PROVE Stacked'
      BY <1>1, <2>6, <3>1, <3>3, <3>6 DEF Mates, Stacked
    <3> QED BY <1>2, <2>2, <2>4, <2>5, <3>1, <3>5, <3>6, AloneOK DEF Writers
  <2> QED BY <1>1, <2>8, <2>9, <2>10, <2>11 DEF TeamInv
<1> QED BY <1>3, <1>4

-----------------------------------------------------------------------------
(* claude-teams                                                            *)

\* Nothing runs before claude does, so there is nothing to hold.
LEMMA LaunchOK ==
  ASSUME TeamInv, team # "on",
         UNCHANGED <<order, panes, column, made, run, typed, mates, past>>,
         team' \in {"off", "asked", "on"}, file' \in State,
         file'.leader \in Ids, file'.last = NoPane,
         team' = "on" => file.ws \in DOMAIN order /\ file'.ws = file.ws
  PROVE  TeamInv'
<1>1. /\ TeamTypeOK /\ Shape /\ (\A c \in Clients : ~Running(c))
      /\ mates = {} /\ past = Clean /\ typed.for = NoPane /\ NoPane \in Ids
  BY DEF TeamInv, Shape, Ids
<1>2. /\ Splitting' = Splitting /\ Ids' = Ids
      /\ \A c \in Clients : ~Running(c)'
      /\ \A w : At(w)' = At(w)
  BY <1>1 DEF Splitting, Running, Ids, At
<1>3. TeamTypeOK'
  BY <1>1, TypedOK, Zenon DEF TeamTypeOK
<1>4. Shape'
  <2>1. \A c \in Clients : Apt(run[c])'
    BY <1>1, <1>2 DEF Shape, Apt, Phase
  <2> QED BY <1>1, <1>2, <2>1 DEF Shape
<1>5. ASSUME team' = "on" PROVE Homes'
  <2>1. file'.ws \in DOMAIN order' /\ file'.leader \notin mates' /\ \A w : At(w)' \cap mates' = {}
    BY <1>1, <1>5
  <2>2. typed'.for \notin At(Home)'
    <3>1. Home' \in Ws
      BY <1>1, <1>5, AtOK DEF Home
    <3>2. PICK h : h = Home'
      OBVIOUS
    <3>3. NoPane \notin ToSet(panes'[h])
      BY <1>1, <3>1, <3>2, AtOK, NumbersOK DEF At
    <3> QED BY <1>1, <3>2, <3>3 DEF At
  <2> QED BY <1>2, <2>1, <2>2 DEF Homes
<1>6. Mates'
  <2>1. Writing' = {}
    BY <1>2 DEF Writing
  <2>2. Bare' /\ Stacked'
    BY <1>1 DEF Bare, Stacked
  <2>3. Good(file.last)'
    BY <2>2 DEF Good
  <2> QED BY <2>1, <2>2, <2>3 DEF Mates
<1> QED BY <1>3, <1>4, <1>5, <1>6 DEF TeamInv

LEMMA LaunchAskKeeps ==
  ASSUME TeamInv, NEW n \in Ws, NEW p \in Pane, LaunchAsk(n, p)
  PROVE  TeamInv'
<1> DEFINE f == [Blank EXCEPT !.ws = n, !.leader = p]
<1>1. /\ team = "off" /\ p \in ToSet(PanesAt(n)) /\ team' = "asked" /\ file' = f
      /\ UNCHANGED <<order, panes, column, made, run, typed, mates, past>>
  BY DEF LaunchAsk
<1>2. f \in State /\ f.ws = n /\ f.leader = p /\ f.last = NoPane
  BY BlankOK, NumbersOK DEF Blank, State
<1>3. p \in Ids
  <2>1. n \in DOMAIN order => order[n] \in Ws /\ ToSet(PanesAt(n)) = At(order[n])
    BY AtOK DEF TeamInv
  <2>2. n \notin DOMAIN order => ToSet(PanesAt(n)) = {}
    BY AtOK DEF TeamInv
  <2> QED BY <1>1, <2>1, <2>2 DEF TeamInv, Shape, Ids
<1> HIDE DEF f
<1> QED BY <1>1, <1>2, <1>3, LaunchOK

LEMMA LaunchListKeeps ==
  ASSUME TeamInv, LaunchList
  PROVE  TeamInv'
<1> DEFINE list == PanesAt(file.ws)
           f    == [file EXCEPT !.leader = IF @ \in ToSet(list) THEN @ ELSE list[1]]
<1>1. /\ team = "asked"
      /\ UNCHANGED <<order, panes, column, made, run, typed, mates, past>>
      /\ IF list = <<>> THEN team' = "off" /\ file' = Blank
                        ELSE team' = "on" /\ file' = f
  BY DEF LaunchList
<1>2. TeamTypeOK /\ Shape /\ file \in State /\ file.last = NoPane
  BY <1>1, TypesOK DEF TeamInv, Shape
<1>3. CASE list = <<>>
  <2>1. NoPane \in Ids
    BY DEF Ids
  <2> QED BY <1>1, <1>3, <2>1, BlankOK, LaunchOK
<1>4. CASE list # <<>>
  <2>1. file.ws \in DOMAIN order /\ order[file.ws] \in Ws /\ list = panes[order[file.ws]]
    BY <1>2, <1>4, AtOK DEF PanesAt
  <2>2. list \in Seq(Pane) /\ ToSet(list) \subseteq 1 .. made
    BY <1>2, <2>1, TypedOK DEF Shape, At
  <2>3. list[1] \in Pane /\ list[1] \in ToSet(list)
    BY <1>4, <2>2, SeqOK DEF ToSet
  <2> HIDE DEF list
  <2>4. /\ f \in State /\ f.ws = file.ws /\ f.last = file.last
        /\ f.leader = IF file.leader \in ToSet(list) THEN file.leader ELSE list[1]
    BY <1>2, <2>3 DEF State
  <2>5. f.leader \in Ids
    BY <2>2, <2>3, <2>4 DEF Ids
  <2> HIDE DEF f
  <2> QED BY <1>1, <1>2, <1>4, <2>1, <2>4, <2>5, LaunchOK
<1> QED BY <1>3, <1>4

-----------------------------------------------------------------------------
(* TmuxCompat: the theorems                                                *)

LEMMA TeamInitOK == TeamInit => TeamInv
<1> SUFFICES ASSUME TeamInit PROVE TeamInv
  OBVIOUS
<1>1. \A w \in Ws : <<w>> \in Seq(Pane) /\ ToSet(<<w>>) = {w} /\ IsInjective(<<w>>) /\ <<w>> # <<>>
  BY NumbersOK DEF ToSet, IsInjective
<1>2. ToSet(<<>>) = {} /\ IsInjective(<<>>) /\ <<>> \in Seq(Pane)
  BY DEF ToSet, IsInjective
<1>3. /\ made \in Ws /\ made \in Pane /\ made \in Nat /\ made >= 1 /\ made <= MaxPanes
      /\ 1 .. made \subseteq Ws /\ MaxPanes \in Nat
  BY NumbersOK, TeamAssumption DEF TeamInit, Ws
<1>4. /\ order \in Seq(Ws) /\ IsInjective(order) /\ order # <<>>
      /\ \A w \in Ws : w \in ToSet(order) <=> w <= made
  <2>1. order = [k \in 1 .. made |-> k]
    BY DEF TeamInit
  <2>2. DOMAIN order = 1 .. made /\ \A k \in 1 .. made : order[k] = k
    BY <2>1
  <2>3. order \in Seq(Ws)
    BY <1>3, <2>1
  <2>4. IsInjective(order) /\ ToSet(order) = 1 .. made
    BY <2>2 DEF IsInjective, ToSet
  <2>5. order # <<>>
    <3>1. 1 \in ToSet(order)
      BY <1>3, <2>4
    <3> QED BY <2>3, <3>1, SeqOK
  <2>6. \A w \in Ws : w \in 1 .. made <=> w <= made
    BY <1>3 DEF Ws
  <2> QED BY <2>3, <2>4, <2>5, <2>6
<1>5. \A w \in Ws : /\ panes[w] = IF w <= made THEN <<w>> ELSE <<>>
                    /\ At(w) \subseteq 1 .. made
  <2> SUFFICES ASSUME NEW w \in Ws
               PROVE  /\ panes[w] = IF w <= made THEN <<w>> ELSE <<>>
                      /\ At(w) \subseteq 1 .. made
    OBVIOUS
  <2>1. panes[w] = IF w <= made THEN <<w>> ELSE <<>>
    BY DEF TeamInit
  <2>2. CASE w <= made
    <3>1. At(w) = {w} /\ w \in 1 .. made
      BY <1>1, <1>3, <2>1, <2>2 DEF At, Ws
    <3> QED BY <2>1, <3>1
  <2>3. CASE ~(w <= made)
    BY <1>2, <2>1, <2>3 DEF At
  <2> QED BY <2>2, <2>3
<1>6. \A c \in Clients : run[c] = Idle /\ ~Running(c)
  BY BlankOK DEF TeamInit, Running
<1>7. Splitting = {}
  BY <1>6, BlankOK DEF Splitting
<1>8. TeamTypeOK
  <2>1. panes \in [Ws -> Seq(Pane)] /\ \A w \in Ws : (w \in ToSet(order)) = (panes[w] # <<>>)
    <3>1. \A w \in Ws : panes[w] \in Seq(Pane) /\ (w \in ToSet(order) <=> panes[w] # <<>>)
      BY <1>1, <1>2, <1>4, <1>5
    <3> QED BY <3>1 DEF TeamInit
  <2>2. column \in [Pane -> Pane]
    BY DEF TeamInit
  <2>3. run \in [Clients -> Command] /\ file \in State
    BY BlankOK DEF TeamInit
  <2>4. typed \in Text /\ past \in Mark /\ mates \subseteq Pane
    BY MarksOK DEF TeamInit, NoText, Text
  <2>5. team \in {"off", "asked", "on"}
    BY DEF TeamInit
  <2> QED BY <1>3, <1>4, <2>1, <2>2, <2>3, <2>4, <2>5, TypedOK
<1>9. Shape
  <2>1. \A w \in Ws : IsInjective(panes[w]) /\ At(w) \subseteq 1 .. made
    BY <1>1, <1>2, <1>5
  <2>2. made + Cardinality(Splitting) <= MaxPanes
    BY <1>3, <1>7, FS_EmptySet
  <2>3. /\ typed.for = NoPane /\ file.last = NoPane /\ file.leader = NoPane /\ NoPane \in Ids
        /\ mates = {} /\ past = Clean
    BY BlankOK DEF TeamInit, NoText, Ids
  <2> QED BY <1>6, <2>1, <2>2, <2>3, BlankOK DEF Shape
<1>10. team # "on"
  BY DEF TeamInit
<1> QED BY <1>8, <1>9, <1>10 DEF TeamInv

LEMMA TeamNextOK == TeamInv /\ [TeamNext]_teamVars => TeamInv'
<1> SUFFICES ASSUME TeamInv, [TeamNext]_teamVars PROVE TeamInv'
  OBVIOUS
<1>1. ASSUME NEW w \in Ws, NEW p \in Pane, LaunchAsk(w, p) PROVE TeamInv'
  BY <1>1, LaunchAskKeeps
<1>2. ASSUME NEW c \in Clients, Start(c) PROVE TeamInv'
  BY <1>2, SplitWindowKeeps, KillPaneKeeps, SendOrCaptureKeeps, SelectLayoutKeeps DEF Start
<1>3. ASSUME NEW c \in Clients, Step(c) PROVE TeamInv'
  BY <1>3, SplitKeeps, SaveKeeps, TypeKeeps, CloseKeeps, ListKeeps DEF Step
<1>4. ASSUME UNCHANGED teamVars PROVE TeamInv'
  <2>1. /\ order' = order /\ panes' = panes /\ column' = column /\ made' = made
        /\ team' = team /\ file' = file /\ run' = run /\ typed' = typed
        /\ mates' = mates /\ past' = past
    BY <1>4 DEF teamVars
  <2>2. /\ Splitting' = Splitting /\ Writing' = Writing /\ Ids' = Ids /\ Open' = Open
        /\ Home' = Home
        /\ \A w : At(w)' = At(w)
        /\ \A c : Running(c)' <=> Running(c)
        /\ Stacked' <=> Stacked
    BY <2>1 DEF Splitting, Writing, Running, Ids, Open, At, Home, Stacked
  <2>3. /\ \A c : AtHome(run[c])' <=> AtHome(run[c])
        /\ \A c : Apt(run[c])' <=> Apt(run[c])
        /\ \A q : Good(q)' <=> Good(q)
        /\ Good(file.last)' <=> Good(file.last)
    BY <2>1, <2>2 DEF AtHome, Apt, Phase, Good, Bare
  <2>4. \A c : Held(run[c])' <=> Held(run[c])
    BY <2>1, <2>2 DEF Held, Good, Bare
  <2>5. TeamTypeOK' <=> TeamTypeOK
    BY <2>1 DEF TeamTypeOK
  <2>6. Shape' <=> Shape
    BY <2>1, <2>2, <2>3 DEF Shape
  <2>7. Homes' <=> Homes
    BY <2>1, <2>2, <2>3 DEF Homes
  <2>8. Mates' <=> Mates
    BY <2>1, <2>2, <2>3, <2>4 DEF Mates
  <2> QED BY <2>1, <2>5, <2>6, <2>7, <2>8 DEF TeamInv
<1> QED BY <1>1, <1>2, <1>3, <1>4, ByHandKeeps, LaunchListKeeps DEF TeamNext

\* The invariant holds in every state of every behaviour of the commands, the
\* user and the agents, whatever the number of processes, workspaces and panes.
\* What it says of the teammates it says up to the mark past has reached: of their
\* column while that is Clean, of the pane below which the next is split while it
\* is less than Meddled, of the workspace until it is Renumbered
\* (prettymux_agent_cli.c).
THEOREM TeamInvariant == TeamSpec => []TeamInv
BY TeamInitOK, TeamNextOK, PTL DEF TeamSpec

\* The types of TmuxCompat; a workspace in the list has a pane, one that is not
\* has none (prettymux_agent_cli.c, workspace.c).
THEOREM TeamTypeCorrect == TeamSpec => []TeamTypeOK
<1>1. TeamInv => TeamTypeOK
  BY DEF TeamInv
<1> QED BY TeamInvariant, <1>1, PTL

\* Between commands the pane that tmux_split_window will split below is open in
\* the workspace the file has the number of, and is not the leader, however
\* tmux_kill_pane has replaced it and whatever panes the user has made beside
\* it.  It need not be so once the user closes panes there, two commands have
\* saved at a time, a save has failed, or the number names another workspace: by
\* a -t of select-layout, or as the list of workspaces changed.
THEOREM NextSplitGoesBelow == TeamSpec => []LastIsBeside
<1>1. TeamInv => LastIsBeside
  <2> SUFFICES ASSUME TeamInv, team = "on", past < Meddled, Writing = {}
               PROVE  file.last \in {NoPane} \cup (ToSet(PanesAt(file.ws)) \ {file.leader})
    BY DEF LastIsBeside
  <2>1. TeamTypeOK /\ past # Renumbered
    BY TypesOK, MarksOK DEF TeamInv
  <2>2. Homes /\ Mates
    BY <2>1 DEF TeamInv
  <2>3. ToSet(PanesAt(file.ws)) = At(Home)
    BY <2>1, <2>2, AtOK DEF Homes, Home
  <2> QED BY <2>2, <2>3 DEF Mates, Good
<1> QED BY TeamInvariant, <1>1, PTL

\* All the panes that split-window made and that are open are in one column of
\* the window, as long as only the leader is split, in a main-vertical layout, by
\* one command at a time whose save succeeds, no pane of that workspace is closed
\* by hand, and kill-pane has not had to put a pane of the user's in the place of
\* the last teammate (tmux_split_window and tmux_kill_pane of
\* prettymux_agent_cli.c).
THEOREM OneColumn == TeamSpec => []TeammatesStack
<1>1. TeamInv => TeammatesStack
  <2> SUFFICES ASSUME TeamInv, past = Clean
               PROVE  \A p, q \in mates \cap Open : column[p] = column[q]
    BY DEF TeammatesStack
  <2>1. CASE team = "on"
    BY <2>1, TypesOK, MarksOK DEF TeamInv, Mates, Stacked
  <2>2. CASE team # "on"
    BY <2>2 DEF TeamInv, Shape
  <2> QED BY <2>1, <2>2
<1> QED BY TeamInvariant, <1>1, PTL

\* Text reaches the pane it was for, as long as that pane is open in the workspace
\* the file has the number of and the number has always named that workspace: no
\* close or split by hand, no second command and no failed save leads it astray,
\* while a -t of select-layout, and a workspace removed, reordered or detached
\* above it, may (resolve_target_terminal of socket_commands.c).
THEOREM TextGoesWhereAsked == TeamSpec => []TypedWhereAsked
<1>1. TeamInv => TypedWhereAsked
  <2> SUFFICES ASSUME TeamInv, past # Renumbered, typed.for \in ToSet(PanesAt(file.ws))
               PROVE  typed.got = typed.for
    BY DEF TypedWhereAsked
  <2>1. TeamTypeOK /\ Shape
    BY DEF TeamInv
  <2>2. typed.for \in Pane /\ file.ws \in DOMAIN order
    BY <2>1, AtOK
  <2>3. team = "on"
    BY <2>1, <2>2, NumbersOK DEF Shape
  <2>4. Homes /\ ToSet(PanesAt(file.ws)) = At(Home)
    BY <2>1, <2>2, <2>3, AtOK DEF TeamInv, Home
  <2> QED BY <2>4 DEF Homes
<1> QED BY TeamInvariant, <1>1, PTL

=============================================================================
