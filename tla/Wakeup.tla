------------------------------- MODULE Wakeup -------------------------------
(***************************************************************************)
(* main.c: ghostty's threads call wakeup_cb after they put a message in    *)
(* the app's mailbox.  The calls are coalesced into one pending idle of    *)
(* the GTK main loop by an atomic flag, and the idle drains the mailbox.   *)
(*                                                                         *)
(* A step is one atomic operation.  wakeup_cb called on the main thread is *)
(* a thread's steps with none of the main loop's between them.             *)
(***************************************************************************)
EXTENDS Naturals, Sequences, SequencesExt, FiniteSets

CONSTANT Threads

ASSUME ThreadsAssumption == IsFiniteSet(Threads)

VARIABLES
    mail,      \* ghostty's mailbox
    pending,   \* g_wakeup_pending
    queued,    \* idle sources of wakeup_idle attached to the main loop
    pc,        \* where each thread is: "out", or in wakeup_cb at "cas" or "add"
    main       \* where the main loop is: "loop", or in wakeup_idle

vars == <<mail, pending, queued, pc, main>>

TypeOK ==
    /\ mail \in Seq(Threads)
    /\ pending \in {0, 1}
    /\ queued \in Nat
    /\ pc \in [Threads -> {"out", "cas", "add"}]
    /\ main \in {"loop", "reset", "tick"}

Init ==
    /\ mail = <<>>
    /\ pending = 0
    /\ queued = 0
    /\ pc = [t \in Threads |-> "out"]
    /\ main = "loop"

\* ghostty: the message goes in before the callback is called.
Push(t) ==
    /\ pc[t] = "out"
    /\ t \notin ToSet(mail)          \* bound: one message of a thread at a time
    /\ mail' = Append(mail, t)
    /\ pc' = [pc EXCEPT ![t] = "cas"]
    /\ UNCHANGED <<pending, queued, main>>

\* Mutant of CompareExchange: the flag is not compared.
Exchange(t) ==
    /\ pc[t] = "cas"
    /\ pending' = 1
    /\ pc' = [pc EXCEPT ![t] = "add"]
    /\ UNCHANGED <<mail, queued, main>>

CompareExchange(t) ==
    /\ pc[t] = "cas"
    /\ pending' = 1
    /\ pc' = [pc EXCEPT ![t] = IF pending = 0 THEN "add" ELSE "out"]
    /\ UNCHANGED <<mail, queued, main>>

AddIdle(t) ==
    /\ pc[t] = "add"
    /\ queued' = queued + 1
    /\ pc' = [pc EXCEPT ![t] = "out"]
    /\ UNCHANGED <<mail, pending, main>>

Dispatch ==
    /\ main = "loop" /\ queued > 0
    /\ queued' = queued - 1
    /\ main' = "reset"
    /\ UNCHANGED <<mail, pending, pc>>

\* Mutant of Reset: the flag stays up.
ResetNever ==
    /\ main = "reset"
    /\ main' = "tick"
    /\ UNCHANGED <<mail, pending, queued, pc>>

\* The flag goes down before the mailbox is drained, not after.
Reset ==
    /\ main = "reset"
    /\ pending' = 0
    /\ main' = "tick"
    /\ UNCHANGED <<mail, queued, pc>>

\* ghostty_app_tick pops until it finds the mailbox empty.
TickPop ==
    /\ main = "tick" /\ mail # <<>>
    /\ mail' = Tail(mail)
    /\ UNCHANGED <<pending, queued, pc, main>>

TickEnd ==
    /\ main = "tick" /\ mail = <<>>
    /\ main' = "loop"
    /\ UNCHANGED <<mail, pending, queued, pc>>

InCallback(t) == CompareExchange(t) \/ AddIdle(t)

MainLoop == Dispatch \/ Reset \/ TickPop \/ TickEnd

Next == MainLoop \/ \E t \in Threads : Push(t) \/ InCallback(t)

Spec == Init /\ [][Next]_vars

\* Threads inside the callback go on, and the main loop runs its sources: the
\* idle has normal priority, so nothing of a higher one starves it.
Fairness == WF_vars(MainLoop) /\ \A t \in Threads : WF_vars(InCallback(t))

FairSpec == Spec /\ Fairness

-----------------------------------------------------------------------------
(* What must hold *)

Adding == {t \in Threads : pc[t] = "add"}

\* "Coalesce those into a single pending idle": there is never more than one
\* queued, however many threads call.  (main.c, wakeup_cb.)
OneIdle == queued + Cardinality(Adding) <= 1

\* A message that nobody is about to announce, and that the main loop is not
\* about to take, has an idle queued for it.  (main.c, wakeup_idle.)
NoLostWakeup ==
    (mail # <<>> /\ main = "loop" /\ \A t \in Threads : pc[t] = "out")
        => queued > 0

\* Every message is taken, in order.
Abstract == INSTANCE Mailbox WITH mail <- mail, Threads <- Threads
Served   == Abstract!Spec

=============================================================================
