------------------------------ MODULE Mailbox ------------------------------
(***************************************************************************)
(* What ghostty needs of the wakeup path: the messages its threads put in  *)
(* the app's mailbox are all taken, in order.  How the main loop comes to  *)
(* take them is not said here; module Wakeup says it, and implements this. *)
(***************************************************************************)
EXTENDS Sequences, SequencesExt

CONSTANT Threads   \* ghostty's renderer and IO threads

VARIABLE mail      \* the mailbox; a message is named after its thread

Init == mail = <<>>

\* Bound: a thread has at most one message in the mailbox.
Arrive(t) == t \notin ToSet(mail) /\ mail' = Append(mail, t)

Take == mail # <<>> /\ mail' = Tail(mail)

Next == Take \/ \E t \in Threads : Arrive(t)

Spec == Init /\ [][Next]_mail /\ WF_mail(Take)

=============================================================================
