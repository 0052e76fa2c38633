---------------------------- MODULE MailMirror ----------------------------
(***************************************************************************)
(* What ingestion promises of every email, without lists, cursors, locks   *)
(* or cycles: a delivered message is copied into the database while it can *)
(* be read, a copy is settled once, and settling applies it to the         *)
(* bookings at most once.                                                  *)
(***************************************************************************)
EXTENDS Naturals

CONSTANT Messages

VARIABLES delivered, withdrawn, copied, settled, applied

mirrorVars == <<delivered, withdrawn, copied, settled, applied>>

Init ==
  /\ delivered = {} /\ withdrawn = {} /\ copied = {} /\ settled = {}
  /\ applied = [m \in Messages |-> 0]

Deliver(m) ==
  /\ m \notin delivered
  /\ delivered' = delivered \cup {m}
  /\ UNCHANGED <<withdrawn, copied, settled, applied>>

Withdraw(m) ==
  /\ m \in delivered \ withdrawn
  /\ withdrawn' = withdrawn \cup {m}
  /\ UNCHANGED <<delivered, copied, settled, applied>>

Copy(m) ==
  /\ m \in delivered \ (withdrawn \cup copied)
  /\ copied' = copied \cup {m}
  /\ UNCHANGED <<delivered, withdrawn, settled, applied>>

\* Settled either by applying it or by recording that this failed.
Settle(m) ==
  /\ m \in copied \ settled
  /\ settled' = settled \cup {m}
  /\ applied' \in {applied, [applied EXCEPT ![m] = @ + 1]}
  /\ UNCHANGED <<delivered, withdrawn, copied>>

Next ==
  \E m \in Messages : Deliver(m) \/ Withdraw(m) \/ Copy(m) \/ Settle(m)

Spec == Init /\ [][Next]_mirrorVars

\* Only a message that can still be read is sure to be settled.
FairSpec ==
  /\ Spec
  /\ \A m \in Messages :
       WF_mirrorVars(m \notin withdrawn /\ (Copy(m) \/ Settle(m)))

=============================================================================
