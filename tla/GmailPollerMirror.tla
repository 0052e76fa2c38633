------------------------- MODULE GmailPollerMirror -------------------------
(***************************************************************************)
(* The poller implements MailMirror: the refinement mapping.               *)
(***************************************************************************)
EXTENDS GmailPoller

Mirror == INSTANCE MailMirror WITH
  delivered <- {m \in Messages : addedAt[m] > 0},
  withdrawn <- gone,
  copied    <- {m \in Messages : raw[m] # "absent"},
  settled   <- {m \in Messages : Handled(m)},
  applied   <- applied

\* Every step of the poller copies, settles or applies at most one email,
\* and no email twice.
ImplementsMirror == Mirror!Spec

\* ... and every email that stays readable is copied and settled.
ImplementsFairMirror == Mirror!FairSpec

=============================================================================
