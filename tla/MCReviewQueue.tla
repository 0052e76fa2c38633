---------------------------- MODULE MCReviewQueue ----------------------------
(***************************************************************************)
(* Two emails, three builds, one needed value.  In the first email the     *)
(* first build finds no reference, the second takes it for a booking, the  *)
(* third knows it for a newsletter.  The second email is unreadable at     *)
(* first, then an uncertain update of that booking, then its cancellation. *)
(***************************************************************************)
EXTENDS ReviewQueue

Says(b, gives, sure, cancels) ==
  [kind |-> "booking", booking |-> b, gives |-> gives, sure |-> sure,
   cancels |-> cancels]
Is(kind) == [kind |-> kind]

MCReading == [
  false |-> <<Is("noref"), Says("b1", {}, TRUE, FALSE), Is("ignore")>>,
  late  |-> <<Is("undetected"), Says("b1", {"date"}, FALSE, FALSE),
              Says("b1", {}, TRUE, TRUE)>>]
MCEmails == DOMAIN MCReading
MCBookings == {"b1"}
MCData == {"date"}

=============================================================================
