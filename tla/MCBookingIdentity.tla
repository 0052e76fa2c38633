-------------------------- MODULE MCBookingIdentity --------------------------
(***************************************************************************)
(* Two orders; the first has an OTA and is written about by everybody, the *)
(* second was made on Bookeo's own site and comes with the import.         *)
(***************************************************************************)
EXTENDS BookingIdentity, TLC

MCOrders == {"trip", "other"}
MCPartyOf == [trip |-> "anna", other |-> "boris"]

Mail(o, by, cites, known, full, cancels) ==
  [order |-> o, by |-> by, cites |-> cites, known |-> known, full |-> full,
   cancels |-> cancels]

MCParsed == [
  cited    |-> Mail("trip", "bookeo", TRUE, TRUE, TRUE, FALSE),
  bookeo   |-> Mail("trip", "bookeo", FALSE, TRUE, TRUE, FALSE),
  agent    |-> Mail("trip", "bookeo", TRUE, FALSE, TRUE, FALSE),
  off      |-> Mail("trip", "ota", TRUE, TRUE, TRUE, TRUE),
  blindOff |-> Mail("trip", "bookeo", FALSE, TRUE, FALSE, TRUE)]
MCEmails == DOMAIN MCParsed

MailerSymmetry == Permutations(Mailers)

\* The note of the trip names the OTA without the reference.
MCNotes == [trip |-> [names |-> TRUE, cites |-> FALSE],
            other |-> [names |-> FALSE, cites |-> FALSE]]

=============================================================================
