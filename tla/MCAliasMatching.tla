--------------------------- MODULE MCAliasMatching ---------------------------
(***************************************************************************)
(* A catalogue with one product, which an email writes in capitals and     *)
(* with an option; a product with a code that nobody has mapped.  The two  *)
(* emails move one booking from the first to the second.                   *)
(***************************************************************************)
EXTENDS AliasMatching

Tour == 1
TOUR == 2
Cruise == 3
Morning == 4
Code == 5

MCNames == {Tour, TOUR, Cruise}
MCOptions == {Morning}
MCCodes == {Code}
MCNorm == [x \in MCNames \cup MCOptions \cup {0} |-> IF x = TOUR THEN Tour ELSE x]

Of4(n, o, c, d) == [name |-> n, option |-> o, code |-> c, optcode |-> d]
Says(p, b) == [product |-> p, booking |-> b, cancels |-> FALSE]

MCParsed == <<Says(Of4(TOUR, Morning, 0, 0), "b1"),
              Says(Of4(Cruise, 0, Code, 0), "b1")>>
MCEmails == DOMAIN MCParsed
MCBookings == {"b1"}
MCActivities == {"tour", "cruise"}
MCCatalogue == [n \in {Tour} |-> "tour"]
MCEntries == {Of4(Tour, 0, Code, 0)}

=============================================================================
