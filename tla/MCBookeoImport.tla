--------------------------- MODULE MCBookeoImport ---------------------------
(* Small instances of BookeoImport for TLC.                                *)
EXTENDS BookeoImport, TLC

CONSTANTS n1, n2

\* One booking is changed often, the other is only made.
OftenAndOnce == n1 :> 2 @@ n2 :> 1

\* In the first window, moved to the second, cancelled in the first.
ThreePayloads ==
  {[date |-> 1, status |-> "confirmed"], [date |-> 3, status |-> "confirmed"],
   [date |-> 1, status |-> "cancelled"]}

=============================================================================
