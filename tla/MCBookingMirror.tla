-------------------------- MODULE MCBookingMirror --------------------------
(* Small instances of BookingMirror for TLC.                               *)
EXTENDS BookingMirror, TLC, SequencesExt

CONSTANTS new, mod, cancel

Columnar(status, time, count, name) ==
  [f \in ProviderFields |->
    CASE f = "status" -> status
      [] f = "provider_start_time" -> time
      [] f = "provider_traveler_count" -> count
      [] OTHER -> name]

Mail(cancels, alias, sure, values) ==
  [cancels |-> cancels, alias |-> alias, sure |-> sure, values |-> values]

\* The booking, a change that names no traveler count, a bare cancellation.
ParsedMail ==
  [e \in Emails |->
    IF e = new THEN Mail(FALSE, TRUE, TRUE, Columnar("confirmed", "t9", "two", "ann"))
    ELSE IF e = mod THEN Mail(FALSE, TRUE, FALSE, Columnar("modified", "t14", None, "ben"))
    ELSE Mail(TRUE, FALSE, TRUE, Columnar("cancelled", None, None, None))]

\* A change that names one.
ParsedChange ==
  [ParsedMail EXCEPT ![mod].values = Columnar("modified", "t14", "three", "ann"),
                     ![mod].sure = TRUE]

Values == {None, "confirmed", "modified", "cancelled", "t9", "t14", "t20",
           "two", "three", "four", "ann", "ben", "cruise", "tour", "s9", "s14"}

TwoSlots == {"s9", "s14"}
SlotTime == [s \in Slots |-> IF s = "s9" THEN "t9" ELSE "t14"]

\* What operators type.  A form opened before a cancellation and submitted
\* after it sets the status too.
TypedCount == [f \in FormFields |-> IF f = "active_traveler_count" THEN {"four"} ELSE {}]

TypedSlot == [f \in FormFields |-> IF f = "schedule_slot" THEN {"s14"} ELSE {}]
TypedNothing == [f \in FormFields |-> {}]

-----------------------------------------------------------------------------
(* The order of receipt as the reference.                                  *)


=============================================================================
