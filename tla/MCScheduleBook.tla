--------------------------- MODULE MCScheduleBook ---------------------------
(* Instances of ScheduleBook for TLC. *)
EXTENDS ScheduleBook

CONSTANT b1

\* A period without an end, and one of a single day.
FewRanges == {<<1, 0>>, <<1, 1>>}
OpenEnded == <<1, 0>>
OneSeason == <<<<1, 1>>>>
NoSeason == <<>>

\* Every day, or one.
FewDays == {{}, {1}}

\* A time of the catalogue, and one that is not.
FewParsed == {<<1, 1>>, <<1, 2>>}

=============================================================================
