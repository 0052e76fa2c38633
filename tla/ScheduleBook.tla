---------------------------- MODULE ScheduleBook ----------------------------
(***************************************************************************)
(* The schedules of one catalogue activity: which times run on a date, the *)
(* requests that edit them (tour_activity_detail), the seed that every     *)
(* start of the web container runs (seed_bookeo_products), the slot an     *)
(* email's date and time lead to, and the rows of the daily summary.       *)
(*                                                                         *)
(* Nothing puts a request into one transaction: a request that copies      *)
(* slots commits each of them by itself, emails come between, and the      *)
(* worker may die after any.  One administrator works at a time.  Seats    *)
(* are CapacityControl's subject, the booking's own values BookingMirror's.*)
(***************************************************************************)
EXTENDS Integers, Sequences, FiniteSets

CONSTANTS
  Bookings,
  NoBooking,    \* a booking that does not exist
  MaxDate,      \* service dates are 1..MaxDate
  Week,         \* weekdays are 0..Week-1
  Times,        \* start times, in order
  Ranges,       \* bound: <<date_from, date_to>> an administrator may enter
  DayChoices,   \* bound: sets of weekdays an administrator may tick
  Parsed,       \* bound: <<date, time>> an email may say
  SeedRange,    \* current_from and current_to of the product
  SeedTimes,    \* its times
  SeedOthers,   \* the ranges of its other schedules
  MaxEdits      \* bound: requests that edit

None == 0       \* no date, no time, no row: the ids start at 1
Dates == 1..MaxDate
Days == 0..(Week - 1)
DayOf(d) == d % Week
Kinds == {"current", "other"}

ASSUME ScheduleAssumption ==
  /\ MaxDate \in Nat \ {0} /\ Week \in Nat \ {0, 1} /\ MaxEdits \in Nat
  /\ Times \subseteq Nat \ {0} /\ SeedTimes \subseteq Times /\ SeedTimes # {}
  /\ IsFiniteSet(SeedTimes)
  /\ Ranges \subseteq (Dates \cup {None}) \X (Dates \cup {None})
  /\ \A r \in Ranges : r[1] = None \/ r[2] = None \/ r[1] <= r[2]
  /\ SeedRange \in Ranges /\ SeedOthers \in Seq(Ranges)
  /\ DayChoices \subseteq SUBSET Days
  /\ Parsed \subseteq (Dates \cup {None}) \X (Times \cup {None})

VARIABLES
  schedules,   \* ActivitySchedule rows by id
  slots,       \* ActivityScheduleSlot rows by id
  exceptions,  \* active ActivityScheduleExceptions
  aliases,     \* linked_slot of the seeded alias and of one more
  bookings,    \* date, slot and review items of a booking
  task,        \* what is left of the request under way
  up,          \* does the web container serve?
  edits        \* how many edits there were

vars == <<schedules, slots, exceptions, aliases, bookings, task, up, edits>>

ScheduleRows == [kind : Kinds, active : BOOLEAN, range : Ranges,
                 days : SUBSET Days, priority : Nat]
SlotRows == [schedule : Nat, time : Times, days : SUBSET Days, active : BOOLEAN]
ExceptionRows == [type : {"removed", "extra"}, schedule : Nat, date : Dates,
                  time : Times]
Issues == {"product_mismatch", "time_missing"}
BookingRows == [date : Dates \cup {None}, time : Times \cup {None},
                slot : Nat, mapped : BOOLEAN, live : BOOLEAN,
                open : SUBSET Issues, closed : SUBSET Issues]

\* The id of the next row of a table.
NextId(table) ==
  IF DOMAIN table = {} THEN 1
  ELSE 1 + CHOOSE i \in DOMAIN table : \A j \in DOMAIN table : j <= i

With(table, id, row) == [i \in DOMAIN table \cup {id} |->
                           IF i = id THEN row ELSE table[i]]
Without(table, ids) == [i \in DOMAIN table \ ids |-> table[i]]
SlotsOf(s, table) == {i \in DOMAIN table : table[i].schedule = s}

-----------------------------------------------------------------------------
(* Which times run on a date.                                              *)

Covers(s, d) ==
  /\ s.active
  /\ s.range[1] = None \/ s.range[1] <= d
  /\ s.range[2] = None \/ d <= s.range[2]

Span(s) == IF None \in {s.range[1], s.range[2]} THEN 999999
           ELSE s.range[2] - s.range[1]

PrecedenceKey(i) ==
  <<Span(schedules[i]), IF schedules[i].kind = "current" THEN 0 ELSE 1,
    schedules[i].priority, i>>

Precedes(k, l) ==
  \E n \in DOMAIN k : k[n] < l[n] /\ \A m \in 1..(n - 1) : k[m] = l[m]

Candidates(d) == {i \in DOMAIN schedules : Covers(schedules[i], d)}

\* resolve_active_schedule
Ruling(d) ==
  IF Candidates(d) = {} THEN None
  ELSE CHOOSE i \in Candidates(d) : \A j \in Candidates(d) \ {i} :
         Precedes(PrecedenceKey(i), PrecedenceKey(j))

OnDay(days, d) == days = {} \/ DayOf(d) \in days

Removed(slot, d) ==
  \E x \in exceptions : x.type = "removed" /\ x.schedule = slot.schedule
                        /\ x.date = d /\ x.time = slot.time

\* _candidate_slots_for_booking, the first loop of get_daily_capacity_summary.
Running(d) ==
  LET r == Ruling(d)
  IN  {i \in SlotsOf(r, slots) :
         /\ OnDay(schedules[r].days, d) /\ slots[i].active
         /\ OnDay(slots[i].days, d) /\ ~Removed(slots[i], d)}

\* Without a travel date every active slot of the activity is a candidate.
CandidateSlots(d) ==
  IF d = None THEN {i \in DOMAIN slots : slots[i].active} ELSE Running(d)

First(ids) == CHOOSE i \in ids : \A j \in ids :
  slots[i].time < slots[j].time \/ (slots[i].time = slots[j].time /\ i <= j)

\* Mutant: no match is reported only when nothing runs at all.
ResolvedQuietly(d, t, fallback) ==
  LET here == CandidateSlots(d)
      atTime == {i \in here : slots[i].time = t}
      found == IF atTime # {} THEN atTime ELSE here
  IN  IF atTime # {} \/ Cardinality(here) = 1
      THEN [slot |-> First(found), no_match |-> FALSE]
      ELSE [slot |-> fallback, no_match |-> here = {}]

\* resolve_schedule_slot_details, for a booking of this activity: the slot at
\* the time, else the only slot, else the one the alias or the booking has.
Resolved(d, t, fallback) ==
  LET here == CandidateSlots(d)
      atTime == {i \in here : slots[i].time = t}
      found == IF atTime # {} THEN atTime ELSE here
  IN  IF atTime # {} \/ Cardinality(here) = 1
      THEN [slot |-> First(found), no_match |-> FALSE]
      ELSE [slot |-> fallback, no_match |-> t # None]

-----------------------------------------------------------------------------
(* The daily summary.                                                      *)

\* exclude() over two conditions on a multi-valued relation: they need not
\* meet in one item.
Hidden(b) ==
  bookings[b].open # {}
    /\ "product_mismatch" \in bookings[b].open \cup bookings[b].closed

Dated(d) == {b \in Bookings : bookings[b] # NoBooking /\ bookings[b].live
                              /\ bookings[b].date = d}
InSlot(i, d) == {b \in Dated(d) : bookings[b].slot = i /\ ~Hidden(b)}
Unscheduled(d) == {b \in Dated(d) : \/ bookings[b].slot = None
                                    \/ "product_mismatch" \in bookings[b].open}

\* _extra_slot_rows
ExtraSlots(d) ==
  LET r == Ruling(d)
  IN  {x \in exceptions : x.type = "extra" /\ x.schedule = r /\ x.date = d
                          /\ OnDay(schedules[r].days, d)}

\* Mutant: the slots bookings are in are not looked at.
SummaryOfRunning(d) ==
  {[row |-> "running", slot |-> i] : i \in Running(d)}
    \cup {[row |-> "unscheduled", slot |-> None] : b \in Unscheduled(d)}

\* get_daily_capacity_summary: a row per running slot, one for extra times, one
\* per slot that bookings are in although it does not run, and one for the
\* bookings without a slot.
SummaryRows(d) ==
  LET runs == Running(d)
      booked == {bookings[b].slot : b \in {c \in Dated(d) : ~Hidden(c)}} \ {None}
  IN  {[row |-> "running", slot |-> i] : i \in runs}
        \cup {[row |-> "extra", slot |-> None] : x \in ExtraSlots(d)}
        \cup {[row |-> "booked", slot |-> i] : i \in booked \ runs}
        \cup {[row |-> "unscheduled", slot |-> None] : b \in Unscheduled(d)}

\* The bookings of a row (_agenda_bookings).
BookingsIn(row, d) ==
  CASE row.row = "unscheduled" -> Unscheduled(d)
    [] row.row = "extra" -> {}
    [] OTHER -> InSlot(row.slot, d)

\* The home page: the rows of a date, each with its bookings; `shown` is the
\* activity's show_home_agenda, which the rows without a slot do not look at.
Agenda(d, shown) ==
  [row \in {r \in SummaryRows(d) : shown \/ r.slot = None} |-> BookingsIn(row, d)]

\* export_daily_manifest_csv
Manifest(d) == {b \in Bookings : bookings[b] # NoBooking /\ bookings[b].live
                                 /\ bookings[b].date = d}

\* What a calendar page is asked for: the bookings its search, provider and
\* manual review filters leave, whether only rows of bookings found are wanted,
\* whether cancelled ones are, and whether only this activity or its category.
Filters == [query : SUBSET Bookings, restrict : BOOLEAN, cancelled : BOOLEAN,
            activity : BOOLEAN]

\* _filter_calendar_bookings
Filtered(d, f) ==
  {b \in f.query : /\ bookings[b] # NoBooking /\ bookings[b].date = d /\ ~Hidden(b)
                   /\ bookings[b].live \/ f.cancelled
                   /\ f.activity => bookings[b].mapped}

IsUnscheduled(b) ==
  bookings[b].slot = None \/ "product_mismatch" \in bookings[b].open

\* _capacity_rows: the rows of the summary the filters leave, and a row for every
\* slot of a booking found that has none yet.
CalendarRows(d, f) ==
  LET found == Filtered(d, f)
      wanted == {bookings[b].slot : b \in found} \ {None}
      left == {row \in SummaryRows(d) :
                 IF row.row = "unscheduled"
                 THEN ~f.activity /\ (f.restrict => \E b \in found : IsUnscheduled(b))
                 ELSE f.restrict => row.slot \in wanted}
  IN  left \cup {[row |-> "found", slot |-> i] :
                   i \in wanted \ {row.slot : row \in left}}

\* _calendar_row: the bookings a row lists.
ListedIn(row, d, f) ==
  {b \in Filtered(d, f) : IF row.row = "unscheduled" THEN IsUnscheduled(b)
                          ELSE row.slot # None /\ bookings[b].slot = row.slot}

\* daily_operations: the rows of the calendar page, each with what it lists.
Calendar(d, f) == [row \in CalendarRows(d, f) |-> ListedIn(row, d, f)]

-----------------------------------------------------------------------------
(* Requests that edit.                                                     *)

Idle == [mode |-> "none", left |-> {}, last |-> None]
Ready == up /\ task = Idle /\ edits < MaxEdits
Edit == Ready /\ edits' = edits + 1

OfKind(kind) == {i \in DOMAIN schedules : schedules[i].kind = kind}

\* _schedule_for_kind
CurrentSchedule == CHOOSE i \in OfKind("current") : \A j \in OfKind("current") :
  \/ schedules[i].priority < schedules[j].priority
  \/ schedules[i].priority = schedules[j].priority /\ i <= j

NextPriority ==
  IF OfKind("other") = {} THEN 200
  ELSE 10 + CHOOSE p \in {schedules[i].priority : i \in OfKind("other")} :
              \A i \in OfKind("other") : schedules[i].priority <= p

\* _date_ranges_overlap
Overlap(r, q) ==
  /\ None \in {r[1], q[2]} \/ r[1] <= q[2]
  /\ None \in {q[1], r[2]} \/ q[1] <= r[2]

\* OperatorScheduleSectionForm.clean; `id` is None for a new schedule.
SectionFormValid(kind, id, active, range) ==
  /\ kind = "other" => range[1] # None
  /\ active =>
       \A i \in OfKind(kind) \ {id} :
         ( /\ schedules[i].active
           /\ schedules[i].priority
                = IF id = None THEN 100 ELSE schedules[id].priority ) =>
           ~Overlap(range, schedules[i].range)

\* The slots a request still has to write: a copy of each slot of a schedule.
CopiesOf(source, target) ==
  {[from |-> i, row |-> [slots[i] EXCEPT !.schedule = target]] :
     i \in SlotsOf(source, slots)}

\* The rest of a request that copies the slots of `source`, if there is one,
\* and perhaps raises the priority of the new schedule at the end.
Copies(target, source, raise) ==
  LET left == IF source = None THEN {} ELSE CopiesOf(source, target)
  IN  IF left = {} /\ ~raise THEN Idle
      ELSE [mode |-> "slots", left |-> left, last |-> IF raise THEN target ELSE None]

Saved(kind, id, active, range, days) ==
  [kind |-> kind, active |-> active, range |-> range, days |-> days,
   priority |-> IF id = None THEN 100 ELSE schedules[id].priority]

\* save_current_schedule
SaveCurrentSchedule(active, range, days) ==
  /\ Edit
  /\ LET id == CurrentSchedule
     IN  /\ SectionFormValid("current", id, active, range)
         /\ schedules' = With(schedules, id, Saved("current", id, active, range, days))
  /\ UNCHANGED <<slots, exceptions, aliases, bookings, task, up>>

\* save_other_schedule: a new schedule is committed first, its slots are copied
\* one by one, and its priority is raised at the end.
SaveOtherSchedule(id, source, active, range, days) ==
  /\ Edit
  /\ SectionFormValid("other", id, active, range)
  /\ LET new == IF id = None THEN NextId(schedules) ELSE id
         row == Saved("other", id, active, range, days)
     IN  /\ schedules' = With(schedules, new, row)
         /\ task' = Copies(new, IF id = None THEN source ELSE None, row.priority = 100)
  /\ UNCHANGED <<slots, exceptions, aliases, bookings, up>>

\* copy_current_schedule, copy_existing_schedule (_copy_schedule_to_other)
CopySchedule(source) ==
  /\ Edit
  /\ LET new == NextId(schedules)
     IN  /\ schedules' = With(schedules, new,
              [schedules[source] EXCEPT !.kind = "other", !.active = FALSE,
                                        !.priority = NextPriority])
         /\ task' = Copies(new, source, FALSE)
  /\ UNCHANGED <<slots, exceptions, aliases, bookings, up>>

\* copy_schedule_day: the times of one weekday, for each of the others in turn.
CopyDay(from, to) ==
  /\ Edit
  /\ from \notin to
  /\ LET id == CurrentSchedule
         read == {i \in SlotsOf(id, slots) : slots[i].active
                    /\ (slots[i].days = {} \/ from \in slots[i].days)}
         left == {[from |-> i, row |-> [slots[i] EXCEPT !.days = {day}]] :
                    i \in read, day \in to}
     IN  task' = IF left = {} THEN Idle
                 ELSE [mode |-> "day", left |-> left, last |-> None]
  /\ UNCHANGED <<schedules, slots, exceptions, aliases, bookings, up>>

\* Where a copy is in the order they are written: the days as the page lists
\* them, within each the slots by their time.
CopyKey(c) ==
  <<IF task.mode = "day" THEN CHOOSE day \in c.row.days : TRUE ELSE None,
    c.row.time, c.from>>

\* The next slot of a copy: copying a day reuses the slot of that one day.
CopyStep ==
  \E c \in task.left :
    LET row == c.row
        same == {i \in SlotsOf(row.schedule, slots) :
                   task.mode = "day"
                     /\ slots[i].time = row.time /\ slots[i].days = row.days}
        left == task.left \ {c}
    IN
      /\ \A e \in left : Precedes(CopyKey(c), CopyKey(e))
      /\ IF same = {} THEN slots' = With(slots, NextId(slots), row)
         ELSE slots' = [slots EXCEPT ![First(same)].active = row.active]
      /\ task' = IF left = {} /\ task.last = None THEN Idle
                 ELSE [task EXCEPT !.left = left]
      /\ UNCHANGED <<schedules, exceptions, aliases, bookings, up, edits>>

\* The end of save_other_schedule.
RaisePriority ==
  /\ task.left = {} /\ task.last # None
  /\ schedules' = [schedules EXCEPT ![task.last].priority = NextPriority]
  /\ task' = Idle
  /\ UNCHANGED <<slots, exceptions, aliases, bookings, up, edits>>

Referenced(ids) ==
  \/ \E b \in Bookings : bookings[b] # NoBooking /\ bookings[b].slot \in ids
  \/ \E a \in DOMAIN aliases : aliases[a] \in ids

\* Mutant: the bookings and aliases are not asked.
DeleteScheduleUnasked(id) ==
  /\ Edit /\ id \in OfKind("other")
  /\ schedules' = Without(schedules, {id})
  /\ slots' = Without(slots, SlotsOf(id, slots))
  /\ exceptions' = {x \in exceptions : x.schedule # id}
  /\ UNCHANGED <<aliases, bookings, task, up>>

\* Mutant: the exceptions stay.
DeleteScheduleOnly(id) ==
  /\ Edit /\ id \in OfKind("other")
  /\ ~Referenced(SlotsOf(id, slots))
  /\ schedules' = Without(schedules, {id})
  /\ slots' = Without(slots, SlotsOf(id, slots))
  /\ UNCHANGED <<exceptions, aliases, bookings, task, up>>

\* delete_schedule: slots and exceptions cascade, bookings and aliases protect
\* (an alias's linked_schedule, which protects too, is left out).
DeleteSchedule(id) ==
  /\ Edit /\ id \in OfKind("other")
  /\ ~Referenced(SlotsOf(id, slots))
  /\ schedules' = Without(schedules, {id})
  /\ slots' = Without(slots, SlotsOf(id, slots))
  /\ exceptions' = {x \in exceptions : x.schedule # id}
  /\ UNCHANGED <<aliases, bookings, task, up>>

\* Mutant: no ticked day is taken for no day.
DaysMeet(a, b) == a \cap b # {}

\* _slot_days_overlap
SlotDaysOverlap(a, b) == a = {} \/ b = {} \/ a \cap b # {}

\* save_time_slot (OperatorScheduleSlotForm); `id` is None for a new one.
SaveSlot(id, s, time, days, active) ==
  /\ Edit
  /\ \A i \in SlotsOf(s, slots) \ {id} :
       slots[i].active /\ slots[i].time = time => ~SlotDaysOverlap(slots[i].days, days)
  /\ slots' = With(slots, IF id = None THEN NextId(slots) ELSE id,
                   [schedule |-> s, time |-> time, days |-> days, active |-> active])
  /\ UNCHANGED <<schedules, exceptions, aliases, bookings, task, up>>

\* deactivate_time_slot (_deactivate_slot_for_day); without a valid `day` the
\* whole slot.
DeactivateSlot(id, day) ==
  /\ Edit
  /\ LET left == (IF slots[id].days = {} THEN Days ELSE slots[id].days) \ {day}
     IN  IF day \in Days /\ left # {}
         THEN slots' = [slots EXCEPT ![id].days = left]
         ELSE slots' = [slots EXCEPT ![id].active = FALSE]
  /\ UNCHANGED <<schedules, exceptions, aliases, bookings, task, up>>

\* save_special_date and save_additional_time: only the first looks at the
\* range of the schedule, and an existing one is overwritten.
SaveException(old, x) ==
  /\ Edit /\ x.schedule \in DOMAIN schedules
  /\ x.type = "removed" =>
       LET r == schedules[x.schedule].range
       IN  (r[1] = None \/ r[1] <= x.date) /\ (r[2] = None \/ x.date <= r[2])
  /\ \A o \in old : o \in exceptions /\ o.schedule = x.schedule
  /\ exceptions' = (exceptions \ old) \cup {x}
  /\ UNCHANGED <<schedules, slots, aliases, bookings, task, up>>

\* deactivate_special_date
DeactivateException(x) ==
  /\ Edit /\ exceptions' = exceptions \ {x}
  /\ UNCHANGED <<schedules, slots, aliases, bookings, task, up>>

\* save_alias: the alias form offers every slot of the activity.
SaveAlias(a, id) ==
  /\ Edit /\ aliases' = [aliases EXCEPT ![a] = id]
  /\ UNCHANGED <<schedules, slots, exceptions, bookings, task, up>>

\* The worker dies, or a save raises: what was committed stays.
RequestDies ==
  /\ task # Idle /\ task' = Idle
  /\ UNCHANGED <<schedules, slots, exceptions, aliases, bookings, up, edits>>

-----------------------------------------------------------------------------
(* Emails and reviews.                                                     *)

Fresh == [date |-> None, time |-> None, slot |-> None, mapped |-> FALSE,
          live |-> TRUE, open |-> {}, closed |-> {}]
RowOf(b) == IF bookings[b] = NoBooking THEN Fresh ELSE bookings[b]

\* An email whose product alias `a` maps: activity and slot follow it, and a
\* live booking is queued when its time was not found.
EmailPlaces(b, a, d, t) ==
  LET old == RowOf(b)
      found == Resolved(d, t, aliases[a])
      late == IF found.no_match /\ old.live THEN {"time_missing"} ELSE {}
  IN  /\ bookings' = [bookings EXCEPT ![b] =
           [old EXCEPT !.date = d, !.time = t, !.slot = found.slot,
              !.mapped = TRUE,
              !.open = (@ \ {"product_mismatch"}) \cup late,
              !.closed = (@ \cup (old.open \cap {"product_mismatch"})) \ late]]
      /\ UNCHANGED <<schedules, slots, exceptions, aliases, task, up, edits>>

\* An email of a product without an alias: the slot stays, and the mismatch is
\* queued, to be closed at once where the booking has its activity.
EmailUnmapped(b, d, t) ==
  LET old == RowOf(b)
      issue == IF old.live THEN {"product_mismatch"} ELSE {}
  IN  /\ bookings' = [bookings EXCEPT ![b] =
           [old EXCEPT !.date = d, !.time = t,
              !.open = IF old.mapped THEN @ \ issue ELSE @ \cup issue,
              !.closed = IF old.mapped THEN @ \cup issue ELSE @ \ issue]]
      /\ UNCHANGED <<schedules, slots, exceptions, aliases, task, up, edits>>

EmailCancels(b) ==
  /\ bookings[b] # NoBooking
  /\ bookings' = [bookings EXCEPT ![b].live = FALSE]
  /\ UNCHANGED <<schedules, slots, exceptions, aliases, task, up, edits>>

CloseReview(b, issue) ==
  /\ bookings[b] # NoBooking /\ issue \in bookings[b].open
  /\ bookings' = [bookings EXCEPT ![b].open = @ \ {issue},
                                  ![b].closed = @ \cup {issue}]
  /\ UNCHANGED <<schedules, slots, exceptions, aliases, task, up, edits>>

\* reslot_bookings, for one booking (BookingMirror has its races).
Reslot(b) ==
  /\ bookings[b] # NoBooking
  /\ LET old == bookings[b]
         found == Resolved(old.date, old.time, old.slot)
     IN  /\ old.live /\ old.mapped /\ old.date # None /\ old.time # None
         /\ bookings' = [bookings EXCEPT ![b] =
              IF found.no_match \/ found.slot = None
              THEN [old EXCEPT !.open = @ \cup {"time_missing"},
                               !.closed = @ \ {"time_missing"}]
              ELSE [old EXCEPT !.slot = found.slot]]
  /\ UNCHANGED <<schedules, slots, exceptions, aliases, task, up, edits>>

-----------------------------------------------------------------------------
(* The seed.                                                               *)

Catalog == [schedules |-> schedules, slots |-> slots, exceptions |-> exceptions,
            aliases |-> aliases]

\* A loop of update_or_create: `found` holds the rows each key finds, `rows`
\* the row it writes; a key that finds none gets the next id.
IdsOf(table, found) ==
  [k \in DOMAIN found |->
     IF found[k] = {}
     THEN NextId(table) + Cardinality({l \in DOMAIN found : l < k /\ found[l] = {}})
     ELSE CHOOSE i \in found[k] : TRUE]

Upserted(table, found, rows) ==
  LET ids == IdsOf(table, found)
      KeysOf(i) == {k \in DOMAIN ids : ids[k] = i}
  IN  [i \in DOMAIN table \cup {ids[k] : k \in DOMAIN ids} |->
         IF KeysOf(i) = {} THEN table[i] ELSE rows[CHOOSE k \in KeysOf(i) : TRUE]]

\* The schedules of the catalogue, in the order they are seeded: the current
\* one is 0.
SeedEntries == 0..Len(SeedOthers)
EntryPriority(n) == IF n = 0 THEN 100 ELSE 199 + n

SeededRow(n) ==
  [kind |-> IF n = 0 THEN "current" ELSE "other", active |-> n = 0,
   range |-> IF n = 0 THEN SeedRange ELSE SeedOthers[n], days |-> {},
   priority |-> EntryPriority(n)]

Lookup(rows, n) == {i \in DOMAIN rows : /\ rows[i].kind = SeededRow(n).kind
                                        /\ rows[i].priority = EntryPriority(n)}

SeedSchedules(rows) ==
  Upserted(rows, [n \in SeedEntries |-> Lookup(rows, n)],
           [n \in SeedEntries |-> SeededRow(n)])

SeededCurrent(rows) == CHOOSE i \in Lookup(rows, 0) : TRUE
OtherPriorities == {199 + n : n \in DOMAIN SeedOthers}

\* What seed_other_schedules and seed_slots delete: every slot of the other
\* schedules, every other schedule that is not the catalogue's, and the slots
\* of the current one at other times.
StaleSchedules(rows) ==
  {i \in DOMAIN rows : rows[i].kind = "other" /\ rows[i].priority \notin OtherPriorities}
StaleSlots(rows, times) ==
  {i \in DOMAIN times : \/ rows[times[i].schedule].kind = "other"
                        \/ times[i].time \notin SeedTimes}

AtSeedTime(s, times, t) == {i \in SlotsOf(s, times) : times[i].time = t}

\* The seed raises when update_or_create finds two rows, or when a booking or
\* an alias refers to a slot it deletes.
SeedFails ==
  LET rows == SeedSchedules(schedules)
  IN  \/ Referenced(StaleSlots(rows, slots))
      \/ \E n \in SeedEntries : Cardinality(Lookup(schedules, n)) > 1
      \/ \E t \in SeedTimes : Cardinality(AtSeedTime(SeededCurrent(rows), slots, t)) > 1

\* Mutant: a slot of a catalogue time is created, not looked up.
FoundNowhere(s, times) == [t \in SeedTimes |-> {}]

FoundSlots(s, times) == [t \in SeedTimes |-> AtSeedTime(s, times, t)]

SeedSlots(s, times) ==
  Upserted(times, FoundSlots(s, times),
           [t \in SeedTimes |-> [schedule |-> s, time |-> t, days |-> {}, active |-> TRUE]])

FirstSeedTime == CHOOSE t \in SeedTimes : \A u \in SeedTimes : t <= u

\* handle(): one transaction.
Seeded(c) ==
  LET rows == SeedSchedules(c.schedules)
      gone == StaleSchedules(rows)
      s == SeededCurrent(rows)
      times == SeedSlots(s, Without(c.slots, StaleSlots(rows, c.slots)))
  IN  [schedules |-> Without(rows, gone), slots |-> times,
       exceptions |-> {x \in c.exceptions : x.schedule \notin gone},
       aliases |-> [c.aliases EXCEPT !.seeded =
                      CHOOSE i \in AtSeedTime(s, times, FirstSeedTime) : TRUE]]

\* The web container starts: the request under way is gone, the seed runs, and
\* gunicorn starts only when it succeeds.
Start ==
  /\ task' = Idle
  /\ up' = ~SeedFails
  /\ IF SeedFails THEN UNCHANGED <<schedules, slots, exceptions, aliases>>
     ELSE LET c == Seeded(Catalog)
          IN  /\ schedules' = c.schedules /\ slots' = c.slots
              /\ exceptions' = c.exceptions /\ aliases' = c.aliases
  /\ UNCHANGED <<bookings, edits>>

-----------------------------------------------------------------------------
\* The database after its first seed.
Init ==
  LET empty == [schedules |-> <<>>, slots |-> <<>>, exceptions |-> {},
                aliases |-> [seeded |-> None, added |-> None]]
      c == Seeded(empty)
  IN  /\ schedules = c.schedules /\ slots = c.slots
      /\ exceptions = c.exceptions /\ aliases = c.aliases
      /\ bookings = [b \in Bookings |-> NoBooking]
      /\ task = Idle /\ up = TRUE /\ edits = 0

Copying == \E id \in DOMAIN schedules : CopySchedule(id)

Edits ==
  \/ \E active \in BOOLEAN, range \in Ranges, days \in DayChoices :
       \/ SaveCurrentSchedule(active, range, days)
       \/ \E id \in OfKind("other") \cup {None}, source \in DOMAIN schedules \cup {None} :
            SaveOtherSchedule(id, source, active, range, days)
  \/ Copying
  \/ \E from \in Days, to \in SUBSET Days : CopyDay(from, to)
  \/ \E id \in DOMAIN schedules : DeleteSchedule(id)
  \/ \E s \in DOMAIN schedules, t \in Times, days \in DayChoices, active \in BOOLEAN :
       \E id \in SlotsOf(s, slots) \cup {None} : SaveSlot(id, s, t, days, active)
  \/ \E id \in DOMAIN slots, day \in Days \cup {None} : DeactivateSlot(id, day)
  \/ \E x \in [type : {"removed", "extra"}, schedule : DOMAIN schedules,
               date : Dates, time : Times],
        old \in {{}} \cup {{o} : o \in exceptions} : SaveException(old, x)
  \/ \E x \in exceptions : DeactivateException(x)
  \/ \E id \in DOMAIN slots : SaveAlias("added", id)

Administrator == (Ready /\ Edits) \/ CopyStep \/ RaisePriority

Mail(b) ==
  \/ \E p \in Parsed : \/ EmailUnmapped(b, p[1], p[2])
                       \/ \E a \in DOMAIN aliases : EmailPlaces(b, a, p[1], p[2])
  \/ EmailCancels(b)

Next ==
  \/ Administrator \/ RequestDies \/ Start
  \/ \E b \in Bookings : Mail(b) \/ Reslot(b) \/ \E issue \in Issues : CloseReview(b, issue)

Spec == Init /\ [][Next]_vars

-----------------------------------------------------------------------------
(* Properties.                                                             *)

TypeOK ==
  /\ \A i \in DOMAIN schedules : schedules[i] \in ScheduleRows
  /\ \A i \in DOMAIN slots : slots[i] \in SlotRows /\ slots[i].schedule \in DOMAIN schedules
  /\ \A x \in exceptions : x \in ExceptionRows /\ x.schedule \in DOMAIN schedules
  /\ \A b \in Bookings : bookings[b] = NoBooking \/ bookings[b] \in BookingRows
  /\ \A c \in task.left : c.row \in SlotRows
  /\ up \in BOOLEAN /\ edits \in 0..MaxEdits

\* A booking and an alias keep the slot they refer to through every edit,
\* every deleted schedule and every seed (PROTECT).
ReferencesLive ==
  /\ \A b \in Bookings : bookings[b] # NoBooking => bookings[b].slot \in DOMAIN slots \cup {None}
  /\ \A a \in DOMAIN aliases : aliases[a] \in DOMAIN slots \cup {None}

\* Rows of a daily page that list a booking.
RowsWith(b, page) == {row \in DOMAIN page : b \in page[row]}

\* What the manifest of a date lists is on the home page once, in the row of its
\* slot, though that may run no more, or among the unscheduled.  It is missing
\* only from a slot's row: while the capacity query hides it, or when the home
\* page leaves the activity out.
OnceOnAgenda(b, d) ==
  \A shown \in BOOLEAN :
    Cardinality(RowsWith(b, Agenda(d, shown))) =
      IF /\ bookings[b].slot # None /\ "product_mismatch" \notin bookings[b].open
         /\ Hidden(b) \/ ~shown
      THEN 0 ELSE 1

\* What a calendar page finds it lists once, though it is cancelled or its slot
\* was switched off since.  It is missing only without a slot: when the page
\* keeps to one activity or category, or no live booking makes the row.
OnceOnCalendar(b, d) ==
  \A f \in Filters : b \in Filtered(d, f) =>
    Cardinality(RowsWith(b, Calendar(d, f))) =
      IF bookings[b].slot = None /\ (f.activity \/ Unscheduled(d) = {}) THEN 0 ELSE 1

\* Whatever was edited since a booking was placed, no daily page counts it twice,
\* and none loses it but for the reasons above (get_daily_capacity_summary,
\* _show_in_home_agenda, daily_operations).
OnceOrLeftOut ==
  \A d \in Dates : \A b \in Bookings :
    /\ b \in Manifest(d) => OnceOnAgenda(b, d)
    /\ OnceOnCalendar(b, d)

\* Two active slots of one schedule share a time and a day only where the copy
\* of a day made one of them, which then has that day alone.
OnlyCopiesDouble ==
  \A i, j \in DOMAIN slots :
    ( /\ i # j /\ slots[i].active /\ slots[j].active
      /\ slots[i].schedule = slots[j].schedule /\ slots[i].time = slots[j].time
      /\ \E d \in Dates : OnDay(slots[i].days, d) /\ OnDay(slots[j].days, d) ) =>
      1 \in {Cardinality(slots[i].days), Cardinality(slots[j].days)}

\* Seeding what was just seeded changes nothing, whatever was edited before.
SeedIdempotent == ~SeedFails => Seeded(Seeded(Catalog)) = Seeded(Catalog)

\* When an email or the reslot command puts a live booking at a known time
\* into a slot that does not run on its date, somebody is told.
OffScheduleIsQueued ==
  [][\A b \in Bookings :
       ( /\ bookings'[b] # NoBooking /\ bookings'[b] # bookings[b]
         /\ bookings'[b].live /\ bookings'[b].date # None
         /\ bookings'[b].time # None
         /\ bookings'[b].slot # RowOf(b).slot
         /\ bookings'[b].slot \notin Running(bookings'[b].date) ) =>
         "time_missing" \in bookings'[b].open]_vars

\* docs/PRODUCT_SEEDS.md: a safe production seed, idempotent, that every deploy
\* runs automatically before the web process.
SeedCompletes == ~SeedFails

=============================================================================
