-------------------------- MODULE CapacityControl --------------------------
(***************************************************************************)
(* The seats of one slot on one date: internal bookings                    *)
(* (create_internal_booking), emails (upsert_booking_from_parsed and       *)
(* warn_if_capacity_overbooked), operators who edit bookings, and the      *)
(* schedule settings that change the seats.                                *)
(*                                                                         *)
(* The seats are read statement by statement (get_capacity_for_slot_date): *)
(* the slot, one sum per class of statuses, the exceptions; under READ     *)
(* COMMITTED each sees what was committed before it and nothing later, and *)
(* the transaction commits later still.  PostgreSQL decides what may       *)
(* commit in between: an internal booking holds FOR UPDATE on the slot,    *)
(* its schedule and its activity (select_for_update with select_related    *)
(* and no of=), so the deferred foreign key check of any commit that newly *)
(* refers to one of those rows waits for it.  A commit that refers to none *)
(* of them anew, a traveler count, a date, a status, does not wait.        *)
(*                                                                         *)
(* The statuses are those the sums tell apart: "confirmed" is CONFIRMED    *)
(* and MODIFIED, "cancelled" all of EXCLUDED_CAPACITY_STATUSES,            *)
(* cancellation being the one emails cause.  Which parsed value a manual   *)
(* override stops is BookingMirror's subject: here an email leaves any of  *)
(* them.  Open items of one type of one booking are one item.              *)
(***************************************************************************)
EXTENDS Integers, FiniteSets

CONSTANTS
  Desks,          \* requests that create an internal booking
  Mailers,        \* processes that work on an email
  NoOne,          \* no process, no booking
  MailBookings,   \* bookings that arrive by email
  DeskBookings,   \* bookings the desks create
  Pax,            \* traveler counts
  Seats,          \* capacities an administrator may set
  Exceptions,     \* exceptions for the date an administrator may enter
  MaxWrites       \* bound: emails, edits and changes of the seats

Bookings == MailBookings \cup DeskBookings
Processes == Desks \cup Mailers

\* The review items that matter here; "time_missing" is the slot confirmation,
\* the kind that stays open until somebody closes it.
Issues == {"product_mismatch", "provider_alias_missing", "time_missing",
           "capacity_overbooked"}

\* What mapping the booking to an activity resolves.
UnmappedIssues == {"product_mismatch", "provider_alias_missing"}

\* CONFIRMED_, PENDING_ and MANUAL_REVIEW_CAPACITY_STATUSES.
Active == {"confirmed", "pending", "manual_review"}

Rows == [status : Active \cup {"absent", "cancelled"}, pax : Pax,
         mapped : BOOLEAN, placed : BOOLEAN, dated : BOOLEAN, noShow : BOOLEAN]

\* A booking that is not stored; its count stands for nothing.
NoRow == [status |-> "absent", pax |-> CHOOSE p \in Pax : TRUE, mapped |-> FALSE,
          placed |-> FALSE, dated |-> FALSE, noShow |-> FALSE]

ASSUME CapacityAssumption ==
  /\ Pax \subseteq Nat \ {0} /\ Pax # {}
  /\ Seats \subseteq Nat /\ Seats # {}
  /\ Exceptions \subseteq
       [exception_type : {"blocked", "override_capacity"}, capacity : Nat]
  /\ MailBookings \cap DeskBookings = {}
  /\ Desks \cap Mailers = {}
  /\ NoOne \notin Processes \cup Bookings
  /\ IsFiniteSet(Bookings)
  /\ MaxWrites \in Nat

VARIABLES
  row,        \* per booking: status, count, is it mapped to the activity,
              \* placed in the slot, dated on the date, marked as a no-show
  open,       \* per booking: types of its open review items
  closed,     \* per booking: types of its resolved or ignored items
  approved,   \* is the provider's product mapped by an approved alias?
  capacity,   \* ActivityScheduleSlot.capacity
  exceptions, \* active ActivityScheduleExceptions of the date
  lock,       \* who holds the slot, schedule and activity rows
  job,        \* per process: its open transaction
  snapshot,   \* per process: how far it has read the seats, and what it read
  overtaken,  \* history: open transactions that missed a commit
  writes      \* how many bounded writes there were

vars == <<row, open, closed, approved, capacity, exceptions, lock, job,
          snapshot, overtaken, writes>>
bookingVars == <<row, open, closed>>
settingVars == <<approved, capacity, exceptions>>

-----------------------------------------------------------------------------
(* The snapshot (get_capacity_for_slot_date).                              *)

\* exclude(review_items__status=OPEN, review_items__issue_type=
\* PRODUCT_MISMATCH): over a multi-valued relation the two conditions of one
\* exclude() need not meet in one item.
Hidden(opens, closes) ==
  opens # {} /\ "product_mismatch" \in opens \cup closes

InSlot(r) == r.placed /\ r.dated /\ ~r.noShow

\* What booking b adds to the sum over the statuses S.
PaxOf(b, S, rows, opens, closes) ==
  IF /\ rows[b].status \in S /\ InSlot(rows[b])
     /\ ~Hidden(opens[b], closes[b]) THEN rows[b].pax ELSE 0

\* The travelers _sum_pax counts, one by one: the sum is the size of this set.
Travelers(S, rows, opens, closes) ==
  UNION {{b} \X (1..PaxOf(b, S, rows, opens, closes)) : b \in Bookings}

Taken(S, rows, opens, closes) == Cardinality(Travelers(S, rows, opens, closes))

\* _blocked_pax_for_slot.
BlockedPax(seats, xs) ==
  LET blocks == {0} \cup {seats - x.capacity : x \in xs}
  IN  IF \E x \in xs : x.exception_type = "blocked" THEN seats
      ELSE CHOOSE n \in blocks : \A k \in blocks : k <= n

Remaining ==
  capacity - BlockedPax(capacity, exceptions) - Taken(Active, row, open, closed)

-----------------------------------------------------------------------------
(* Transactions.                                                           *)

Idle == [booking |-> NoOne]
MailJobs == [booking : MailBookings, row : Rows, open : SUBSET Issues,
             closed : SUBSET Issues, unseen : BOOLEAN]
DeskJobs == [pax : Pax, allow : BOOLEAN, over : BOOLEAN]
Running(p) == job[p] # Idle
Begin(p, j) == job' = [job EXCEPT ![p] = j]
InHand(b) == \E p \in Mailers : job[p].booking = b

\* The statement each statement of get_capacity_for_slot_date is followed by.
Following == [slot |-> "confirmed", confirmed |-> "pending",
              pending |-> "manual_review", manual_review |-> "exceptions",
              exceptions |-> "done"]

Unread == [next |-> "done", seats |-> 0, active_pax |-> 0]
Snapshots ==
  [next : DOMAIN Following, seats : Nat, active_pax : Nat] \cup {Unread}
ReadFrom(next, seats) == [next |-> next, seats |-> seats, active_pax |-> 0]
Look(p, s) == snapshot' = [snapshot EXCEPT ![p] = s]

\* The statuses summed before the statement "next".
Summed(next) ==
  CASE next \in {"slot", "confirmed"} -> {}
    [] next = "pending" -> {"confirmed"}
    [] next = "manual_review" -> {"confirmed", "pending"}
    [] OTHER -> Active

\* The bookings as p sees them: an email's transaction sees its own writes.
SeatsTaken(p, S) ==
  IF p \in Mailers
  THEN LET j == job[p] IN
         Taken(S, [row EXCEPT ![j.booking] = j.row],
               [open EXCEPT ![j.booking] = j.open],
               [closed EXCEPT ![j.booking] = j.closed])
  ELSE Taken(S, row, open, closed)

\* The part of the seats p has read so far, and all of them, as they are now.
SeatsRead(p) == IF snapshot[p].next = "slot" THEN 0 ELSE capacity
PaxRead(p) == SeatsTaken(p, Summed(snapshot[p].next))
LeftFor(p) == capacity - BlockedPax(capacity, exceptions) - SeatsTaken(p, Active)

\* Does this step make worse what p has read already?
Worsens(p) ==
  IF snapshot[p].next = "done" THEN LeftFor(p)' < LeftFor(p)
  ELSE SeatsRead(p)' < SeatsRead(p) \/ PaxRead(p)' > PaxRead(p)

\* A commit by p overtakes those of ps it makes something read worse.
Overtakes(p, ps) ==
  overtaken' = (overtaken \ {p}) \cup {q \in ps \ {p} : Running(q) /\ Worsens(q)}

MayWrite == writes < MaxWrites
Write == MayWrite /\ writes' = writes + 1

\* _sum_pax over one class of statuses.
SumPax(p) ==
  LET s == snapshot[p] IN
    /\ s.next \in Active
    /\ Look(p, [s EXCEPT !.next = Following[s.next],
                         !.active_pax = @ + SeatsTaken(p, {s.next})])
    /\ UNCHANGED <<bookingVars, settingVars, lock, job, overtaken, writes>>

\* The last statement, and what remains by all of them.
RemainingRead(p) ==
  snapshot[p].seats - BlockedPax(snapshot[p].seats, exceptions)
    - snapshot[p].active_pax

\* The exception of a request or of a parser: everything is undone.
Rollback(p) ==
  /\ Running(p)
  /\ Begin(p, Idle) /\ Look(p, Unread)
  /\ lock' = IF lock = p THEN NoOne ELSE lock
  /\ overtaken' = overtaken \ {p}
  /\ UNCHANGED <<bookingVars, settingVars, writes>>

-----------------------------------------------------------------------------
(* Internal bookings.                                                      *)

\* The rows Booking.objects.create may still make.
NewBookings == {b \in DeskBookings : row[b].status = "absent"}

\* Mutant: no select_for_update on the slot.
DeskLockUnlocked(u, p, allow_overcapacity) ==
  /\ ~Running(u)
  /\ NewBookings # {}
  /\ lock' = u
  /\ Begin(u, [pax |-> p, allow |-> allow_overcapacity, over |-> FALSE])
  /\ Look(u, ReadFrom("confirmed", capacity))
  /\ UNCHANGED <<bookingVars, settingVars, overtaken, writes>>

\* The row locks; the slot they return is the current one.
DeskLock(u, p, allow_overcapacity) ==
  /\ ~Running(u) /\ lock = NoOne
  /\ NewBookings # {}
  /\ lock' = u
  /\ Begin(u, [pax |-> p, allow |-> allow_overcapacity, over |-> FALSE])
  /\ Look(u, ReadFrom("confirmed", capacity))
  /\ UNCHANGED <<bookingVars, settingVars, overtaken, writes>>

\* The exceptions, and the refusal.
DeskDecide(u) ==
  LET projected == RemainingRead(u) - job[u].pax IN
    /\ snapshot[u].next = "exceptions"
    /\ projected >= 0 \/ job[u].allow
    /\ Begin(u, [job[u] EXCEPT !.over = projected < 0])
    /\ Look(u, Unread)
    /\ UNCHANGED <<bookingVars, settingVars, lock, overtaken, writes>>

DeskCommit(u) ==
  LET j == job[u]
      booking == CHOOSE b \in NewBookings : TRUE
  IN
    /\ Running(u) /\ snapshot[u].next = "done"
    /\ row' = [row EXCEPT ![booking] =
                [status |-> "confirmed", pax |-> j.pax, mapped |-> TRUE,
                 placed |-> TRUE, dated |-> TRUE, noShow |-> FALSE]]
    /\ open' = [open EXCEPT ![booking] =
                 IF j.over THEN {"capacity_overbooked"} ELSE {}]
    /\ lock' = NoOne
    /\ Begin(u, Idle)
    /\ UNCHANGED <<closed, settingVars, snapshot, writes>>
    /\ Overtakes(u, Mailers)

-----------------------------------------------------------------------------
(* Emails.                                                                 *)

\* Mutant: the email's reviews are opened although it stored no booking.
MergesOrNone(b, r) ==
  /\ row[b].status = "cancelled" => r.status = "cancelled"
  /\ r.mapped = (approved \/ row[b].mapped)
  /\ ~approved => r.placed = row[b].placed
  /\ r.noShow = row[b].noShow

\* What an email may make of the row: a cancelled booking stays cancelled,
\* only an approved alias maps a booking or moves it to a slot.
Merges(b, r) ==
  /\ r.status # "absent"
  /\ row[b].status = "cancelled" => r.status = "cancelled"
  /\ r.mapped = (approved \/ row[b].mapped)
  /\ ~approved => r.placed = row[b].placed
  /\ r.noShow = row[b].noShow

\* The reviews opened before the warning is computed.
Opened(b, r, confirm) ==
  open[b] \cup
    (IF r.status = "cancelled" THEN {}
     ELSE IF approved THEN (IF confirm THEN {"time_missing"} ELSE {})
     ELSE UnmappedIssues)

\* Mutant: a mapped booking's warnings are obsolete as well.
ObsoleteWithWarning(r) ==
  IF r.mapped THEN UnmappedIssues \cup {"capacity_overbooked"} ELSE {}

\* Those review_issue_is_obsolete closes after it.
Obsolete(r) == IF r.mapped THEN UnmappedIssues ELSE {}

\* The obsolete reviews are resolved after the warning.
Settled(j, warned) ==
  [j EXCEPT !.open = (@ \cup warned) \ Obsolete(j.row),
            !.closed = @ \cup (j.open \cap Obsolete(j.row))]

\* The booking's row is locked and merged and the reviews are opened; without
\* a slot and a date the warning is not computed.
MailMerge(m, b, r, confirm) ==
  LET opens == Opened(b, r, confirm)
      j == [booking |-> b, row |-> r, open |-> opens, closed |-> closed[b],
            unseen |-> Hidden(opens, closed[b])]
      warns == r.placed /\ r.dated
  IN /\ ~Running(m) /\ ~InHand(b)
     /\ Write
     /\ Merges(b, r)
     /\ Begin(m, IF warns THEN j ELSE Settled(j, {}))
     /\ Look(m, IF warns THEN ReadFrom("slot", 0) ELSE Unread)
     /\ UNCHANGED <<bookingVars, settingVars, lock, overtaken>>

\* The slot object: loaded with the schedule's slots (_alias_values), or when
\* booking.schedule_slot is first looked at.
LoadSlot(m) ==
  /\ snapshot[m].next = "slot"
  /\ Look(m, ReadFrom(Following["slot"], capacity))
  /\ UNCHANGED <<bookingVars, settingVars, lock, job, overtaken, writes>>

\* The exceptions, the warning, and the obsolete reviews.
MailWarn(m) ==
  /\ snapshot[m].next = "exceptions"
  /\ Begin(m, Settled(job[m], IF RemainingRead(m) < 0 THEN {"capacity_overbooked"}
                              ELSE {}))
  /\ Look(m, Unread)
  /\ UNCHANGED <<bookingVars, settingVars, lock, overtaken, writes>>

\* Does writing r over old refer anew to a row an internal booking locks?
RefersAnew(old, r) ==
  \/ r.mapped /\ (old.status = "absent" \/ ~old.mapped)
  \/ r.placed /\ (old.status = "absent" \/ ~old.placed)

\* Whom a commit of r over old does not wait for.
NotAwaited(old, r) == IF RefersAnew(old, r) THEN Mailers ELSE Processes
Waits(old, r) == RefersAnew(old, r) => lock = NoOne

MailCommit(m) ==
  LET j == job[m] IN
    /\ Running(m) /\ snapshot[m].next = "done"
    /\ Waits(row[j.booking], j.row)
    /\ row' = [row EXCEPT ![j.booking] = j.row]
    /\ open' = [open EXCEPT ![j.booking] = j.open]
    /\ closed' = [closed EXCEPT ![j.booking] = j.closed]
    /\ Begin(m, Idle)
    /\ UNCHANGED <<settingVars, lock, snapshot, writes>>
    /\ Overtakes(m, NotAwaited(row[j.booking], j.row))

-----------------------------------------------------------------------------
(* Operators: none of these looks at the seats.                            *)

\* booking_edit, cancel_home_booking, update_home_booking_attendance, all
\* through apply_manual_override.  The row's UPDATE waits for the email that
\* holds it.
EditBooking(b, r) ==
  /\ row[b].status # "absent" /\ ~InHand(b)
  /\ r.status # "absent" /\ r # row[b]
  /\ Write
  /\ Waits(row[b], r)
  /\ row' = [row EXCEPT ![b] = r]
  /\ UNCHANGED <<open, closed, settingVars, lock, job, snapshot>>
  /\ Overtakes(NoOne, NotAwaited(row[b], r))

\* review_action, and inbox_email_action for all items of an email.  The items
\* of a booking an email holds wait for it.
CloseReviews(b, issues) ==
  /\ ~InHand(b)
  /\ open' = [open EXCEPT ![b] = @ \ issues]
  /\ closed' = [closed EXCEPT ![b] = @ \cup issues]
  /\ UNCHANGED <<row, settingVars, lock, job, snapshot, writes>>
  /\ Overtakes(NoOne, Processes)

\* provider_aliases and approve_alias; the form can withdraw the approval.
SaveAlias ==
  /\ approved' = ~approved
  /\ UNCHANGED <<bookingVars, capacity, exceptions, lock, job, snapshot,
                 overtaken, writes>>

\* update_home_slot_capacity: the UPDATE waits for the row lock.
UpdateSlotCapacity(c) ==
  /\ lock = NoOne
  /\ Write
  /\ capacity' = c
  /\ UNCHANGED <<bookingVars, approved, exceptions, lock, job, snapshot>>
  /\ Overtakes(NoOne, Mailers)

\* A new exception refers to the schedule.
AddException(x) ==
  /\ lock = NoOne
  /\ Write
  /\ exceptions' = exceptions \cup {x}
  /\ UNCHANGED <<bookingVars, approved, capacity, lock, job, snapshot>>
  /\ Overtakes(NoOne, Mailers)

\* Changing or deactivating one refers to nothing anew.
ChangeException(x, changed) ==
  /\ Write
  /\ exceptions' = (exceptions \ {x}) \cup changed
  /\ UNCHANGED <<bookingVars, approved, capacity, lock, job, snapshot>>
  /\ Overtakes(NoOne, Processes)

-----------------------------------------------------------------------------

Init ==
  /\ row = [b \in Bookings |-> NoRow]
  /\ open = [b \in Bookings |-> {}]
  /\ closed = [b \in Bookings |-> {}]
  /\ approved \in BOOLEAN
  /\ capacity \in Seats
  /\ exceptions = {}
  /\ lock = NoOne
  /\ job = [p \in Processes |-> Idle]
  /\ snapshot = [p \in Processes |-> Unread]
  /\ overtaken = {}
  /\ writes = 0

Desk(u) ==
  \/ \E p \in Pax, allow \in BOOLEAN : DeskLock(u, p, allow)
  \/ SumPax(u)
  \/ DeskDecide(u)
  \/ DeskCommit(u)
  \/ Rollback(u)

Mailer(m) ==
  \/ /\ MayWrite /\ ~Running(m)
     /\ \E b \in MailBookings, r \in Rows, confirm \in BOOLEAN :
          MailMerge(m, b, r, confirm)
  \/ LoadSlot(m)
  \/ SumPax(m)
  \/ MailWarn(m)
  \/ MailCommit(m)
  \/ Rollback(m)

Operator ==
  \/ /\ MayWrite
     /\ \E b \in Bookings, r \in Rows : EditBooking(b, r)
  \/ \E b \in Bookings : \E issues \in (SUBSET open[b]) \ {{}} :
       CloseReviews(b, issues)

Administrator ==
  \/ SaveAlias
  \/ \E c \in Seats \ {capacity} : UpdateSlotCapacity(c)
  \/ \E x \in Exceptions \ exceptions : AddException(x)
  \/ \E x \in exceptions :
       \E changed \in {{}} \cup {{y} : y \in Exceptions \ exceptions} :
         ChangeException(x, changed)

Next ==
  \/ \E u \in Desks : Desk(u)
  \/ \E m \in Mailers : Mailer(m)
  \/ Operator
  \/ Administrator

Spec == Init /\ [][Next]_vars

-----------------------------------------------------------------------------
(* Properties.                                                             *)

\* Every variable keeps its type, a booking not yet stored has no reviews, and
\* no transaction that ended keeps the row locks or what it read.
TypeOK ==
  /\ row \in [Bookings -> Rows]
  /\ open \in [Bookings -> SUBSET Issues]
  /\ closed \in [Bookings -> SUBSET Issues]
  /\ \A b \in Bookings : row[b].status = "absent" => open[b] \cup closed[b] = {}
  /\ approved \in BOOLEAN
  /\ capacity \in Seats
  /\ exceptions \in SUBSET Exceptions
  /\ job \in [Processes -> {Idle} \cup DeskJobs \cup MailJobs]
  /\ \A u \in Desks : job[u] \in {Idle} \cup DeskJobs
  /\ \A m \in Mailers : job[m] \in {Idle} \cup MailJobs
  /\ snapshot \in [Processes -> Snapshots]
  /\ \A p \in Processes : ~Running(p) => snapshot[p] = Unread
  /\ lock = NoOne \/ (lock \in Desks /\ Running(lock))
  /\ overtaken \subseteq {p \in Processes : Running(p)}
  /\ writes \in 0..MaxWrites

Commits(p) == Running(p) /\ job'[p] = Idle /\ row' # row

\* An internal booking without an override does not leave the slot over its
\* capacity (create_internal_booking), however internal bookings race and
\* whatever arrives meanwhile: new bookings, moves into the slot, fewer seats
\* and new exceptions wait for its locks, and a row that changes before its
\* statement is read is seen.  What does not wait is a commit that refers to
\* no locked row anew and makes worse what was read already: more travelers or
\* another date, a status reopened, or moved from a class not yet summed to one
\* that was, a review closed that hid a booking, an exception changed.  Such a
\* commit overtakes the transaction.
InternalFits ==
  [][\A u \in Desks :
       Commits(u) /\ u \notin overtaken /\ ~job[u].allow
         => Remaining' >= 0]_vars

\* A transaction, an email's (warn_if_capacity_overbooked) or an internal
\* booking's, that leaves the slot over its capacity leaves an open
\* capacity_overbooked item on its booking, provided no commit made worse what
\* it had read already, for an email also the slot's capacity, and an email's
\* sums counted its own booking at all.
OverbookingIsFlagged ==
  [][\A p \in Processes : \A b \in Bookings :
       /\ Commits(p) /\ p \notin overtaken
       /\ row'[b] # row[b] /\ row'[b].placed /\ row'[b].dated
       /\ p \in Mailers => ~job[p].unseen
       /\ Remaining' < 0
       => "capacity_overbooked" \in open'[b]]_vars

=============================================================================
