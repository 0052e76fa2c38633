----------------------------- MODULE ReviewQueue -----------------------------
(***************************************************************************)
(* The raw emails and the review queue: everybody who settles an email or  *)
(* an item.  The poller and process_pending_emails process pending emails  *)
(* and mark those that raise; operators ignore or reprocess an email, map  *)
(* its product, resolve an item, edit the booking; replay_raw_emails and   *)
(* backfill_reparse_bookings process what they listed; every deploy may    *)
(* read the same text differently and sweeps the queue                     *)
(* (resolve_stale_booking_reviews).                                        *)
(*                                                                         *)
(* process_raw_email locks the email and its booking, so it is one step.   *)
(* What an operator's request or a failure handler writes in several       *)
(* statements is several steps.  What a booking holds of each needed value *)
(* is a flag, true when the provider's or the active column has it.  Items *)
(* of capacity and schedule are CapacityControl's and ScheduleBook's.      *)
(***************************************************************************)
EXTENDS Naturals

CONSTANTS
  Emails,
  Bookings,
  Data,       \* values a complete booking needs: date, time, count, name
  LastVersion, \* builds of the program: 1 .. LastVersion
  Reading,    \* per email and build: what classifier and parser make of it
  Operator,   \* the author of manual events
  None,       \* no booking, no email
  MaxRequests \* bound: requests of operators

Versions == 1..LastVersion
Row == [has : SUBSET Data, mapped : BOOLEAN, status : {"active", "cancelled"}]

ASSUME ReviewAssumption ==
  /\ LastVersion \in Nat \ {0} /\ MaxRequests \in Nat
  /\ None \notin Emails \cup Bookings \cup Row
  /\ Operator \notin Emails
  /\ Data \cap {"alias", "mismatch", "confidence", "provider", "reference",
                "error", "early"} = {}
  /\ Reading \in [Emails -> [Versions ->
       [kind : {"ignore", "undetected", "error", "noref"}]
         \cup [kind : {"booking"}, booking : Bookings, gives : SUBSET Data,
               sure : BOOLEAN, cancels : BOOLEAN]]]

Issues == Data \cup {"alias", "mismatch", "confidence", "provider", "reference",
                     "error", "early"}
Needed == Data \cup {"alias"}
Items == Emails \X (Bookings \cup {None}) \X Issues

VARIABLES
  raw,       \* RawEmail.parse_status
  detected,  \* emails with provider_detected
  row,       \* Booking: the values it has, activity set or not, status; or None
  events,    \* <<raw_email or Operator, booking>> of the booking events
  items,     \* open review items
  alias,     \* does an approved alias map the product?
  version,   \* the build that runs
  worker,    \* the poller or process_pending_emails
  op,        \* the operator's request
  sweep,     \* resolve_stale_booking_reviews: items listed, and stale as read
  excused,   \* history: <<booking, issue>> an operator answers for
  torn,      \* history: emails whose "ignore" request died half way
  led,       \* history: the booking an email's last processing led to, or None
  requests   \* bound: what operators have asked for

vars == <<raw, detected, row, events, led, items, alias, version, worker, op,
          sweep, excused, torn, requests>>
emailVars == <<raw, detected, row, events, led>>
actorVars == <<alias, version, worker, op>>
history == <<excused, torn, requests>>

Idle == [pc |-> "idle", email |-> None]

Init ==
  /\ raw = [e \in Emails |-> "pending"]
  /\ detected = {} /\ events = {} /\ items = {}
  /\ row = [b \in Bookings |-> None]
  /\ led = [e \in Emails |-> None]
  /\ alias = FALSE /\ version = 1
  /\ worker = Idle /\ op = Idle
  /\ sweep = [todo |-> {}, stale |-> {}]
  /\ excused = {} /\ torn = {} /\ requests = 0

-----------------------------------------------------------------------------
(* Items.                                                                  *)

BookingsOf(e) == {b \in Bookings : <<e, b>> \in events}

\* review_issue_is_obsolete for one booking, or None.
IssueGone(i, b, rows, known, status) ==
  CASE i[3] = "provider"  -> i[1] \in known
    [] i[3] = "reference" -> status[i[1]] = "ignored" \/ b # None
    [] b = None           -> FALSE
    [] i[3] \in {"alias", "mismatch"} -> rows[b].mapped
    [] i[3] \in Data      -> i[3] \in rows[b].has
    [] i[3] = "confidence" -> rows[b].has = Data
    [] OTHER -> FALSE

\* review_issue_is_obsolete_for_context: any of the item's own booking and the
\* one its email leads to now.
Obsolete(i, current, rows, known, status) ==
  LET candidates == {i[2], current} \ {None} IN
  \E b \in IF candidates = {} THEN {None} ELSE candidates :
    IssueGone(i, b, rows, known, status)

\* Mutant: the sweep names items by what they say, and not by their id.
LeaveListed(s) == items' = s /\ sweep' = sweep

\* The open items become `s`; the sweep holds ids, so what is closed it can
\* only close again.
Leave(s) ==
  /\ items' = s
  /\ sweep' = [todo |-> sweep.todo \cap s, stale |-> sweep.stale \cap s]

ItemsOf(e) == {i \in items : i[1] = e}

-----------------------------------------------------------------------------
(* process_raw_email and mark_raw_email_ignored.                           *)

\* Mutant: what others have written of the booking is not asked.
FalseBookingsBlunt(e) == {b \in BookingsOf(e) : row[b].status = "active"}

\* _safe_to_cancel_ignored_raw_email_booking; the thread it compares too is the
\* email's own where nobody else has written the booking.
FalseBookings(e) ==
  {b \in BookingsOf(e) : /\ row[b].status = "active"
                         /\ \A ev \in events : ev[2] = b => ev[1] = e}

\* Mutant: the items of an ignored email stay open.
IgnoreOnly(e) ==
  /\ raw' = [raw EXCEPT ![e] = "ignored"]
  /\ row' = [b \in Bookings |->
               IF b \in FalseBookings(e)
               THEN [row[b] EXCEPT !.status = "cancelled"] ELSE row[b]]
  /\ led' = [led EXCEPT ![e] = None]
  /\ UNCHANGED <<detected, events, items, sweep>>

\* The cancelled bookings get an event, of the same email again.
Ignore(e) ==
  /\ raw' = [raw EXCEPT ![e] = "ignored"]
  /\ row' = [b \in Bookings |->
               IF b \in FalseBookings(e)
               THEN [row[b] EXCEPT !.status = "cancelled"] ELSE row[b]]
  /\ Leave(items \ ItemsOf(e))
  /\ led' = [led EXCEPT ![e] = None]
  /\ UNCHANGED <<detected, events>>

\* Undetected, no parser result or no reference: one item without a booking.
\* A provider that was detected once stays on the email.
Unread(e, kind) ==
  /\ raw' = [raw EXCEPT ![e] = IF kind = "error" THEN "failed" ELSE "needs_review"]
  /\ detected' = IF kind = "undetected" THEN detected ELSE detected \cup {e}
  /\ Leave(items \cup
       {<<e, None, CASE kind = "undetected" -> "provider"
                     [] kind = "noref" -> "reference" [] OTHER -> "error">>})
  /\ led' = [led EXCEPT ![e] = None]
  /\ UNCHANGED <<row, events>>

\* The row as ingestion leaves it: values are only added, an approved alias sets
\* the activity, cancelled stays cancelled.
Upserted(r) ==
  LET old == IF row[r.booking] = None
             THEN [has |-> {}, mapped |-> FALSE, status |-> "active"]
             ELSE row[r.booking] IN
  [has |-> old.has \cup r.gives, mapped |-> old.mapped \/ alias,
   status |-> IF r.cancels THEN "cancelled" ELSE old.status]

\* Mutant: only the email that creates the booking is checked for gaps.
OpenedOnce(e, r, new) ==
  IF new.status = "cancelled" \/ row[r.booking] # None THEN {}
  ELSE {<<e, r.booking, d>> : d \in Data \ new.has}
       \cup (IF new.mapped THEN {} ELSE {<<e, r.booking, "alias">>})
       \cup (IF alias THEN {} ELSE {<<e, r.booking, "alias">>,
                                    <<e, r.booking, "mismatch">>})
       \cup (IF r.sure THEN {} ELSE {<<e, r.booking, "confidence">>})

\* _create_completeness_review_items and the items beside it.
Opened(e, r, new) ==
  IF new.status = "cancelled" THEN {}
  ELSE {<<e, r.booking, d>> : d \in Data \ new.has}
       \cup (IF new.mapped THEN {} ELSE {<<e, r.booking, "alias">>})
       \cup (IF alias THEN {} ELSE {<<e, r.booking, "alias">>,
                                    <<e, r.booking, "mismatch">>})
       \cup (IF r.sure THEN {} ELSE {<<e, r.booking, "confidence">>})

\* A cancellation that has just made its first event of the booking, which the
\* code takes for having created it.
Early(e, r) ==
  IF r.cancels /\ <<e, r.booking>> \notin events THEN {<<e, r.booking, "early">>} ELSE {}

\* upsert_booking_from_parsed.  The items of the email and of the booking that
\* no longer apply are resolved before the transaction ends.
Upsert(e, r) ==
  LET new == Upserted(r)
      rows == [row EXCEPT ![r.booking] = new]
      opened == Opened(e, r, new) \cup Early(e, r)
      now == items \cup opened IN
  /\ row' = rows
  /\ events' = events \cup {<<e, r.booking>>}
  /\ led' = [led EXCEPT ![e] = r.booking]
  /\ detected' = detected \cup {e}
  /\ raw' = [raw EXCEPT ![e] =
               IF Opened(e, r, new) = {} THEN "parsed" ELSE "needs_review"]
  /\ Leave({i \in now : ~(/\ i[1] = e \/ i[2] = r.booking
                          /\ Obsolete(i, r.booking, rows, detected', raw))})

Process(e) ==
  LET r == Reading[e][version] IN
  \/ r.kind = "ignore" /\ Ignore(e)
  \/ r.kind \in {"undetected", "error", "noref"} /\ Unread(e, r.kind)
  \/ r.kind = "booking" /\ Upsert(e, r)

-----------------------------------------------------------------------------
(* The poller, process_pending_emails, and the commands that replay.       *)

Take(e) ==
  /\ worker = Idle /\ raw[e] = "pending"
  /\ worker' = [pc |-> "process", email |-> e]
  /\ UNCHANGED <<emailVars, items, sweep, alias, version, op, history>>

Work ==
  /\ worker.pc = "process"
  /\ Process(worker.email)
  /\ worker' = Idle
  /\ UNCHANGED <<alias, version, op, history>>

\* process_raw_email raises and is rolled back; mark_raw_email_failed saves the
\* status and then, in a statement of its own, the item.
WorkRaises ==
  /\ worker.pc = "process"
  /\ raw' = [raw EXCEPT ![worker.email] = "failed"]
  /\ worker' = [worker EXCEPT !.pc = "item"]
  /\ UNCHANGED <<detected, row, events, led, items, sweep, alias, version, op,
                 history>>

WorkFailed ==
  /\ worker.pc = "item"
  /\ Leave(items \cup {<<worker.email, None, "error">>})
  /\ worker' = Idle
  /\ UNCHANGED <<emailVars, alias, version, op, history>>

\* replay_raw_emails: whatever the status is when its list comes to the email.
\* What raises is rolled back and counted.
Replay(e) ==
  /\ Process(e)
  /\ UNCHANGED <<actorVars, history>>

\* backfill_reparse_bookings, which lists other emails and reports what changed.
Reparse(e) == Replay(e)

-----------------------------------------------------------------------------
(* The sweep of a deploy.                                                  *)

Deploy ==
  /\ version + 1 \in Versions
  /\ version' = version + 1
  /\ sweep' = [todo |-> {}, stale |-> {}]
  /\ worker' = Idle
  /\ UNCHANGED <<emailVars, items, alias, op, history>>

\* _reclassify_non_booking_email
Reclassify(e) ==
  /\ Reading[e][version].kind = "ignore"
  /\ Ignore(e)
  /\ UNCHANGED <<actorVars, history>>

\* The list, with the emails and bookings as they are now.
SweepList ==
  /\ sweep.todo = {} /\ items # {}
  /\ sweep' = [todo |-> items,
               stale |-> {i \in items : Obsolete(i, i[2], row, detected, raw)}]
  /\ UNCHANGED <<emailVars, items, actorVars, history>>

\* _resolve_if_stale: the item's own booking as it was listed, the one its email
\* leads to as it is.
SweepItem(i) ==
  /\ i \in sweep.todo
  /\ \/ i \in sweep.stale
     \/ /\ i[3] # "provider"
        /\ \E b \in BookingsOf(i[1]) \ {i[2]} : IssueGone(i, b, row, detected, raw)
  /\ Leave(items \ {i})
  /\ UNCHANGED <<emailVars, actorVars, history>>

\* The list is through, or the container goes.
SweepEnd ==
  /\ sweep.todo # {}
  /\ sweep' = [todo |-> {}, stale |-> {}]
  /\ UNCHANGED <<emailVars, items, actorVars, history>>

-----------------------------------------------------------------------------
(* The operator.                                                           *)

Ask == requests < MaxRequests /\ requests' = requests + 1

Excuse(s) ==
  excused' = excused \cup
    {<<i[2], i[3]>> : i \in {j \in s : j[2] # None /\ j[3] \in Needed}}

\* inbox_email_action "ignore": first the status ...
IgnoreStatus(e) ==
  /\ op = Idle /\ Ask
  /\ raw' = [raw EXCEPT ![e] = "ignored"]
  /\ op' = [pc |-> "ignore", email |-> e]
  /\ UNCHANGED <<detected, row, events, led, items, sweep, alias, version, worker,
                 excused, torn>>

\* ... and then the items open by now.
IgnoreItems ==
  /\ op.pc = "ignore"
  /\ Leave(items \ ItemsOf(op.email))
  /\ Excuse(ItemsOf(op.email))
  /\ op' = Idle
  /\ UNCHANGED <<emailVars, alias, version, worker, torn, requests>>

\* inbox_email_action "reprocess" saves "pending" before it processes.
AskReprocess(e) ==
  /\ op = Idle /\ Ask
  /\ raw' = [raw EXCEPT ![e] = "pending"]
  /\ op' = [pc |-> "process", email |-> e]
  /\ UNCHANGED <<detected, row, events, led, items, sweep, alias, version, worker,
                 excused, torn>>

\* provider_aliases and approve_alias; with a review item the form goes on to
\* process its email, whatever became of the item since.
SaveAlias(approved, e) ==
  /\ op = Idle /\ Ask
  /\ alias' = approved
  /\ op' = IF e = None THEN Idle ELSE [pc |-> "process", email |-> e]
  /\ UNCHANGED <<emailVars, items, sweep, version, worker, excused, torn>>

OpProcess ==
  /\ op.pc = "process"
  /\ Process(op.email)
  /\ op' = Idle
  /\ UNCHANGED <<alias, version, worker, history>>

\* The request fails or its process dies between two statements.
RequestDies ==
  /\ op # Idle
  /\ torn' = IF op.pc = "ignore" THEN torn \cup {op.email} ELSE torn
  /\ op' = Idle
  /\ UNCHANGED <<emailVars, items, sweep, alias, version, worker, excused,
                 requests>>

\* review_action, "resolve" or "ignore".
CloseItem(i) ==
  /\ op = Idle /\ i \in items /\ Ask
  /\ Leave(items \ {i})
  /\ Excuse({i})
  /\ UNCHANGED <<emailVars, actorVars, torn>>

\* booking_edit: missing values are filled in, or the status is changed.  Who
\* makes a cancelled booking active answers for what it lacks.
Edit(b, new) ==
  /\ row[b] # None /\ new # row[b] /\ Ask
  /\ row[b].has \subseteq new.has /\ (row[b].mapped => new.mapped)
  /\ row' = [row EXCEPT ![b] = new]
  /\ events' = events \cup {<<Operator, b>>}
  /\ excused' = IF row[b].status = "cancelled" /\ new.status = "active"
                THEN excused \cup ({b} \X Needed) ELSE excused
  /\ UNCHANGED <<raw, detected, led, items, sweep, actorVars, torn>>

Next ==
  \/ \E e \in Emails : \/ Take(e) \/ Replay(e) \/ Reparse(e) \/ Reclassify(e)
                       \/ IgnoreStatus(e) \/ AskReprocess(e)
  \/ Work \/ WorkRaises \/ WorkFailed
  \/ Deploy \/ SweepList \/ SweepEnd \/ \E i \in items : SweepItem(i) \/ CloseItem(i)
  \/ IgnoreItems \/ OpProcess \/ RequestDies
  \/ \E approved \in BOOLEAN, e \in Emails \cup {None} : SaveAlias(approved, e)
  \/ \E b \in Bookings, new \in Row : Edit(b, new)

Spec == Init /\ [][Next]_vars

-----------------------------------------------------------------------------
(* Properties.                                                             *)

\* Statuses, rows and items are of their types, an item names a booking only
\* when one exists, and the sweep holds open items only.
TypeOK ==
  /\ raw \in [Emails -> {"pending", "parsed", "needs_review", "failed", "ignored"}]
  /\ detected \subseteq Emails
  /\ row \in [Bookings -> Row \cup {None}]
  /\ events \subseteq (Emails \cup {Operator}) \X Bookings
  /\ \A ev \in events : row[ev[2]] # None
  /\ led \in [Emails -> Bookings \cup {None}]
  /\ \A e \in Emails : led[e] # None => <<e, led[e]>> \in events
  /\ items \subseteq Items
  /\ \A i \in items : i[2] # None => <<i[1], i[2]>> \in events
  /\ alias \in BOOLEAN /\ version \in Versions
  /\ worker \in [pc : {"idle", "process", "item"}, email : Emails \cup {None}]
  /\ op \in [pc : {"idle", "process", "ignore"}, email : Emails \cup {None}]
  /\ (worker.pc = "idle") = (worker.email = None)
  /\ (op.pc = "idle") = (op.email = None)
  /\ sweep \in [todo : SUBSET items, stale : SUBSET items]
  /\ excused \subseteq Bookings \X Needed
  /\ torn \subseteq Emails /\ requests \in 0..MaxRequests

\* What a booking lacks, as the issues that say so.
Lacks(b) == (Data \ row[b].has) \cup (IF row[b].mapped THEN {} ELSE {"alias"})

\* Every email that wrote the booking wrote no other.
Straight(b) == \A e \in Emails : <<e, b>> \in events => BookingsOf(e) = {b}

\* What the row of an email says, whichever of its bookings it shows
\* (_inbox_row, _current_inbox_issues).
InboxIssues(e) == {i \in ItemsOf(e) : \A b \in BookingsOf(e) :
                                        ~Obsolete(i, b, row, detected, raw)}

\* The inbox (review_queue).
Shown == UNION {InboxIssues(e) : e \in Emails}

\* Nothing a booking lacks goes unnoticed: while an email leads to an active
\* booking, each value it lacks is an item of the inbox, whoever
\* processed, swept, reclassified or replayed in between, unless an operator
\* closed that item or revived the booking (upsert_booking_from_parsed,
\* review_issue_is_obsolete_for_context).
MissingIsListed ==
  \A b \in Bookings :
    (/\ row[b] # None /\ row[b].status = "active"
     /\ Straight(b)
     /\ \E e \in Emails : led[e] = b)
    => \A x \in Lacks(b) : \/ \E i \in Shown : i[2] = b /\ i[3] = x
                           \/ <<b, x>> \in excused

\* An ignored email asks for nothing: it has no open item, but for the moment
\* its request is between its two writes, a request that died there, and the
\* failure that another process was about to report (inbox_email_action).
IgnoredIsQuiet ==
  \A e \in Emails : raw[e] = "ignored" =>
    \/ \A i \in ItemsOf(e) : i[3] = "error"
    \/ op = [pc |-> "ignore", email |-> e]
    \/ e \in torn

\* Finding out that an email was no booking takes back what that email alone
\* made: a booking an operator or another email has written is cancelled only
\* by a cancellation email or an operator
\* (_cancel_false_bookings_for_ignored_raw_email, _reclassify_...).
OthersBookingsStay ==
  [][\A b \in Bookings :
       (/\ row[b] # None /\ row'[b] # row[b]
        /\ row'[b].status = "cancelled" /\ row[b].status = "active"
        /\ \E ev, other \in events : ev[2] = b /\ other[2] = b /\ ev # other)
       => \/ <<Operator, b>> \in events'
             /\ UNCHANGED <<raw, items>>
          \/ \E e \in Emails : LET r == Reading[e][version] IN
               /\ r.kind = "booking" /\ r.booking = b /\ r.cancels
               /\ raw'[e] \in {"parsed", "needs_review"}]_vars

=============================================================================
