# A TLA+ model of ticketmirror

ticketmirror mirrors the bookings a tour operator receives by email.  A poller
reads one Gmail mailbox, every message is stored raw, parsed by a provider
parser and merged into a `Booking`; operators correct bookings, resolve a review
queue, edit schedules and add internal bookings in a Django web interface.  All
shared state is in PostgreSQL (READ COMMITTED); several processes work on it at
once: the poller container, three gunicorn workers, and management commands, of
which the poller container runs four every time it starts.

This directory holds TLA+ modules that model that code, the TLC instances that
check them and TLAPS proofs of the properties that matter most.

## Inventory

| Component | State | Operations | What is hard |
|---|---|---|---|
| Gmail client (`ingestion/gmail_client.py`) | none; Gmail's history numbers | list by history, list recent, fetch | expired history, 404, failures, messages changed after listing |
| Gmail poller (`ingestion/polling.py`) | `GmailSyncState` (cursor, lock), `RawEmail` | one cycle: lock, list, dedup, fetch, store, process, save cursor, release; loop; forced sync; process pending | crashes between steps, stale lock takeover, overlapping cycles, limits, retries |
| Email processing (`ingestion/services.py`) | `RawEmail.parse_status`, `Booking`, `BookingEvent`, `ReviewQueueItem` | ignore, detect provider, parse, upsert, open and resolve reviews | reprocessing, out-of-order emails, cancellation, manual overrides |
| Identity (`_find_booking_for_parsed`, `_promote_booking_identity_if_needed`) | `(provider, reference)` of a booking | exact match, Bookeo provisional match, promotion | two channels for one booking, order of arrival, duplicates |
| Alias matching (`match_product_alias`, views) | `ProviderAlias` | match by code, by name; save, approve, delete, map and reprocess; seed and its drift check | aliases changed while emails are processed, aliases that disagree, replays beside other processing |
| Manual edits (`apply_manual_override`, `bookings/views.py`) | `Booking.manual_override_fields` | booking edit, home cancel, attendance | read and written without a lock, races with ingestion and repair commands |
| Capacity (`bookings/services.py`) | bookings of a slot and date, slot capacity, exceptions | internal booking, overbooking warning, capacity edits | check and insert are only serialised between internal bookings |
| Review queue | `ReviewQueueItem` | open, resolve, ignore, obsolete | agreement with the raw email's status |
| Schedules (`resolve_active_schedule`, `resolve_schedule_slot_details`, tour views) | `ActivitySchedule`, slots, exceptions | resolve the slot of a parsed time; edit, copy, delete schedules and days | precedence of overlapping schedules, exceptions, fallback |
| Bookeo history import (`ingestion/bookeo_import.py`) | checkpoint file, bookings | windows, pages, import one booking, checkpoint | crash between pages, torn checkpoint file, overwriting later emails |
| Maintenance commands (replay, backfill, repair, reslot, resolve-stale, merge-stale) | bookings, raw emails, reviews | run at each container start, concurrently with the web | full-row saves from stale reads |
| Parsers and registry (`ingestion/parsers`) | none | detect the provider, parse text | pure text functions |
| Translation, display, dashboards, reports, CSV | none (reads) | render | stateless |
| Accounts, roles, admin, seeds, deployment | users, catalogue rows | CRUD | ordinary framework code |

## Modules

| Module | What it is |
|---|---|
| `GmailPoller` | poll cycles, the database lock, the cursor, the raw-email store, `process_pending_emails` |
| `MailMirror` | what ingestion promises of one email, with no lists, locks or cursors |
| `GmailPollerMirror` | the refinement mapping: the poller implements `MailMirror` |
| `BookingIdentity` | which row an email belongs to: lookups, provisional bookings, promotion, transactions side by side |
| `BookingMirror` | the values of one booking and everyone who writes it |
| `AliasMatching` | the aliases of one provider, everyone who writes them, and the emails they map |
| `ReviewQueue` | raw emails against review items, and everyone who settles either |
| `ScheduleBook` | the schedules of one activity, their edits and seeds, the slot of a booking, the daily pages |
| `CapacityControl` | the seats of one slot on one date and everyone who takes or changes them |
| `BookeoImport` | the history import: windows, pages, the checkpoint file, interruptions |
| `MC...` | instances for TLC; the `.cfg` files name them |
| `..._proofs` | theorems about the module they extend |

The components meet in `process_raw_email`.  `GmailPoller` calls it once per email
and sees whether it commits or raises.  Inside it, `BookingIdentity` is the choice
of the row, `AliasMatching` the activity, `BookingMirror` the merge of the values,
`ScheduleBook` the slot they lead to, `CapacityControl` the seats, `ReviewQueue` the items it opens and closes
and the status it leaves.  Each module takes the others' part as an input or a
choice, and each has the other writers of its own part beside the email: the
import writes rows in `BookingIdentity`, an email is one of `BookeoImport`'s other
writers, operators are in all of them.  An email processed twice, which
`GmailPoller` excludes for the poller alone, is ordinary behaviour everywhere else,
because replay and reprocessing cause it.

### GmailPoller

A cycle is a process with one step per transaction or HTTP request of
`poll_gmail_once`: `AcquireLock` (`_acquire_poll_lock`), `ReadCursor`,
`ListHistory` or `ListRecent` (the fallback when Gmail answers 404 and the forced
sync), `Dedup` / `Take` (the loop's look at the stored row), `FetchAndStore`,
`FetchGone`, `Process`, `ProcessRaises`, `MarkFailed`, `SaveCursor`, `ReleaseLock`.
`Abort` is an exception that leaves the cycle, `Crash` the death of the process,
which keeps the lock.  `Drain...` is the command that processes pending rows.
Gmail is external: a counter of history records, the record that added each
message and the last one that touched it, deletion, and expiry of old records.

### BookingIdentity

A row's key is `<<provider, whose reference, order>>`; a row under Bookeo is
provisional.  A process runs one transaction at a time: `Begin` (lock the email,
parse), `Look` (the rows that match one query of `_find_booking_for_parsed` or
`_find_bookeo_provisional_booking` when it starts: by exact key, Bookeo number or
details), `Lock` (`FOR UPDATE LIMIT 1`: PostgreSQL locks below the limit, so it waits
while another transaction holds the next candidate, looks at that row again, and goes
on to another candidate when it no longer matches, `Lost`; only without candidates is
the query empty), `Check`
(`_promote_booking_identity_if_needed`'s look for a booking under the new key),
`Save`, `Create` (which fails on the unique constraint and rolls back), `Fail`.
`Import(o)` is the import's transaction on an order, `Cancel(o)` the customer.

### BookingMirror

`Ingest(e)` is one step, because `_find_booking_for_parsed` locks the row until
the transaction ends: find, create or update, merge provider, active and alias
values against the overrides, open and resolve reviews, set the email's status.
Nobody else locks, so an operator's edit is `EditOpen` (the GET that fills the
form), `EditSubmit` (the POST's first read, which decides what changed),
`EditFetch` (its second read) and `EditWrite` (the save); `RepairPick/Read/Upsert/
Write` and `ReslotRead/Write` are the two commands.  Start time and traveler
count stand for the five provider/active pairs, the lead name for the parsed
fields with a single column, a failed raw email for a pending one.  `manual` and
`edited` are history variables: what operators last set, and in which fields
since the last merged email.

### AliasMatching

`Candidates` are the aliases `match_product_alias` chooses from, by code, by product
and option, by product alone; `Answers` the activities of those the database may
return first.  Names are numbers in the database's order, blank first, and `Norm` is
what two spellings share, so the aliases a person reads as one and the constraint
holds apart exist in the model.  Processing is `Begin`, which matches, and `Commit`,
which finds the booking locked by then: the poller (`Take`), `replay_raw_emails`
(`StartReplay`, `ReplayNext`) and the inbox's "map product" (`MapProduct`,
`Reprocess`) interleave between the two, each email locked by one of them.
`SaveAlias`, `ApproveAlias` are the settings pages, `ChangeAlias`, `DeleteAlias` the admin
site.  `Stop` is a deploy and `Seed` the catalogue seed with its drift check, which
must commit before the web process runs again.  `merged`, `clean` and `seeded` are
history: which emails reached their booking, which bookings a replay covers without
anybody processing their emails out of order, and whether an alias changed since
the last seed; `op.hold` says that the mapping just made is still the only match.

### ReviewQueue

`Reading[e][v]` is what build `v` of the program makes of an email: no booking,
no provider, a parser error, no reference, or a booking with the values it gives,
sure or not, perhaps a cancellation.  `Process(e)` is `process_raw_email`, which
locks the email and its booking; `WorkRaises` and `WorkFailed` are the failure
handlers' two transactions.  `IgnoreStatus`/`IgnoreItems` and
`AskReprocess`/`OpProcess` are the two buttons of `inbox_email_action`, written
in steps as the code writes them; `RequestDies` stops either.  `SaveAlias` maps a
product and reprocesses, `CloseItem` is `review_action`, `Edit` the booking form.
`Replay` and `Reparse` are the commands, `Deploy` the next build, `Reclassify` and
`SweepList/Item/End` are `resolve_stale_booking_reviews`, which decides from rows
it listed before.  `Obsolete` is `review_issue_is_obsolete_for_context`; `Shown` is
what the inbox shows of the open items.  `excused`, `led` and `torn` are history:
what an operator closed, the booking an email last led to, and ignored emails
whose request died.

### ScheduleBook

Tables map ids to rows.  `Ruling(d)` is `resolve_active_schedule` with its
precedence, `Running(d)` the slots of the ruling schedule after exceptions,
`Resolved` is `resolve_schedule_slot_details`.  Each form of the settings page
is an action; a request that copies slots commits them one by one, so `CopySchedule`,
`CopyDay` and `SaveOtherSchedule` leave the copies still to write in `task`, a set
that `CopyStep` works off in the order of `CopyKey` and `RequestDies` drops.  `Start` is a container start with
`seed_bookeo_products` as a function from catalogue to catalogue (`Seeded`, whose loops
over `update_or_create` are one operator, `Upserted`) and the case in which it raises (`SeedFails`).  `EmailPlaces`, `EmailUnmapped`,
`EmailCancels`, `CloseReview` and `Reslot` write the bookings; `Agenda` and
`Calendar` are the home page and the calendar page of a date, row by row, for either
setting of `show_home_agenda` and for all `Filters` of a page.

### CapacityControl

The seats are read statement by statement, as `get_capacity_for_slot_date` reads
them: `snapshot` says which statement a transaction runs next and what it has read.
`DeskLock`, three times `SumPax`, `DeskDecide` and `DeskCommit` are
`create_internal_booking`; `MailMerge`, `LoadSlot` (the slot object an email loads
before it warns), three times `SumPax`, `MailWarn` and `MailCommit` an email's
transaction.  Everybody else may commit between any two of them.  A commit that
makes worse what a transaction has read already has *overtaken* it (`Worsens`),
which the history variable `overtaken` records: more people in the statuses it has
summed, fewer seats than it loaded, and once all is read, less than is left by it.  Who
can is decided by PostgreSQL:
`select_for_update().select_related("schedule", "schedule__activity")` without
`of=` locks the slot, schedule and activity rows; Django's foreign keys are
deferred, so a commit that newly refers to one of them needs `FOR KEY SHARE` at
its commit and waits.  A new booking, a move into the slot, a new exception and a
change of the slot row wait; a new traveler count, date, attendance or status, a
closed review item and a changed exception do not.  `Hidden` is Django's
documented meaning of `exclude()` over a multi-valued relation.

### BookeoImport

`Start` runs `import_bookeo_history` up to the day's default `--to`, dry or not;
`OpenWindow`, `SkipWindow`, `RunDone` walk `monthly_windows`; `ListPage`, `Take`,
`ImportBooking` (or `ClassifyBooking` of a dry run), `TurnPage`, `CloseWindow` are
`_process_window`; writing the file is `Truncate` within the step that decides
its content and then `FileWritten`, because `_write` opens the file with `"w"`.
`Interrupted` stops the command at any of them, a truncated file included, and
`CannotLoad` is what every later run then does.  Around it Bookeo's account
changes, emails arrive, operators edit and close items, an alias is approved and
days pass.  `owed` is history: what the last completed pass over a window listed.

## What the runs check

| Run | Question | Bounds |
|---|---|---|
| `poller_exclusive` | do cycles exclude each other, is an email applied once, is every step a step of `MailMirror`? | 3 messages, 2 pollers, 4 history records, 1 fault; 514k states |
| `poller_live` | does polling go on after crashes, is every readable message copied and settled, when the pollers store and the command processes? | 2 messages, 2 pollers and the command, 2 faults, fair; 183k states |
| `poller_overlap` | what survives when a live cycle that stores and processes outlasts its lock? | 2 messages, 2 pollers, slow cycles, 1 fault, fair; 593k states |
| `identity` | does an email ever reach another customer's booking, does a cancellation miss its own, when do two bookings of one order arise? | 5 emails on one of 2 orders, 2 processes, each email once besides retries; 542k states |
| `booking_locked` | are manual values, cancellations and conflicts kept by emails in any order and number, with stale forms? | 3 emails, 1 operator; 69k states |
| `booking_serial` | does only an operator revive a cancelled booking, with repair, reslot and 2 operators whose read-write pairs run alone? | 2 emails, 2 operators; 38k states |
| `alias_mapping` | does a replay leave the activity of the latest matched email, does a mapping made in the inbox take hold, do seeded aliases give one answer? | 2 emails of 1 booking, 2 spellings, 1 option, 1 code, 3 edits; 1.2M states |
| `review` | is what a booking lacks in the inbox, is an ignored email quiet, is only its own booking taken back? | 2 emails, 3 builds, 1 needed value and the product, 2 requests; 937k states |
| `schedule_desk` | do the daily pages list a booking once, and which do they leave out, what doubles a time, is seeding idempotent, is a booking off schedule queued? | 1 booking, 2 dates, a week of 2 days, 2 times, 2 edits; 311k states |
| `schedule_seed` | does the seed of a deploy complete? (it does not, see Divergences) | as `schedule_desk`, 1 edit |
| `capacity_desk` | do racing internal bookings fit, is overbooking flagged? | 2 desks, 1 email process, 3 bookings of one passenger, 1 or 2 seats, 2 exceptions, 2 other writes; 2.2M states |
| `import_resume` | is the checkpoint ever ahead of the bookings, what do repeated pages leave behind, does the command end? | 2 numbers, windows of 2 days, pages of 1, 3 payloads, up to 2 outside changes; 1.15M states, fair |

The bounds are small but reach the cases.  Three messages are a stored one, one
being handled and one that arrives meanwhile; the second poller finds the lock
held, stale or free; one fault is a crash at any step, after which recovery is
the same as after the first.  One history record more than messages lets one
message be relabelled.  Three emails are a booking, a change and a cancellation
in every order, each any number of times (`eventsOf` counts to two, all that
`was_created` tells apart).  Two operators are what a lost update needs.  Two desks
and two seats are one race for the last seat, and two writes are an email and an
edit, or a change of the seats, between any two of its statements (aliases and
reviews change without a bound).  The five emails of `identity` are Bookeo's
with the reference, without it, and with a provider the parser does not know, and
a cancellation from each channel; two processes are what a race needs, and the
second order is the one a lookup could confuse it with.  The two emails of
`alias_mapping` name a catalogue product in another spelling and a product nobody
mapped, processed in either order and again; three edits map it, let an alias
disagree, and repair that.  The three builds of
`review` are one that finds no reference in a newsletter, one that takes it for a
booking, one that ignores it, which is the sequence `Reclassify` exists for.  Two
edits are enough for an override schedule with a copied day, and for an edit that
the next seed meets; one booking is what the pages are asked about, and a page that
lists it because another one makes its row is left to the proof.  Two numbers on pages of one are a page finished, a page in
hand and one to come; the second window exists only from the second day on, when
a resumed command has a later `--to`.  `MaxHistory`, `MaxFaults`, `MaxWrites`, `MaxRuns`,
`MaxRequests`, `MaxEdits` and `MaxChanges` bound what the environment does, never
what the code may do.

`CHECK_DEADLOCK FALSE` stands where the bounded environment really comes to rest.

### Fairness

`poller_live` and `poller_overlap` assume weak fairness of three
things: the steps of a cycle (the loop starts one a minute and the container
restarts a dead poller), the lock becoming stale (time passes), and the command
where it is used.  `import_resume` assumes weak fairness of the command's own steps:
once started it runs until it ends, raises or is interrupted; nobody is obliged to
start it.  Faults are finitely many; Gmail is never obliged to do anything.  The
abstract mirror is fair only to messages that can still be read.  The other
modules claim no liveness.

## What is proved

Every proof is checked by TLAPS for all values of the constants that satisfy
the named assumptions.

| Module | Theorems |
|---|---|
| `GmailPoller_proofs` | `TypeCorrect`; `OneCycleAtATime` (when no live cycle outlasts the lock); `AppliedOnce`, `AppliedStays` (when, besides, only cycles process emails); `NothingLost` (when messages are not touched after listing and the limit covers the mailbox, without which it is false); `PollerImplementsMirror`: every step of the poller is a step of `MailMirror` or stutters |
| `BookingIdentity_proofs` | `TypeCorrect`; `PartiesApart`: no booking mixes two parties; `CancellationKept`: a parsed cancellation with the OTA's identity leaves no active booking under it; `IdentityGrows`: an identity only changes from Bookeo's to an OTA's; `NoDoublesInSight`: an OTA's email never creates a double beside a provisional row it could have taken over, however many rows its lookups lose, unless the import revives one |
| `BookingMirror_proofs` | `TypeCorrect`; `ManualSafe`, `OnlyOperatorsRevive` (when nobody writes from a stale copy); `ParsedCancellationHolds`, `CountFollowsProvider`, `ConflictsAreReviewed` (when, besides, repair and reslot do not run) |
| `AliasMatching_proofs` | `TypeCorrect`; `SeedSettlesProducts`: after a seed a product leads to one activity; `ReplayMapsByLatest`: after a replay the latest matched email rules; `MappingTakesHold`: a product mapped in the inbox is mapped |
| `ReviewQueue_proofs` | `TypeCorrect`; `IgnoredStaysQuiet`; `OthersBookingsSafe`: reclassifying an email cancels no booking somebody else wrote; `MissingStaysListed`: what an active booking lacks is in the inbox |
| `BookeoImport_proofs` | `TypeCorrect`; `CheckpointIsSafe`: whatever a checkpoint lets a run skip is in the database; `ManualKept`; `NothingUnmappedIsLost`: an import that leaves a booking without an activity says so; `NoEventRepeated`: importing a page again adds no second event of one payload |
| `CapacityControl_proofs` | `TypeCorrect`; `InternalBookingsFit`: an internal booking fits the seats unless a commit that does not wait for its locks made worse what it had read; `OverbookingFlagged`: a transaction nothing overtook that overbooks a slot leaves the warning |
| `ScheduleBook_proofs` | `TypeCorrect`; `ReferencesStay`: nothing refers to a slot or schedule that is gone; `OnlyCopiesShareADay`: two slots of one schedule, time and day come from copying a day; `PagesListOnceOrLeaveOut`: no daily page lists a booking in two rows, and in none only for the reasons named under Divergences; `SeedTwiceIsOnce`: seeding a seeded catalogue changes nothing; `OffScheduleSurfaced`: an email that matches no running slot leaves an item |

The arguments:

- `CycleHoldsLock` becomes inductive as `FreshLock`, which adds that a held lock of
  a live cycle is not stale.  `AppliedAtMostOnce` needs `OnceInv`: a message in a
  cycle's hand has not been applied, an applied one is done, and nothing else is
  processing.  `NothingLostBehindCursor` needs `CursorInv`: the numbering Gmail
  guarantees (`HistoryInv`), what each step of a cycle has in hand (`CycleShape`),
  and `CoverInv`, that below the id a cycle would write, and below any message it
  still has to handle, everything is stored or listed.
- `IdentityInv`: keys are unique (`UniqueKeys`), a row's orders agree with its party
  and its key (`RowsOK`), the row a process holds has its email's key or is a
  provisional one of the same party (`AgentOK`), and no two hold the same one
  (`OneHolder`).  The lock
  keeps what was found true until `Save`.  Cancelling adds `CalledOK` and
  `Reached`: a settled cancellation has its row, which is cancelled, and keys
  being unique it is the only one.  `NoDoubleInSight` adds `SeenInv`: a provisional
  row an email had in sight, and which a lookup is past (not a candidate, or lost), has
  the OTA's identity by now or is cancelled, so no later step makes it one the email
  should have taken over.  Nothing revives a cancelled row but the import, which
  `Overlook` records.
- `ManualValuesKept` needs `ManualInv`: a value set by an operator is recorded in the
  overrides, at most one process holds a copy of the row, and a held copy is
  current; merging an email (`UpdatedKeeps`) and filling empty columns
  (`FilledKeeps`) leave overridden columns alone.  `OnlyOperatorsRevive` adds
  `BornFirst`: a booking nobody created is not cancelled, and no command holds a
  copy of it.  The three properties of a settled email are inductive together with
  these (`QuietInv`) once repair is excluded, which settles emails it does not apply.
- `SeededIsDeterminate` needs that a completed seed left no drift (`SeedInv`): all
  candidates are approved, and two that come first have one name, spelling
  included (`NoDriftNoTies`).  `LatestMatchRules` needs `LatestInv`: of a covered booking, what the
  replay still has to process is later than what is merged (`OrderOK`), and what any
  process holds is what the aliases say now (`HandsOK`), since a change of an alias ends
  the claim.  `MapTakesHold` needs `HoldInv`: an alias saved for a product nothing
  matched is its only candidate (`SavedMatches`), and stays so until the request ends.
- `IgnoredIsQuiet` needs `TypeOK` only: whoever opens an item sets the email's status in the same
  transaction, failure handlers excepted.  `OthersBookingsStay` follows from
  `Ignore` looking at every event of a booking before it cancels it.
  `MissingIsListed` needs `ListedFor`, an item per value and email: every email whose
  booking lacks a value keeps an item of its own for it, under one of the issues the
  value can have.  A value once given is never taken away, so what the sweep listed
  as obsolete still is when it closes it (`StaleInv`), and `Straight` keeps another
  booking of the same email from making the item obsolete.
- `ImportInv`: every page before the current one is imported, so is what is not in
  the queue or in hand of the current one; the content about to be written to the
  file is safe already, so a file that was written whole is safe whenever the
  process died.
- `NoDuplicateEvents` needs `EventsInv`: the events a booking has, and those an import
  of what the command holds for it or would fetch would still add (`Due`), are at most
  the changes made to it, plus one once the alias is approved.  `Due` falls by one when
  an event is written and grows by at most one with a change.
- `InternalFits` and `OverbookingIsFlagged` rest on `SeatsInv`: what a transaction
  nothing has overtaken has read so far, statement by statement, is no better than what
  those statements would return now (`SnapshotOK`), so when it has read everything and
  found room, there is room (`DeskOK`, `MailerOK`).  A commit that makes any of it worse
  waits for the locks or overtakes; fewer seats never leave more (`FewerSeats`).  The
  proof counts travelers as a set with one element per seat (`Crowd`), from which a
  booking's part is taken at once, so no induction over a sum is needed.
- `BookInv`: one current schedule, of priority 100; slots and
  exceptions belong to schedules that exist, aliases and bookings to slots that
  exist; two stored slots are `Apart`, that is, share a time and a day only where one
  of them has that day alone.  `TaskInv` says the same of what a request under way has yet
  to write, against what is stored and against each other.  The seed's loops go
  through two lemmas: `UpsertFacts`, what a loop over `update_or_create` leaves, and
  `UpsertAgain`, that a loop over rows it would write as they are changes nothing.  A seed leaves
  the catalogue's rows and no others (`Grown`, `Stocked`), hence `SeedIdempotent`.

Only proved, not run: the types of `AliasMatching` and `BookeoImport`.  Only
model-checked: the liveness properties (`PollingGoesOn`, `ImplementsFairMirror`,
`EveryMessageSettled`, `CommandEnds`), beyond this prover.  Every other property of a
passing run is stated by a theorem.

## Divergences

Where the code does not do what its documentation says.  `schedule_seed` shows the
first; the others follow from the same modules and explain what their properties
except, or what the modules leave out.

- `schedule_seed`: docs/PRODUCT_SEEDS.md:3 promises "a safe production seed", :17 an
  idempotent one, which :12 runs at every deploy.  After one ordinary edit it
  raises: it deletes a slot moved to a time that is not the catalogue's, which
  PROTECT refuses while an alias or a booking refers to it, and `update_or_create`
  meets two slots of one time after a day was copied
  (`seed_bookeo_products.py:669`).  The web process starts after it, so it does not.

Gmail and processing:

- The cursor follows a fetched message's `historyId`, the record of its last change:
  a message starred after it was listed moves the cursor over one that arrived in
  between and is not stored (`polling.py:110`).
- A listing longer than `--limit` is cut and the cursor still moves to its newest
  message (`polling.py:94`; docs/INGESTION.md:78-79).  `NothingLost` assumes `Limit` covers it.
- A cycle slower than the lock's lifetime is taken over while it runs, and both
  process the same email, the failure of one overwriting the result of the other
  (`polling.py:226, 120`; INGESTION.md:85).  Hence `~SlowCycles`.
- `process_pending_emails` beside a poller that processes inline applies an email a
  second time: it never looks at a row's status again (`polling.py:184`).
- The fallback lists what `GMAIL_SYNC_QUERY` finds (`newer_than:90d -in:spam -in:trash`
  by default), history does not ask it: a message the query leaves out is never stored
  once history has expired over it (`gmail_client.py:147`).  `Recent` takes the query
  to find every message of the mailbox.
- A pending row whose message was deleted in Gmail is never retried by the poller
  (`polling.py:97`); a "reprocess" that raises leaves such a row (`views.py:901`).

Identity:

- After a promotion nothing finds the row by its Bookeo number: a later email of
  Bookeo's without the reference creates a second booking, even an active one of a
  cancelled order, and such an email's cancellation does not reach the promoted
  one (`ingestion/services.py:960`).  Hence `Sighted` in `CancellationReachesOrder`.
- The import looks for one exact identity only, so docs/BOOKEO_HISTORY_IMPORT.md:58,
  "prevents duplicate bookings", fails beside emails; a note with the provider but
  no reference is kept as that provider with Bookeo's number, one with the
  reference but no provider as Bookeo with the OTA's (`bookeo_import.py:371`).
- The match by details takes two orders of one party for one (`ingestion/services.py:974`):
  one's cancellation may cancel the other's provisional row, which the import then
  revives while an email that found nothing is about to create its own.  The run's two orders
  are of two parties and do not reach this; the proof does.  Hence `Overlook`.
- A row that comes to match only after a lookup's statement started is not one of its
  candidates, so an email may hold a provisional row while another process creates
  its identity; `POSSIBLE_DUPLICATE` is only reached by such races
  (`ingestion/services.py:1035`).

Values of a booking:

- Two requests read `manual_override_fields` before either writes; the second drops
  the first's field, and the next email overwrites the manual value
  (`bookings/services.py:103`).  Hence `NoStaleWrites`.
- What a form that was opened before an email submits unchanged counts as a manual
  change where the email changed it (`views.py:241`).
- The repair command fills an empty column from a pending cancellation email and
  marks it parsed without cancelling (`repair_parsed_booking_display_fields.py:201`);
  it saves every column of a booking it read without a lock (`:310`);
  reslot overwrites a slot set by hand after it read the booking (`reslot_bookings.py:122`).
- `_update_booking` never compares `received_at`: a change processed before the
  confirmation is overwritten by it (`ingestion/services.py:662`).
- A manually corrected lead name, phone, pickup or activity is overwritten by the
  next email: only fields with a provider/active pair, the status and the slot
  look at the overrides (`ingestion/services.py:609`; INGESTION.md:111).  `Protected` is
  the set for which the claim holds.
- Processing an email a second time may change the row: creating keeps the parsed
  start time when a single slot is the fallback, updating takes the slot's
  (`ingestion/services.py:645`; design spec:149).
- `CANCELLATION_WITHOUT_BOOKING` is opened for ordinary cancellations: the count of
  events cannot tell a booking created from one first updated (`ingestion/services.py:273`).
- An update without a traveler count erases the active one, and the review about it
  is resolved in the same transaction because the provider's is still there
  (`bookings/services.py:426, 351`).  Hence the condition in `ActiveCountIsProviders`.

Aliases:

- docs/INGESTION.md:89 promises a review item "rather than guessing", :123 a match by
  "exact raw product and option names".  An email whose option nobody mapped takes
  the first approved alias of the product, another option's too
  (`ingestion/services.py:534`), as `Candidates` has it.
- docs/INGESTION.md:127 promises an item when no approved alias is matched.  The
  transaction that opens it resolves it when the booking has an activity already
  (`ingestion/services.py:316`): a booking changed to an unmapped product keeps the old
  activity, and nothing open says so.
- Two approved options of one product with different activities, which the settings
  page takes without complaint, make the drift check raise at every later start
  (`seed_bookeo_products.py:745`), so the web process stays down until the database is
  repaired by hand: `Seed` is not enabled.
- "Map product" shows the product of the booking, whose name, option and codes may come
  from different emails, and reprocesses the email of the item: the alias saved may
  match neither (`views.py:2315`).  Hence `hold` in `MapTakesHold`.
- Saving the alias and reprocessing are two transactions: a request that dies between
  them, or meets an email locked by a poller that fails, leaves the alias alone.
- Each deploy gives the catalogue's aliases their own activity back and approves them
  again, so a remap of one lasts until the next (`seed_bookeo_products.py:698`).
- The activity page's form meets the unique constraint without a handler and answers
  with an error page (`views.py:730`).

Review queue:

- The low-confidence item of a complete email is resolved in the transaction that
  opened it (`ingestion/services.py:316`; INGESTION.md:103).
- Parser-error, conflict and early-cancellation items never become obsolete; a
  provider once detected stays, so a later `PROVIDER_NOT_DETECTED` item counts as
  obsolete at once and the inbox may call the email complete.
- `replay_raw_emails` includes ignored emails by default (`replay_raw_emails.py:10`), so it
  takes back an operator's "ignore"; that "ignore" leaves the booking the email made
  active, and dying between its writes it leaves open items (`views.py:901`).  A
  failure reported late puts an error item on an email ignored meanwhile.
  `IgnoredIsQuiet` names both.
- An email whose text matches an ignore rule is ignored although it shows booking
  intent: both branches return the same (`ingestion/services.py:883`).  Two emails that
  were no bookings and wrote one booking keep it alive, each being another's; a
  false booking an operator touched stays and loses its items.
- An email reprocessed under another reference closes the old booking's items,
  because an item is obsolete when any of the email's bookings lacks nothing.
  Hence `Straight`.  A revived booking gets no items.  Hence `excused`.
- The sweep decides from a booking read when it listed the items.  No constraint
  keeps one item per email, booking and issue: doubles make `get_or_create` raise.
- The inbox shows the newest 200 emails (`views.py:857`).  "Mark as read" marks what is
  there when the request arrives, not what was shown, and a failed email that fails
  again stays read (`core/views.py:134`).

Schedules:

- "Duplicate schedule slots are rejected" (docs/CODEX_COMPLETION_REPORT.md:27), but
  copying a day makes them (`views.py:1732`).  Hence `OnlyCopiesDouble` with its exception.
- The seed deletes or resets what operators entered at each deploy: schedules they
  created under the catalogue's kinds, times, days, priorities.
- An open-ended other schedule never wins over the current one, and the overlap
  check compares equal priorities only (`forms.py:267`).
- A request that creates a schedule from another commits it before its slots: while
  it copies, or if it dies, the schedule rules its days with part of the times; an
  interrupted save leaves the default priority.
- Two requests that each remove one day of a slot: the second brings the first's day
  back (`views.py:1781`).  `ScheduleBook` lets one administrator work at a time.
- A booking that some review item hides from the seats is in no row of the summary;
  the calendar hides bookings by the same `exclude()` (`views.py:1968`).
- A calendar page kept to one activity or category drops the row of the unscheduled
  bookings, though the same filter finds those of the activity (`views.py:2054`); a
  cancelled booking without a slot is listed only beside a live one.  The home page
  drops the slots of an activity whose `show_home_agenda` is false, with the bookings
  in them, but not its bookings without a slot (`core/views.py:770`).
  `OnceOnAgenda` and `OnceOnCalendar` name these.

Seats:

- One `exclude()` with two conditions on review items drops a booking that has some
  open item and some product-mismatch item, open or not; an active, mapped booking
  then takes no seats (`bookings/services.py:616`).
- A booking that has just been mapped still has its open mismatch item when the
  seats are checked, so it does not count itself and overbooks without a warning
  (`ingestion/services.py:313` before `316`; docs/CODEX_COMPLETION_REPORT.md:10).
  Hence `unseen` in `OverbookingIsFlagged`.
- The warning is read without a lock: two emails, or an email and a desk, may each
  miss the other (`bookings/services.py:240`).  Hence `overtaken`.
- The seats are three sums by status, each with a snapshot of its own
  (`bookings/services.py:523-525`): a booking that is confirmed after the confirmed
  were summed and before the pending are is in neither sum, and an internal booking or
  an email then overbooks although no seat was taken meanwhile.  An email besides
  computes with the slot object it loaded before (`ingestion/services.py:578, 645`), so
  seats taken away since go unseen.  `Worsens` names both.
- An `override_capacity` exception with more seats than the slot has has no effect
  (`bookings/services.py:890`; scheduling-tab-inspection.md:87).

Import:

- "If the command is interrupted, rerun the same command" (docs/BOOKEO_HISTORY_IMPORT.md:85):
  interrupted while it rewrites its checkpoint in place, every later run raises at
  loading it (`bookeo_import.py:229, 186`); a stored page token Bookeo no longer accepts
  fails every run too.  Hence `file # Torn` in `CheckpointNeverAhead`.
- Completed windows are never fetched again, so later changes in them are not seen.
- The import overwrites what newer emails said with Bookeo's payload, and a mapping
  that succeeds later does not resolve the item the import opened
  (`bookeo_import.py:470`).
- A dry run creates `Provider` rows (`bookeo_import.py:320, 573`).

## What is not modelled

Translation, display, reports, roles, admin and the catalogue's rows are stateless
or framework code; of the parsers, whose result is an input everywhere, only the
identity Bookeo's parser gives an email is a definition.  Gmail's OAuth, paging and MIME decoding are input and
output.  `merge_stale_audio_guide_activity` was run once for one activity's data.

In the modelled parts these are left out: the text rules that ignore or detect an
email (inputs), the suggestions a reviewer is shown; aliases of more than one
provider at a time, and what makes two spellings of a title equal
(a constant); statuses other than active and
cancelled; other slots and dates than the one in `CapacityControl` (a booking elsewhere
is just not here) and which manual override stops which parsed value there (any
may); the audit log except for the event counts that decisions read; recurrence
modes, slot types, durations and seats in `ScheduleBook`, and an alias's
`linked_schedule`, which PROTECTs its schedule as `linked_slot` does its slot
(`models.py:226`): where only that refers to a schedule, the model deletes it and the
code raises, in `delete_schedule` as in the seed; the values of a booking in
`ReviewQueue`, where each is there or not; more than one import at a time.

## Plan

1. `GmailPoller` with `MailMirror` (done): nothing may be lost before anything else matters.
2. `BookingMirror` (done): one booking under ingestion, replay, manual edits, the repair and reslot commands.
3. `CapacityControl` (done): a slot's seats under internal bookings, ingestion, edits and settings.
4. `ReviewQueue` (done): raw email status against its review items, through processing, inbox actions and the sweep.
5. `BookeoImport` (done): windows, pages and the checkpoint file, with crashes.
6. `ScheduleBook` (done): which slot a booking gets, schedule editing, the seed, the daily pages.
7. `BookingIdentity` (done): provisional Bookeo bookings, promotion, duplicates.
8. `AliasMatching` (done): how a product becomes an activity, beside everybody who changes aliases.

What could follow: a second administrator in `ScheduleBook`; attendance and home
messages as a component of their own.
