---------------------------- MODULE BookeoImport ----------------------------
(***************************************************************************)
(* import_bookeo_history: bookings are fetched from the operator's Bookeo  *)
(* account in windows of event dates, page by page, and a JSON file says   *)
(* where to go on after an interruption.  Around the command the account   *)
(* changes, emails and operators write the same bookings, and the process  *)
(* may die anywhere, the middle of writing the file included.              *)
(*                                                                         *)
(* A booking is named by its Bookeo number; under which provider and       *)
(* reference it is kept is BookingIdentity's subject.  Of its values there *)
(* are the travel date, the status, and whether an approved alias maps its *)
(* product (activity and schedule_slot).  One command runs at a time.      *)
(***************************************************************************)
EXTENDS Integers, Sequences, FiniteSets

CONSTANTS
  Numbers,      \* Bookeo booking numbers
  None,         \* no booking, no position, no payload
  Torn,         \* a file that was truncated and not written
  DateFrom,     \* --from
  Width,        \* days of a window
  PageSize,     \* itemsPerPage
  FirstTo,      \* --to on the first day
  MaxTo,        \* bound: --to on the last day
  Payloads,     \* bound: what Bookeo and the emails may say of a booking
  MaxChanges    \* bound: per number, what others do to its booking

Dates == DateFrom .. MaxTo
Statuses == {"confirmed", "cancelled"}
Fields == {"date", "status", "activity"}
Values == [date : Dates, status : Statuses, activity : BOOLEAN]
Rows == [value : Values, manual : SUBSET Fields]
Hands == [number : Numbers, value : Values]
Tokens == Seq(SUBSET Numbers)
Windows == {w \in Dates \X Dates : w[1] <= w[2]}
Positions == [key : Windows, next_page : Nat, token : Tokens]
Files == [completed : SUBSET Windows, current : Positions \cup {None}]

ASSUME ImportAssumption ==
  /\ DateFrom \in Nat /\ FirstTo \in Nat /\ MaxTo \in Nat
  /\ Width \in Nat \ {0} /\ PageSize \in Nat \ {0}
  /\ DateFrom <= FirstTo /\ FirstTo <= MaxTo
  /\ Payloads \subseteq [date : Dates, status : Statuses]
  /\ MaxChanges \in [Numbers -> Nat]
  /\ None \notin Payloads \cup Rows \cup Hands /\ None \notin Tokens
  /\ Torn \notin Files
  /\ IsFiniteSet(Numbers)

VARIABLES
  account,    \* Bookeo: per number the payload of its booking, or None
  row,        \* Booking per number, or None
  review,     \* numbers with an open PROVIDER_ALIAS_MISSING item
  closed,     \* numbers whose item somebody resolved since
  events,     \* per number: BOOKEO_HISTORY_IMPORT events
  approved,   \* does an approved alias map the product?
  file,       \* the checkpoint file, or Torn
  run,        \* the command
  today,      \* default_to_date() of this day
  changes,    \* history: per number, what others did to it
  owed        \* history: per window, what its last completed pass listed

vars == <<account, row, review, closed, events, approved, file, run, today,
          changes, owed>>
bookingVars == <<row, review, closed, events>>
worldVars == <<account, approved, today, changes>>

-----------------------------------------------------------------------------
(* Windows and pages.                                                      *)

Smaller(a, b) == IF a <= b THEN a ELSE b

\* The window monthly_windows yields at `begin`, which is also its key.
WindowAt(begin, to) == <<begin, Smaller(begin + Width - 1, to)>>

\* What Bookeo lists for a window: each booking on one page.  External: the
\* order is Bookeo's, and a navigation token stands for the whole listing.
Pagings(S) ==
  IF S = {} THEN {<<{}>>}
  ELSE {p \in UNION {[1..k -> SUBSET S] : k \in 1..Cardinality(S)} :
          /\ UNION {p[i] : i \in DOMAIN p} = S
          /\ \A i \in DOMAIN p : p[i] # {} /\ Cardinality(p[i]) <= PageSize
          /\ \A i, j \in DOMAIN p : i # j => p[i] \cap p[j] = {}
          /\ \A i \in DOMAIN p \ {Len(p)} : Cardinality(p[i]) = PageSize}

DatedIn(w) ==
  {n \in Numbers : account[n] # None /\ account[n].date \in w[1]..w[2]}

-----------------------------------------------------------------------------
(* The checkpoint file.                                                    *)

NoFile == [completed |-> {}, current |-> None]

\* current_page(): where the window stopped, or its beginning.
CurrentPage(w) ==
  IF file.current # None /\ file.current.key = w
  THEN <<file.current.next_page, file.current.token>>
  ELSE <<1, None>>

SavePage(w, page, token) ==
  [file EXCEPT !.current = [key |-> w, next_page |-> page, token |-> token]]

CompleteWindow(w) ==
  [completed |-> file.completed \cup {w}, current |-> None]

-----------------------------------------------------------------------------
(* The command.                                                            *)

Off == [pc |-> "off"]

Start(dry) ==
  /\ run.pc = "off"
  /\ run' = [pc |-> "window", dry |-> dry, to |-> today, begin |-> DateFrom]
  /\ UNCHANGED <<bookingVars, worldVars, file, owed>>

NoQueue == [n \in {} |-> None]
Window == WindowAt(run.begin, run.to)
NextWindow == [pc |-> "window", dry |-> run.dry, to |-> run.to,
               begin |-> Window[2] + 1]

\* json.load() of a torn file raises, in every later run.
CannotLoad ==
  /\ run.pc = "window" /\ run.begin <= run.to
  /\ file = Torn
  /\ run' = Off
  /\ UNCHANGED <<bookingVars, worldVars, file, owed>>

SkipWindow ==
  /\ run.pc = "window" /\ run.begin <= run.to
  /\ file # Torn
  /\ ~run.dry /\ Window \in file.completed
  /\ run' = NextWindow
  /\ UNCHANGED <<bookingVars, worldVars, file, owed>>

OpenWindow ==
  /\ run.pc = "window" /\ run.begin <= run.to
  /\ file # Torn
  /\ run.dry \/ Window \notin file.completed
  /\ run' = [pc |-> "list", dry |-> run.dry, to |-> run.to,
             begin |-> run.begin, page |-> CurrentPage(Window)[1],
             token |-> CurrentPage(Window)[2], queue |-> NoQueue, hand |-> None]
  /\ UNCHANGED <<bookingVars, worldVars, file, owed>>

RunDone ==
  /\ run.pc = "window" /\ run.begin > run.to
  /\ run' = Off
  /\ UNCHANGED <<bookingVars, worldVars, file, owed>>

\* list_bookings(): the first request of a window gets a token, later ones use
\* it.  `queue` holds the payloads of the page.
ListPage ==
  /\ run.pc = "list"
  /\ \E token \in IF run.token = None THEN Pagings(DatedIn(Window))
                  ELSE {run.token} :
       run' = [run EXCEPT !.pc = "page", !.token = token,
                 !.queue = [n \in token[run.page] |-> account[n]]]
  /\ UNCHANGED <<bookingVars, worldVars, file, owed>>

\* _match_bookeo_alias(), _slot_for_alias_and_time(): is there an activity?
Mapped == approved

\* _full_booking_payload() and normalize_bookeo_booking(): a thin payload is
\* fetched again, and the alias is matched outside of any transaction.
Take(n) ==
  /\ run.pc = "page" /\ run.hand = None /\ n \in DOMAIN run.queue
  /\ \E raw \in {run.queue[n], account[n]} :
       run' = [run EXCEPT !.hand =
                 [number |-> n,
                  value |-> [date |-> raw.date, status |-> raw.status,
                             activity |-> Mapped]]]
  /\ UNCHANGED <<bookingVars, worldVars, file, owed>>

\* Mutant: _update_booking without the check of manual_override_fields.
ImportedOverwriting(r, value) ==
  IF r = None THEN [value |-> value, manual |-> {}]
  ELSE [r EXCEPT !.value = value]

\* _create_booking / _update_booking: every value that was not edited by hand.
Imported(r, value) ==
  IF r = None THEN [value |-> value, manual |-> {}]
  ELSE LET Merged(f) == IF f \in r.manual THEN r.value[f] ELSE value[f]
       IN  [r EXCEPT !.value = [date |-> Merged("date"), status |-> Merged("status"),
                                activity |-> Merged("activity")]]

Handled == [run EXCEPT !.hand = None,
              !.queue = [n \in DOMAIN run.queue \ {run.hand.number} |->
                           run.queue[n]]]

\* _create_import_event(): for a new booking, and for one that changed.
ImportEvent(n, new) ==
  events' = IF new = row[n] THEN events ELSE [events EXCEPT ![n] = @ + 1]

\* _create_unmapped_review(): the one open item of the booking.
UnmappedReview(n) == review' = review \cup {n} /\ closed' = closed \ {n}

\* Mutant: an event for every booking imported again.
ImportRepeatingEvents ==
  /\ run.pc = "page" /\ run.hand # None /\ ~run.dry
  /\ LET n == run.hand.number
         new == Imported(row[n], run.hand.value)
     IN  /\ row' = [row EXCEPT ![n] = new]
         /\ events' = [events EXCEPT ![n] = @ + 1]
         /\ IF run.hand.value.activity THEN UNCHANGED <<review, closed>>
            ELSE UnmappedReview(n)
  /\ run' = Handled
  /\ UNCHANGED <<worldVars, file, owed>>

\* Mutant: the review item only comes with a new booking.
ImportQueueingOnce ==
  /\ run.pc = "page" /\ run.hand # None /\ ~run.dry
  /\ LET n == run.hand.number
         new == Imported(row[n], run.hand.value)
     IN  /\ row' = [row EXCEPT ![n] = new]
         /\ ImportEvent(n, new)
         /\ IF run.hand.value.activity \/ row[n] # None
            THEN UNCHANGED <<review, closed>>
            ELSE UnmappedReview(n)
  /\ run' = Handled
  /\ UNCHANGED <<worldVars, file, owed>>

\* import_bookeo_booking(): one transaction on the locked row.
ImportBooking ==
  /\ run.pc = "page" /\ run.hand # None /\ ~run.dry
  /\ LET n == run.hand.number
         new == Imported(row[n], run.hand.value)
     IN  /\ row' = [row EXCEPT ![n] = new]
         /\ ImportEvent(n, new)
         /\ IF run.hand.value.activity THEN UNCHANGED <<review, closed>>
            ELSE UnmappedReview(n)
  /\ run' = Handled
  /\ UNCHANGED <<worldVars, file, owed>>

ClassifyBooking ==
  /\ run.pc = "page" /\ run.hand # None /\ run.dry
  /\ run' = Handled
  /\ UNCHANGED <<bookingVars, worldVars, file, owed>>

PageDone == run.pc = "page" /\ run.hand = None /\ DOMAIN run.queue = {}

\* Mutant: the last page is taken for one more than the last.
LastPageEarly == run.page + 1 >= Len(run.token)

LastPage == run.page >= Len(run.token)

\* _write() opens the file with "w", which truncates it, and then dumps.
Truncate(content, next) ==
  /\ file' = Torn
  /\ run' = [pc |-> "save", content |-> content, next |-> next]

NextPage == [run EXCEPT !.pc = "list", !.page = @ + 1, !.queue = NoQueue]

\* Mutant: the page is asked for again.
TurnToSamePage ==
  /\ PageDone /\ ~LastPage
  /\ IF run.dry THEN run' = [NextPage EXCEPT !.page = run.page] /\ UNCHANGED file
     ELSE Truncate(SavePage(Window, run.page, run.token),
                   [NextPage EXCEPT !.page = run.page])
  /\ UNCHANGED <<bookingVars, worldVars, owed>>

\* Mutant: the position saved is the page after the next.
TurnPageSkipping ==
  /\ PageDone /\ ~LastPage
  /\ IF run.dry THEN run' = NextPage /\ UNCHANGED file
     ELSE Truncate(SavePage(Window, run.page + 2, run.token), NextPage)
  /\ UNCHANGED <<bookingVars, worldVars, owed>>

TurnPage ==
  /\ PageDone /\ ~LastPage
  /\ IF run.dry THEN run' = NextPage /\ UNCHANGED file
     ELSE Truncate(SavePage(Window, run.page + 1, run.token), NextPage)
  /\ UNCHANGED <<bookingVars, worldVars, owed>>

CloseWindow ==
  /\ PageDone /\ LastPage
  /\ IF run.dry THEN run' = NextWindow /\ UNCHANGED <<file, owed>>
     ELSE /\ Truncate(CompleteWindow(Window), NextWindow)
          /\ owed' = [owed EXCEPT ![Window] =
                        UNION {run.token[i] : i \in DOMAIN run.token}]
  /\ UNCHANGED <<bookingVars, worldVars>>

FileWritten ==
  /\ run.pc = "save"
  /\ file' = run.content
  /\ run' = run.next
  /\ UNCHANGED <<bookingVars, worldVars, owed>>

\* The process dies, or an exception ends the command: a request that is not
\* retried or was retried max_retries times, an IntegrityError, a full disk.
Interrupted ==
  /\ run.pc # "off"
  /\ run' = Off
  /\ UNCHANGED <<bookingVars, worldVars, file, owed>>

-----------------------------------------------------------------------------
(* Everybody else.                                                         *)

Counted(n) ==
  /\ changes[n] < MaxChanges[n]
  /\ changes' = [changes EXCEPT ![n] = @ + 1]

\* External: a booking is made, moved or cancelled in Bookeo.
BookeoChanges(n) ==
  /\ Counted(n)
  /\ \E p \in Payloads : account' = [account EXCEPT ![n] = p]
  /\ UNCHANGED <<bookingVars, approved, file, run, today, owed>>

\* upsert_booking_from_parsed(), as far as these values go: an email never
\* revives a cancelled booking and honours every edit but the activity's.
Emailed(r, p) ==
  IF r = None
  THEN [value |-> [date |-> p.date, status |-> p.status, activity |-> approved],
        manual |-> {}]
  ELSE [r EXCEPT
          !.value.date = IF "date" \in r.manual THEN @ ELSE p.date,
          !.value.status = IF "status" \in r.manual \/ @ = "cancelled"
                           THEN @ ELSE p.status,
          !.value.activity = approved \/ @]

\* What the new values make obsolete is resolved; a live booking without an
\* activity is queued.
EmailArrives(n) ==
  /\ Counted(n)
  /\ \E p \in Payloads :
       LET new == Emailed(row[n], p)
       IN  /\ row' = [row EXCEPT ![n] = new]
           /\ \/ /\ new.value.activity
                 /\ review' = review \ {n}
                 /\ closed' = closed \cup (review \cap {n})
              \/ /\ ~new.value.activity /\ new.value.status # "cancelled"
                 /\ p.status # "cancelled"
                 /\ UnmappedReview(n)
              \/ /\ ~new.value.activity
                 /\ new.value.status = "cancelled" \/ p.status = "cancelled"
                 /\ UNCHANGED <<review, closed>>
  /\ UNCHANGED <<account, events, approved, file, run, today, owed>>

\* apply_manual_override(): an operator edits a value, and the edit is
\* remembered.
OperatorEdits(n) ==
  /\ Counted(n) /\ row[n] # None
  /\ \E f \in Fields, v \in Values :
       /\ v[f] # row[n].value[f]
       /\ row' = [row EXCEPT ![n].value[f] = v[f],
                             ![n].manual = @ \cup {f}]
  /\ UNCHANGED <<account, review, closed, events, approved, file, run, today,
                 owed>>

OperatorClosesReview(n) ==
  /\ n \in review
  /\ review' = review \ {n} /\ closed' = closed \cup {n}
  /\ UNCHANGED <<row, events, worldVars, file, run, owed>>

AliasApproved ==
  /\ ~approved /\ approved' = TRUE
  /\ UNCHANGED <<bookingVars, account, today, changes, file, run, owed>>

NextDay ==
  /\ today < MaxTo /\ today' = today + 1
  /\ UNCHANGED <<bookingVars, account, approved, changes, file, run, owed>>

-----------------------------------------------------------------------------
Init ==
  /\ account = [n \in Numbers |-> None]
  /\ row = [n \in Numbers |-> None]
  /\ review = {} /\ closed = {}
  /\ events = [n \in Numbers |-> 0]
  /\ approved = FALSE
  /\ file = NoFile
  /\ run = Off
  /\ today = FirstTo
  /\ changes = [n \in Numbers |-> 0]
  /\ owed = [w \in Windows |-> {}]

\* The command's own steps.
Importing ==
  \/ CannotLoad \/ SkipWindow \/ OpenWindow \/ RunDone
  \/ ListPage \/ (\E n \in Numbers : Take(n))
  \/ ImportBooking \/ ClassifyBooking
  \/ TurnPage \/ CloseWindow \/ FileWritten

Others ==
  \/ \E n \in Numbers : BookeoChanges(n) \/ EmailArrives(n)
                        \/ OperatorEdits(n) \/ OperatorClosesReview(n)
  \/ AliasApproved \/ NextDay

Next ==
  \/ \E dry \in BOOLEAN : Start(dry)
  \/ Importing
  \/ Interrupted
  \/ Others

Spec == Init /\ [][Next]_vars

\* A command that was started runs until it ends.
FairSpec == Spec /\ WF_vars(Importing)

-----------------------------------------------------------------------------
(* Properties.                                                             *)

TypeOK ==
  /\ account \in [Numbers -> Payloads \cup {None}]
  /\ row \in [Numbers -> Rows \cup {None}]
  /\ review \subseteq Numbers /\ closed \subseteq Numbers
  /\ events \in [Numbers -> Nat] /\ changes \in [Numbers -> Nat]
  /\ approved \in BOOLEAN /\ today \in Dates
  /\ file = Torn \/ file \in Files
  /\ run.pc \in {"off", "window", "list", "page", "save"}
  /\ owed \in [Windows -> SUBSET Numbers]

Present == {n \in Numbers : row[n] # None}

\* What was listed on the pages before the saved position is in the database.
PassedIsImported(position) ==
  \A i \in DOMAIN position.token :
    i < position.next_page => position.token[i] \subseteq Present

\* What the pass over a window listed that later runs skip is in the database
\* (window_completed, complete_window).
SkippedIsImported(windows) == \A w \in windows : owed[w] \subseteq Present

\* The checkpoint is never ahead of the bookings, neither its position nor its
\* completed windows, through any number of interruptions, resumptions with
\* another --to, and dry runs.
CheckpointNeverAhead ==
  file # Torn =>
    /\ SkippedIsImported(file.completed)
    /\ file.current # None => PassedIsImported(file.current)

\* Resuming repeats pages but not history: an import event stands for a change
\* somebody made in Bookeo, by email or by hand, or for the alias that was
\* approved, however often a page is repeated.
NoDuplicateEvents ==
  \A n \in Numbers : events[n] <= changes[n] + (IF approved THEN 1 ELSE 0)

\* A live booking without an activity has a review item, open or closed by
\* somebody, unless an operator set its activity or its status: an import that
\* takes a mapping away, or revives a cancelled booking, says so.
UnmappedIsQueued ==
  \A n \in Present :
    ( /\ ~row[n].value.activity /\ row[n].value.status # "cancelled"
      /\ row[n].manual \cap {"activity", "status"} = {} ) =>
      n \in review \cup closed

\* The import does not change what an operator set.
ManualValuesSurvive ==
  [][(\E dry \in BOOLEAN : Start(dry)) \/ Importing \/ Interrupted =>
       \A n \in Present : \A f \in row[n].manual :
         row'[n] # None /\ row'[n].value[f] = row[n].value[f]]_vars

\* A command that is not interrupted comes to its end: no window or page is
\* asked for without end.
CommandEnds == (run.pc # "off") ~> (run.pc = "off")

=============================================================================
