--------------------------- MODULE BookingMirror ---------------------------
(***************************************************************************)
(* One booking of the mirror and everyone who writes it: email ingestion   *)
(* (upsert_booking_from_parsed of apps/ingestion/services.py, in any order *)
(* and any number of times), operators (booking_edit, cancel_home_booking  *)
(* and apply_manual_override), and two commands of every container start,  *)
(* repair_parsed_booking_display_fields and reslot_bookings.               *)
(*                                                                         *)
(* Ingestion locks the booking row; nobody else does.  So ingestion is one *)
(* step and everyone else reads in one step and writes in another.  An     *)
(* operator's form and its POST are separate steps too.                    *)
(*                                                                         *)
(* Times, counts, names, activities and slots are opaque values.  Start    *)
(* time and traveler count stand for the five provider/active pairs, the   *)
(* lead name for the parsed fields that have a single column.  A failed   *)
(* raw email counts as pending: no code here tells the two apart.          *)
(***************************************************************************)
EXTENDS Naturals, FiniteSets

CONSTANTS
  Emails,         \* the emails about this booking
  NoEmail,        \* no email
  Parsed,         \* per email: what its parser returns
  Value,          \* values of the booking's columns
  None,           \* an empty column
  Unset,          \* not a value: the operator never set the column
  Slots,          \* active slots of the activity on the travel date
  StartTime,      \* per slot: its start time
  LinkedActivity, \* ProviderAlias.linked_activity
  LinkedSlot,     \* ProviderAlias.linked_slot, or None
  Editors,        \* web requests of operators that may run at once
  EditValues,     \* per form field: what an operator may type
  Maintenance,    \* do the two commands run?
  Serial          \* does each read-write pair run alone?

ProviderFields == {"status", "provider_start_time", "provider_traveler_count",
                   "lead_traveler_name"}

\* PROVIDER_TO_ACTIVE_FIELD_MAP, from the active side.
ActiveFields == {"status", "active_start_time", "active_traveler_count"}
ProviderOf(f) == CASE f = "active_start_time" -> "provider_start_time"
                   [] f = "active_traveler_count" -> "provider_traveler_count"
                   [] OTHER -> f

\* BookingEditForm.Meta.fields
FormFields == ActiveFields \cup {"lead_traveler_name", "activity", "schedule_slot"}

Fields == ProviderFields \cup FormFields

Issues == {"product", "time", "count", "name", "confidence", "slot",
           "conflict", "cancel_only"}

ASSUME BookingAssumption ==
  /\ NoEmail \notin Emails
  /\ {None, "confirmed", "modified", "cancelled"} \subseteq Value
  /\ None # "cancelled"
  /\ Unset \notin Value
  /\ Parsed \in [Emails -> [cancels : BOOLEAN, alias : BOOLEAN, sure : BOOLEAN,
                            values : [ProviderFields -> Value]]]
  /\ Slots \subseteq Value \ {None}
  /\ StartTime \in [Slots -> Value \ {None}]
  /\ LinkedActivity \in Value \ {None}
  /\ LinkedSlot \in Slots \cup {None}
  /\ EditValues \in [FormFields -> SUBSET Value]
  /\ Maintenance \in BOOLEAN /\ Serial \in BOOLEAN

VARIABLES
  creator,      \* email whose ingestion created the booking, or NoEmail
  row,          \* the columns of the Booking row
  overrides,    \* Booking.manual_override_fields
  lastEmail,    \* email behind last_email_received_at and source_thread_id
  raw,          \* RawEmail.parse_status
  eventsOf,     \* booking events that carry the email: 0, 1, or 2 for more
  reviews,      \* open review items: <<raw_email, issue_type>>
  manual,       \* newest manual event's value per form field, or Unset
  edited,       \* fields in manual events younger than lastEmail's merge
  pc,           \* per editor: where the request is
  want,         \* per editor: the column values the form shows or submits
  touch,        \* per editor: changed fields
  kept,         \* per editor: manual_override_fields as it read them
  job,          \* the command: idle, or what it does next
  jobEmail,     \* repair: the email at hand
  jobRaw,       \* repair: its parse_status as the queryset read it
  jobRow,       \* command: the booking as it read it
  jobOverrides  \* command: manual_override_fields as it read them

bookingVars == <<creator, row, overrides, lastEmail>>
logVars     == <<raw, eventsOf, reviews, manual, edited>>
editVars    == <<pc, want, touch, kept>>
jobVars     == <<job, jobEmail, jobRaw, jobRow, jobOverrides>>
vars        == <<bookingVars, logVars, editVars, jobVars>>

EmptyRow == [f \in Fields |-> None]

Init ==
  /\ creator = NoEmail /\ row = EmptyRow /\ overrides = {}
  /\ lastEmail = NoEmail
  /\ raw = [e \in Emails |-> "pending"]
  /\ eventsOf = [e \in Emails |-> 0]
  /\ reviews = {}
  /\ manual = [f \in FormFields |-> Unset]
  /\ edited = {}
  /\ pc = [u \in Editors |-> "idle"]
  /\ want = [u \in Editors |-> EmptyRow]
  /\ touch = [u \in Editors |-> {}]
  /\ kept = [u \in Editors |-> {}]
  /\ job = "idle" /\ jobEmail = NoEmail /\ jobRaw = "pending"
  /\ jobRow = EmptyRow /\ jobOverrides = {}

\* Someone holds a copy of the booking read without a lock.
Busy == job # "idle" \/ \E u \in Editors : pc[u] \in {"fetch", "write"}
MayStart == Serial => ~Busy

-----------------------------------------------------------------------------
(* What an email says, and the slot of a start time.                       *)

\* _provider_values_from_parsed; a cancellation email says cancelled.
Says(e, f) == IF f = "status" /\ Parsed[e].cancels THEN "cancelled"
                                                  ELSE Parsed[e].values[f]

MatchedByTime(t) == \E s \in Slots : StartTime[s] = t
NoMatchForTime(t) == /\ t # None /\ ~MatchedByTime(t)
                     /\ ~\E s \in Slots : Slots = {s}

\* resolve_schedule_slot_details
SlotAt(t, fallback) ==
  IF t # None /\ MatchedByTime(t) THEN CHOOSE s \in Slots : StartTime[s] = t
  ELSE IF \E s \in Slots : Slots = {s} THEN CHOOSE s \in Slots : Slots = {s}
  ELSE fallback

SlotFor(e) == SlotAt(Says(e, "provider_start_time"), LinkedSlot)

-----------------------------------------------------------------------------
(* Merging an email into the booking.                                      *)

\* _create_booking: a slot only fills the start time the email lacks.
Created(e) ==
  [f \in Fields |->
    CASE f = "activity" -> IF Parsed[e].alias THEN LinkedActivity ELSE None
      [] f = "schedule_slot" -> IF Parsed[e].alias THEN SlotFor(e) ELSE None
      [] /\ f = "active_start_time" /\ Parsed[e].alias
         /\ Says(e, "provider_start_time") = None /\ SlotFor(e) # None
           -> StartTime[SlotFor(e)]
      [] OTHER -> Says(e, ProviderOf(f))]

\* Mutant: a later email revives a cancelled booking.
RevivesCancelled(r, f) == FALSE

\* _preserve_cancelled_status
StaysCancelled(r, f) == f = "status" /\ r["status"] = "cancelled"

\* The provider columns: nothing is erased, a manual status stays.
MergeProvider(r, o, e) ==
  [f \in Fields |->
    IF \/ f \notin ProviderFields
       \/ StaysCancelled(r, f)
       \/ f = "status" /\ f \in o
       \/ f # "status" /\ Says(e, f) = None
    THEN r[f] ELSE Says(e, f)]

\* Mutants: manual overrides are forgotten; only empty values are updated.
MergeActiveIgnoringOverrides(r, o, e) ==
  [f \in Fields |->
    IF f \in ActiveFields /\ ~StaysCancelled(r, f)
    THEN Says(e, ProviderOf(f)) ELSE r[f]]

MergeActiveIfEmpty(r, o, e) ==
  [f \in Fields |->
    IF f \in ActiveFields \ o /\ ~StaysCancelled(r, f) /\ r[f] = None
    THEN Says(e, ProviderOf(f)) ELSE r[f]]

\* active_updates_from_provider_values, empty values included.
MergeActive(r, o, e) ==
  [f \in Fields |->
    IF f \in ActiveFields \ o /\ ~StaysCancelled(r, f)
    THEN Says(e, ProviderOf(f)) ELSE r[f]]

\* _alias_values: the slot's start time replaces the parsed one.
MergeAlias(r, o, e) ==
  [f \in Fields |->
    CASE f = "activity" /\ Parsed[e].alias -> LinkedActivity
      [] f = "schedule_slot" /\ f \notin o /\ Parsed[e].alias -> SlotFor(e)
      [] f = "active_start_time" /\ f \notin o /\ Parsed[e].alias
                                 /\ SlotFor(e) # None -> StartTime[SlotFor(e)]
      [] OTHER -> r[f]]

\* _update_booking
Updated(r, o, e) ==
  MergeAlias(MergeActive(MergeProvider(r, o, e), o, e), o, e)

\* Mutant: a conflict is seen only where the email carries a value.
ConflictsWithValuesOnly(r, o, e) ==
  {f \in ActiveFields \cap o : Says(e, ProviderOf(f)) \notin {r[f], None}}

\* provider_update_conflicts
Conflicts(r, o, e) == {f \in ActiveFields \cap o : r[f] # Says(e, ProviderOf(f))}

-----------------------------------------------------------------------------
(* Review items.                                                           *)

TimeKnown(r)  == r["active_start_time"] # None \/ r["provider_start_time"] # None
CountKnown(r) == \/ r["active_traveler_count"] # None
                 \/ r["provider_traveler_count"] # None

\* review_issue_is_obsolete
Obsolete(r) ==
  {i \in Issues :
    \/ i = "product" /\ r["activity"] # None
    \/ i = "time" /\ TimeKnown(r)
    \/ i = "count" /\ CountKnown(r)
    \/ i = "name" /\ r["lead_traveler_name"] # None
    \/ i = "confidence" /\ TimeKnown(r) /\ CountKnown(r)
                        /\ r["lead_traveler_name"] # None}

\* _create_completeness_review_items
Missing(r) ==
  {i \in Issues :
    \/ i = "product" /\ r["activity"] = None
    \/ i = "time" /\ r["active_start_time"] = None
    \/ i = "count" /\ r["active_traveler_count"] = None
    \/ i = "name" /\ r["lead_traveler_name"] = None}

\* _create_schedule_slot_review_if_needed
SlotDoubtful(o, e) ==
  /\ Parsed[e].alias /\ "schedule_slot" \notin o
  /\ NoMatchForTime(Says(e, "provider_start_time"))

\* _is_cancellation
IsCancellation(r, e) == "cancelled" \in {Says(e, "status"), r["status"]}

\* What makes the raw email need a review.
Doubts(r, o, e) ==
  IF IsCancellation(r, e) THEN {}
  ELSE {i \in Issues :
         \/ i = "confidence" /\ ~Parsed[e].sure
         \/ i \in Missing(r)
         \/ i = "slot" /\ SlotDoubtful(o, e)
         \/ i = "product" /\ ~Parsed[e].alias}

\* Events are counted up to 2: the code only asks whether there is one.
CountEvents(e, n) ==
  [eventsOf EXCEPT ![e] = IF @ + n > 2 THEN 2 ELSE @ + n]

\* The review items upsert_booking_from_parsed opens: `first' says that the
\* email's only event is the one just written, which the code takes to mean
\* that the email created the booking.
Opens(r, o, e, first) ==
  Doubts(r, o, e)
    \cup (IF Conflicts(r, o, e) # {} THEN {"conflict"} ELSE {})
    \cup (IF Parsed[e].cancels /\ first THEN {"cancel_only"} ELSE {})

-----------------------------------------------------------------------------
(* upsert_booking_from_parsed: one transaction, under the row's lock.      *)

Merged(e) == IF creator = NoEmail THEN Created(e) ELSE Updated(row, overrides, e)

Upsert(e) ==
  LET r == Merged(e)
      n == IF Conflicts(r, overrides, e) = {} THEN 1 ELSE 2
      log == CountEvents(e, n)
      open == reviews \cup ({e} \X Opens(r, overrides, e, log[e] = 1))
  IN /\ row' = r
     /\ creator' = IF creator = NoEmail THEN e ELSE creator
     /\ lastEmail' = e /\ edited' = {}
     /\ eventsOf' = log
     /\ reviews' = {x \in open : x[2] \notin Obsolete(r)}
     /\ raw' = [raw EXCEPT ![e] = IF Doubts(r, overrides, e) = {}
                                  THEN "parsed" ELSE "needs_review"]
     /\ UNCHANGED <<overrides, manual>>

\* process_raw_email: the poller, a replay, a reprocess button.
Ingest(e) == MayStart /\ Upsert(e) /\ UNCHANGED <<editVars, jobVars>>

-----------------------------------------------------------------------------
(* Operators.                                                              *)

\* GET booking_edit: the form shows the columns as they are.
EditOpen(u) ==
  /\ pc[u] = "idle" /\ creator # NoEmail
  /\ pc' = [pc EXCEPT ![u] = "form"]
  /\ want' = [want EXCEPT ![u] = row]
  /\ UNCHANGED <<bookingVars, logVars, touch, kept, jobVars>>

\* POST booking_edit: the operator changed f; whatever differs from the row
\* of this moment counts as changed.
EditSubmit(u) ==
  /\ pc[u] = "form" /\ MayStart
  /\ \E f \in FormFields : \E v \in EditValues[f] :
       /\ want' = [want EXCEPT ![u][f] = v]
       /\ touch' = [touch EXCEPT ![u] =
                      {g \in FormFields : (IF g = f THEN v ELSE want[u][g]) # row[g]}]
  /\ pc' = [pc EXCEPT ![u] = "fetch"]
  /\ UNCHANGED <<bookingVars, logVars, kept, jobVars>>

\* Mutant: every column of the form's booking is compared and overridden, the
\* provider's included, which MANUAL_EDIT_BLOCKLIST keeps from operators.
EditFetchAllColumns(u) ==
  /\ pc[u] = "fetch"
  /\ pc' = [pc EXCEPT ![u] = "write"]
  /\ touch' = [touch EXCEPT ![u] = {g \in Fields : want[u][g] # row[g]}]
  /\ kept' = [kept EXCEPT ![u] = overrides]
  /\ UNCHANGED <<bookingVars, logVars, want, jobVars>>

\* booking_for_update = Booking.objects.get(...)
EditFetch(u) ==
  /\ pc[u] = "fetch"
  /\ pc' = [pc EXCEPT ![u] = "write"]
  /\ touch' = [touch EXCEPT ![u] = {g \in @ : want[u][g] # row[g]}]
  /\ kept' = [kept EXCEPT ![u] = overrides]
  /\ UNCHANGED <<bookingVars, logVars, want, jobVars>>

\* cancel_home_booking
HomeCancel(u) ==
  /\ pc[u] = "idle" /\ creator # NoEmail /\ MayStart
  /\ pc' = [pc EXCEPT ![u] = "write"]
  /\ want' = [want EXCEPT ![u] = [row EXCEPT !["status"] = "cancelled"]]
  /\ touch' = [touch EXCEPT ![u] = {g \in {"status"} : row[g] # "cancelled"}]
  /\ kept' = [kept EXCEPT ![u] = overrides]
  /\ UNCHANGED <<bookingVars, logVars, jobVars>>

\* booking.save(update_fields=[*changed_fields, "manual_override_fields"])
EditWrite(u) ==
  /\ pc[u] = "write"
  /\ row' = [f \in Fields |-> IF f \in touch[u] THEN want[u][f] ELSE row[f]]
  /\ overrides' = IF touch[u] = {} THEN overrides ELSE kept[u] \cup touch[u]
  /\ manual' = [f \in FormFields |-> IF f \in touch[u] THEN want[u][f] ELSE manual[f]]
  /\ edited' = edited \cup touch[u]
  /\ pc' = [pc EXCEPT ![u] = "idle"]
  /\ want' = [want EXCEPT ![u] = EmptyRow]
  /\ touch' = [touch EXCEPT ![u] = {}]
  /\ kept' = [kept EXCEPT ![u] = {}]
  /\ UNCHANGED <<creator, lastEmail, raw, eventsOf, reviews, jobVars>>

-----------------------------------------------------------------------------
(* The container start's commands.                                         *)

JobDone ==
  /\ job' = "idle" /\ jobEmail' = NoEmail /\ jobRaw' = "pending"
  /\ jobRow' = EmptyRow /\ jobOverrides' = {}

\* repair: a row of the queryset, evaluated once when the command starts.
RepairPick(e) ==
  /\ Maintenance /\ job = "idle" /\ MayStart
  /\ raw[e] \in {"pending", "needs_review"}
  /\ job' = "picked" /\ jobEmail' = e /\ jobRaw' = raw[e]
  /\ UNCHANGED <<bookingVars, logVars, editVars, jobRow, jobOverrides>>

\* booking = Booking.objects.filter(...).first(), without a lock.
RepairRead ==
  /\ job = "picked"
  /\ job' = IF creator = NoEmail THEN "upsert" ELSE "repair"
  /\ jobRow' = row /\ jobOverrides' = overrides
  /\ UNCHANGED <<bookingVars, logVars, editVars, jobEmail, jobRaw>>

RepairUpsert ==
  /\ job = "upsert"
  /\ Upsert(jobEmail)
  /\ JobDone
  /\ UNCHANGED editVars

\* _fill_missing_booking_fields: only empty columns are filled, and never
\* the status.
Filled(r, o, e) ==
  [f \in Fields |->
    IF r[f] # None THEN r[f]
    ELSE CASE f \in ProviderFields \ {"status"} -> Says(e, f)
           [] f \in ActiveFields \ ({"status"} \cup o) -> Says(e, ProviderOf(f))
           [] f = "activity" /\ Parsed[e].alias -> LinkedActivity
           [] f = "schedule_slot" /\ f \notin o /\ Parsed[e].alias -> SlotFor(e)
           [] OTHER -> None]

\* _ensure_missing_reviews, then _resolve_obsolete_reviews for this email.
RepairReviews(r, e) ==
  LET open == reviews \cup (IF r["status"] = "cancelled" THEN {}
                            ELSE {e} \X Missing(r))
      settled == (Obsolete(r) \ {"confidence"})
                   \cup (IF TimeKnown(r) THEN {"slot"} ELSE {})
  IN [open |-> open, left |-> {x \in open : ~(x[1] = e /\ x[2] \in settled)}]

RepairWrite ==
  /\ job = "repair"
  /\ LET e == jobEmail
         r == Filled(jobRow, jobOverrides, e)
         changed == r # jobRow
         rv == RepairReviews(r, e)
         open == \E i \in Issues : <<e, i>> \in rv.left
     IN /\ IF changed
           THEN /\ row' = r /\ overrides' = jobOverrides
                /\ lastEmail' = e /\ edited' = {}
                /\ eventsOf' = CountEvents(e, 1)
           ELSE UNCHANGED <<row, overrides, lastEmail, edited, eventsOf>>
        /\ reviews' = rv.left
        /\ raw' = IF changed \/ rv.left # rv.open \/ jobRaw = "needs_review"
                  THEN [raw EXCEPT ![e] = IF open THEN "needs_review" ELSE "parsed"]
                  ELSE raw
  /\ JobDone
  /\ UNCHANGED <<creator, manual, editVars>>

\* reslot: the queryset reads every booking when the command starts.
ReslotRead ==
  /\ Maintenance /\ job = "idle" /\ MayStart
  /\ creator # NoEmail
  /\ row["activity"] # None /\ row["active_start_time"] # None
  /\ row["status"] # "cancelled"
  /\ job' = "reslot" /\ jobRow' = row /\ jobOverrides' = overrides
  /\ UNCHANGED <<bookingVars, logVars, editVars, jobEmail, jobRaw>>

\* Mutant: the manual flag is not looked at.
ReslotAnyway ==
  /\ job = "reslot"
  /\ row' = [row EXCEPT !["schedule_slot"] =
               SlotAt(jobRow["active_start_time"], jobRow["schedule_slot"])]
  /\ JobDone
  /\ UNCHANGED <<creator, overrides, lastEmail, logVars, editVars>>

\* _reslot_booking: save(update_fields=["schedule_slot"])
ReslotWrite ==
  /\ job = "reslot"
  /\ LET t == jobRow["active_start_time"]
         s == SlotAt(t, jobRow["schedule_slot"])
     IN IF "schedule_slot" \in jobOverrides
        THEN UNCHANGED <<row, reviews>>
        ELSE IF NoMatchForTime(t) \/ s = None
        THEN /\ reviews' = reviews \cup {<<NoEmail, "slot">>}
             /\ UNCHANGED row
        ELSE /\ row' = [row EXCEPT !["schedule_slot"] =
                          IF s # jobRow["schedule_slot"] THEN s ELSE @]
             /\ UNCHANGED reviews
  /\ JobDone
  /\ UNCHANGED <<creator, overrides, lastEmail, raw, eventsOf, manual, edited, editVars>>

-----------------------------------------------------------------------------
Edit(u) ==
  EditOpen(u) \/ EditSubmit(u) \/ EditFetch(u) \/ HomeCancel(u) \/ EditWrite(u)

Command ==
  \/ \E e \in Emails : RepairPick(e)
  \/ RepairRead \/ RepairUpsert \/ RepairWrite
  \/ ReslotRead \/ ReslotWrite

Next ==
  \/ \E e \in Emails : Ingest(e)
  \/ \E u \in Editors : Edit(u)
  \/ Command

Spec == Init /\ [][Next]_vars

-----------------------------------------------------------------------------
(* Properties.                                                             *)

Columns == [Fields -> Value]

\* Every variable has its type.
TypeOK ==
  /\ creator \in Emails \cup {NoEmail}
  /\ row \in Columns
  /\ overrides \subseteq FormFields
  /\ lastEmail \in Emails \cup {NoEmail}
  /\ raw \in [Emails -> {"pending", "needs_review", "parsed"}]
  /\ eventsOf \in [Emails -> 0..2]
  /\ reviews \subseteq (Emails \cup {NoEmail}) \X Issues
  /\ manual \in [FormFields -> Value \cup {Unset}]
  /\ edited \subseteq FormFields
  /\ pc \in [Editors -> {"idle", "form", "fetch", "write"}]
  /\ want \in [Editors -> Columns]
  /\ touch \in [Editors -> SUBSET FormFields]
  /\ kept \in [Editors -> SUBSET FormFields]
  /\ job \in {"idle", "picked", "upsert", "repair", "reslot"}
  /\ jobEmail \in Emails \cup {NoEmail}
  /\ jobRaw \in {"pending", "needs_review"}
  /\ jobRow \in Columns
  /\ jobOverrides \subseteq FormFields

\* The form fields some update path compares with manual_override_fields.
Protected == ActiveFields \cup {"schedule_slot"}

Keeps(f) == manual[f] # Unset => row[f] = manual[f]

\* What an operator last set in a protected field is what the row holds,
\* whatever emails were merged since (docs/INGESTION.md "Provider updates
\* must not silently overwrite manual overrides").
ManualValuesKept == \A f \in Protected : Keeps(f)

\* A cancellation email that counts as parsed has cancelled the booking,
\* unless an operator decides the status (docs/INGESTION.md:117).
CancellationHolds ==
  \A e \in Emails :
    raw[e] = "parsed" /\ Says(e, "status") = "cancelled" /\ "status" \notin overrides
      => row["status"] = "cancelled"

\* An unedited traveler count, when there is one, is the provider's.
ActiveCountIsProviders ==
  "active_traveler_count" \notin overrides /\ row["active_traveler_count"] # None
    => row["active_traveler_count"] = row["provider_traveler_count"]

\* When the last merged email contradicts a value set before it, a review
\* item about that email says so (docs/INGESTION.md:116).
ConflictsSurfaced ==
  \A f \in (ActiveFields \cap overrides) \ edited :
    lastEmail # NoEmail /\ Says(lastEmail, ProviderOf(f)) # row[f]
      => <<lastEmail, "conflict">> \in reviews

\* Only an operator revives a cancelled booking.
CancelledUntilEdited ==
  [][row["status"] = "cancelled" /\ row'["status"] # "cancelled"
       => \E u \in Editors : pc[u] = "write" /\ "status" \in touch[u]]_vars

=============================================================================
