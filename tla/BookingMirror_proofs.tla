------------------------ MODULE BookingMirror_proofs ------------------------
(***************************************************************************)
(* Proofs about BookingMirror.  The argument for manual values: merging an *)
(* email or filling empty columns leaves every protected overridden column *)
(* alone, so a value an operator set can only be lost through the record   *)
(* of overrides, and that record is written back from copies which are     *)
(* current as long as nobody commits between a read and its write.         *)
(***************************************************************************)
EXTENDS BookingMirror, TLAPS

USE BookingAssumption

-----------------------------------------------------------------------------
(* Type correctness.                                                       *)

LEMMA SlotAtType ==
  ASSUME NEW t, NEW fb \in Value, Slots \subseteq Value
  PROVE  SlotAt(t, fb) \in Value
<1>1. CASE t # None /\ MatchedByTime(t)
  <2>1. SlotAt(t, fb) = CHOOSE s \in Slots : StartTime[s] = t
    BY <1>1 DEF SlotAt
  <2>2. (CHOOSE s \in Slots : StartTime[s] = t) \in Slots
    BY <1>1 DEF MatchedByTime
  <2>. QED BY <2>1, <2>2
<1>2. CASE ~(t # None /\ MatchedByTime(t)) /\ \E s \in Slots : Slots = {s}
  <2>1. SlotAt(t, fb) = CHOOSE s \in Slots : Slots = {s}
    BY <1>2 DEF SlotAt
  <2>2. (CHOOSE s \in Slots : Slots = {s}) \in Slots
    BY <1>2
  <2>. QED BY <2>1, <2>2
<1>3. CASE ~(t # None /\ MatchedByTime(t)) /\ ~\E s \in Slots : Slots = {s}
  BY <1>3 DEF SlotAt
<1>. QED BY <1>1, <1>2, <1>3

\* The slot an email resolves to has a start time unless there is none.
LEMMA SlotForType ==
  ASSUME NEW e \in Emails
  PROVE  SlotFor(e) \in Slots \cup {None}
<1>. DEFINE t == Says(e, "provider_start_time")
<1>1. CASE t # None /\ MatchedByTime(t)
  <2>1. SlotFor(e) = CHOOSE s \in Slots : StartTime[s] = t
    BY <1>1 DEF SlotFor, SlotAt
  <2>2. (CHOOSE s \in Slots : StartTime[s] = t) \in Slots
    BY <1>1 DEF MatchedByTime
  <2>. QED BY <2>1, <2>2
<1>2. CASE ~(t # None /\ MatchedByTime(t)) /\ \E s \in Slots : Slots = {s}
  <2>1. SlotFor(e) = CHOOSE s \in Slots : Slots = {s}
    BY <1>2 DEF SlotFor, SlotAt
  <2>2. (CHOOSE s \in Slots : Slots = {s}) \in Slots
    BY <1>2
  <2>. QED BY <2>1, <2>2
<1>3. CASE ~(t # None /\ MatchedByTime(t)) /\ ~\E s \in Slots : Slots = {s}
  BY <1>3 DEF SlotFor, SlotAt
<1>. QED BY <1>1, <1>2, <1>3

LEMMA SaysType ==
  ASSUME NEW e \in Emails, NEW f \in ProviderFields
  PROVE  Says(e, f) \in Value
<1>1. Parsed[e].values \in [ProviderFields -> Value]
  OBVIOUS
<1>. QED BY <1>1 DEF Says

LEMMA ProviderOfType ==
  ASSUME NEW f \in ActiveFields
  PROVE  ProviderOf(f) \in ProviderFields
BY DEF ActiveFields, ProviderOf, ProviderFields

LEMMA CreatedType ==
  ASSUME NEW e \in Emails
  PROVE  Created(e) \in Columns
<1>. SUFFICES ASSUME NEW f \in Fields PROVE Created(e)[f] \in Value
  BY DEF Created, Columns
<1>1. SlotFor(e) \in Slots \cup {None}
  BY SlotForType
<1>2. CASE f \in {"activity", "schedule_slot"}
  BY <1>1, <1>2 DEF Created
<1>3. CASE f \notin {"activity", "schedule_slot"}
  <2>1. ProviderOf(f) \in ProviderFields
    BY <1>3 DEF Fields, FormFields, ActiveFields, ProviderFields, ProviderOf
  <2>2. Says(e, ProviderOf(f)) \in Value
    BY <2>1, SaysType
  <2>3. SlotFor(e) # None => StartTime[SlotFor(e)] \in Value
    BY <1>1
  <2>. QED BY <1>3, <2>2, <2>3 DEF Created
<1>. QED BY <1>2, <1>3

LEMMA UpdatedType ==
  ASSUME NEW r \in Columns, NEW o, NEW e \in Emails
  PROVE  Updated(r, o, e) \in Columns
<1>1. ASSUME NEW q \in Columns PROVE MergeProvider(q, o, e) \in Columns
  BY <1>1, SaysType DEF MergeProvider, Columns
<1>2. ASSUME NEW q \in Columns PROVE MergeActive(q, o, e) \in Columns
  <2>1. \A f \in ActiveFields : Says(e, ProviderOf(f)) \in Value
    BY ProviderOfType, SaysType
  <2>. QED BY <1>2, <2>1 DEF MergeActive, Columns
<1>3. ASSUME NEW q \in Columns PROVE MergeAlias(q, o, e) \in Columns
  <2>1. SlotFor(e) \in Slots \cup {None}
    BY SlotForType
  <2>2. SlotFor(e) # None => StartTime[SlotFor(e)] \in Value
    BY <2>1
  <2>. QED BY <1>3, <2>1, <2>2 DEF MergeAlias, Columns
<1>. QED BY <1>1, <1>2, <1>3 DEF Updated

LEMMA FilledType ==
  ASSUME NEW r \in Columns, NEW o, NEW e \in Emails
  PROVE  Filled(r, o, e) \in Columns
<1>1. \A f \in ProviderFields : Says(e, f) \in Value
  BY SaysType
<1>2. \A f \in ActiveFields : Says(e, ProviderOf(f)) \in Value
  BY ProviderOfType, SaysType
<1>3. SlotFor(e) \in Value
  BY SlotForType
<1>. QED BY <1>1, <1>2, <1>3 DEF Filled, Columns

LEMMA CountEventsType ==
  ASSUME NEW e \in Emails, NEW n \in 1..2, eventsOf \in [Emails -> 0..2]
  PROVE  CountEvents(e, n) \in [Emails -> 0..2]
BY DEF CountEvents

\* What an upsert leaves behind is well typed.
LEMMA UpsertType ==
  ASSUME TypeOK, NEW e \in Emails, Upsert(e)
  PROVE  /\ creator' \in Emails \cup {NoEmail} /\ row' \in Columns
         /\ overrides' \subseteq FormFields
         /\ lastEmail' \in Emails \cup {NoEmail}
         /\ raw' \in [Emails -> {"pending", "needs_review", "parsed"}]
         /\ eventsOf' \in [Emails -> 0..2]
         /\ reviews' \subseteq (Emails \cup {NoEmail}) \X Issues
         /\ manual' \in [FormFields -> Value \cup {Unset}]
         /\ edited' \subseteq FormFields
<1>1. Merged(e) \in Columns
  BY CreatedType, UpdatedType DEF Merged, TypeOK
<1>. DEFINE n == IF Conflicts(Merged(e), overrides, e) = {} THEN 1 ELSE 2
            log == CountEvents(e, n)
            opens == Opens(Merged(e), overrides, e, log[e] = 1)
<1>2. row' = Merged(e) /\ eventsOf' = log
  BY DEF Upsert
<1>3. log \in [Emails -> 0..2]
  <2>1. n \in 1..2
    OBVIOUS
  <2>. HIDE DEF n
  <2>. QED BY <2>1, CountEventsType DEF TypeOK
<1>4. reviews' \subseteq (Emails \cup {NoEmail}) \X Issues
  <2>1. reviews' \subseteq reviews \cup ({e} \X opens)
    BY DEF Upsert
  <2>2. opens \subseteq Issues
    BY DEF Opens, Doubts, Issues
  <2>. HIDE DEF opens
  <2>. QED BY <2>1, <2>2 DEF TypeOK
<1>5. raw' \in [Emails -> {"pending", "needs_review", "parsed"}]
  BY DEF Upsert, TypeOK
<1>6. /\ creator' \in Emails \cup {NoEmail} /\ lastEmail' \in Emails \cup {NoEmail}
      /\ overrides' = overrides /\ manual' = manual /\ edited' = {}
  BY DEF Upsert, TypeOK
<1>. QED BY <1>1, <1>2, <1>3, <1>4, <1>5, <1>6 DEF TypeOK

LEMMA EditType ==
  ASSUME TypeOK, NEW u \in Editors, Edit(u)
  PROVE  TypeOK'
<1>1. CASE EditOpen(u)
  BY <1>1 DEF EditOpen, TypeOK, bookingVars, logVars, jobVars
<1>2. CASE EditSubmit(u)
  <2>. PICK f \in FormFields : \E v \in EditValues[f] :
         /\ want' = [want EXCEPT ![u][f] = v]
         /\ touch' = [touch EXCEPT ![u] =
              {g \in FormFields : (IF g = f THEN v ELSE want[u][g]) # row[g]}]
    BY <1>2 DEF EditSubmit
  <2>1. PICK v \in EditValues[f] :
         /\ want' = [want EXCEPT ![u][f] = v]
         /\ touch' = [touch EXCEPT ![u] =
              {g \in FormFields : (IF g = f THEN v ELSE want[u][g]) # row[g]}]
    OBVIOUS
  <2>2. want' \in [Editors -> Columns]
    <3>1. v \in Value
      OBVIOUS
    <3>2. want[u] \in Columns
      BY DEF TypeOK
    <3>3. [want[u] EXCEPT ![f] = v] \in Columns
      BY <3>1, <3>2 DEF Columns
    <3>. QED BY <2>1, <3>3 DEF TypeOK
  <2>3. touch' \in [Editors -> SUBSET FormFields]
    BY <2>1 DEF TypeOK
  <2>4. pc' \in [Editors -> {"idle", "form", "fetch", "write"}]
    BY <1>2 DEF EditSubmit, TypeOK
  <2>5. UNCHANGED <<bookingVars, logVars, kept, jobVars>>
    BY <1>2 DEF EditSubmit
  <2>. QED BY <2>2, <2>3, <2>4, <2>5 DEF TypeOK, bookingVars, logVars, jobVars
<1>3. CASE EditFetch(u)
  BY <1>3 DEF EditFetch, TypeOK, bookingVars, logVars, jobVars
<1>4. CASE HomeCancel(u)
  <2>1. [row EXCEPT !["status"] = "cancelled"] \in Columns
    BY DEF TypeOK, Columns
  <2>2. {g \in {"status"} : row[g] # "cancelled"} \subseteq FormFields
    BY DEF FormFields, ActiveFields
  <2>3. want' \in [Editors -> Columns]
    BY <1>4, <2>1 DEF HomeCancel, TypeOK
  <2>4. touch' \in [Editors -> SUBSET FormFields]
    BY <1>4, <2>2 DEF HomeCancel, TypeOK
  <2>5. /\ pc' \in [Editors -> {"idle", "form", "fetch", "write"}]
        /\ kept' \in [Editors -> SUBSET FormFields]
    BY <1>4 DEF HomeCancel, TypeOK
  <2>. QED BY <1>4, <2>3, <2>4, <2>5 DEF HomeCancel, TypeOK, bookingVars, logVars, jobVars
<1>5. CASE EditWrite(u)
  <2>1. want[u] \in Columns /\ touch[u] \subseteq FormFields /\ kept[u] \subseteq FormFields
    BY DEF TypeOK
  <2>2. row' \in Columns
    BY <1>5, <2>1 DEF EditWrite, TypeOK, Columns
  <2>3. manual' \in [FormFields -> Value \cup {Unset}]
    BY <1>5, <2>1 DEF EditWrite, TypeOK, Columns, Fields
  <2>4. overrides' \subseteq FormFields /\ edited' \subseteq FormFields
    BY <1>5, <2>1 DEF EditWrite, TypeOK
  <2>5. EmptyRow \in Columns
    BY DEF EmptyRow, Columns
  <2>6. /\ pc' \in [Editors -> {"idle", "form", "fetch", "write"}]
        /\ want' \in [Editors -> Columns]
        /\ touch' \in [Editors -> SUBSET FormFields]
        /\ kept' \in [Editors -> SUBSET FormFields]
    BY <1>5, <2>5 DEF EditWrite, TypeOK
  <2>. QED BY <1>5, <2>2, <2>3, <2>4, <2>6 DEF EditWrite, TypeOK, jobVars
<1>. QED BY <1>1, <1>2, <1>3, <1>4, <1>5 DEF Edit

LEMMA JobDoneType ==
  ASSUME JobDone
  PROVE  /\ job' = "idle" /\ jobEmail' = NoEmail /\ jobRaw' = "pending"
         /\ jobRow' \in Columns /\ jobOverrides' \subseteq FormFields
BY DEF JobDone, EmptyRow, Columns

\* The email of a started repair is one of Emails.
JobHasEmail == job \in {"picked", "upsert", "repair"} => jobEmail \in Emails

LEMMA CommandType ==
  ASSUME TypeOK, JobHasEmail, Command
  PROVE  TypeOK'
<1>1. ASSUME NEW e \in Emails, RepairPick(e) PROVE TypeOK'
  BY <1>1 DEF RepairPick, TypeOK, bookingVars, logVars, editVars
<1>2. CASE RepairRead
  BY <1>2 DEF RepairRead, TypeOK, bookingVars, logVars, editVars
<1>3. CASE RepairUpsert
  <2>1. jobEmail \in Emails /\ Upsert(jobEmail) /\ JobDone /\ UNCHANGED editVars
    BY <1>3 DEF RepairUpsert, JobHasEmail
  <2>. QED BY <2>1, UpsertType, JobDoneType DEF TypeOK, editVars
<1>4. CASE RepairWrite
  <2>. DEFINE e == jobEmail
              r == Filled(jobRow, jobOverrides, e)
              rv == RepairReviews(r, e)
  <2>0. e \in Emails /\ JobDone /\ UNCHANGED <<creator, manual, editVars>>
    BY <1>4 DEF RepairWrite, JobHasEmail
  <2>1. r \in Columns
    BY <2>0, FilledType DEF TypeOK
  <2>2. row' \in Columns /\ overrides' \subseteq FormFields
    <3>1. \/ row' = r /\ overrides' = jobOverrides
          \/ UNCHANGED <<row, overrides>>
      BY <1>4 DEF RepairWrite
    <3>. HIDE DEF r
    <3>. QED BY <2>1, <3>1 DEF TypeOK
  <2>3. eventsOf' \in [Emails -> 0..2]
    <3>1. eventsOf' = CountEvents(e, 1) \/ UNCHANGED eventsOf
      BY <1>4 DEF RepairWrite
    <3>. QED BY <2>0, <3>1, CountEventsType DEF TypeOK
  <2>4. lastEmail' \in Emails \cup {NoEmail} /\ edited' \subseteq FormFields
    BY <1>4, <2>0 DEF RepairWrite, TypeOK
  <2>5. reviews' \subseteq (Emails \cup {NoEmail}) \X Issues
    <3>1. reviews' = rv.left
      BY <1>4 DEF RepairWrite
    <3>2. rv.left \subseteq reviews \cup ({e} \X Missing(r))
      BY DEF RepairReviews
    <3>3. Missing(r) \subseteq Issues
      BY DEF Missing
    <3>. HIDE DEF rv, r
    <3>. QED BY <2>0, <3>1, <3>2, <3>3 DEF TypeOK
  <2>6. raw' \in [Emails -> {"pending", "needs_review", "parsed"}]
    <3>1. \/ raw' = raw
          \/ raw' = [raw EXCEPT ![e] = "needs_review"]
          \/ raw' = [raw EXCEPT ![e] = "parsed"]
      BY <1>4 DEF RepairWrite
    <3>. QED BY <3>1 DEF TypeOK
  <2>. QED BY <2>0, <2>2, <2>3, <2>4, <2>5, <2>6, JobDoneType DEF TypeOK, editVars
<1>5. CASE ReslotRead
  BY <1>5 DEF ReslotRead, TypeOK, bookingVars, logVars, editVars
<1>6. CASE ReslotWrite
  <2>. DEFINE s == SlotAt(jobRow["active_start_time"], jobRow["schedule_slot"])
  <2>0. JobDone /\ UNCHANGED <<creator, overrides, lastEmail, raw, eventsOf,
                               manual, edited, editVars>>
    BY <1>6 DEF ReslotWrite
  <2>1. s \in Value
    <3>1. jobRow["schedule_slot"] \in Value
      BY DEF TypeOK, Columns, Fields, FormFields
    <3>. QED BY <3>1, SlotAtType
  <2>2. row' \in Columns
    <3>1. \/ row' = row
          \/ row' = [row EXCEPT !["schedule_slot"] = s]
          \/ row' = [row EXCEPT !["schedule_slot"] = row["schedule_slot"]]
      BY <1>6 DEF ReslotWrite
    <3>. HIDE DEF s
    <3>. QED BY <2>1, <3>1 DEF TypeOK, Columns, Fields, FormFields
  <2>3. reviews' \subseteq (Emails \cup {NoEmail}) \X Issues
    <3>1. reviews' \subseteq reviews \cup {<<NoEmail, "slot">>}
      BY <1>6 DEF ReslotWrite
    <3>. QED BY <3>1 DEF TypeOK, Issues
  <2>. QED BY <2>0, <2>2, <2>3, JobDoneType DEF TypeOK, editVars
<1>. QED BY <1>1, <1>2, <1>3, <1>4, <1>5, <1>6 DEF Command

LEMMA TypeStep ==
  ASSUME TypeOK, JobHasEmail, [Next]_vars
  PROVE  TypeOK' /\ JobHasEmail'
<1>1. TypeOK'
  <2>1. ASSUME NEW e \in Emails, Ingest(e) PROVE TypeOK'
    <3>1. Upsert(e) /\ UNCHANGED <<editVars, jobVars>>
      BY <2>1 DEF Ingest
    <3>. QED BY <3>1, UpsertType DEF TypeOK, editVars, jobVars
  <2>2. CASE UNCHANGED vars
    BY <2>2 DEF TypeOK, vars, bookingVars, logVars, editVars, jobVars
  <2>. QED BY <2>1, <2>2, EditType, CommandType DEF Next
<1>2. JobHasEmail'
  <2>1. ASSUME NEW e \in Emails, Ingest(e) PROVE JobHasEmail'
    BY <2>1 DEF Ingest, jobVars, JobHasEmail
  <2>2. ASSUME NEW u \in Editors, Edit(u) PROVE JobHasEmail'
    BY <2>2 DEF Edit, EditOpen, EditSubmit, EditFetch, HomeCancel, EditWrite,
                jobVars, JobHasEmail
  <2>3. CASE Command
    <3>1. CASE RepairRead
      BY <3>1 DEF RepairRead, JobHasEmail
    <3>2. CASE JobDone
      BY <3>2 DEF JobDone, JobHasEmail
    <3>3. CASE ReslotRead
      BY <3>3 DEF ReslotRead, JobHasEmail
    <3>4. ASSUME NEW e \in Emails, RepairPick(e) PROVE JobHasEmail'
      BY <3>4 DEF RepairPick, JobHasEmail
    <3>. QED BY <2>3, <3>1, <3>2, <3>3, <3>4
             DEF Command, RepairUpsert, RepairWrite, ReslotWrite
  <2>4. CASE UNCHANGED vars
    BY <2>4 DEF vars, jobVars, JobHasEmail
  <2>. QED BY <2>1, <2>2, <2>3, <2>4 DEF Next
<1>. QED BY <1>1, <1>2

\* Every variable keeps its type, whatever the emails, editors and slots.
THEOREM TypeCorrect == Spec => []TypeOK
<1>1. Init => TypeOK /\ JobHasEmail
  BY DEF Init, TypeOK, JobHasEmail, EmptyRow, Columns
<1>2. TypeOK /\ JobHasEmail /\ [Next]_vars => (TypeOK /\ JobHasEmail)'
  BY TypeStep
<1>. QED BY <1>1, <1>2, PTL DEF Spec

-----------------------------------------------------------------------------
(* Manual values.                                                          *)

\* Nobody writes from a stale copy: every read-write pair runs alone, or one
\* operator's requests are the only ones that are not locked.
NoStaleWrites == Serial \/ (~Maintenance /\ \A u, v \in Editors : u = v)

\* A field an operator set is recorded as overridden.
Recorded == \A f \in FormFields : manual[f] # Unset => f \in overrides

Holds(u) == pc[u] \in {"fetch", "write"}

\* At most one copy is held, and no command runs beside a request.
OneHolder ==
  /\ \A u, v \in Editors : Holds(u) /\ Holds(v) => u = v
  /\ job # "idle" => Serial /\ \A u \in Editors : ~Holds(u)

\* The held copies are current.
FreshCopies ==
  /\ \A u \in Editors : pc[u] = "write" => kept[u] = overrides
  /\ job \in {"repair", "reslot"} => jobRow = row /\ jobOverrides = overrides

\* Only an existing booking is edited or overridden.
KnownFirst ==
  /\ creator = NoEmail => overrides = {}
  /\ \A u \in Editors : pc[u] # "idle" => creator # NoEmail

ManualInv ==
  /\ TypeOK /\ JobHasEmail
  /\ ManualValuesKept /\ Recorded /\ OneHolder /\ FreshCopies /\ KnownFirst

\* Merging an email leaves a protected overridden column alone.
LEMMA UpdatedKeeps ==
  ASSUME NEW r, NEW o, NEW e, NEW f \in Protected, f \in o
  PROVE  Updated(r, o, e)[f] = r[f]
<1>1. f \in Fields
  BY DEF Protected, Fields, FormFields
<1>2. ASSUME NEW q PROVE MergeProvider(q, o, e)[f] = q[f]
  BY <1>1 DEF MergeProvider, Protected, ActiveFields, ProviderFields
<1>3. ASSUME NEW q PROVE MergeActive(q, o, e)[f] = q[f]
  BY <1>1 DEF MergeActive
<1>4. ASSUME NEW q PROVE MergeAlias(q, o, e)[f] = q[f]
  BY <1>1 DEF MergeAlias, Protected, ActiveFields
<1>. QED BY <1>2, <1>3, <1>4 DEF Updated

\* So does filling the empty columns.
LEMMA FilledKeeps ==
  ASSUME NEW r, NEW o, NEW e, NEW f \in Protected, f \in o
  PROVE  Filled(r, o, e)[f] = r[f]
<1>1. f \in Fields
  BY DEF Protected, Fields, FormFields
<1>. QED BY <1>1 DEF Filled, Protected, ActiveFields, ProviderFields

\* An upsert preserves what the argument says of the booking.
LEMMA UpsertKeeps ==
  ASSUME ManualInv, NEW e \in Emails, Upsert(e)
  PROVE  /\ ManualValuesKept' /\ Recorded'
         /\ overrides' = overrides /\ creator' # NoEmail
<1>1. overrides' = overrides /\ manual' = manual
  BY DEF Upsert
<1>2. creator' # NoEmail
  BY DEF Upsert
<1>3. Recorded'
  BY <1>1 DEF ManualInv, Recorded
<1>4. ManualValuesKept'
  <2>. SUFFICES ASSUME NEW f \in Protected, manual[f] # Unset
                PROVE  row'[f] = manual[f]
    BY <1>1 DEF ManualValuesKept, Keeps
  <2>1. f \in overrides
    BY DEF ManualInv, Recorded, Protected, FormFields
  <2>2. creator # NoEmail
    BY <2>1 DEF ManualInv, KnownFirst
  <2>3. row' = Updated(row, overrides, e)
    BY <2>2 DEF Upsert, Merged
  <2>4. row'[f] = row[f]
    BY <2>1, <2>3, UpdatedKeeps
  <2>. QED BY <2>4 DEF ManualInv, ManualValuesKept, Keeps
<1>. QED BY <1>1, <1>2, <1>3, <1>4

LEMMA IngestKeeps ==
  ASSUME ManualInv, NoStaleWrites, NEW e \in Emails, Ingest(e)
  PROVE  (ManualValuesKept /\ Recorded /\ OneHolder /\ FreshCopies /\ KnownFirst)'
<1>1. Upsert(e) /\ UNCHANGED <<editVars, jobVars>> /\ MayStart
  BY DEF Ingest
<1>2. ManualValuesKept' /\ Recorded' /\ overrides' = overrides /\ creator' # NoEmail
  BY <1>1, UpsertKeeps
<1>3. pc' = pc /\ kept' = kept /\ job' = job
  BY <1>1 DEF editVars, jobVars
<1>4. job = "idle"
  BY <1>1 DEF MayStart, Busy, ManualInv, OneHolder
<1>5. OneHolder'
  BY <1>3 DEF ManualInv, OneHolder, Holds
<1>6. FreshCopies'
  BY <1>2, <1>3, <1>4 DEF ManualInv, FreshCopies
<1>7. KnownFirst'
  BY <1>2 DEF KnownFirst
<1>. QED BY <1>2, <1>5, <1>6, <1>7

LEMMA EditKeeps ==
  ASSUME ManualInv, NoStaleWrites, NEW u \in Editors, Edit(u)
  PROVE  (ManualValuesKept /\ Recorded /\ OneHolder /\ FreshCopies /\ KnownFirst)'
<1>. USE DEF ManualInv
<1>a. pc \in [Editors -> {"idle", "form", "fetch", "write"}]
  BY DEF TypeOK
<1>0. ASSUME UNCHANGED <<bookingVars, manual, job, jobRow, jobOverrides>>
      PROVE  ManualValuesKept' /\ Recorded'
  BY <1>0 DEF bookingVars, ManualValuesKept, Keeps, Recorded
<1>1. CASE EditOpen(u)
  <2>1. /\ pc' = [pc EXCEPT ![u] = "form"] /\ pc[u] = "idle" /\ creator # NoEmail
        /\ UNCHANGED <<bookingVars, manual, kept, job, jobRow, jobOverrides>>
    BY <1>1 DEF EditOpen, logVars, jobVars
  <2>2. \A v \in Editors : Holds(v)' <=> Holds(v)
    BY <2>1, <1>a DEF Holds
  <2>3. OneHolder'
    BY <2>1, <2>2 DEF OneHolder
  <2>4. FreshCopies' /\ KnownFirst'
    BY <2>1, <1>a DEF FreshCopies, KnownFirst, bookingVars
  <2>. QED BY <1>0, <2>1, <2>3, <2>4
<1>2. CASE EditSubmit(u)
  <2>1. /\ pc' = [pc EXCEPT ![u] = "fetch"] /\ pc[u] = "form" /\ MayStart
        /\ UNCHANGED <<bookingVars, manual, kept, job, jobRow, jobOverrides>>
    BY <1>2 DEF EditSubmit, logVars, jobVars
  <2>2. OneHolder'
    BY <2>1, <1>a DEF OneHolder, Holds, MayStart, Busy, NoStaleWrites
  <2>3. FreshCopies' /\ KnownFirst'
    BY <2>1, <1>a DEF FreshCopies, KnownFirst, bookingVars
  <2>. QED BY <1>0, <2>1, <2>2, <2>3
<1>3. CASE EditFetch(u)
  <2>1. /\ pc' = [pc EXCEPT ![u] = "write"] /\ pc[u] = "fetch"
        /\ kept' = [kept EXCEPT ![u] = overrides]
        /\ UNCHANGED <<bookingVars, manual, job, jobRow, jobOverrides>>
    BY <1>3 DEF EditFetch, logVars, jobVars
  <2>2. \A v \in Editors : Holds(v)' <=> Holds(v)
    BY <2>1, <1>a DEF Holds
  <2>3. OneHolder'
    BY <2>1, <2>2 DEF OneHolder
  <2>4. FreshCopies' /\ KnownFirst'
    BY <2>1, <1>a DEF FreshCopies, KnownFirst, bookingVars, TypeOK
  <2>. QED BY <1>0, <2>1, <2>3, <2>4
<1>4. CASE HomeCancel(u)
  <2>1. /\ pc' = [pc EXCEPT ![u] = "write"] /\ creator # NoEmail /\ MayStart
        /\ kept' = [kept EXCEPT ![u] = overrides]
        /\ UNCHANGED <<bookingVars, manual, job, jobRow, jobOverrides>>
    BY <1>4 DEF HomeCancel, logVars, jobVars
  <2>2. OneHolder'
    BY <2>1, <1>a DEF OneHolder, Holds, MayStart, Busy, NoStaleWrites
  <2>3. FreshCopies' /\ KnownFirst'
    BY <2>1, <1>a DEF FreshCopies, KnownFirst, bookingVars, TypeOK
  <2>. QED BY <1>0, <2>1, <2>2, <2>3
<1>5. CASE EditWrite(u)
  <2>1. /\ pc' = [pc EXCEPT ![u] = "idle"] /\ pc[u] = "write"
        /\ kept' = [kept EXCEPT ![u] = {}]
        /\ UNCHANGED <<creator, job, jobRow, jobOverrides>>
    BY <1>5 DEF EditWrite, jobVars
  <2>2. /\ row' = [f \in Fields |-> IF f \in touch[u] THEN want[u][f] ELSE row[f]]
        /\ manual' = [f \in FormFields |-> IF f \in touch[u] THEN want[u][f]
                                                             ELSE manual[f]]
        /\ overrides' = IF touch[u] = {} THEN overrides ELSE kept[u] \cup touch[u]
    BY <1>5 DEF EditWrite
  <2>3. kept[u] = overrides /\ job = "idle"
    BY <2>1 DEF FreshCopies, OneHolder, Holds
  <2>4. overrides' = overrides \cup touch[u]
    BY <2>2, <2>3
  <2>5. ManualValuesKept'
    <3>. SUFFICES ASSUME NEW f \in Protected PROVE manual'[f] # Unset => row'[f] = manual'[f]
      BY DEF ManualValuesKept, Keeps
    <3>1. f \in FormFields /\ f \in Fields
      BY DEF Protected, FormFields, Fields
    <3>2. CASE f \in touch[u]
      BY <2>2, <3>1, <3>2
    <3>3. CASE f \notin touch[u]
      BY <2>2, <3>1, <3>3 DEF ManualValuesKept, Keeps
    <3>. QED BY <3>2, <3>3
  <2>6. Recorded'
    BY <2>2, <2>4 DEF Recorded
  <2>7. OneHolder'
    BY <2>1, <2>3, <1>a DEF OneHolder, Holds
  <2>8. FreshCopies'
    BY <2>1, <2>3, <1>a DEF FreshCopies, OneHolder, Holds
  <2>9. KnownFirst'
    BY <2>1, <1>a DEF KnownFirst
  <2>. QED BY <2>5, <2>6, <2>7, <2>8, <2>9
<1>. QED BY <1>1, <1>2, <1>3, <1>4, <1>5 DEF Edit

LEMMA CommandKeeps ==
  ASSUME ManualInv, NoStaleWrites, Command
  PROVE  (ManualValuesKept /\ Recorded /\ OneHolder /\ FreshCopies /\ KnownFirst)'
<1>. USE DEF ManualInv
<1>0. ASSUME UNCHANGED <<bookingVars, manual, pc, kept>>
      PROVE  /\ ManualValuesKept' /\ Recorded' /\ KnownFirst'
             /\ \A u \in Editors : pc'[u] = "write" => kept'[u] = overrides'
  BY <1>0 DEF bookingVars, ManualValuesKept, Keeps, Recorded, KnownFirst, FreshCopies
<1>1. ASSUME NEW e \in Emails, RepairPick(e)
      PROVE  (ManualValuesKept /\ Recorded /\ OneHolder /\ FreshCopies /\ KnownFirst)'
  <2>1. /\ UNCHANGED <<bookingVars, manual, pc, kept>>
        /\ Maintenance /\ MayStart /\ job = "idle" /\ job' = "picked"
    BY <1>1 DEF RepairPick, logVars, editVars
  <2>2. Serial
    BY <2>1, <1>1 DEF RepairPick, NoStaleWrites, BookingAssumption
  <2>3. OneHolder'
    BY <2>1, <2>2 DEF OneHolder, Holds, MayStart, Busy
  <2>4. FreshCopies'
    BY <1>0, <2>1 DEF FreshCopies
  <2>. QED BY <1>0, <2>1, <2>3, <2>4
<1>2. CASE RepairRead
  <2>1. /\ UNCHANGED <<bookingVars, manual, pc, kept>>
        /\ job = "picked" /\ jobRow' = row /\ jobOverrides' = overrides
    BY <1>2 DEF RepairRead, logVars, editVars
  <2>2. OneHolder'
    BY <2>1 DEF OneHolder, Holds
  <2>3. FreshCopies'
    BY <1>0, <2>1 DEF FreshCopies, bookingVars
  <2>. QED BY <1>0, <2>1, <2>2, <2>3
<1>3. CASE RepairUpsert
  <2>1. /\ Upsert(jobEmail) /\ jobEmail \in Emails /\ job' = "idle"
        /\ pc' = pc /\ kept' = kept
    BY <1>3 DEF RepairUpsert, JobDone, JobHasEmail, editVars
  <2>2. ManualValuesKept' /\ Recorded' /\ overrides' = overrides /\ creator' # NoEmail
    BY <2>1, UpsertKeeps
  <2>3. OneHolder' /\ FreshCopies' /\ KnownFirst'
    BY <2>1, <2>2 DEF OneHolder, Holds, FreshCopies, KnownFirst
  <2>. QED BY <2>2, <2>3
<1>4. CASE RepairWrite
  <2>. DEFINE r == Filled(jobRow, jobOverrides, jobEmail)
  <2>1. /\ job = "repair" /\ job' = "idle"
        /\ UNCHANGED <<creator, manual, pc, kept>>
    BY <1>4 DEF RepairWrite, JobDone, editVars
  <2>2. jobRow = row /\ jobOverrides = overrides
    BY <2>1 DEF FreshCopies
  <2>3. (row' = r \/ row' = row) /\ overrides' = overrides
    BY <1>4, <2>2 DEF RepairWrite
  <2>4. ManualValuesKept'
    <3>. SUFFICES ASSUME NEW f \in Protected, manual[f] # Unset
                  PROVE  row'[f] = manual[f]
      BY <2>1 DEF ManualValuesKept, Keeps
    <3>1. f \in overrides
      BY DEF Recorded, Protected, FormFields
    <3>2. r[f] = row[f]
      BY <3>1, <2>2, FilledKeeps
    <3>. HIDE DEF r
    <3>. QED BY <2>3, <3>2 DEF ManualValuesKept, Keeps
  <2>5. Recorded' /\ KnownFirst'
    BY <2>1, <2>3 DEF Recorded, KnownFirst
  <2>6. OneHolder' /\ FreshCopies'
    BY <2>1, <2>3 DEF OneHolder, Holds, FreshCopies
  <2>. QED BY <2>4, <2>5, <2>6
<1>5. CASE ReslotRead
  <2>1. /\ UNCHANGED <<bookingVars, manual, pc, kept>>
        /\ Maintenance /\ MayStart /\ job = "idle" /\ job' = "reslot"
        /\ jobRow' = row /\ jobOverrides' = overrides
    BY <1>5 DEF ReslotRead, logVars, editVars
  <2>2. Serial
    BY <2>1 DEF NoStaleWrites
  <2>3. OneHolder'
    BY <2>1, <2>2 DEF OneHolder, Holds, MayStart, Busy
  <2>4. FreshCopies'
    BY <1>0, <2>1 DEF FreshCopies, bookingVars
  <2>. QED BY <1>0, <2>1, <2>3, <2>4
<1>6. CASE ReslotWrite
  <2>. DEFINE s == SlotAt(jobRow["active_start_time"], jobRow["schedule_slot"])
  <2>1. /\ job = "reslot" /\ job' = "idle"
        /\ UNCHANGED <<creator, overrides, manual, pc, kept>>
    BY <1>6 DEF ReslotWrite, JobDone, editVars
  <2>2. jobOverrides = overrides
    BY <2>1 DEF FreshCopies
  <2>3. ManualValuesKept'
    <3>. SUFFICES ASSUME NEW f \in Protected, manual[f] # Unset
                  PROVE  row'[f] = row[f]
      BY <2>1 DEF ManualValuesKept, Keeps
    <3>1. f \in overrides
      BY DEF Recorded, Protected, FormFields
    <3>2. CASE "schedule_slot" \in overrides
      BY <1>6, <2>2, <3>2 DEF ReslotWrite
    <3>3. CASE "schedule_slot" \notin overrides
      <4>1. f # "schedule_slot" /\ f \in Fields
        BY <3>1, <3>3 DEF Protected, Fields, FormFields
      <4>2. row' = row \/ \E v : row' = [row EXCEPT !["schedule_slot"] = v]
        BY <1>6 DEF ReslotWrite
      <4>. QED BY <4>1, <4>2 DEF TypeOK, Columns
    <3>. QED BY <3>2, <3>3
  <2>4. Recorded' /\ KnownFirst' /\ OneHolder' /\ FreshCopies'
    BY <2>1 DEF Recorded, KnownFirst, OneHolder, Holds, FreshCopies
  <2>. QED BY <2>3, <2>4
<1>. QED BY <1>1, <1>2, <1>3, <1>4, <1>5, <1>6 DEF Command

LEMMA ManualStep ==
  ASSUME ManualInv, NoStaleWrites, [Next]_vars
  PROVE  ManualInv'
<1>1. TypeOK' /\ JobHasEmail'
  BY TypeStep DEF ManualInv
<1>2. (ManualValuesKept /\ Recorded /\ OneHolder /\ FreshCopies /\ KnownFirst)'
  <2>1. CASE UNCHANGED vars
    BY <2>1 DEF ManualInv, vars, bookingVars, logVars, editVars, jobVars,
                ManualValuesKept, Keeps, Recorded, OneHolder, Holds, FreshCopies,
                KnownFirst
  <2>. QED BY <2>1, IngestKeeps, EditKeeps, CommandKeeps DEF Next
<1>. QED BY <1>1, <1>2 DEF ManualInv

LEMMA ManualInvariant ==
  ASSUME NoStaleWrites
  PROVE  Spec => []ManualInv
<1>1. Init => ManualInv
  <2>1. Init => TypeOK /\ JobHasEmail
    BY DEF Init, TypeOK, JobHasEmail, EmptyRow, Columns
  <2>2. Init => ManualValuesKept /\ Recorded
    BY DEF Init, ManualValuesKept, Keeps, Recorded, Protected, FormFields
  <2>3. Init => OneHolder /\ FreshCopies /\ KnownFirst
    BY DEF Init, OneHolder, Holds, FreshCopies, KnownFirst
  <2>. QED BY <2>1, <2>2, <2>3 DEF ManualInv
<1>2. ManualInv /\ [Next]_vars => ManualInv'
  BY ManualStep
<1>. QED BY <1>1, <1>2, PTL DEF Spec

\* Without stale writes, no email, replay, repair or reslot ever replaces a
\* protected value an operator set (apply_manual_override, _update_booking).
THEOREM ManualSafe ==
  ASSUME NoStaleWrites
  PROVE  Spec => []ManualValuesKept
<1>1. ManualInv => ManualValuesKept
  BY DEF ManualInv
<1>. QED BY <1>1, ManualInvariant, PTL

-----------------------------------------------------------------------------
(* Cancelled bookings.                                                     *)

Cancelled == row["status"] = "cancelled"

\* A booking nobody created is not cancelled, and no command holds a copy of it.
BornFirst ==
  creator = NoEmail => ~Cancelled /\ job \notin {"repair", "reslot"}

\* Merging an email leaves a cancelled booking cancelled.
LEMMA UpdatedStaysCancelled ==
  ASSUME NEW r, NEW o, NEW e, r["status"] = "cancelled"
  PROVE  Updated(r, o, e)["status"] = "cancelled"
<1>1. "status" \in Fields
  BY DEF Fields, ProviderFields
<1>2. ASSUME NEW q, q["status"] = "cancelled"
      PROVE  MergeProvider(q, o, e)["status"] = "cancelled"
  BY <1>1, <1>2 DEF MergeProvider, StaysCancelled
<1>3. ASSUME NEW q, q["status"] = "cancelled"
      PROVE  MergeActive(q, o, e)["status"] = "cancelled"
  BY <1>1, <1>3 DEF MergeActive, StaysCancelled
<1>4. ASSUME NEW q, q["status"] = "cancelled"
      PROVE  MergeAlias(q, o, e)["status"] = "cancelled"
  BY <1>1, <1>4 DEF MergeAlias
<1>. QED BY <1>2, <1>3, <1>4 DEF Updated

LEMMA FilledStaysCancelled ==
  ASSUME NEW r, NEW o, NEW e, r["status"] = "cancelled"
  PROVE  Filled(r, o, e)["status"] = "cancelled"
<1>1. "status" \in Fields
  BY DEF Fields, ProviderFields
<1>. QED BY <1>1 DEF Filled

LEMMA UpsertStaysCancelled ==
  ASSUME BornFirst, Cancelled, NEW e \in Emails, Upsert(e)
  PROVE  Cancelled'
<1>1. creator # NoEmail
  BY DEF BornFirst
<1>2. row' = Updated(row, overrides, e)
  BY <1>1 DEF Upsert, Merged
<1>. QED BY <1>2, UpdatedStaysCancelled DEF Cancelled

\* An operator writes the status.
StatusEdited == \E u \in Editors : pc[u] = "write" /\ "status" \in touch[u]

\* Every step but an operator's leaves a cancelled booking cancelled.
LEMMA StaysCancelledStep ==
  ASSUME ManualInv, BornFirst, Cancelled, [Next]_vars
  PROVE  Cancelled' \/ StatusEdited
<1>. USE DEF ManualInv
<1>0. ASSUME row' = row PROVE Cancelled'
  BY <1>0 DEF Cancelled
<1>1. CASE UNCHANGED vars
  BY <1>0, <1>1 DEF vars, bookingVars
<1>2. ASSUME NEW e \in Emails, Ingest(e) PROVE Cancelled'
  BY <1>2, UpsertStaysCancelled DEF Ingest
<1>3. ASSUME NEW u \in Editors, Edit(u) PROVE Cancelled' \/ StatusEdited
  <2>1. CASE EditOpen(u) \/ EditSubmit(u) \/ EditFetch(u) \/ HomeCancel(u)
    <3>1. row' = row
      BY <2>1 DEF EditOpen, EditSubmit, EditFetch, HomeCancel, bookingVars
    <3>. QED BY <1>0, <3>1
  <2>2. CASE EditWrite(u)
    <3>1. "status" \in Fields
      BY DEF Fields, ProviderFields
    <3>2. /\ row' = [f \in Fields |-> IF f \in touch[u] THEN want[u][f] ELSE row[f]]
          /\ pc[u] = "write"
      BY <2>2 DEF EditWrite
    <3>. QED BY <3>1, <3>2 DEF StatusEdited, Cancelled
  <2>. QED BY <1>3, <2>1, <2>2 DEF Edit
<1>4. CASE Command
  <2>1. CASE RepairRead \/ ReslotRead \/ \E e \in Emails : RepairPick(e)
    <3>1. row' = row
      BY <2>1 DEF RepairRead, ReslotRead, RepairPick, bookingVars
    <3>. QED BY <1>0, <3>1
  <2>2. CASE RepairUpsert
    <3>1. Upsert(jobEmail) /\ jobEmail \in Emails
      BY <2>2 DEF RepairUpsert, JobHasEmail
    <3>. QED BY <3>1, UpsertStaysCancelled
  <2>3. CASE RepairWrite
    <3>1. jobRow = row
      BY <2>3 DEF RepairWrite, FreshCopies
    <3>2. row' = row \/ row' = Filled(row, jobOverrides, jobEmail)
      BY <2>3, <3>1 DEF RepairWrite
    <3>. QED BY <3>2, FilledStaysCancelled DEF Cancelled
  <2>4. CASE ReslotWrite
    <3>1. row' = row \/ \E v : row' = [row EXCEPT !["schedule_slot"] = v]
      BY <2>4 DEF ReslotWrite
    <3>2. row \in [Fields -> Value] /\ "status" \in Fields
      BY DEF TypeOK, Columns, Fields, ProviderFields
    <3>. QED BY <3>1, <3>2 DEF Cancelled
  <2>. QED BY <1>4, <2>1, <2>2, <2>3, <2>4 DEF Command
<1>. QED BY <1>1, <1>2, <1>3, <1>4 DEF Next

LEMMA BornFirstStep ==
  ASSUME ManualInv, BornFirst, [Next]_vars
  PROVE  BornFirst'
<1>. SUFFICES ASSUME creator' = NoEmail
              PROVE  ~Cancelled' /\ job' \notin {"repair", "reslot"}
  BY DEF BornFirst
<1>. USE DEF ManualInv
<1>0. ASSUME NEW e \in Emails, Upsert(e) PROVE FALSE
  BY <1>0 DEF Upsert
<1>1. CASE UNCHANGED vars
  BY <1>1 DEF vars, bookingVars, jobVars, BornFirst, Cancelled
<1>2. ASSUME NEW e \in Emails, Ingest(e) PROVE FALSE
  BY <1>0, <1>2 DEF Ingest
<1>3. ASSUME NEW u \in Editors, Edit(u)
      PROVE  ~Cancelled' /\ job' \notin {"repair", "reslot"}
  <2>1. creator' = creator /\ job' = job
    BY <1>3 DEF Edit, EditOpen, EditSubmit, EditFetch, HomeCancel, EditWrite,
                bookingVars, jobVars
  <2>2. ~EditWrite(u)
    BY <2>1 DEF EditWrite, KnownFirst
  <2>3. row' = row
    BY <1>3, <2>2 DEF Edit, EditOpen, EditSubmit, EditFetch, HomeCancel, bookingVars
  <2>. QED BY <2>1, <2>3 DEF BornFirst, Cancelled
<1>4. CASE Command
  <2>1. CASE RepairRead \/ \E e \in Emails : RepairPick(e)
    <3>1. UNCHANGED <<creator, row>> /\ job' \in {"picked", "upsert", "repair"}
          /\ (job' = "repair" => creator # NoEmail)
      BY <2>1 DEF RepairRead, RepairPick, bookingVars
    <3>. QED BY <3>1 DEF BornFirst, Cancelled
  <2>2. CASE RepairUpsert
    BY <1>0, <2>2 DEF RepairUpsert, JobHasEmail
  <2>3. CASE RepairWrite \/ ReslotWrite
    <3>1. creator' = creator /\ job \in {"repair", "reslot"}
      BY <2>3 DEF RepairWrite, ReslotWrite
    <3>. QED BY <3>1 DEF BornFirst
  <2>4. CASE ReslotRead
    BY <2>4 DEF ReslotRead, bookingVars
  <2>. QED BY <1>4, <2>1, <2>2, <2>3, <2>4 DEF Command
<1>. QED BY <1>1, <1>2, <1>3, <1>4 DEF Next

\* Without stale writes only an operator who writes the status revives a
\* cancelled booking (_preserve_cancelled_status, on every path).
THEOREM OnlyOperatorsRevive ==
  ASSUME NoStaleWrites
  PROVE  Spec => CancelledUntilEdited
<1>1. Init => BornFirst
  <2>1. "status" \in Fields
    BY DEF Fields, ProviderFields
  <2>. QED BY <2>1 DEF Init, BornFirst, Cancelled, EmptyRow
<1>2. ManualInv /\ BornFirst /\ [Next]_vars => BornFirst'
  BY BornFirstStep
<1>3. ManualInv /\ BornFirst /\ [Next]_vars =>
        [row["status"] = "cancelled" /\ row'["status"] # "cancelled"
           => \E u \in Editors : pc[u] = "write" /\ "status" \in touch[u]]_vars
  BY StaysCancelledStep DEF Cancelled, StatusEdited
<1>. QED BY <1>1, <1>2, <1>3, ManualInvariant, PTL DEF Spec, CancelledUntilEdited

-----------------------------------------------------------------------------
(* What emails leave behind, while the commands of the container start rest. *)

\* Repair may call a cancellation parsed without merging it, so it is left out.
QuietWrites == NoStaleWrites /\ ~Maintenance

QuietInv ==
  /\ ManualInv
  /\ job = "idle"
  /\ BornFirst
  /\ CancellationHolds /\ ActiveCountIsProviders /\ ConflictsSurfaced

\* A cancellation that is merged cancels, unless an operator holds the status.
LEMMA MergedCancels ==
  ASSUME NEW r, NEW o, NEW e, "status" \notin o, Says(e, "status") = "cancelled"
  PROVE  Created(e)["status"] = "cancelled" /\ Updated(r, o, e)["status"] = "cancelled"
<1>1. /\ "status" \in Fields /\ "status" \in ProviderFields /\ "status" \in ActiveFields
      /\ ProviderOf("status") = "status"
  BY DEF Fields, ProviderFields, ActiveFields, ProviderOf
<1>2. Created(e)["status"] = "cancelled"
  BY <1>1 DEF Created
<1>3. MergeProvider(r, o, e)["status"] = "cancelled"
  BY <1>1 DEF MergeProvider, StaysCancelled
<1>4. ASSUME NEW q, q["status"] = "cancelled" PROVE MergeActive(q, o, e)["status"] = "cancelled"
  BY <1>1, <1>4 DEF MergeActive, StaysCancelled
<1>5. ASSUME NEW q PROVE MergeAlias(q, o, e)["status"] = q["status"]
  BY <1>1 DEF MergeAlias
<1>. QED BY <1>2, <1>3, <1>4, <1>5 DEF Updated

\* Merging makes the active count the provider's, or empty.
LEMMA MergedCount ==
  ASSUME NEW r, NEW o, NEW e, "active_traveler_count" \notin o
  PROVE  /\ Created(e)["active_traveler_count"] = Created(e)["provider_traveler_count"]
         /\ Updated(r, o, e)["active_traveler_count"] # None =>
              Updated(r, o, e)["active_traveler_count"]
                = Updated(r, o, e)["provider_traveler_count"]
<1>. DEFINE a == "active_traveler_count"
            p == "provider_traveler_count"
<1>1. /\ a \in Fields /\ p \in Fields /\ a \in ActiveFields /\ p \in ProviderFields
      /\ a \notin ProviderFields /\ p \notin ActiveFields
      /\ a # "status" /\ p # "status" /\ ProviderOf(a) = p /\ ProviderOf(p) = p
  BY DEF Fields, ProviderFields, FormFields, ActiveFields, ProviderOf
<1>2. Created(e)[a] = Created(e)[p]
  BY <1>1 DEF Created
<1>3. Says(e, p) # None => MergeProvider(r, o, e)[p] = Says(e, p)
  BY <1>1 DEF MergeProvider, StaysCancelled
<1>4. ASSUME NEW q
      PROVE  MergeActive(q, o, e)[a] = Says(e, p) /\ MergeActive(q, o, e)[p] = q[p]
  BY <1>1 DEF MergeActive, StaysCancelled
<1>5. ASSUME NEW q
      PROVE  MergeAlias(q, o, e)[a] = q[a] /\ MergeAlias(q, o, e)[p] = q[p]
  BY <1>1 DEF MergeAlias
<1>6. Updated(r, o, e)[a] = Says(e, p)
  BY <1>4, <1>5 DEF Updated
<1>7. Updated(r, o, e)[p] = MergeProvider(r, o, e)[p]
  BY <1>4, <1>5 DEF Updated
<1>. QED BY <1>2, <1>3, <1>6, <1>7

LEMMA UpsertAnswers ==
  ASSUME QuietInv, NEW e \in Emails, Upsert(e)
  PROVE  (CancellationHolds /\ ActiveCountIsProviders /\ ConflictsSurfaced)'
<1>. PICK r : r = Merged(e)
  OBVIOUS
<1>1. /\ row' = r /\ overrides' = overrides /\ lastEmail' = e
      /\ r = Created(e) \/ r = Updated(row, overrides, e)
      /\ creator # NoEmail => r = Updated(row, overrides, e)
  BY DEF Upsert, Merged
<1>2. \A f \in Emails \ {e} : raw'[f] = raw[f]
  BY DEF Upsert, QuietInv, ManualInv, TypeOK
<1>3. CancellationHolds'
  <2>. SUFFICES ASSUME NEW f \in Emails, raw'[f] = "parsed",
                       Says(f, "status") = "cancelled", "status" \notin overrides
                PROVE  r["status"] = "cancelled"
    BY <1>1 DEF CancellationHolds
  <2>1. CASE f = e
    BY <1>1, <2>1, MergedCancels
  <2>2. CASE f # e
    <3>1. row["status"] = "cancelled"
      BY <1>2, <2>2 DEF QuietInv, CancellationHolds
    <3>2. creator # NoEmail
      BY <3>1 DEF QuietInv, BornFirst, Cancelled
    <3>. QED BY <1>1, <3>1, <3>2, UpdatedStaysCancelled
  <2>. QED BY <2>1, <2>2
<1>4. ActiveCountIsProviders'
  <2>. SUFFICES ASSUME "active_traveler_count" \notin overrides,
                       r["active_traveler_count"] # None
                PROVE  r["active_traveler_count"] = r["provider_traveler_count"]
    BY <1>1 DEF ActiveCountIsProviders
  <2>1. /\ Created(e)["active_traveler_count"] = Created(e)["provider_traveler_count"]
        /\ Updated(row, overrides, e)["active_traveler_count"] # None =>
             Updated(row, overrides, e)["active_traveler_count"]
               = Updated(row, overrides, e)["provider_traveler_count"]
    BY MergedCount
  <2>. QED BY <1>1, <2>1
<1>5. ConflictsSurfaced'
  <2>. SUFFICES ASSUME NEW f \in ActiveFields \cap overrides,
                       Says(e, ProviderOf(f)) # r[f]
                PROVE  <<e, "conflict">> \in reviews'
    BY <1>1 DEF ConflictsSurfaced
  <2>1. Conflicts(r, overrides, e) # {}
    BY DEF Conflicts
  <2>. PICK first : first = (CountEvents(e, IF Conflicts(r, overrides, e) = {}
                                           THEN 1 ELSE 2)[e] = 1)
    OBVIOUS
  <2>2. "conflict" \in Opens(r, overrides, e, first)
    BY <2>1 DEF Opens
  <2>3. "conflict" \notin Obsolete(r)
    BY DEF Obsolete
  <2>. DEFINE opened == Opens(r, overrides, e, first)
  <2>4. reviews' = {x \in reviews \cup ({e} \X opened) : x[2] \notin Obsolete(r)}
    BY DEF Upsert
  <2>. HIDE DEF opened
  <2>5. <<e, "conflict">> \in {e} \X opened
    BY <2>2 DEF opened
  <2>. QED BY <2>3, <2>4, <2>5
<1>. QED BY <1>3, <1>4, <1>5

\* Operators, too: what they set is theirs from then on.
LEMMA EditAnswers ==
  ASSUME QuietInv, NEW u \in Editors, Edit(u)
  PROVE  (CancellationHolds /\ ActiveCountIsProviders /\ ConflictsSurfaced)'
<1>. USE DEF QuietInv
<1>1. UNCHANGED <<lastEmail, raw, reviews>>
  BY DEF Edit, EditOpen, EditSubmit, EditFetch, HomeCancel, EditWrite, bookingVars, logVars
<1>2. CASE EditWrite(u)
  <2>1. /\ row' = [f \in Fields |-> IF f \in touch[u] THEN want[u][f] ELSE row[f]]
        /\ edited' = edited \cup touch[u] /\ kept[u] = overrides
        /\ overrides' = overrides \cup touch[u]
        /\ touch[u] \subseteq FormFields /\ overrides \subseteq FormFields
    BY <1>2 DEF EditWrite, ManualInv, FreshCopies, TypeOK
  <2>2. /\ {"status", "active_traveler_count", "provider_traveler_count"} \subseteq Fields
        /\ ActiveFields \subseteq Fields
        /\ "provider_traveler_count" \notin FormFields
    BY DEF Fields, FormFields, ProviderFields, ActiveFields
  <2>3. \A f \in Fields \ touch[u] : row'[f] = row[f]
    BY <2>1
  <2>4. CancellationHolds'
    BY <1>1, <2>1, <2>2, <2>3 DEF CancellationHolds
  <2>5. ActiveCountIsProviders'
    BY <2>1, <2>2, <2>3 DEF ActiveCountIsProviders
  <2>6. ConflictsSurfaced'
    BY <1>1, <2>1, <2>2, <2>3 DEF ConflictsSurfaced
  <2>. QED BY <2>4, <2>5, <2>6
<1>3. CASE ~EditWrite(u)
  <2>1. UNCHANGED <<row, overrides, edited>>
    BY <1>3 DEF Edit, EditOpen, EditSubmit, EditFetch, HomeCancel, bookingVars, logVars
  <2>. QED BY <1>1, <2>1 DEF CancellationHolds, ActiveCountIsProviders, ConflictsSurfaced
<1>. QED BY <1>2, <1>3

LEMMA QuietStep ==
  ASSUME QuietWrites, QuietInv, [Next]_vars
  PROVE  QuietInv'
<1>1. ManualInv' /\ BornFirst'
  BY ManualStep, BornFirstStep DEF QuietWrites, QuietInv
<1>2. CASE UNCHANGED vars
  BY <1>1, <1>2 DEF QuietInv, vars, bookingVars, logVars, jobVars, CancellationHolds,
                    ActiveCountIsProviders, ConflictsSurfaced
<1>3. ASSUME NEW e \in Emails, Ingest(e) PROVE QuietInv'
  <2>1. Upsert(e) /\ job' = job
    BY <1>3 DEF Ingest, jobVars
  <2>. QED BY <1>1, <2>1, UpsertAnswers DEF QuietInv
<1>4. ASSUME NEW u \in Editors, Edit(u) PROVE QuietInv'
  <2>1. job' = job
    BY <1>4 DEF Edit, EditOpen, EditSubmit, EditFetch, HomeCancel, EditWrite, jobVars
  <2>. QED BY <1>1, <1>4, <2>1, EditAnswers DEF QuietInv
<1>5. ~Command
  BY DEF QuietWrites, QuietInv, Command, RepairPick, RepairRead, RepairUpsert, RepairWrite,
         ReslotRead, ReslotWrite
<1>. QED BY <1>2, <1>3, <1>4, <1>5 DEF Next

LEMMA QuietInvariant ==
  ASSUME QuietWrites
  PROVE  Spec => []QuietInv
<1>1. Init => BornFirst /\ job = "idle"
  <2>1. "status" \in Fields
    BY DEF Fields, ProviderFields
  <2>. QED BY <2>1 DEF Init, BornFirst, Cancelled, EmptyRow
<1>2. Init => CancellationHolds /\ ActiveCountIsProviders /\ ConflictsSurfaced
  <2>1. "active_traveler_count" \in Fields
    BY DEF Fields, FormFields, ActiveFields
  <2>. QED BY <2>1 DEF Init, EmptyRow, CancellationHolds, ActiveCountIsProviders,
                       ConflictsSurfaced
<1>3. QuietInv /\ [Next]_vars => QuietInv'
  BY QuietStep
<1>4. ManualInv /\ BornFirst /\ job = "idle" /\ CancellationHolds
        /\ ActiveCountIsProviders /\ ConflictsSurfaced => QuietInv
  BY DEF QuietInv
<1>5. Spec => []ManualInv
  BY ManualInvariant DEF QuietWrites
<1>. QED BY <1>1, <1>2, <1>3, <1>4, <1>5, PTL DEF Spec

\* A cancellation email that counts as parsed has cancelled the booking, unless
\* an operator holds its status (upsert_booking_from_parsed).
THEOREM ParsedCancellationHolds ==
  ASSUME QuietWrites
  PROVE  Spec => []CancellationHolds
<1>1. QuietInv => CancellationHolds
  BY DEF QuietInv
<1>. QED BY <1>1, QuietInvariant, PTL

\* An unedited count is the provider's, after any emails
\* (active_updates_from_provider_values).
THEOREM CountFollowsProvider ==
  ASSUME QuietWrites
  PROVE  Spec => []ActiveCountIsProviders
<1>1. QuietInv => ActiveCountIsProviders
  BY DEF QuietInv
<1>. QED BY <1>1, QuietInvariant, PTL

\* What the last email contradicts is in review (provider_update_conflicts).
THEOREM ConflictsAreReviewed ==
  ASSUME QuietWrites
  PROVE  Spec => []ConflictsSurfaced
<1>1. QuietInv => ConflictsSurfaced
  BY DEF QuietInv
<1>. QED BY <1>1, QuietInvariant, PTL

=============================================================================
