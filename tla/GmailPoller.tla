---------------------------- MODULE GmailPoller ----------------------------
(***************************************************************************)
(* The Gmail poller of apps/ingestion/polling.py: poll_gmail_once and the  *)
(* loop around it, the database lock that keeps two cycles apart, the      *)
(* history cursor, the raw-email store with its parse status, and the      *)
(* process_pending_emails command.                                         *)
(*                                                                         *)
(* Gmail itself is external: a history counter, the history record that    *)
(* added each message, the last record that touched it, and the oldest     *)
(* record Gmail still serves.  A poll cycle is a process of its own with   *)
(* one step per database transaction or HTTP request, so cycles of two     *)
(* pollers, a crash, a deletion in Gmail and the command interleave freely.*)
(*                                                                         *)
(* Null history ids are 0; Gmail numbers its records from 1.               *)
(***************************************************************************)
EXTENDS Naturals, FiniteSets

CONSTANTS
  Messages,     \* the Gmail messages that may arrive
  Pollers,      \* processes that run poll_gmail_once (loop, command, sync)
  NoOne,        \* poll_lock_token is null
  Limit,        \* --limit: messages handled per cycle
  Modes,        \* the option sets cycles are started with
  SlowCycles,   \* may a live cycle outlast LOCK_STALE_AFTER?
  Relabels,     \* may Gmail record a later change of a message?
  Drains,       \* is process_pending_emails run?
  MaxHistory,   \* bound on Gmail's history counter
  MaxFaults     \* bound on crashes and failed requests

ASSUME PollerAssumption ==
  /\ NoOne \notin Pollers
  /\ Limit \in Nat
  /\ Modes \subseteq [recent : BOOLEAN, inline : BOOLEAN]
  /\ SlowCycles \in BOOLEAN /\ Relabels \in BOOLEAN /\ Drains \in BOOLEAN
  /\ MaxHistory \in Nat /\ MaxFaults \in Nat

ASSUME FiniteMessages == IsFiniteSet(Messages)

VARIABLES
  historyId,    \* Gmail: number of the newest history record
  floor,        \* Gmail: oldest startHistoryId history.list still accepts
  addedAt,      \* Gmail: record that added the message, 0 before it arrives
  touchedAt,    \* Gmail: last record that changed it (its historyId)
  gone,         \* Gmail: messages deleted from the mailbox
  cursor,       \* GmailSyncState.latest_history_id
  lock,         \* GmailSyncState.poll_lock_token, as the poller that holds it
  lockStale,    \* poll_lock_acquired_at < now - LOCK_STALE_AFTER
  raw,          \* RawEmail.parse_status per message, "absent" without a row
  rawHistory,   \* RawEmail.gmail_history_id
  applied,      \* committed process_raw_email transactions per message
  pc,           \* per poller: where its cycle is, "idle" between cycles
  mode,         \* per poller: the options of the cycle
  start,        \* per poller: start_history_id
  todo,         \* per poller: listed messages the loop has not reached
  newestFirst,  \* per poller: did the list come from messages.list?
  hand,         \* per poller: the message being worked on, if any
  latest,       \* per poller: latest_history_id
  batch,        \* process_pending_emails: rows still to process
  failing,      \* process_pending_emails: row whose processing raised
  faults        \* crashes and failed requests so far

gmailVars == <<historyId, floor, addedAt, touchedAt, gone>>
stateRow  == <<cursor, lock, lockStale>>
rawVars   == <<raw, rawHistory, applied>>
cycleVars == <<pc, mode, start, todo, newestFirst, hand, latest>>
drainVars == <<batch, failing>>
vars      == <<gmailVars, stateRow, rawVars, cycleVars, drainVars, faults>>

AnyMode   == [recent |-> FALSE, inline |-> FALSE]

Init ==
  /\ historyId = 0 /\ floor = 0
  /\ addedAt = [m \in Messages |-> 0]
  /\ touchedAt = [m \in Messages |-> 0]
  /\ gone = {}
  /\ cursor = 0 /\ lock = NoOne /\ lockStale = FALSE
  /\ raw = [m \in Messages |-> "absent"]
  /\ rawHistory = [m \in Messages |-> 0]
  /\ applied = [m \in Messages |-> 0]
  /\ pc = [p \in Pollers |-> "idle"]
  /\ mode = [p \in Pollers |-> AnyMode]
  /\ start = [p \in Pollers |-> 0]
  /\ todo = [p \in Pollers |-> {}]
  /\ newestFirst = [p \in Pollers |-> FALSE]
  /\ hand = [p \in Pollers |-> {}]
  /\ latest = [p \in Pollers |-> 0]
  /\ batch = {} /\ failing = {}
  /\ faults = 0

-----------------------------------------------------------------------------
(* Gmail (external).                                                       *)

InMailbox(m) == addedAt[m] > 0 /\ m \notin gone

Arrive(m) ==
  /\ addedAt[m] = 0 /\ historyId < MaxHistory
  /\ historyId' = historyId + 1
  /\ addedAt' = [addedAt EXCEPT ![m] = historyId + 1]
  /\ touchedAt' = [touchedAt EXCEPT ![m] = historyId + 1]
  /\ UNCHANGED <<floor, gone, stateRow, rawVars, cycleVars, drainVars, faults>>

\* Reading, starring or archiving a message moves its historyId only.
Relabel(m) ==
  /\ Relabels /\ InMailbox(m) /\ historyId < MaxHistory
  /\ historyId' = historyId + 1
  /\ touchedAt' = [touchedAt EXCEPT ![m] = historyId + 1]
  /\ UNCHANGED <<floor, addedAt, gone, stateRow, rawVars, cycleVars, drainVars, faults>>

Delete(m) ==
  /\ InMailbox(m) /\ historyId < MaxHistory
  /\ historyId' = historyId + 1
  /\ gone' = gone \cup {m}
  /\ UNCHANGED <<floor, addedAt, touchedAt, stateRow, rawVars, cycleVars, drainVars, faults>>

ExpireHistory ==
  /\ \E h \in (floor + 1)..historyId : floor' = h
  /\ UNCHANGED <<historyId, addedAt, touchedAt, gone, stateRow, rawVars,
                 cycleVars, drainVars, faults>>

\* history.list returns records oldest first, messages.list newest first.
Precedes(k, m, descending) ==
  IF descending THEN addedAt[k] > addedAt[m] ELSE addedAt[k] < addedAt[m]

\* message_ids[:n] of the list that Gmail returned for the set S.
Slice(S, n, descending) ==
  {m \in S : Cardinality({k \in S : Precedes(k, m, descending)}) < n}

\* Mutant: the first record after the cursor is missed.
HistorySinceOffByOne(h) == {m \in Messages : addedAt[m] > h + 1}

\* Messages added after a cursor; the records of deleted ones are kept.
HistorySince(h) == {m \in Messages : addedAt[m] > h}

\* The recent listing; every message is one that GMAIL_SYNC_QUERY finds.
Recent == {m \in Messages : InMailbox(m)}

-----------------------------------------------------------------------------
(* The lock row.                                                           *)

\* Ten minutes have passed since the lock was taken.  Unless cycles may be
\* that slow, the holder is no longer running.
LockGoesStale ==
  /\ lock # NoOne /\ ~lockStale
  /\ SlowCycles \/ pc[lock] = "idle"
  /\ lockStale' = TRUE
  /\ UNCHANGED <<gmailVars, cursor, lock, rawVars, cycleVars, drainVars, faults>>

\* Mutants: the lock is taken whoever holds it; an abandoned lock is final.
AcquireHeldLock(p) ==
  /\ pc[p] = "idle"
  /\ lock' = p /\ lockStale' = FALSE
  /\ pc' = [pc EXCEPT ![p] = "read"]
  /\ \E md \in Modes : mode' = [mode EXCEPT ![p] = md]
  /\ UNCHANGED <<gmailVars, cursor, rawVars, start, todo, newestFirst, hand,
                 latest, drainVars, faults>>

AcquireFreeLock(p) == lock = NoOne /\ AcquireHeldLock(p)

AcquireLock(p) ==
  /\ pc[p] = "idle"
  /\ lock = NoOne \/ lockStale
  /\ lock' = p /\ lockStale' = FALSE
  /\ pc' = [pc EXCEPT ![p] = "read"]
  /\ \E md \in Modes : mode' = [mode EXCEPT ![p] = md]
  /\ UNCHANGED <<gmailVars, cursor, rawVars, start, todo, newestFirst, hand,
                 latest, drainVars, faults>>

\* The cycle's local variables are gone.
Forget(p) ==
  /\ pc' = [pc EXCEPT ![p] = "idle"]
  /\ mode' = [mode EXCEPT ![p] = AnyMode]
  /\ start' = [start EXCEPT ![p] = 0]
  /\ todo' = [todo EXCEPT ![p] = {}]
  /\ newestFirst' = [newestFirst EXCEPT ![p] = FALSE]
  /\ hand' = [hand EXCEPT ![p] = {}]
  /\ latest' = [latest EXCEPT ![p] = 0]

\* Only the token of this cycle is cleared: a cycle whose lock was taken
\* over leaves the new holder's alone.
ReleaseLock(p) ==
  /\ pc[p] = "release"
  /\ Forget(p)
  /\ IF lock = p THEN lock' = NoOne /\ lockStale' = FALSE
                 ELSE UNCHANGED <<lock, lockStale>>
  /\ UNCHANGED <<gmailVars, cursor, rawVars, drainVars, faults>>

-----------------------------------------------------------------------------
(* One poll cycle.                                                         *)

\* _newer_history_id
NewerHistoryId(current, candidate) ==
  IF candidate > current THEN candidate ELSE current

\* state = GmailSyncState.objects.get(...)
ReadCursor(p) ==
  /\ pc[p] = "read"
  /\ pc' = [pc EXCEPT ![p] = "list"]
  /\ start' = [start EXCEPT ![p] = cursor]
  /\ UNCHANGED <<gmailVars, stateRow, rawVars, mode, todo, newestFirst, hand,
                 latest, drainVars, faults>>

ListWithHistory(p) == ~mode[p].recent /\ start[p] > 0

\* The answer also carries the mailbox's current historyId, which becomes
\* the next cursor whatever the slice below leaves out.
ListHistory(p) ==
  /\ pc[p] = "list" /\ ListWithHistory(p) /\ start[p] >= floor
  /\ pc' = [pc EXCEPT ![p] = "next"]
  /\ todo' = [todo EXCEPT ![p] = Slice(HistorySince(start[p]), Limit, FALSE)]
  /\ latest' = [latest EXCEPT ![p] = historyId]
  /\ UNCHANGED <<gmailVars, stateRow, rawVars, mode, start, newestFirst, hand,
                 drainVars, faults>>

\* No cursor yet, a forced sync, or history.list answered 404.
ListRecent(p) ==
  /\ pc[p] = "list"
  /\ ListWithHistory(p) => start[p] < floor
  /\ pc' = [pc EXCEPT ![p] = "next"]
  /\ todo' = [todo EXCEPT ![p] = Slice(Recent, Limit, TRUE)]
  /\ newestFirst' = [newestFirst EXCEPT ![p] = TRUE]
  /\ UNCHANGED <<gmailVars, stateRow, rawVars, mode, start, hand, latest,
                 drainVars, faults>>

\* for message_id in message_ids[...]
IsNext(p, m) ==
  /\ pc[p] = "next" /\ m \in todo[p]
  /\ \A k \in todo[p] : ~Precedes(k, m, newestFirst[p])

\* Mutant: only failed emails are skipped.
HandledIfFailed(m) == raw[m] = "failed"

Handled(m) == raw[m] \in {"done", "failed"}

Dedup(p, m) ==
  /\ IsNext(p, m) /\ Handled(m)
  /\ todo' = [todo EXCEPT ![p] = @ \ {m}]
  /\ latest' = [latest EXCEPT ![p] = NewerHistoryId(@, rawHistory[m])]
  /\ UNCHANGED <<gmailVars, stateRow, rawVars, pc, mode, start, newestFirst,
                 hand, drainVars, faults>>

Take(p, m) ==
  /\ IsNext(p, m) /\ ~Handled(m)
  /\ pc' = [pc EXCEPT ![p] = "fetch"]
  /\ todo' = [todo EXCEPT ![p] = @ \ {m}]
  /\ hand' = [hand EXCEPT ![p] = {m}]
  /\ UNCHANGED <<gmailVars, stateRow, rawVars, mode, start, newestFirst, latest,
                 drainVars, faults>>

\* The loop is done with the message in hand.
PutDown(p) ==
  /\ pc' = [pc EXCEPT ![p] = "next"]
  /\ hand' = [hand EXCEPT ![p] = {}]
  /\ UNCHANGED <<mode, start, todo, newestFirst>>

\* fetch_message, then store_raw_email: update_or_create keeps parse_status.
\* Nothing is read between the answer and the transaction.
FetchAndStore(p, m) ==
  /\ pc[p] = "fetch" /\ m \in hand[p] /\ InMailbox(m)
  /\ raw' = [raw EXCEPT ![m] = IF @ = "absent" THEN "pending" ELSE @]
  /\ rawHistory' = [rawHistory EXCEPT ![m] = touchedAt[m]]
  /\ latest' = [latest EXCEPT ![p] = NewerHistoryId(@, touchedAt[m])]
  /\ IF mode[p].inline
     THEN /\ pc' = [pc EXCEPT ![p] = "process"]
          /\ UNCHANGED <<mode, start, todo, newestFirst, hand>>
     ELSE PutDown(p)
  /\ UNCHANGED <<gmailVars, stateRow, applied, drainVars, faults>>

\* messages.get answered 404: the message is skipped.
FetchGone(p, m) ==
  /\ pc[p] = "fetch" /\ m \in hand[p] /\ m \in gone
  /\ PutDown(p)
  /\ UNCHANGED <<gmailVars, stateRow, rawVars, latest, drainVars, faults>>

\* Mutant: the status is not saved with the booking.
ApplyWithoutStatus(m) ==
  /\ applied' = [applied EXCEPT ![m] = @ + 1]
  /\ UNCHANGED <<raw, rawHistory>>

\* process_raw_email is one transaction under the raw row's lock; it does
\* not look at the status it finds.
Apply(m) ==
  /\ raw' = [raw EXCEPT ![m] = "done"]
  /\ applied' = [applied EXCEPT ![m] = @ + 1]
  /\ UNCHANGED rawHistory

Process(p, m) ==
  /\ pc[p] = "process" /\ m \in hand[p]
  /\ Apply(m)
  /\ PutDown(p)
  /\ UNCHANGED <<gmailVars, stateRow, latest, drainVars, faults>>

\* Mutant: what was done before the exception stays.
ProcessRaisesAfterCommit(p, m) ==
  /\ pc[p] = "process" /\ m \in hand[p]
  /\ Apply(m)
  /\ pc' = [pc EXCEPT ![p] = "mark"]
  /\ UNCHANGED <<gmailVars, stateRow, mode, start, todo, newestFirst, hand,
                 latest, drainVars, faults>>

\* The transaction rolls back; the status is written in another one.
ProcessRaises(p, m) ==
  /\ pc[p] = "process" /\ m \in hand[p]
  /\ pc' = [pc EXCEPT ![p] = "mark"]
  /\ UNCHANGED <<gmailVars, stateRow, rawVars, mode, start, todo, newestFirst,
                 hand, latest, drainVars, faults>>

\* Mutants: a status outside ParseStatus; no status at all.
FailWithText(m) == raw' = [raw EXCEPT ![m] = "error"] /\ UNCHANGED <<rawHistory, applied>>

FailWithoutStatus(m) == UNCHANGED rawVars

\* mark_raw_email_failed
Fail(m) ==
  /\ raw' = [raw EXCEPT ![m] = "failed"]
  /\ UNCHANGED <<rawHistory, applied>>

MarkFailed(p, m) ==
  /\ pc[p] = "mark" /\ m \in hand[p]
  /\ Fail(m)
  /\ PutDown(p)
  /\ UNCHANGED <<gmailVars, stateRow, latest, drainVars, faults>>

\* Mutant: the mailbox's newest record, asked for when the cycle ends.
NewCursorOfMailbox(p) == historyId

\* What the cycle writes to latest_history_id when it ends.
NewCursor(p) == IF latest[p] # 0 THEN latest[p] ELSE start[p]

SaveCursor(p) ==
  /\ pc[p] = "next" /\ todo[p] = {}
  /\ cursor' = NewCursor(p)
  /\ pc' = [pc EXCEPT ![p] = "release"]
  /\ UNCHANGED <<gmailVars, lock, lockStale, rawVars, mode, start, todo,
                 newestFirst, hand, latest, drainVars, faults>>

\* Any exception inside the try: last_error is written, the loop goes on.
Abort(p) ==
  /\ pc[p] \in {"read", "list", "next", "fetch", "mark"} /\ faults < MaxFaults
  /\ faults' = faults + 1
  /\ pc' = [pc EXCEPT ![p] = "release"]
  /\ todo' = [todo EXCEPT ![p] = {}]
  /\ hand' = [hand EXCEPT ![p] = {}]
  /\ UNCHANGED <<gmailVars, stateRow, rawVars, mode, start, newestFirst, latest,
                 drainVars>>

\* The process dies; its lock stays until it is stale.
Crash(p) ==
  /\ pc[p] # "idle" /\ faults < MaxFaults
  /\ faults' = faults + 1
  /\ Forget(p)
  /\ UNCHANGED <<gmailVars, stateRow, rawVars, drainVars>>

-----------------------------------------------------------------------------
(* process_pending_emails.                                                 *)

Pending == {m \in Messages : raw[m] = "pending"}

\* The queryset is evaluated once, ordered by received_at, with an optional
\* limit.
DrainStart ==
  /\ Drains /\ batch = {} /\ failing = {} /\ Pending # {}
  /\ \E n \in 1..Cardinality(Pending) : batch' = Slice(Pending, n, FALSE)
  /\ UNCHANGED <<gmailVars, stateRow, rawVars, cycleVars, failing, faults>>

NextInBatch(m) ==
  /\ failing = {} /\ m \in batch
  /\ \A k \in batch : ~Precedes(k, m, FALSE)

DrainProcess(m) ==
  /\ NextInBatch(m)
  /\ Apply(m)
  /\ batch' = batch \ {m}
  /\ UNCHANGED <<gmailVars, stateRow, cycleVars, failing, faults>>

DrainRaises(m) ==
  /\ NextInBatch(m)
  /\ batch' = batch \ {m} /\ failing' = {m}
  /\ UNCHANGED <<gmailVars, stateRow, rawVars, cycleVars, faults>>

DrainMarkFailed(m) ==
  /\ m \in failing
  /\ Fail(m)
  /\ failing' = {}
  /\ UNCHANGED <<gmailVars, stateRow, cycleVars, batch, faults>>

DrainCrash ==
  /\ batch \cup failing # {} /\ faults < MaxFaults
  /\ faults' = faults + 1
  /\ batch' = {} /\ failing' = {}
  /\ UNCHANGED <<gmailVars, stateRow, rawVars, cycleVars>>

-----------------------------------------------------------------------------
Gmail ==
  \/ \E m \in Messages : Arrive(m) \/ Relabel(m) \/ Delete(m)
  \/ ExpireHistory

\* The steps poll_gmail_once takes by itself.
CycleStep(p) ==
  \/ AcquireLock(p) \/ ReadCursor(p) \/ ListHistory(p) \/ ListRecent(p)
  \/ \E m \in Messages :
       \/ Dedup(p, m) \/ Take(p, m) \/ FetchAndStore(p, m) \/ FetchGone(p, m)
       \/ Process(p, m) \/ ProcessRaises(p, m) \/ MarkFailed(p, m)
  \/ SaveCursor(p) \/ ReleaseLock(p)

DrainStep ==
  \/ DrainStart
  \/ \E m \in Messages : DrainProcess(m) \/ DrainRaises(m) \/ DrainMarkFailed(m)

Fault == DrainCrash \/ \E p \in Pollers : Abort(p) \/ Crash(p)

Next ==
  \/ Gmail
  \/ LockGoesStale
  \/ \E p \in Pollers : CycleStep(p)
  \/ DrainStep
  \/ Fault

Spec == Init /\ [][Next]_vars

\* The loop restarts a cycle every minute and the container restarts a dead
\* poller; time makes an abandoned lock stale; the command is run regularly
\* where it is used at all.
Fairness ==
  /\ \A p \in Pollers : WF_vars(CycleStep(p))
  /\ WF_vars(LockGoesStale)
  /\ WF_vars(DrainStep)

FairSpec == Spec /\ Fairness

-----------------------------------------------------------------------------
(* Properties.                                                             *)

PC == {"idle", "read", "list", "next", "fetch", "process", "mark", "release"}

ModeType == [recent : BOOLEAN, inline : BOOLEAN]

\* Every variable has its type.
TypeOK ==
  /\ historyId \in Nat /\ floor \in Nat
  /\ addedAt \in [Messages -> Nat] /\ touchedAt \in [Messages -> Nat]
  /\ gone \subseteq Messages
  /\ cursor \in Nat /\ lock \in Pollers \cup {NoOne} /\ lockStale \in BOOLEAN
  /\ raw \in [Messages -> {"absent", "pending", "done", "failed"}]
  /\ rawHistory \in [Messages -> Nat] /\ applied \in [Messages -> Nat]
  /\ pc \in [Pollers -> PC] /\ mode \in [Pollers -> ModeType]
  /\ start \in [Pollers -> Nat] /\ latest \in [Pollers -> Nat]
  /\ todo \in [Pollers -> SUBSET Messages] /\ hand \in [Pollers -> SUBSET Messages]
  /\ newestFirst \in [Pollers -> BOOLEAN]
  /\ batch \subseteq Messages /\ failing \subseteq Messages
  /\ faults \in Nat

\* Nothing behind the cursor is missing: when latest_history_id has passed
\* the record that added a message, the message is stored, unless it was
\* deleted first.  The next history.list starts after the cursor, so a
\* message behind it that has no RawEmail row is never listed again.
NothingLostBehindCursor ==
  \A m \in Messages : InMailbox(m) /\ addedAt[m] <= cursor => raw[m] # "absent"

\* One cycle at a time: a process inside poll_gmail_once holds the lock.
CycleHoldsLock == \A p \in Pollers : pc[p] # "idle" => lock = p

\* Each email is applied to the bookings at most once, whatever crashes,
\* aborted cycles and repeated listings happen in between.
AppliedAtMostOnce == \A m \in Messages : applied[m] <= 1

\* A committed result is final for the poller: an email whose transaction
\* committed is never marked failed by a cycle working from a stale row.
AppliedNeverFailed == \A m \in Messages : applied[m] > 0 => raw[m] = "done"

\* Every message that stays in the mailbox is eventually stored and settled.
EveryMessageSettled ==
  \A m \in Messages : InMailbox(m) ~> Handled(m) \/ m \in gone

\* A lock left by a dead process does not stop polling: whatever happened,
\* cycles reach their end and save the cursor again and again.
PollingGoesOn == []<><<\E p \in Pollers : SaveCursor(p)>>_vars

=============================================================================
