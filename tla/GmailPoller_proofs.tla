------------------------- MODULE GmailPoller_proofs -------------------------
(***************************************************************************)
(* Proofs about the poller, for any set of messages and pollers, the last  *)
(* of them that it implements MailMirror.                                  *)
(***************************************************************************)
EXTENDS GmailPollerMirror, FiniteSetTheorems, TLAPS

-----------------------------------------------------------------------------
(* Lemmas about listing.                                                   *)

\* A slice never contains anything Gmail did not list.
LEMMA SliceSubset ==
  ASSUME NEW S, NEW n, NEW b
  PROVE  Slice(S, n, b) \subseteq S
BY DEF Slice

\* With a limit as large as the mailbox the slice is the whole list.
LEMMA SliceComplete ==
  ASSUME NEW S \in SUBSET Messages, NEW b \in BOOLEAN,
         addedAt \in [Messages -> Nat],
         Limit >= Cardinality(Messages)
  PROVE  Slice(S, Limit, b) = S
<1>1. SUFFICES ASSUME NEW m \in S
               PROVE  Cardinality({k \in S : Precedes(k, m, b)}) < Limit
  BY DEF Slice
<1> DEFINE Before == {k \in S : Precedes(k, m, b)}
<1>2. m \notin Before
  BY DEF Precedes
<1>3. Before \subseteq Messages \ {m}
  BY <1>2
<1>4. /\ IsFiniteSet(Messages \ {m})
      /\ Cardinality(Messages \ {m}) = Cardinality(Messages) - 1
  BY FiniteMessages, FS_RemoveElement
<1>5. Cardinality(Before) <= Cardinality(Messages \ {m})
  BY <1>3, <1>4, FS_Subset
<1>6. Cardinality(Before) \in Nat /\ Cardinality(Messages) \in Nat
  BY <1>3, <1>4, FS_Subset, FS_CardinalityType, FiniteMessages
<1> QED
  BY <1>4, <1>5, <1>6, PollerAssumption

LEMMA ListsComplete ==
  ASSUME addedAt \in [Messages -> Nat], Limit >= Cardinality(Messages)
  PROVE  /\ \A h : Slice(HistorySince(h), Limit, FALSE) = HistorySince(h)
         /\ Slice(Recent, Limit, TRUE) = Recent
<1>1. /\ \A h : HistorySince(h) \in SUBSET Messages
      /\ Recent \in SUBSET Messages
      /\ FALSE \in BOOLEAN /\ TRUE \in BOOLEAN
  BY DEF HistorySince, Recent
<1> QED BY <1>1, SliceComplete, Zenon

-----------------------------------------------------------------------------
(* Type correctness.                                                       *)

\* Every reachable state is well typed.
THEOREM TypeCorrect == Spec => []TypeOK
<1>1. Init => TypeOK
  <2> SUFFICES ASSUME Init PROVE TypeOK
    OBVIOUS
  <2>1. AnyMode \in ModeType
    BY DEF AnyMode, ModeType
  <2>2. mode \in [Pollers -> ModeType]
    BY <2>1 DEF Init
  <2>3. /\ pc \in [Pollers -> PC] /\ newestFirst \in [Pollers -> BOOLEAN]
        /\ lock \in Pollers \cup {NoOne} /\ lockStale \in BOOLEAN
        /\ raw \in [Messages -> {"absent", "pending", "done", "failed"}]
    BY DEF Init, PC
  <2>4. /\ todo \in [Pollers -> SUBSET Messages]
        /\ hand \in [Pollers -> SUBSET Messages]
    BY DEF Init
  <2> QED BY <2>2, <2>3, <2>4 DEF Init, TypeOK
<1>2. TypeOK /\ [Next]_vars => TypeOK'
  <2> SUFFICES ASSUME TypeOK, [Next]_vars PROVE TypeOK'
    OBVIOUS
  <2> USE PollerAssumption
  <2>1. CASE Gmail
    <3>1. ASSUME NEW m \in Messages, Arrive(m) \/ Relabel(m) \/ Delete(m)
          PROVE  TypeOK'
      BY <3>1 DEF Arrive, Relabel, Delete, InMailbox, TypeOK,
           stateRow, rawVars, cycleVars, drainVars
    <3>2. CASE ExpireHistory
      BY <3>2 DEF ExpireHistory, TypeOK, stateRow, rawVars, cycleVars, drainVars
    <3> QED BY <2>1, <3>1, <3>2 DEF Gmail
  <2>2. CASE LockGoesStale
    BY <2>2 DEF LockGoesStale, TypeOK, gmailVars, rawVars, cycleVars, drainVars
  <2>3. ASSUME NEW p \in Pollers, CycleStep(p) PROVE TypeOK'
    <3> USE DEF TypeOK, PC, gmailVars, stateRow, rawVars, drainVars
    <3>1. CASE AcquireLock(p)
      BY <3>1 DEF AcquireLock, ModeType
    <3>2. CASE ReadCursor(p)
      BY <3>2 DEF ReadCursor
    <3>3. CASE ListHistory(p)
      <4>1. Slice(HistorySince(start[p]), Limit, FALSE) \subseteq Messages
        BY SliceSubset DEF HistorySince
      <4> QED BY <3>3, <4>1 DEF ListHistory
    <3>4. CASE ListRecent(p)
      <4>1. Slice(Recent, Limit, TRUE) \subseteq Messages
        BY SliceSubset DEF Recent
      <4> QED BY <3>4, <4>1 DEF ListRecent
    <3>5. ASSUME NEW m \in Messages, Dedup(p, m) PROVE TypeOK'
      BY <3>5 DEF Dedup, NewerHistoryId
    <3>6. ASSUME NEW m \in Messages, Take(p, m) PROVE TypeOK'
      BY <3>6 DEF Take
    <3>7. ASSUME NEW m \in Messages, FetchAndStore(p, m) PROVE TypeOK'
      BY <3>7 DEF FetchAndStore, NewerHistoryId, PutDown
    <3>8. ASSUME NEW m \in Messages, FetchGone(p, m) PROVE TypeOK'
      BY <3>8 DEF FetchGone, PutDown
    <3>9. ASSUME NEW m \in Messages, Process(p, m) PROVE TypeOK'
      BY <3>9 DEF Process, Apply, PutDown
    <3>10. ASSUME NEW m \in Messages, ProcessRaises(p, m) PROVE TypeOK'
      BY <3>10 DEF ProcessRaises
    <3>11. ASSUME NEW m \in Messages, MarkFailed(p, m) PROVE TypeOK'
      BY <3>11 DEF MarkFailed, Fail, PutDown
    <3>12. CASE SaveCursor(p)
      BY <3>12 DEF SaveCursor, NewCursor
    <3>13. CASE ReleaseLock(p)
      BY <3>13 DEF ReleaseLock, Forget, ModeType, AnyMode
    <3> QED
      BY <2>3, <3>1, <3>2, <3>3, <3>4, <3>5, <3>6, <3>7, <3>8, <3>9, <3>10,
         <3>11, <3>12, <3>13 DEF CycleStep
  <2>4. CASE DrainStep
    <3> USE DEF TypeOK, gmailVars, stateRow, rawVars, cycleVars
    <3>1. CASE DrainStart
      <4>1. \A n : Slice(Pending, n, FALSE) \subseteq Messages
        BY SliceSubset DEF Pending
      <4> QED BY <3>1, <4>1 DEF DrainStart
    <3>2. ASSUME NEW m \in Messages, DrainProcess(m) PROVE TypeOK'
      BY <3>2 DEF DrainProcess, Apply
    <3>3. ASSUME NEW m \in Messages, DrainRaises(m) PROVE TypeOK'
      BY <3>3 DEF DrainRaises
    <3>4. ASSUME NEW m \in Messages, DrainMarkFailed(m) PROVE TypeOK'
      BY <3>4 DEF DrainMarkFailed, Fail
    <3> QED BY <2>4, <3>1, <3>2, <3>3, <3>4 DEF DrainStep
  <2>5. CASE Fault
    <3> USE DEF TypeOK, PC, gmailVars, stateRow, rawVars, drainVars
    <3>1. CASE DrainCrash
      BY <3>1 DEF DrainCrash, cycleVars
    <3>2. ASSUME NEW p \in Pollers, Abort(p) PROVE TypeOK'
      BY <3>2 DEF Abort
    <3>3. ASSUME NEW p \in Pollers, Crash(p) PROVE TypeOK'
      BY <3>3 DEF Crash, Forget, ModeType, AnyMode
    <3> QED BY <2>5, <3>1, <3>2, <3>3 DEF Fault
  <2>6. CASE UNCHANGED vars
    BY <2>6 DEF TypeOK, vars, gmailVars, stateRow, rawVars, cycleVars, drainVars
  <2> QED BY <2>1, <2>2, <2>3, <2>4, <2>5, <2>6 DEF Next
<1> QED BY <1>1, <1>2, PTL DEF Spec

-----------------------------------------------------------------------------
(* Mutual exclusion.                                                       *)

\* A running cycle holds a fresh lock; a stale lock belongs to no cycle.
FreshLock == \A p \in Pollers : pc[p] # "idle" => lock = p /\ ~lockStale

LEMMA FreshLockInductive ==
  ASSUME ~SlowCycles, TypeOK, FreshLock, [Next]_vars
  PROVE  FreshLock'
<1> USE PollerAssumption DEF FreshLock, TypeOK, PC
<1>1. CASE Gmail
  BY <1>1 DEF Gmail, Arrive, Relabel, Delete, ExpireHistory, stateRow, cycleVars
<1>2. CASE LockGoesStale
  BY <1>2 DEF LockGoesStale, cycleVars
<1>3. ASSUME NEW p \in Pollers, CycleStep(p) PROVE FreshLock'
  <2>1. CASE AcquireLock(p)
    BY <2>1 DEF AcquireLock
  <2>2. CASE ReleaseLock(p)
    BY <2>2 DEF ReleaseLock, Forget
  <2>3. CASE ReadCursor(p) \/ ListHistory(p) \/ ListRecent(p) \/ SaveCursor(p)
    BY <2>3 DEF ReadCursor, ListHistory, ListRecent, SaveCursor, stateRow
  <2>4. ASSUME NEW m \in Messages,
               \/ Dedup(p, m) \/ Take(p, m) \/ FetchAndStore(p, m) \/ FetchGone(p, m)
               \/ Process(p, m) \/ ProcessRaises(p, m) \/ MarkFailed(p, m)
        PROVE  FreshLock'
    BY <2>4 DEF Dedup, Take, IsNext, FetchAndStore, FetchGone, Process, ProcessRaises,
                MarkFailed, PutDown, stateRow
  <2> QED BY <1>3, <2>1, <2>2, <2>3, <2>4 DEF CycleStep
<1>4. CASE DrainStep
  BY <1>4 DEF DrainStep, DrainStart, DrainProcess, DrainRaises, DrainMarkFailed,
              stateRow, cycleVars
<1>5. CASE Fault
  BY <1>5 DEF Fault, DrainCrash, Abort, Crash, Forget, stateRow, cycleVars
<1>6. CASE UNCHANGED vars
  BY <1>6 DEF vars, stateRow, cycleVars
<1> QED BY <1>1, <1>2, <1>3, <1>4, <1>5, <1>6 DEF Next

\* When no live cycle outlasts LOCK_STALE_AFTER, two cycles never overlap:
\* any number of pollers, crashes and takeovers of abandoned locks included.
THEOREM OneCycleAtATime == ~SlowCycles => (Spec => []CycleHoldsLock)
<1> SUFFICES ASSUME ~SlowCycles PROVE Spec => []CycleHoldsLock
  OBVIOUS
<1>1. Init => FreshLock
  BY DEF Init, FreshLock
<1>2. TypeOK /\ FreshLock /\ [Next]_vars => FreshLock'
  BY FreshLockInductive
<1>3. FreshLock => CycleHoldsLock
  BY DEF FreshLock, CycleHoldsLock
<1> QED BY <1>1, <1>2, <1>3, TypeCorrect, PTL DEF Spec

-----------------------------------------------------------------------------
(* Each email is applied once.                                             *)

\* While a cycle holds an unsettled message nobody else settles it, and an
\* unsettled message has not been applied.
Unapplied(m) == applied[m] = 0 /\ raw[m] # "done"

OnceInv ==
  /\ \A p \in Pollers : pc[p] \in {"fetch", "process", "mark"} =>
       \A m \in hand[p] :
         /\ applied[m] = 0
         /\ raw[m] = "pending" \/ (raw[m] = "absent" /\ pc[p] = "fetch")
  /\ \A p \in Pollers : \A k, m \in hand[p] : k = m
  /\ \A m \in Messages : Unapplied(m) \/ (applied[m] = 1 /\ raw[m] = "done")
  /\ batch = {} /\ failing = {}

LEMMA OnceInductive ==
  ASSUME ~SlowCycles, ~Drains, TypeOK, FreshLock, OnceInv, [Next]_vars
  PROVE  OnceInv'
<1> USE PollerAssumption DEF OnceInv, Unapplied, FreshLock, TypeOK, PC
<1>1. CASE Gmail
  BY <1>1 DEF Gmail, Arrive, Relabel, Delete, ExpireHistory, rawVars, cycleVars, drainVars
<1>2. CASE LockGoesStale
  BY <1>2 DEF LockGoesStale, rawVars, cycleVars, drainVars
<1>3. ASSUME NEW p \in Pollers, CycleStep(p) PROVE OnceInv'
  <2> USE DEF rawVars, drainVars
  <2>1. CASE AcquireLock(p) \/ ReadCursor(p)
    BY <2>1 DEF AcquireLock, ReadCursor
  <2>2. CASE ReleaseLock(p)
    BY <2>2 DEF ReleaseLock, Forget
  <2>7. CASE ListHistory(p) \/ ListRecent(p) \/ SaveCursor(p)
    <3>1. UNCHANGED <<rawVars, drainVars, hand>>
      BY <2>7 DEF ListHistory, ListRecent, SaveCursor
    <3>2. pc' = [pc EXCEPT ![p] = "next"] \/ pc' = [pc EXCEPT ![p] = "release"]
      BY <2>7 DEF ListHistory, ListRecent, SaveCursor
    <3> QED BY <3>1, <3>2
  <2>3. ASSUME NEW m \in Messages, Dedup(p, m) \/ Take(p, m) PROVE OnceInv'
    BY <2>3 DEF Dedup, Take, IsNext, Handled
  <2>4. ASSUME NEW m \in Messages, FetchAndStore(p, m) PROVE OnceInv'
    BY <2>4 DEF FetchAndStore, PutDown
  <2>5. ASSUME NEW m \in Messages, FetchGone(p, m) \/ ProcessRaises(p, m)
        PROVE  OnceInv'
    BY <2>5 DEF FetchGone, ProcessRaises, PutDown
  <2>6. ASSUME NEW m \in Messages, Process(p, m) \/ MarkFailed(p, m)
        PROVE  OnceInv'
    <3>1. \A q \in Pollers : q # p => pc'[q] = "idle"
      BY <2>6 DEF Process, MarkFailed, PutDown
    <3>2. Unapplied(m)
      BY <2>6 DEF Process, MarkFailed
    <3> QED BY <2>6, <3>1, <3>2 DEF Process, MarkFailed, Apply, Fail, PutDown
  <2> QED BY <1>3, <2>1, <2>2, <2>3, <2>4, <2>5, <2>6, <2>7 DEF CycleStep
<1>4. CASE DrainStep
  BY <1>4 DEF DrainStep, DrainStart, DrainProcess, DrainRaises, DrainMarkFailed,
              NextInBatch
<1>5. CASE Fault
  BY <1>5 DEF Fault, DrainCrash, Abort, Crash, Forget, rawVars, cycleVars, drainVars
<1>6. CASE UNCHANGED vars
  BY <1>6 DEF vars, rawVars, cycleVars, drainVars
<1> QED BY <1>1, <1>2, <1>3, <1>4, <1>5, <1>6 DEF Next

LEMMA OnceInvariant == ~SlowCycles /\ ~Drains => (Spec => []OnceInv)
<1> SUFFICES ASSUME ~SlowCycles, ~Drains PROVE Spec => []OnceInv
  OBVIOUS
<1>1. Init => FreshLock /\ OnceInv
  BY DEF Init, FreshLock, OnceInv, Unapplied
<1>2. TypeOK /\ FreshLock /\ OnceInv /\ [Next]_vars => FreshLock' /\ OnceInv'
  BY FreshLockInductive, OnceInductive
<1> QED BY <1>1, <1>2, TypeCorrect, PTL DEF Spec

\* With cycles that finish in time and only the poller processing emails,
\* every email is applied to the bookings at most once.
THEOREM AppliedOnce == ~SlowCycles /\ ~Drains => (Spec => []AppliedAtMostOnce)
<1>1. OnceInv => AppliedAtMostOnce
  BY DEF OnceInv, Unapplied, AppliedAtMostOnce
<1> QED BY <1>1, OnceInvariant, PTL

\* ... and a committed result is never replaced by a failure.
THEOREM AppliedStays == ~SlowCycles /\ ~Drains => (Spec => []AppliedNeverFailed)
<1>1. OnceInv => AppliedNeverFailed
  BY DEF OnceInv, Unapplied, AppliedNeverFailed
<1> QED BY <1>1, OnceInvariant, PTL

-----------------------------------------------------------------------------
(* Nothing is lost behind the cursor.                                      *)

Stored(m) == raw[m] # "absent"

\* What Gmail's numbering gives when messages are not changed afterwards.
HistoryInv ==
  /\ cursor <= historyId
  /\ \A m \in Messages :
       /\ addedAt[m] <= historyId /\ touchedAt[m] = addedAt[m]
       /\ Stored(m) => rawHistory[m] = addedAt[m] /\ addedAt[m] > 0
       /\ m \in batch \cup failing => Stored(m)
  /\ \A p \in Pollers :
       /\ start[p] <= historyId /\ latest[p] <= historyId
       /\ \A k \in todo[p] \cup hand[p] : addedAt[k] > 0

\* What a cycle still has to store.
Work(p) == todo[p] \cup hand[p]

\* What the shape of a cycle guarantees at each of its steps.
CycleShape ==
  \A p \in Pollers :
    /\ pc[p] \in {"idle", "read", "list"} => latest[p] = 0 /\ Work(p) = {}
    /\ pc[p] = "next" => hand[p] = {}
    /\ pc[p] \in {"process", "mark"} => \A m \in hand[p] : Stored(m)
    /\ \A k, m \in hand[p] : k = m

InLoop(p) == pc[p] \in {"next", "fetch", "process", "mark"}

\* Up to the id a cycle would write, and up to any message it still has to
\* handle, everything is stored or listed.
CoverInv ==
  /\ \A m \in Messages : InMailbox(m) /\ addedAt[m] <= cursor => Stored(m)
  /\ \A p \in Pollers, m \in Messages : InMailbox(m) =>
       /\ addedAt[m] <= start[p] => Stored(m)
       /\ InLoop(p) /\ addedAt[m] <= latest[p] => Stored(m) \/ m \in Work(p)
       /\ InLoop(p) => \A k \in Work(p) :
            addedAt[m] <= addedAt[k] => Stored(m) \/ m \in Work(p)

CursorInv == HistoryInv /\ CycleShape /\ CoverInv

\* Storing more never hurts.
LEMMA CoverStable ==
  ASSUME CoverInv, UNCHANGED <<gmailVars, stateRow, cycleVars>>,
         \A k \in Messages : Stored(k) <=> Stored(k)'
  PROVE  CoverInv'
BY DEF CoverInv, InMailbox, InLoop, Work, gmailVars, stateRow, cycleVars

\* The three parts of the invariant, one action at a time.
LEMMA CursorInductive ==
  ASSUME ~Relabels, Limit >= Cardinality(Messages),
         TypeOK, CursorInv, [Next]_vars
  PROVE  CursorInv'
<1> USE PollerAssumption
    DEF CursorInv, HistoryInv, CycleShape, CoverInv, TypeOK, PC, Stored, Work,
        InLoop, InMailbox
<1>1. ASSUME NEW m \in Messages, Arrive(m) PROVE CursorInv'
  BY <1>1 DEF Arrive, stateRow, rawVars, cycleVars, drainVars
<1>2. CASE (\E m \in Messages : Relabel(m) \/ Delete(m)) \/ ExpireHistory \/ LockGoesStale
  BY <1>2 DEF Relabel, Delete, ExpireHistory, LockGoesStale, gmailVars, stateRow,
              rawVars, cycleVars, drainVars
<1>3. ASSUME NEW p \in Pollers, CycleStep(p) PROVE CursorInv'
  <2> USE DEF gmailVars, stateRow, rawVars, drainVars
  <2>1. CASE AcquireLock(p)
    BY <2>1 DEF AcquireLock
  <2>2. CASE ReadCursor(p)
    BY <2>2 DEF ReadCursor
  <2>3. CASE ListHistory(p)
    <3>1. todo'[p] = HistorySince(start[p])
      BY <2>3, ListsComplete DEF ListHistory
    <3>2. \A m \in Messages : m \in todo'[p] <=> addedAt[m] > start[p]
      BY <3>1 DEF HistorySince
    <3>3. todo'[p] \subseteq Messages
      BY <3>1 DEF HistorySince
    <3>4. /\ pc[p] = "list" /\ pc' = [pc EXCEPT ![p] = "next"]
          /\ latest' = [latest EXCEPT ![p] = historyId]
          /\ \A q \in Pollers \ {p} : todo'[q] = todo[q]
          /\ UNCHANGED <<gmailVars, stateRow, rawVars, start, hand, drainVars>>
      BY <2>3 DEF ListHistory
    <3>5. HistoryInv'
      BY <3>2, <3>3, <3>4
    <3>6. CycleShape'
      BY <2>3, <3>4 DEF ListHistory
    <3>7. CoverInv'
      BY <3>2, <3>3, <3>4
    <3> QED BY <3>5, <3>6, <3>7
  <2>4. CASE ListRecent(p)
    <3>1. todo'[p] = Recent
      BY <2>4, ListsComplete DEF ListRecent
    <3>7. HistoryInv'
      BY <2>4, <3>1 DEF ListRecent, Recent
    <3>8. CycleShape'
      BY <2>4, <3>1 DEF ListRecent, Recent
    <3>9. CoverInv'
      BY <2>4, <3>1 DEF ListRecent, Recent
    <3> QED BY <3>7, <3>8, <3>9
  <2>5. ASSUME NEW m \in Messages, Dedup(p, m) PROVE CursorInv'
    BY <2>5 DEF Dedup, IsNext, Handled, NewerHistoryId
  <2>6. ASSUME NEW m \in Messages, Take(p, m) PROVE CursorInv'
    BY <2>6 DEF Take, IsNext
  <2>7. ASSUME NEW m \in Messages, FetchAndStore(p, m) PROVE CursorInv'
    BY <2>7 DEF FetchAndStore, NewerHistoryId, PutDown
  <2>8. ASSUME NEW m \in Messages, FetchGone(p, m) PROVE CursorInv'
    BY <2>8 DEF FetchGone, PutDown
  <2>9. ASSUME NEW m \in Messages, Process(p, m) \/ MarkFailed(p, m)
        PROVE  CursorInv'
    <3>1. Stored(m) /\ \A k \in Messages : Stored(k)' <=> Stored(k)
      BY <2>9 DEF Process, MarkFailed, Apply, Fail
    <3>2. hand[p] = {m}
      BY <2>9 DEF Process, MarkFailed
    <3> QED BY <2>9, <3>1, <3>2, SMTT(60) DEF Process, MarkFailed, Apply, Fail, PutDown
  <2>10. ASSUME NEW m \in Messages, ProcessRaises(p, m) PROVE CursorInv'
    BY <2>10 DEF ProcessRaises
  <2>11. CASE SaveCursor(p)
    BY <2>11 DEF SaveCursor, NewCursor
  <2>12. CASE ReleaseLock(p)
    BY <2>12 DEF ReleaseLock, Forget
  <2> QED
    BY <1>3, <2>1, <2>2, <2>3, <2>4, <2>5, <2>6, <2>7, <2>8, <2>9, <2>10, <2>11,
       <2>12 DEF CycleStep
<1>4. CASE DrainStep
  <2> USE DEF gmailVars, stateRow, rawVars, cycleVars
  <2>1. CASE DrainStart
    <3>1. batch' \subseteq Pending
      BY <2>1, SliceSubset DEF DrainStart
    <3> QED BY <2>1, <3>1 DEF DrainStart, Pending
  <2>2. ASSUME NEW m \in Messages, DrainRaises(m) PROVE CursorInv'
    BY <2>2 DEF DrainRaises, NextInBatch
  <2>3. ASSUME NEW m \in Messages, DrainProcess(m) \/ DrainMarkFailed(m)
        PROVE  CursorInv'
    <3>1. \A k \in Messages : Stored(k)' <=> Stored(k)
      BY <2>3 DEF DrainProcess, DrainMarkFailed, NextInBatch, Apply, Fail
    <3>2. UNCHANGED <<gmailVars, stateRow, cycleVars, rawHistory>>
      BY <2>3 DEF DrainProcess, DrainMarkFailed, Apply, Fail
    <3>3. batch' \cup failing' \subseteq batch \cup failing
      BY <2>3 DEF DrainProcess, DrainMarkFailed
    <3>7. HistoryInv'
      BY <3>1, <3>2, <3>3
    <3>8. CycleShape'
      BY <3>1, <3>2
    <3>9. CoverInv'
      <4> HIDE DEF CoverInv, Stored, gmailVars, stateRow, cycleVars
      <4>1. CoverInv
        BY DEF CursorInv
      <4> QED BY <3>1, <3>2, <4>1, CoverStable
    <3> QED BY <3>7, <3>8, <3>9
  <2> QED BY <1>4, <2>1, <2>2, <2>3 DEF DrainStep
<1>5. CASE Fault
  <2> USE DEF gmailVars, stateRow, rawVars, drainVars
  <2>1. CASE DrainCrash
    BY <2>1 DEF DrainCrash, cycleVars
  <2>2. ASSUME NEW p \in Pollers, Abort(p) PROVE CursorInv'
    BY <2>2 DEF Abort
  <2>3. ASSUME NEW p \in Pollers, Crash(p) PROVE CursorInv'
    BY <2>3 DEF Crash, Forget
  <2> QED BY <1>5, <2>1, <2>2, <2>3 DEF Fault
<1>6. CASE UNCHANGED vars
  BY <1>6 DEF vars, gmailVars, stateRow, rawVars, cycleVars, drainVars
<1> QED BY <1>1, <1>2, <1>3, <1>4, <1>5, <1>6 DEF Next, Gmail

\* With a limit no listing exceeds and no later change of a message, the
\* cursor never passes a message that is not stored: any number of pollers,
\* with overlapping cycles, crashes, deletions and expired history.
THEOREM NothingLost ==
  ~Relabels /\ Limit >= Cardinality(Messages) => (Spec => []NothingLostBehindCursor)
<1> SUFFICES ASSUME ~Relabels, Limit >= Cardinality(Messages)
             PROVE  Spec => []NothingLostBehindCursor
  OBVIOUS
<1>1. Init => CursorInv
  BY DEF Init, CursorInv, HistoryInv, CycleShape, CoverInv, Work, Stored, InLoop, InMailbox
<1>2. TypeOK /\ CursorInv /\ [Next]_vars => CursorInv'
  BY CursorInductive
<1>3. CursorInv => NothingLostBehindCursor
  BY DEF CursorInv, CoverInv, Stored, NothingLostBehindCursor
<1> QED BY <1>1, <1>2, <1>3, TypeCorrect, PTL DEF Spec

-----------------------------------------------------------------------------
(* The poller implements MailMirror.                                       *)

\* Every step of the poller is a step of the abstract mirror or a stutter.
LEMMA MirrorStep ==
  ASSUME TypeOK, OnceInv, [Next]_vars, ~Drains
  PROVE  [Mirror!Next]_(Mirror!mirrorVars)
<1> USE DEF TypeOK, Mirror!mirrorVars, Handled
<1> DEFINE Same == UNCHANGED Mirror!mirrorVars
<1>1. ASSUME NEW m \in Messages, Arrive(m) PROVE Mirror!Deliver(m)
  BY <1>1 DEF Arrive, Mirror!Deliver, rawVars
<1>2. ASSUME NEW m \in Messages, Delete(m) PROVE Mirror!Withdraw(m)
  BY <1>2 DEF Delete, InMailbox, Mirror!Withdraw, rawVars
<1>3. CASE (\E m \in Messages : Relabel(m)) \/ ExpireHistory \/ LockGoesStale
  BY <1>3 DEF Relabel, ExpireHistory, LockGoesStale, gmailVars, rawVars
<1>4. ASSUME NEW p \in Pollers, CycleStep(p)
      PROVE  Same \/ \E m \in Messages : Mirror!Copy(m) \/ Mirror!Settle(m)
  <2>1. CASE \/ AcquireLock(p) \/ ReadCursor(p) \/ ListHistory(p) \/ ListRecent(p)
             \/ SaveCursor(p) \/ ReleaseLock(p)
    BY <2>1 DEF AcquireLock, ReadCursor, ListHistory, ListRecent, SaveCursor,
                ReleaseLock, gmailVars, rawVars
  <2>2. ASSUME NEW m \in Messages,
               Dedup(p, m) \/ Take(p, m) \/ FetchGone(p, m) \/ ProcessRaises(p, m)
        PROVE  Same
    BY <2>2 DEF Dedup, Take, FetchGone, ProcessRaises, gmailVars, rawVars
  <2>3. ASSUME NEW m \in Messages, FetchAndStore(p, m)
        PROVE  Same \/ Mirror!Copy(m)
    <3>1. raw[m] = "pending" \/ raw[m] = "absent"
      BY <2>3 DEF FetchAndStore, OnceInv
    <3>2. CASE raw[m] = "pending"
      BY <2>3, <3>2 DEF FetchAndStore, gmailVars
    <3>3. CASE raw[m] = "absent"
      BY <2>3, <3>3 DEF FetchAndStore, InMailbox, Mirror!Copy, gmailVars
    <3> QED BY <3>1, <3>2, <3>3
  <2>4. ASSUME NEW m \in Messages, Process(p, m) PROVE Mirror!Settle(m)
    <3>1. raw[m] = "pending"
      BY <2>4 DEF Process, OnceInv
    <3> QED BY <2>4, <3>1 DEF Process, Apply, Mirror!Settle, gmailVars
  <2>5. ASSUME NEW m \in Messages, MarkFailed(p, m) PROVE Mirror!Settle(m)
    <3>1. raw[m] = "pending"
      BY <2>5 DEF MarkFailed, OnceInv
    <3> QED BY <2>5, <3>1 DEF MarkFailed, Fail, Mirror!Settle, gmailVars
  <2> QED BY <1>4, <2>1, <2>2, <2>3, <2>4, <2>5 DEF CycleStep
<1>5. ~DrainStep
  BY DEF DrainStep, DrainStart, DrainProcess, DrainRaises, DrainMarkFailed,
         NextInBatch, OnceInv
<1>6. CASE Fault
  BY <1>6 DEF Fault, DrainCrash, Abort, Crash, gmailVars, rawVars
<1>7. CASE UNCHANGED vars
  BY <1>7 DEF vars, gmailVars, rawVars
<1> QED
  BY <1>1, <1>2, <1>3, <1>4, <1>5, <1>6, <1>7 DEF Next, Gmail, Mirror!Next

\* With cycles that finish in time and only the poller processing emails, the
\* poller is an implementation of the mirror.
THEOREM PollerImplementsMirror == ~SlowCycles /\ ~Drains => (Spec => ImplementsMirror)
<1> SUFFICES ASSUME ~SlowCycles, ~Drains PROVE Spec => ImplementsMirror
  OBVIOUS
<1>1. Init => Mirror!Init
  BY DEF Init, Mirror!Init, Handled
<1>2. TypeOK /\ OnceInv /\ [Next]_vars => [Mirror!Next]_(Mirror!mirrorVars)
  BY MirrorStep
<1>3. Spec => []OnceInv
  BY OnceInvariant
<1> QED BY <1>1, <1>2, <1>3, TypeCorrect, PTL DEF Spec, ImplementsMirror, Mirror!Spec

=============================================================================
