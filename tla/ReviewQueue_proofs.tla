------------------------- MODULE ReviewQueue_proofs -------------------------
(***************************************************************************)
(* Proofs about ReviewQueue, for any emails, bookings, builds and readings *)
(* of an email.  Items leave the queue in many ways and enter it in three: *)
(* a processing adds items of its own email, which it does not leave       *)
(* ignored, and a failure handler adds a parser error.                     *)
(***************************************************************************)
EXTENDS ReviewQueue, TLAPS

USE ReviewAssumption

-----------------------------------------------------------------------------
(* Type correctness.                                                       *)

LEMMA ReadingType ==
  ASSUME NEW e \in Emails, version \in Versions
  PROVE  LET r == Reading[e][version] IN
         /\ r.kind = "booking" =>
              /\ r.booking \in Bookings /\ r.gives \in SUBSET Data
              /\ r.sure \in BOOLEAN /\ r.cancels \in BOOLEAN
         /\ r.kind \in {"ignore", "undetected", "error", "noref", "booking"}
<1>. DEFINE r == Reading[e][version]
<1>1. r \in [kind : {"ignore", "undetected", "error", "noref"}]
            \cup [kind : {"booking"}, booking : Bookings, gives : SUBSET Data,
                  sure : BOOLEAN, cancels : BOOLEAN]
  OBVIOUS
<1>2. CASE r \in [kind : {"ignore", "undetected", "error", "noref"}]
  BY <1>2
<1>3. CASE r \in [kind : {"booking"}, booking : Bookings, gives : SUBSET Data,
                  sure : BOOLEAN, cancels : BOOLEAN]
  BY <1>3
<1>. QED BY <1>1, <1>2, <1>3

\* Closing items never leaves the sweep with one that is not open.
LEMMA LeaveType ==
  ASSUME NEW s, Leave(s), sweep \in [todo : SUBSET items, stale : SUBSET items]
  PROVE  items' = s /\ sweep' \in [todo : SUBSET s, stale : SUBSET s]
BY DEF Leave

\* A processing keeps the emails, rows, events and items well typed.
Kept ==
  /\ raw \in [Emails -> {"pending", "parsed", "needs_review", "failed", "ignored"}]
  /\ detected \subseteq Emails
  /\ row \in [Bookings -> Row \cup {None}]
  /\ events \subseteq (Emails \cup {Operator}) \X Bookings
  /\ \A ev \in events : row[ev[2]] # None
  /\ led \in [Emails -> Bookings \cup {None}]
  /\ \A e \in Emails : led[e] # None => <<e, led[e]>> \in events
  /\ items \subseteq Items
  /\ \A i \in items : i[2] # None => <<i[1], i[2]>> \in events
  /\ sweep \in [todo : SUBSET items, stale : SUBSET items]

LEMMA IgnoreKeeps ==
  ASSUME NEW e \in Emails, Kept, Ignore(e)
  PROVE  Kept'
<1>1. \A b \in FalseBookings(e) : row[b] \in Row
  BY DEF FalseBookings, BookingsOf, Kept
<1>2. row' \in [Bookings -> Row \cup {None}]
  BY <1>1 DEF Ignore, Kept, Row
<1>3. \A b \in Bookings : row[b] # None => row'[b] # None
  <2>. TAKE b \in Bookings
  <2>1. CASE b \in FalseBookings(e)
    <3>1. row'[b] = [row[b] EXCEPT !.status = "cancelled"]
      BY <2>1 DEF Ignore
    <3>2. row'[b] \in Row
      BY <1>1, <2>1, <3>1 DEF Row
    <3>. QED BY <3>1, <3>2 DEF Row
  <2>2. CASE b \notin FalseBookings(e)
    BY <2>2 DEF Ignore
  <2>. QED BY <2>1, <2>2
<1>4. items' = items \ ItemsOf(e) /\ sweep' \in [todo : SUBSET items', stale : SUBSET items']
  BY LeaveType DEF Ignore, Kept
<1>. QED BY <1>2, <1>3, <1>4 DEF Ignore, Kept

LEMMA UnreadKeeps ==
  ASSUME NEW e \in Emails, NEW kind \in {"undetected", "error", "noref"},
         Kept, Unread(e, kind)
  PROVE  Kept'
<1>. DEFINE x == CASE kind = "undetected" -> "provider"
                   [] kind = "noref" -> "reference" [] OTHER -> "error"
<1>1. x \in Issues
  BY DEF Issues
<1>2. <<e, None, x>> \in Items
  BY <1>1 DEF Items
<1>3. items' = items \cup {<<e, None, x>>}
  BY LeaveType DEF Unread, Kept
<1>4. sweep' \in [todo : SUBSET items', stale : SUBSET items']
  BY <1>3, LeaveType DEF Unread, Kept
<1>5. \A i \in items' : i[2] # None => <<i[1], i[2]>> \in events'
  BY <1>3 DEF Unread, Kept
<1>6. items' \subseteq Items
  BY <1>2, <1>3 DEF Kept
<1>7. raw' \in [Emails -> {"pending", "parsed", "needs_review", "failed", "ignored"}]
  BY DEF Unread, Kept
<1>8. led' \in [Emails -> Bookings \cup {None}]
  BY DEF Unread, Kept
<1>9. \A f \in Emails : led'[f] # None => <<f, led'[f]>> \in events'
  BY DEF Unread, Kept
<1>10. detected' \subseteq Emails
  BY DEF Unread, Kept
<1>. QED BY <1>4, <1>5, <1>6, <1>7, <1>8, <1>9, <1>10 DEF Unread, Kept

\* What a row becomes is a row, and cancelled stays cancelled.
LEMMA UpsertedRow ==
  ASSUME NEW e \in Emails, version \in Versions, Reading[e][version].kind = "booking",
         row \in [Bookings -> Row \cup {None}], alias \in BOOLEAN
  PROVE  LET r == Reading[e][version] IN
         /\ Upserted(r) \in Row
         /\ (row[r.booking] # None /\ ~r.cancels) =>
              Upserted(r).status = row[r.booking].status
<1>. DEFINE r == Reading[e][version]
            old == IF row[r.booking] = None
                   THEN [has |-> {}, mapped |-> FALSE, status |-> "active"]
                   ELSE row[r.booking]
<1>1. /\ r.booking \in Bookings /\ r.gives \in SUBSET Data /\ r.cancels \in BOOLEAN
  BY ReadingType
<1>2. old \in Row
  BY <1>1 DEF Row
<1>. HIDE DEF old
<1>3. Upserted(r) = [has |-> old.has \cup r.gives, mapped |-> old.mapped \/ alias,
                     status |-> IF r.cancels THEN "cancelled" ELSE old.status]
  BY DEF Upserted, old
<1>4. old.has \cup r.gives \in SUBSET Data
  BY <1>1, <1>2 DEF Row
<1>5. (old.mapped \/ alias) \in BOOLEAN
  OBVIOUS
<1>6. (IF r.cancels THEN "cancelled" ELSE old.status) \in {"active", "cancelled"}
  BY <1>2 DEF Row
<1>7. Upserted(r) \in Row
  BY <1>3, <1>4, <1>5, <1>6 DEF Row
<1>8. (row[r.booking] # None /\ ~r.cancels) => Upserted(r).status = row[r.booking].status
  BY <1>3 DEF old
<1>. QED BY <1>7, <1>8

LEMMA OpenedType ==
  ASSUME NEW e \in Emails, NEW r, r.booking \in Bookings, NEW new
  PROVE  \A i \in Opened(e, r, new) \cup Early(e, r) :
           i \in Items /\ i[1] = e /\ i[2] = r.booking
BY DEF Opened, Early, Items, Issues

LEMMA UpsertKeeps ==
  ASSUME NEW e \in Emails, Kept, version \in Versions, alias \in BOOLEAN,
         Reading[e][version].kind = "booking", Upsert(e, Reading[e][version])
  PROVE  Kept'
<1>. DEFINE r == Reading[e][version]
            b == r.booking
            new == Upserted(r)
<1>1. b \in Bookings /\ new \in Row
  BY ReadingType, UpsertedRow DEF Kept
<1>2. row' = [row EXCEPT ![b] = new] /\ events' = events \cup {<<e, b>>}
  BY DEF Upsert
<1>. HIDE DEF new
<1>3. new # None
  BY <1>1
<1>4. row' \in [Bookings -> Row \cup {None}] /\ \A c \in Bookings : row[c] # None => row'[c] # None
  BY <1>1, <1>2, <1>3 DEF Kept
<1>5. events' \subseteq (Emails \cup {Operator}) \X Bookings
  BY <1>1, <1>2 DEF Kept
<1>6. \A ev \in events' : row'[ev[2]] # None
  <2>. TAKE ev \in events'
  <2>1. CASE ev \in events
    BY <1>4, <2>1 DEF Kept
  <2>2. CASE ev = <<e, b>>
    BY <1>1, <1>2, <1>3, <2>2 DEF Kept
  <2>. QED BY <1>2, <2>1, <2>2
<1>7. /\ led' \in [Emails -> Bookings \cup {None}]
      /\ \A f \in Emails : led'[f] # None => <<f, led'[f]>> \in events'
  <2>1. led' = [led EXCEPT ![e] = b]
    BY DEF Upsert
  <2>. QED BY <1>1, <1>2, <2>1 DEF Kept
<1>8. PICK now : /\ now \subseteq items \cup Opened(e, r, new) \cup Early(e, r)
                 /\ Leave(now)
  BY DEF Upsert, new
<1>9. /\ items' = now
      /\ sweep' \in [todo : SUBSET items', stale : SUBSET items']
  BY <1>8, LeaveType DEF Kept
<1>10. /\ items' \subseteq Items
       /\ \A i \in items' : i[2] # None => <<i[1], i[2]>> \in events'
  <2>. SUFFICES ASSUME NEW i \in items'
                PROVE  i \in Items /\ (i[2] # None => <<i[1], i[2]>> \in events')
    OBVIOUS
  <2>1. CASE i \in items
    BY <1>2, <2>1 DEF Kept
  <2>2. CASE i \in Opened(e, r, new) \cup Early(e, r)
    <3>1. i \in Items /\ i[1] = e /\ i[2] = b
      BY <1>1, <2>2, OpenedType
    <3>. QED BY <1>2, <3>1
  <2>. QED BY <1>8, <1>9, <2>1, <2>2
<1>11. raw' \in [Emails -> {"pending", "parsed", "needs_review", "failed", "ignored"}]
  BY DEF Upsert, Kept
<1>12. detected' \subseteq Emails
  BY DEF Upsert, Kept
<1>. QED BY <1>4, <1>5, <1>6, <1>7, <1>9, <1>10, <1>11, <1>12 DEF Kept

LEMMA ProcessKeeps ==
  ASSUME NEW e \in Emails, Kept, version \in Versions, alias \in BOOLEAN, Process(e)
  PROVE  Kept'
<1>1. CASE Ignore(e)
  BY <1>1, IgnoreKeeps
<1>2. ASSUME NEW kind \in {"undetected", "error", "noref"}, Unread(e, kind)
      PROVE  Kept'
  BY <1>2, UnreadKeeps
<1>3. CASE Reading[e][version].kind = "booking" /\ Upsert(e, Reading[e][version])
  BY <1>3, UpsertKeeps
<1>. QED BY <1>1, <1>2, <1>3 DEF Process

LEMMA TypeInit == Init => TypeOK
<1>. SUFFICES ASSUME Init PROVE TypeOK
  OBVIOUS
<1>1. /\ raw \in [Emails -> {"pending", "parsed", "needs_review", "failed", "ignored"}]
      /\ row \in [Bookings -> Row \cup {None}]
      /\ led \in [Emails -> Bookings \cup {None}]
      /\ \A e \in Emails : led[e] = None
  BY DEF Init
<1>2. version \in Versions /\ requests \in 0..MaxRequests
  BY DEF Init, Versions
<1>3. /\ worker \in [pc : {"idle", "process", "item"}, email : Emails \cup {None}]
      /\ op \in [pc : {"idle", "process", "ignore"}, email : Emails \cup {None}]
      /\ worker.pc = "idle" /\ worker.email = None /\ op.pc = "idle" /\ op.email = None
  BY DEF Init, Idle
<1>4. sweep \in [todo : SUBSET items, stale : SUBSET items]
  BY DEF Init
<1>. QED BY <1>1, <1>2, <1>3, <1>4 DEF Init, TypeOK

LEMMA TypeNext == TypeOK /\ [Next]_vars => TypeOK'
<1>. SUFFICES ASSUME TypeOK, [Next]_vars PROVE TypeOK'
  OBVIOUS
<1>0. Kept /\ version \in Versions /\ alias \in BOOLEAN
  BY DEF TypeOK, Kept
<1>1. ASSUME NEW e \in Emails, Take(e) PROVE TypeOK'
  BY <1>1 DEF Take, TypeOK, emailVars, history
<1>2. ASSUME NEW e \in Emails, Replay(e) \/ Reparse(e) PROVE TypeOK'
  <2>1. Kept'
    BY <1>0, <1>2, ProcessKeeps DEF Replay, Reparse
  <2>. QED BY <1>2, <2>1 DEF Replay, Reparse, TypeOK, Kept, actorVars, history
<1>3. ASSUME NEW e \in Emails, Reclassify(e) PROVE TypeOK'
  <2>1. Kept'
    BY <1>0, <1>3, IgnoreKeeps DEF Reclassify
  <2>. QED BY <1>3, <2>1 DEF Reclassify, TypeOK, Kept, actorVars, history
<1>4. CASE Work
  <2>1. worker.email \in Emails
    BY <1>4 DEF Work, TypeOK
  <2>2. Kept'
    BY <1>0, <1>4, <2>1, ProcessKeeps DEF Work
  <2>. QED BY <1>4, <2>2 DEF Work, TypeOK, Kept, Idle, history
<1>5. CASE WorkRaises
  BY <1>5 DEF WorkRaises, TypeOK, history
<1>6. CASE WorkFailed
  <2>1. worker.email \in Emails
    BY <1>6 DEF WorkFailed, TypeOK
  <2>2. <<worker.email, None, "error">> \in Items
    BY <2>1 DEF Items, Issues
  <2>3. /\ items' = items \cup {<<worker.email, None, "error">>}
        /\ sweep' \in [todo : SUBSET items', stale : SUBSET items']
    BY <1>0, <1>6, LeaveType DEF WorkFailed, Kept
  <2>4. items' \subseteq Items
    BY <2>2, <2>3 DEF TypeOK
  <2>5. \A i \in items' : i[2] # None => <<i[1], i[2]>> \in events'
    BY <1>6, <2>3 DEF WorkFailed, TypeOK, emailVars
  <2>. QED BY <1>6, <2>3, <2>4, <2>5 DEF WorkFailed, TypeOK, Idle, emailVars, history
<1>7. CASE Deploy
  BY <1>7 DEF Deploy, TypeOK, Idle, emailVars, history
<1>8. CASE SweepList \/ SweepEnd
  BY <1>8 DEF SweepList, SweepEnd, TypeOK, emailVars, actorVars, history
<1>9. ASSUME NEW i \in items, SweepItem(i) \/ CloseItem(i) PROVE TypeOK'
  <2>1. /\ items' = items \ {i}
        /\ sweep' \in [todo : SUBSET items', stale : SUBSET items']
    BY <1>0, <1>9, LeaveType DEF SweepItem, CloseItem, Kept
  <2>2. CASE SweepItem(i)
    BY <2>1, <2>2 DEF SweepItem, TypeOK, emailVars, actorVars, history
  <2>3. CASE CloseItem(i)
    <3>1. requests' \in 0..MaxRequests
      BY <2>3 DEF CloseItem, Ask, TypeOK
    <3>2. excused' \subseteq Bookings \X Needed
      <4>1. i \in Items
        BY DEF TypeOK
      <4>. QED BY <2>3, <4>1 DEF CloseItem, Excuse, TypeOK, Items
    <3>. QED BY <2>1, <2>3, <3>1, <3>2 DEF CloseItem, TypeOK, emailVars, actorVars
  <2>. QED BY <1>9, <2>2, <2>3
<1>10. CASE IgnoreItems
  <2>1. /\ items' = items \ ItemsOf(op.email)
        /\ sweep' \in [todo : SUBSET items', stale : SUBSET items']
    BY <1>0, <1>10, LeaveType DEF IgnoreItems, Kept
  <2>2. excused' \subseteq Bookings \X Needed
    <3>1. ItemsOf(op.email) \subseteq Items
      BY DEF ItemsOf, TypeOK
    <3>. QED BY <1>10, <3>1 DEF IgnoreItems, Excuse, TypeOK, Items, Issues
  <2>. QED BY <1>10, <2>1, <2>2 DEF IgnoreItems, TypeOK, Idle, emailVars
<1>11. CASE OpProcess
  <2>1. op.email \in Emails
    BY <1>11 DEF OpProcess, TypeOK
  <2>2. Kept'
    BY <1>0, <1>11, <2>1, ProcessKeeps DEF OpProcess
  <2>. QED BY <1>11, <2>2 DEF OpProcess, TypeOK, Kept, Idle, history
<1>12. CASE RequestDies
  <2>1. op.pc = "ignore" => op.email \in Emails
    BY DEF TypeOK
  <2>. QED BY <1>12, <2>1 DEF RequestDies, TypeOK, Idle, emailVars
<1>13. ASSUME NEW e \in Emails, IgnoreStatus(e) \/ AskReprocess(e) PROVE TypeOK'
  <2>1. requests' \in 0..MaxRequests
    BY <1>13 DEF IgnoreStatus, AskReprocess, Ask, TypeOK
  <2>2. /\ op' \in [pc : {"idle", "process", "ignore"}, email : Emails \cup {None}]
        /\ op'.pc # "idle" /\ op'.email # None
    BY <1>13 DEF IgnoreStatus, AskReprocess
  <2>3. raw' \in [Emails -> {"pending", "parsed", "needs_review", "failed", "ignored"}]
    BY <1>13 DEF IgnoreStatus, AskReprocess, TypeOK
  <2>. QED BY <1>13, <2>1, <2>2, <2>3 DEF IgnoreStatus, AskReprocess, TypeOK
<1>14. ASSUME NEW approved \in BOOLEAN, NEW e \in Emails \cup {None}, SaveAlias(approved, e)
       PROVE  TypeOK'
  <2>1. requests' \in 0..MaxRequests
    BY <1>14 DEF SaveAlias, Ask, TypeOK
  <2>. QED BY <1>14, <2>1 DEF SaveAlias, TypeOK, Idle, emailVars
<1>15. ASSUME NEW b \in Bookings, NEW new \in Row, Edit(b, new) PROVE TypeOK'
  <2>1. requests' \in 0..MaxRequests
    BY <1>15 DEF Edit, Ask, TypeOK
  <2>2. row' \in [Bookings -> Row \cup {None}] /\ \A c \in Bookings : row[c] # None => row'[c] # None
    BY <1>15 DEF Edit, TypeOK
  <2>3. /\ events' \subseteq (Emails \cup {Operator}) \X Bookings
        /\ \A ev \in events' : row'[ev[2]] # None
    BY <1>15, <2>2 DEF Edit, TypeOK
  <2>4. excused' \subseteq Bookings \X Needed
    BY <1>15 DEF Edit, TypeOK
  <2>5. \A i \in items : i[2] # None => <<i[1], i[2]>> \in events'
    BY <1>15 DEF Edit, TypeOK
  <2>6. \A e \in Emails : led[e] # None => <<e, led[e]>> \in events'
    BY <1>15 DEF Edit, TypeOK
  <2>. QED BY <1>15, <2>1, <2>2, <2>3, <2>4, <2>5, <2>6 DEF Edit, TypeOK, actorVars
<1>16. CASE UNCHANGED vars
  BY <1>16 DEF vars, TypeOK
<1>. QED BY <1>1, <1>2, <1>3, <1>4, <1>5, <1>6, <1>7, <1>8, <1>9, <1>10, <1>11, <1>12,
            <1>13, <1>14, <1>15, <1>16 DEF Next

\* Every variable keeps its type; in particular an item that names a booking is
\* of an email that wrote it, and the sweep holds open items only.
THEOREM TypeCorrect == Spec => []TypeOK
<1>. QED BY TypeInit, TypeNext, PTL DEF Spec

-----------------------------------------------------------------------------
(* Ignored emails ask for nothing.                                         *)

\* What a processing leaves open of another email was open before, and the
\* email it processed is left ignored without items or not ignored.
LEMMA ProcessQuiet ==
  ASSUME TypeOK, NEW e \in Emails, Process(e)
  PROVE  /\ \A f \in Emails \ {e} : raw'[f] = raw[f] /\ ItemsOf(f)' \subseteq ItemsOf(f)
         /\ raw'[e] = "ignored" => ItemsOf(e)' = {}
<1>1. version \in Versions /\ raw \in [Emails -> {"pending", "parsed", "needs_review", "failed", "ignored"}]
  BY DEF TypeOK
<1>2. CASE Ignore(e)
  BY <1>1, <1>2 DEF Ignore, Leave, ItemsOf
<1>3. ASSUME NEW kind \in {"undetected", "error", "noref"}, Unread(e, kind)
      PROVE  /\ raw'[e] # "ignored"
             /\ \A f \in Emails \ {e} : raw'[f] = raw[f] /\ ItemsOf(f)' \subseteq ItemsOf(f)
  BY <1>1, <1>3 DEF Unread, Leave, ItemsOf
<1>4. ASSUME Reading[e][version].kind = "booking", Upsert(e, Reading[e][version])
      PROVE  /\ raw'[e] # "ignored"
             /\ \A f \in Emails \ {e} : raw'[f] = raw[f] /\ ItemsOf(f)' \subseteq ItemsOf(f)
  <2>. DEFINE r == Reading[e][version]
  <2>1. r.booking \in Bookings
    BY <1>1, <1>4, ReadingType
  <2>2. \A i \in Opened(e, r, Upserted(r)) \cup Early(e, r) : i[1] = e
    BY DEF Opened, Early
  <2>3. items' \subseteq items \cup Opened(e, r, Upserted(r)) \cup Early(e, r)
    BY <1>4 DEF Upsert, Leave
  <2>4. \A f \in Emails \ {e} : ItemsOf(f)' \subseteq ItemsOf(f)
    BY <2>2, <2>3 DEF ItemsOf
  <2>5. raw'[e] \in {"parsed", "needs_review"} /\ \A f \in Emails \ {e} : raw'[f] = raw[f]
    BY <1>1, <1>4 DEF Upsert
  <2>. QED BY <2>4, <2>5
<1>. QED BY <1>2, <1>3, <1>4 DEF Process

\* An ignored email asks for nothing (IgnoredIsQuiet), for any number of
\* processes, commands and requests: it takes a failure handler, a request
\* between its two writes or one that died there to leave it an open item.
THEOREM IgnoredStaysQuiet == Spec => []IgnoredIsQuiet
<1>1. Init => IgnoredIsQuiet
  BY DEF Init, IgnoredIsQuiet, ItemsOf
<1>2. TypeOK /\ IgnoredIsQuiet /\ [Next]_vars => IgnoredIsQuiet'
  <2>. SUFFICES ASSUME TypeOK, IgnoredIsQuiet, [Next]_vars PROVE IgnoredIsQuiet'
    OBVIOUS
  <2>1. ASSUME NEW e \in Emails, Process(e), UNCHANGED torn, op' = op \/ op.pc # "ignore"
        PROVE  IgnoredIsQuiet'
    BY <2>1, ProcessQuiet DEF IgnoredIsQuiet
  <2>2. ASSUME UNCHANGED <<raw, torn, op>>, items' \subseteq items PROVE IgnoredIsQuiet'
    BY <2>2 DEF IgnoredIsQuiet, ItemsOf
  <2>3. ASSUME NEW e \in Emails, Take(e) PROVE IgnoredIsQuiet'
    BY <2>2, <2>3 DEF Take, emailVars, history
  <2>4. ASSUME NEW e \in Emails, Replay(e) \/ Reparse(e) PROVE IgnoredIsQuiet'
    BY <2>1, <2>4 DEF Replay, Reparse, actorVars, history
  <2>5. ASSUME NEW e \in Emails, Reclassify(e) PROVE IgnoredIsQuiet'
    <3>1. Process(e)
      BY <2>5 DEF Reclassify, Process
    <3>. QED BY <2>1, <2>5, <3>1 DEF Reclassify, actorVars, history
  <2>6. CASE Work
    BY <2>1, <2>6 DEF Work, TypeOK, history
  <2>7. CASE WorkRaises
    <3>1. worker.email \in Emails /\ raw'[worker.email] # "ignored"
      BY <2>7 DEF WorkRaises, TypeOK
    <3>. QED BY <2>7, <3>1 DEF WorkRaises, IgnoredIsQuiet, ItemsOf, history, TypeOK
  <2>8. CASE WorkFailed
    <3>1. items' = items \cup {<<worker.email, None, "error">>} /\ UNCHANGED <<raw, op, torn>>
      BY <2>8 DEF WorkFailed, Leave, emailVars, history
    <3>. QED BY <3>1 DEF IgnoredIsQuiet, ItemsOf
  <2>9. CASE Deploy \/ SweepList \/ SweepEnd
    BY <2>2, <2>9 DEF Deploy, SweepList, SweepEnd, emailVars, actorVars, history
  <2>10. ASSUME NEW i \in items, SweepItem(i) \/ CloseItem(i) PROVE IgnoredIsQuiet'
    BY <2>2, <2>10 DEF SweepItem, CloseItem, Leave, emailVars, actorVars, history
  <2>11. CASE IgnoreItems
    <3>1. /\ items' = items \ ItemsOf(op.email) /\ op.pc = "ignore" /\ op.email \in Emails
          /\ UNCHANGED <<raw, torn>>
      BY <2>11 DEF IgnoreItems, Leave, emailVars, TypeOK
    <3>2. \A e \in Emails \ {op.email} : op # [pc |-> "ignore", email |-> e]
      OBVIOUS
    <3>. QED BY <3>1, <3>2 DEF IgnoredIsQuiet, ItemsOf
  <2>12. CASE OpProcess
    BY <2>1, <2>12 DEF OpProcess, TypeOK, history
  <2>13. CASE RequestDies
    <3>1. \A e \in Emails : op = [pc |-> "ignore", email |-> e] => e \in torn'
      BY <2>13 DEF RequestDies
    <3>2. torn \subseteq torn' /\ UNCHANGED <<raw, items>>
      BY <2>13 DEF RequestDies, emailVars
    <3>. QED BY <3>1, <3>2 DEF IgnoredIsQuiet, ItemsOf
  <2>14. ASSUME NEW e \in Emails, IgnoreStatus(e) \/ AskReprocess(e) PROVE IgnoredIsQuiet'
    <3>1. /\ \A f \in Emails \ {e} : raw'[f] = raw[f] /\ op # [pc |-> "ignore", email |-> f]
          /\ raw'[e] = "ignored" => op' = [pc |-> "ignore", email |-> e]
          /\ UNCHANGED <<items, torn>>
      BY <2>14 DEF IgnoreStatus, AskReprocess, TypeOK, Idle
    <3>. QED BY <3>1 DEF IgnoredIsQuiet, ItemsOf
  <2>15. ASSUME NEW approved \in BOOLEAN, NEW e \in Emails \cup {None}, SaveAlias(approved, e)
         PROVE  IgnoredIsQuiet'
    <3>1. (\A f \in Emails : op # [pc |-> "ignore", email |-> f]) /\ UNCHANGED <<raw, items, torn>>
      BY <2>15 DEF SaveAlias, Idle, emailVars
    <3>. QED BY <3>1 DEF IgnoredIsQuiet, ItemsOf
  <2>16. ASSUME NEW b \in Bookings, NEW new \in Row, Edit(b, new) PROVE IgnoredIsQuiet'
    BY <2>2, <2>16 DEF Edit, actorVars
  <2>17. CASE UNCHANGED vars
    BY <2>2, <2>17 DEF vars
  <2>. QED BY <2>3, <2>4, <2>5, <2>6, <2>7, <2>8, <2>9, <2>10, <2>11, <2>12, <2>13, <2>14,
              <2>15, <2>16, <2>17 DEF Next
<1>. QED BY <1>1, <1>2, TypeCorrect, PTL DEF Spec

-----------------------------------------------------------------------------
(* Bookings of others stay.                                                *)

\* Two authors cannot both be the email that is found to be no booking.
LEMMA ProcessCancels ==
  ASSUME TypeOK, NEW e \in Emails, Process(e), NEW b \in Bookings,
         row[b] # None, row'[b] # row[b],
         row'[b].status = "cancelled", row[b].status = "active",
         \E ev, other \in events : ev[2] = b /\ other[2] = b /\ ev # other
  PROVE  LET r == Reading[e][version] IN
         /\ r.kind = "booking" /\ r.booking = b /\ r.cancels
         /\ raw'[e] \in {"parsed", "needs_review"}
<1>1. version \in Versions /\ raw \in [Emails -> {"pending", "parsed", "needs_review", "failed", "ignored"}]
  BY DEF TypeOK
<1>2. ~Ignore(e)
  <2>. SUFFICES ASSUME Ignore(e) PROVE FALSE
    OBVIOUS
  <2>1. b \in FalseBookings(e)
    BY DEF Ignore, TypeOK
  <2>2. PICK ev, other \in events : ev[2] = b /\ other[2] = b /\ ev # other
    OBVIOUS
  <2>3. ev[1] = e /\ other[1] = e
    BY <2>1, <2>2 DEF FalseBookings
  <2>4. ev = <<ev[1], ev[2]>> /\ other = <<other[1], other[2]>>
    BY DEF TypeOK
  <2>. QED BY <2>2, <2>3, <2>4
<1>3. \A kind \in {"undetected", "error", "noref"} : ~Unread(e, kind)
  BY DEF Unread
<1>4. Reading[e][version].kind = "booking" /\ Upsert(e, Reading[e][version])
  BY <1>2, <1>3 DEF Process
<1>. DEFINE r == Reading[e][version]
<1>5. r.booking \in Bookings /\ row' = [row EXCEPT ![r.booking] = Upserted(r)]
  BY <1>1, <1>4, ReadingType DEF Upsert
<1>6. r.booking = b /\ row'[b] = Upserted(r)
  BY <1>5 DEF TypeOK
<1>7. r.cancels
  BY <1>1, <1>4, <1>6, UpsertedRow, ReadingType DEF TypeOK
<1>8. raw'[e] \in {"parsed", "needs_review"}
  BY <1>1, <1>4 DEF Upsert
<1>. QED BY <1>4, <1>6, <1>7, <1>8

\* A booking that an operator or another email has written is cancelled by a
\* cancellation or an operator alone, however its emails are classified by later
\* builds (OthersBookingsStay).
THEOREM OthersBookingsSafe == Spec => OthersBookingsStay
<1>. DEFINE Cancels(b) ==
       /\ row[b] # None /\ row'[b] # row[b]
       /\ row'[b].status = "cancelled" /\ row[b].status = "active"
       /\ \E ev, other \in events : ev[2] = b /\ other[2] = b /\ ev # other
     Rightly(b) ==
       \/ <<Operator, b>> \in events' /\ UNCHANGED <<raw, items>>
       \/ \E e \in Emails : LET r == Reading[e][version] IN
            /\ r.kind = "booking" /\ r.booking = b /\ r.cancels
            /\ raw'[e] \in {"parsed", "needs_review"}
<1>1. TypeOK /\ [Next]_vars => [\A b \in Bookings : Cancels(b) => Rightly(b)]_vars
  <2>. SUFFICES ASSUME TypeOK, Next, NEW b \in Bookings, Cancels(b) PROVE Rightly(b)
    OBVIOUS
  <2>1. ASSUME NEW e \in Emails, Process(e) PROVE Rightly(b)
    BY <2>1, ProcessCancels
  <2>2. ASSUME NEW c \in Bookings, NEW new \in Row, Edit(c, new) PROVE Rightly(b)
    BY <2>2 DEF Edit, TypeOK
  <2>3. row' # row
    OBVIOUS
  <2>4. ASSUME NEW e \in Emails, Replay(e) \/ Reparse(e) \/ Reclassify(e) PROVE Rightly(b)
    BY <2>1, <2>4 DEF Replay, Reparse, Reclassify, Process
  <2>5. CASE Work
    BY <2>1, <2>5 DEF Work, TypeOK
  <2>6. CASE OpProcess
    BY <2>1, <2>6 DEF OpProcess, TypeOK
  <2>. QED BY <2>2, <2>3, <2>4, <2>5, <2>6
       DEF Next, Take, WorkRaises, WorkFailed, Deploy, SweepList, SweepEnd, SweepItem,
           IgnoreStatus, IgnoreItems, AskReprocess, SaveAlias, RequestDies, CloseItem,
           emailVars
<1>. QED BY <1>1, TypeCorrect, PTL DEF Spec, OthersBookingsStay

-----------------------------------------------------------------------------
(* What a booking lacks is listed.  The last email to process the booking    *)
(* keeps an item of its own for each value the booking still lacks: values   *)
(* are never taken away, and what the sweep found stale stays so.            *)

ListedFor(e) ==
  \A b \in Bookings :
    (led[e] = b /\ row[b].status = "active" /\ Straight(b)) =>
      \A x \in Lacks(b) : <<e, b, x>> \in items \/ <<b, x>> \in excused

StaleInv ==
  \A i \in sweep.stale : (i[2] # None /\ i[3] \in Needed) => i[3] \notin Lacks(i[2])

ListedInv == TypeOK /\ (\A e \in Emails : ListedFor(e)) /\ StaleInv

\* An item of a booking says what it lacks as long as it lacks it.
LEMMA LackIsNotGone ==
  ASSUME NEW e, NEW b, b # None, NEW x \in Needed, NEW rows, NEW known, NEW status,
         IssueGone(<<e, b, x>>, b, rows, known, status)
  PROVE  x \notin (Data \ rows[b].has) \cup (IF rows[b].mapped THEN {} ELSE {"alias"})
BY DEF IssueGone, Needed

LEMMA ObsoleteAtOwn ==
  ASSUME NEW e, NEW b, b # None, NEW x, NEW rows, NEW known, NEW status,
         Obsolete(<<e, b, x>>, b, rows, known, status)
  PROVE  IssueGone(<<e, b, x>>, b, rows, known, status)
BY DEF Obsolete

\* No step takes a value or the activity away from a booking.
Grows ==
  \A b \in Bookings : row[b] # None =>
    row[b].has \subseteq row'[b].has /\ (row[b].mapped => row'[b].mapped)

LEMMA LacksShrink ==
  ASSUME Grows, NEW b \in Bookings, row[b] # None
  PROVE  Lacks(b)' \subseteq Lacks(b)
BY DEF Grows, Lacks

LEMMA StraightBefore ==
  ASSUME events \subseteq events', NEW b \in Bookings, Straight(b)'
  PROVE  Straight(b)
<1>. SUFFICES ASSUME NEW e \in Emails, <<e, b>> \in events PROVE BookingsOf(e) = {b}
  BY DEF Straight
<1>1. BookingsOf(e)' = {b} /\ BookingsOf(e) \subseteq BookingsOf(e)' /\ b \in BookingsOf(e)
  BY DEF Straight, BookingsOf
<1>. QED BY <1>1

\* An email that led to its booking before the step is still heard after it, when
\* the step closes only items that an operator closes, or that are gone.
LEMMA ListedStays ==
  ASSUME TypeOK, Grows, events \subseteq events', excused \subseteq excused',
         NEW e \in Emails, ListedFor(e),
         led'[e] \in {led[e], None},
         \A b \in Bookings : (row[b] # None /\ row'[b].status = "active") =>
            row[b].status = "active" \/ {b} \X Needed \subseteq excused',
         \A b \in Bookings, x \in Needed :
            (/\ <<e, b, x>> \in items /\ led'[e] = b /\ Straight(b)' /\ x \in Lacks(b)'
             /\ row[b] # None)
            => <<e, b, x>> \in items' \/ <<b, x>> \in excused'
  PROVE  ListedFor(e)'
<1>. SUFFICES ASSUME NEW b \in Bookings, led'[e] = b, row'[b].status = "active", Straight(b)',
                     NEW x, x \in Lacks(b)'
              PROVE  <<e, b, x>> \in items' \/ <<b, x>> \in excused'
  BY DEF ListedFor
<1>1. led[e] = b /\ <<e, b>> \in events
  BY DEF TypeOK
<1>5. row[b] # None
  BY <1>1 DEF TypeOK
<1>2. x \in Lacks(b) /\ x \in Needed
  BY <1>5, LacksShrink DEF Lacks, Needed
<1>3. CASE row[b].status = "active"
  <2>1. <<e, b, x>> \in items \/ <<b, x>> \in excused
    BY <1>1, <1>2, <1>3, StraightBefore DEF ListedFor
  <2>. QED BY <1>2, <1>5, <2>1
<1>4. CASE {b} \X Needed \subseteq excused'
  BY <1>2, <1>4
<1>. QED BY <1>3, <1>4, <1>5

LEMMA StaleStays ==
  ASSUME TypeOK, Grows, StaleInv, sweep'.stale \subseteq sweep.stale
  PROVE  StaleInv'
<1>. SUFFICES ASSUME NEW i \in sweep.stale, i[2] # None, i[3] \in Needed,
                     i[3] \in Lacks(i[2])'
              PROVE  FALSE
  BY DEF StaleInv
<1>1. i \in items /\ i \in Items
  BY DEF TypeOK
<1>2. i[2] \in Bookings /\ <<i[1], i[2]>> \in events /\ row[i[2]] # None
  BY <1>1 DEF TypeOK, Items
<1>. QED BY <1>2, LacksShrink DEF StaleInv

\* Steps that close nothing and leave the bookings alone.
LEMMA QuietStep ==
  ASSUME ListedInv, UNCHANGED <<row, events, led, excused>>, items \subseteq items',
         sweep'.stale \subseteq sweep.stale
  PROVE  (\A e \in Emails : ListedFor(e)') /\ StaleInv'
BY DEF ListedInv, ListedFor, StaleInv, Lacks, Straight, BookingsOf

-----------------------------------------------------------------------------
(* One processing.                                                         *)

LEMMA IgnoreListed ==
  ASSUME ListedInv, NEW e \in Emails, Ignore(e), UNCHANGED excused
  PROVE  (\A f \in Emails : ListedFor(f)') /\ StaleInv'
<1>1. \A b \in Bookings : row[b] # None =>
        /\ row[b].has = row'[b].has /\ row[b].mapped = row'[b].mapped
        /\ row'[b].status = "active" => row[b].status = "active"
  <2>. TAKE b \in Bookings
  <2>. HAVE row[b] # None
  <2>1. row[b] \in Row
    BY DEF ListedInv, TypeOK
  <2>2. row'[b] = IF b \in FalseBookings(e)
                  THEN [row[b] EXCEPT !.status = "cancelled"] ELSE row[b]
    BY DEF Ignore
  <2>. QED BY <2>1, <2>2 DEF Row
<1>2. Grows
  BY <1>1 DEF Grows
<1>3. items' = items \ ItemsOf(e) /\ led' = [led EXCEPT ![e] = None] /\ events' = events
      /\ sweep'.stale \subseteq sweep.stale
  BY DEF Ignore, Leave
<1>4. ASSUME NEW f \in Emails PROVE ListedFor(f)'
  <2>1. led'[f] \in {led[f], None} /\ (f = e => led'[f] = None)
    BY <1>3 DEF ListedInv, TypeOK
  <2>2. \A b \in Bookings, x \in Needed :
          (<<f, b, x>> \in items /\ led'[f] = b) => <<f, b, x>> \in items'
    BY <1>3, <2>1 DEF ItemsOf
  <2>. QED BY <1>1, <1>2, <1>3, <2>1, <2>2, ListedStays DEF ListedInv
<1>. QED BY <1>2, <1>3, <1>4, StaleStays DEF ListedInv

LEMMA UnreadListed ==
  ASSUME ListedInv, NEW e \in Emails, NEW kind \in {"undetected", "error", "noref"},
         Unread(e, kind), UNCHANGED excused
  PROVE  (\A f \in Emails : ListedFor(f)') /\ StaleInv'
<1>1. /\ items \subseteq items' /\ led' = [led EXCEPT ![e] = None]
      /\ sweep'.stale \subseteq sweep.stale /\ UNCHANGED <<row, events>>
  BY DEF Unread, Leave
<1>2. Grows
  BY <1>1 DEF Grows
<1>3. \A f \in Emails : led'[f] \in {led[f], None}
  BY <1>1 DEF ListedInv, TypeOK
<1>. QED BY <1>1, <1>2, <1>3, ListedStays, StaleStays DEF ListedInv

LEMMA UpsertListed ==
  ASSUME ListedInv, NEW e \in Emails, Reading[e][version].kind = "booking",
         Upsert(e, Reading[e][version]), UNCHANGED excused
  PROVE  (\A f \in Emails : ListedFor(f)') /\ StaleInv'
<1>. DEFINE r == Reading[e][version]
            new == Upserted(r)
<1>a. TypeOK /\ version \in Versions /\ alias \in BOOLEAN
  BY DEF ListedInv, TypeOK
<1>. PICK b \in Bookings : b = r.booking
  BY <1>a, ReadingType
<1>0. TypeOK /\ version \in Versions /\ alias \in BOOLEAN /\ b # None
  BY <1>a
<1>1. new \in Row /\ row' = [row EXCEPT ![b] = new] /\ row'[b] = new
  BY <1>0, UpsertedRow DEF Upsert, TypeOK
<1>2. row[b] # None => /\ row[b].has \subseteq new.has /\ (row[b].mapped => new.mapped)
                       /\ new.status = "active" => row[b].status = "active"
  <2>. SUFFICES ASSUME row[b] # None
       PROVE  /\ row[b].has \subseteq new.has /\ (row[b].mapped => new.mapped)
              /\ new.status = "active" => row[b].status = "active"
    OBVIOUS
  <2>1. new = [has |-> row[b].has \cup r.gives, mapped |-> row[b].mapped \/ alias,
               status |-> IF r.cancels THEN "cancelled" ELSE row[b].status]
    BY DEF Upserted
  <2>2. new.mapped = (row[b].mapped \/ alias) /\ new.has = row[b].has \cup r.gives
    BY <2>1
  <2>3. new.status = IF r.cancels THEN "cancelled" ELSE row[b].status
    BY <2>1
  <2>. HIDE DEF new
  <2>. QED BY <2>2, <2>3
<1>. HIDE DEF new
<1>3. Grows
  BY <1>0, <1>1, <1>2 DEF Grows, TypeOK
<1>4. \A c \in Bookings : (row[c] # None /\ row'[c].status = "active") => row[c].status = "active"
  BY <1>0, <1>1, <1>2 DEF TypeOK
<1>5. /\ led' = [led EXCEPT ![e] = b] /\ events' = events \cup {<<e, b>>}
      /\ sweep'.stale \subseteq sweep.stale
  BY DEF Upsert, Leave
<1>6. \A i \in items \cup Opened(e, r, new) :
        i \in items' \/ ((i[1] = e \/ i[2] = b) /\ Obsolete(i, b, row', detected', raw))
  BY DEF Upsert, Leave, new
\* What names the booking and a value it lacks is not resolved.
<1>7. ASSUME NEW f \in Emails, NEW x \in Needed, x \in Lacks(b)',
             <<f, b, x>> \in items \cup Opened(e, r, new)
      PROVE  <<f, b, x>> \in items'
  <2>0. x \in (Data \ row'[b].has) \cup (IF row'[b].mapped THEN {} ELSE {"alias"})
    BY <1>7 DEF Lacks
  <2>1. ~IssueGone(<<f, b, x>>, b, row', detected', raw)
    BY <1>0, <2>0, LackIsNotGone
  <2>2. ~Obsolete(<<f, b, x>>, b, row', detected', raw)
    BY <1>0, <2>1, ObsoleteAtOwn
  <2>. QED BY <1>6, <1>7, <2>2
<1>8. ASSUME NEW f \in Emails, f # e PROVE ListedFor(f)'
  <2>1. led'[f] = led[f]
    BY <1>0, <1>5, <1>8 DEF TypeOK
  <2>2. ASSUME NEW c \in Bookings, NEW x \in Needed, <<f, c, x>> \in items, x \in Lacks(c)'
        PROVE  <<f, c, x>> \in items'
    <3>1. CASE c = b
      BY <1>7, <2>2, <3>1
    <3>2. CASE c # b
      BY <1>6, <1>8, <2>2, <3>2
    <3>. QED BY <3>1, <3>2
  <2>. QED BY <1>0, <1>3, <1>4, <1>5, <2>1, <2>2, ListedStays DEF ListedInv
<1>9. ListedFor(e)'
  <2>. SUFFICES ASSUME NEW c \in Bookings, led'[e] = c, row'[c].status = "active",
                       NEW x, x \in Lacks(c)'
                PROVE  <<e, c, x>> \in items'
    BY DEF ListedFor
  <2>1. c = b
    BY <1>0, <1>5 DEF TypeOK
  <2>2. x \in Needed /\ x \in Lacks(b)'
    BY <2>1 DEF Lacks, Needed
  <2>3. new.status # "cancelled" /\ x \in (Data \ new.has) \cup (IF new.mapped THEN {} ELSE {"alias"})
    BY <1>1, <2>1, <2>2 DEF Lacks
  <2>4. <<e, b, x>> \in Opened(e, r, new)
    BY <2>3 DEF Opened
  <2>. QED BY <1>7, <2>1, <2>2, <2>4
<1>10. StaleInv'
  BY <1>0, <1>3, <1>5, StaleStays DEF ListedInv
<1>. QED BY <1>8, <1>9, <1>10

LEMMA ProcessListed ==
  ASSUME ListedInv, NEW e \in Emails, Process(e), UNCHANGED excused
  PROVE  (\A f \in Emails : ListedFor(f)') /\ StaleInv'
BY IgnoreListed, UnreadListed, UpsertListed DEF Process

-----------------------------------------------------------------------------
(* Every step.                                                             *)

LEMMA SweepListed ==
  ASSUME ListedInv, NEW i \in items, SweepItem(i)
  PROVE  (\A f \in Emails : ListedFor(f)') /\ StaleInv'
<1>1. /\ items' = items \ {i} /\ sweep'.stale \subseteq sweep.stale
      /\ UNCHANGED <<row, events, led, excused>>
  BY DEF SweepItem, Leave, emailVars, history
<1>2. Grows
  BY <1>1 DEF Grows
<1>3. ASSUME NEW e \in Emails, NEW b \in Bookings, NEW x \in Needed,
             <<e, b, x>> \in items, Straight(b), x \in Lacks(b)
      PROVE  <<e, b, x>> \in items'
  <2>. SUFFICES ASSUME i = <<e, b, x>> PROVE FALSE
    BY <1>1, <1>3
  <2>1. i \notin sweep.stale
    BY <1>3 DEF ListedInv, StaleInv
  <2>2. <<e, b>> \in events
    BY <1>3 DEF ListedInv, TypeOK
  <2>3. BookingsOf(e) = {b}
    BY <1>3, <2>2 DEF Straight
  <2>. QED BY <2>1, <2>3 DEF SweepItem
<1>4. \A b \in Bookings : Straight(b)' = Straight(b) /\ Lacks(b)' = Lacks(b)
  BY <1>1 DEF Straight, BookingsOf, Lacks
<1>. QED BY <1>1, <1>2, <1>3, <1>4, ListedStays, StaleStays DEF ListedInv

\* What an operator closes, the operator answers for.
LEMMA ClosedListed ==
  ASSUME ListedInv, NEW s, s \subseteq items, Leave(items \ s), Excuse(s),
         UNCHANGED <<row, events, led>>
  PROVE  (\A f \in Emails : ListedFor(f)') /\ StaleInv'
<1>1. items' = items \ s /\ sweep'.stale \subseteq sweep.stale /\ excused \subseteq excused'
  BY DEF Leave, Excuse
<1>2. Grows
  BY DEF Grows
<1>3. ASSUME NEW e \in Emails, NEW b \in Bookings, NEW x \in Needed, <<e, b, x>> \in s
      PROVE  <<b, x>> \in excused'
  <2>. DEFINE i == <<e, b, x>>
  <2>1. i \in {j \in s : j[2] # None /\ j[3] \in Needed} /\ <<b, x>> = <<i[2], i[3]>>
    BY <1>3
  <2>. QED BY <2>1 DEF Excuse
<1>. QED BY <1>1, <1>2, <1>3, ListedStays, StaleStays DEF ListedInv

LEMMA EditListed ==
  ASSUME ListedInv, NEW b \in Bookings, NEW new \in Row, Edit(b, new)
  PROVE  (\A f \in Emails : ListedFor(f)') /\ StaleInv'
<1>1. /\ row' = [row EXCEPT ![b] = new] /\ row'[b] = new /\ events \subseteq events'
      /\ excused \subseteq excused' /\ UNCHANGED <<led, items, sweep>>
  BY DEF Edit, ListedInv, TypeOK
<1>2. Grows
  BY <1>1 DEF Edit, Grows, ListedInv, TypeOK
<1>3. \A c \in Bookings : (row[c] # None /\ row'[c].status = "active") =>
         row[c].status = "active" \/ {c} \X Needed \subseteq excused'
  <2>1. row[b] \in Row
    BY DEF Edit, ListedInv, TypeOK
  <2>2. \A c \in Bookings \ {b} : row'[c] = row[c]
    BY <1>1 DEF ListedInv, TypeOK
  <2>3. new.status = "active" => row[b].status = "active" \/ {b} \X Needed \subseteq excused'
    BY <2>1 DEF Edit, Row
  <2>. QED BY <1>1, <2>2, <2>3
<1>. QED BY <1>1, <1>2, <1>3, ListedStays, StaleStays DEF ListedInv

LEMMA ListedStep == ListedInv /\ [Next]_vars => ListedInv'
<1>. SUFFICES ASSUME ListedInv, [Next]_vars
              PROVE  (\A f \in Emails : ListedFor(f)') /\ StaleInv'
  BY TypeNext DEF ListedInv
<1>0. TypeOK
  BY DEF ListedInv
<1>1. ASSUME NEW e \in Emails, Replay(e) \/ Reparse(e) \/ Reclassify(e)
      PROVE  (\A f \in Emails : ListedFor(f)') /\ StaleInv'
  <2>1. Process(e) /\ UNCHANGED excused
    BY <1>1 DEF Replay, Reparse, Reclassify, Process, history
  <2>. QED BY <2>1, ProcessListed
<1>2. CASE Work \/ OpProcess
  BY <1>0, <1>2, ProcessListed DEF Work, OpProcess, TypeOK, history
<1>3. ASSUME NEW e \in Emails, Take(e) \/ IgnoreStatus(e) \/ AskReprocess(e)
      PROVE  (\A f \in Emails : ListedFor(f)') /\ StaleInv'
  BY <1>3, QuietStep DEF Take, IgnoreStatus, AskReprocess, emailVars, history
<1>4. CASE WorkRaises \/ WorkFailed \/ Deploy \/ SweepEnd \/ RequestDies
  BY <1>4, QuietStep DEF WorkRaises, WorkFailed, Deploy, SweepEnd, RequestDies, Leave,
                         emailVars, history
<1>5. CASE SweepList
  <2>1. UNCHANGED <<row, events, led, excused, items>>
    BY <1>5 DEF SweepList, emailVars, history
  <2>2. \A e \in Emails : ListedFor(e)'
    BY <2>1 DEF ListedInv, ListedFor, Lacks, Straight, BookingsOf
  <2>3. ASSUME NEW i \in sweep'.stale, i[2] # None, i[3] \in Needed PROVE i[3] \notin Lacks(i[2])
    <3>1. i \in Items /\ Obsolete(i, i[2], row, detected, raw)
      BY <1>0, <1>5, <2>3 DEF SweepList, TypeOK
    <3>2. PICK e \in Emails, b \in Bookings, x \in Needed : i = <<e, b, x>>
      BY <2>3, <3>1 DEF Items
    <3>3. Obsolete(<<e, b, x>>, b, row, detected, raw) /\ b # None
      BY <3>1, <3>2
    <3>4. IssueGone(<<e, b, x>>, b, row, detected, raw)
      BY <3>3, ObsoleteAtOwn
    <3>5. x \notin Lacks(b)
      BY <3>3, <3>4, LackIsNotGone DEF Lacks
    <3>. QED BY <3>2, <3>5
  <2>. QED BY <2>1, <2>2, <2>3 DEF StaleInv, Lacks
<1>6. ASSUME NEW i \in items, SweepItem(i)
      PROVE  (\A f \in Emails : ListedFor(f)') /\ StaleInv'
  BY <1>6, SweepListed
<1>7. ASSUME NEW i \in items, CloseItem(i)
      PROVE  (\A f \in Emails : ListedFor(f)') /\ StaleInv'
  BY <1>7, ClosedListed DEF CloseItem, emailVars
<1>8. CASE IgnoreItems
  <2>1. ItemsOf(op.email) \subseteq items
    BY DEF ItemsOf
  <2>. QED BY <1>8, <2>1, ClosedListed DEF IgnoreItems, emailVars
<1>9. ASSUME NEW approved \in BOOLEAN, NEW e \in Emails \cup {None}, SaveAlias(approved, e)
      PROVE  (\A f \in Emails : ListedFor(f)') /\ StaleInv'
  BY <1>9, QuietStep DEF SaveAlias, emailVars
<1>10. ASSUME NEW b \in Bookings, NEW new \in Row, Edit(b, new)
       PROVE  (\A f \in Emails : ListedFor(f)') /\ StaleInv'
  BY <1>10, EditListed
<1>11. CASE UNCHANGED vars
  BY <1>11, QuietStep DEF vars
<1>. QED BY <1>1, <1>2, <1>3, <1>4, <1>5, <1>6, <1>7, <1>8, <1>9, <1>10, <1>11 DEF Next

\* What the items say is shown: no booking but the one itself resolves them.
LEMMA ListedIsShown == ListedInv => MissingIsListed
<1>1. ASSUME ListedInv, NEW b \in Bookings, Straight(b), NEW e \in Emails, led[e] = b,
             NEW x \in Lacks(b), <<e, b, x>> \in items
      PROVE  \E i \in Shown : i[2] = b /\ i[3] = x
  <2>. DEFINE i == <<e, b, x>>
  <2>1. b # None /\ x \in Needed /\ BookingsOf(e) = {b}
    BY <1>1 DEF ListedInv, TypeOK, Straight, Lacks, Needed
  <2>2. ~IssueGone(i, b, row, detected, raw)
    BY <2>1, LackIsNotGone DEF Lacks
  <2>3. ~Obsolete(i, b, row, detected, raw)
    BY <2>1, <2>2, ObsoleteAtOwn
  <2>4. i \in InboxIssues(e)
    BY <1>1, <2>1, <2>3 DEF InboxIssues, ItemsOf
  <2>. QED BY <2>4 DEF Shown
<1>. SUFFICES ASSUME ListedInv, NEW b \in Bookings, row[b].status = "active", Straight(b),
                     NEW e \in Emails, led[e] = b, NEW x \in Lacks(b)
              PROVE  (\E i \in Shown : i[2] = b /\ i[3] = x) \/ <<b, x>> \in excused
  BY DEF MissingIsListed
<1>2. <<e, b, x>> \in items \/ <<b, x>> \in excused
  BY DEF ListedInv, ListedFor
<1>. QED BY <1>1, <1>2

\* While an email leads to an active booking, each value it lacks is an item of
\* the inbox (MissingIsListed), for any emails, bookings and builds, whoever
\* processes, sweeps and closes in between.
THEOREM MissingStaysListed == Spec => []MissingIsListed
<1>1. Init => ListedInv
  <2>1. Init => \A e \in Emails : ListedFor(e)
    BY DEF Init, ListedFor
  <2>2. Init => StaleInv
    BY DEF Init, StaleInv
  <2>. QED BY <2>1, <2>2, TypeInit DEF ListedInv
<1>. QED BY <1>1, ListedStep, ListedIsShown, PTL DEF Spec

=============================================================================
