--------------------------- MODULE BookingIdentity ---------------------------
(***************************************************************************)
(* Which Booking row an email belongs to.  One order of a customer may be  *)
(* written about by its provider (an OTA) and by Bookeo, with the OTA's    *)
(* reference or without, and be listed by the history import; the emails   *)
(* arrive in any order and any number of times, to processes that run at   *)
(* once: the poller, an operator's "reprocess", a replay.                  *)
(*                                                                         *)
(* A row's identity is <<provider, reference>>; here it is                 *)
(* <<provider, whose reference, order>>.  A row kept under Bookeo is       *)
(* provisional: an email with the OTA's identity takes it over.  Every     *)
(* statement of a transaction sees what others have committed (READ        *)
(* COMMITTED).  SELECT ... FOR UPDATE LIMIT 1 finds its candidates at once *)
(* and locks them one by one: one that no longer matches is passed over    *)
(* for the next, and a row that matches only since is no candidate.  How   *)
(* the values of the email are merged is BookingMirror's subject.          *)
(***************************************************************************)
EXTENDS Naturals, Sequences, FiniteSets

CONSTANTS
  Orders,      \* orders of customers
  PartyOf,     \* per order: day, time, traveler count, name and product
  Emails,
  Parsed,      \* per email: what its parser returns
  Mailers,     \* processes that may run process_raw_email at once
  Notes,       \* per order: does its note in Bookeo name the OTA, and its reference?
  None,        \* no row, no email, no party
  MaxRuns      \* bound: times an email is processed without a failure

Providers == {"bookeo", "ota"}
Keys == Providers \X Providers \X Orders
Queries == {"exact", "number", "details"}

\* `by`: who wrote it; `cites`: it holds the OTA's reference; `known`: Bookeo's
\* email names a provider the parser knows; `full`: travel date, start time,
\* traveler count and lead name were found and the product names agree.
ParsedEmail == [order : Orders, by : Providers, cites : BOOLEAN,
                known : BOOLEAN, full : BOOLEAN, cancels : BOOLEAN]

ASSUME IdentityAssumption ==
  /\ None \notin Emails \cup Mailers \cup Nat
  /\ None \notin {PartyOf[o] : o \in Orders}
  /\ DOMAIN PartyOf = Orders
  /\ Parsed \in [Emails -> ParsedEmail]
  /\ \A e \in Emails : Parsed[e].by = "ota" => Parsed[e].cites
  /\ Notes \in [Orders -> [names : BOOLEAN, cites : BOOLEAN]]
  /\ MaxRuns \in Nat

VARIABLES
  rows,       \* the Booking rows, by id
  raw,        \* RawEmail.parse_status
  flagged,    \* emails that opened a POSSIBLE_DUPLICATE item
  called,     \* orders the customer has cancelled
  imported,   \* orders the import has written
  agent,      \* per process: the transaction it is in
  runs        \* bound: times an email was taken up, retries aside

vars == <<rows, raw, flagged, called, imported, agent, runs>>

Parties == {PartyOf[o] : o \in Orders}
Row == [key : Keys, party : Parties \cup {None},
        status : {"active", "cancelled"}, orders : SUBSET Orders]

Idle == [pc |-> "idle", email |-> None, left |-> {}, row |-> None,
         clash |-> FALSE, saw |-> {}]

Init ==
  /\ rows = <<>>
  /\ raw = [e \in Emails |-> "pending"]
  /\ flagged = {} /\ called = {} /\ imported = {}
  /\ agent = [m \in Mailers |-> Idle]
  /\ runs = [e \in Emails |-> 0]

-----------------------------------------------------------------------------
(* What an email identifies.                                               *)

\* BookeoParser.parse_content: the OTA's identity only with its reference, kept
\* under Bookeo when the provider is not recognised.
KeyOf(e) ==
  LET p == Parsed[e] IN
  IF ~p.cites THEN <<"bookeo", "bookeo", p.order>>
  ELSE <<IF p.by = "bookeo" /\ ~p.known THEN "bookeo" ELSE "ota", "ota", p.order>>

\* Only an email with an OTA's identity looks for a provisional booking.
Sighted(e) == KeyOf(e)[1] = "ota"

\* Mutant: the lead name, time, date and count are not compared.
MatchesAnybody(e, q, r) ==
  CASE q = "exact"   -> r.key = KeyOf(e)
    [] q = "number"  -> /\ r.key[1] = "bookeo"
                        /\ Parsed[e].by = "bookeo" /\ r.key[3] = Parsed[e].order
    [] q = "details" -> r.key[1] = "bookeo" /\ Parsed[e].full /\ r.status = "active"

\* The WHERE clause of each lookup.  A Bookeo number is the row's reference, or
\* in its provider_order_reference.
Matches(e, q, r) ==
  CASE q = "exact"   -> r.key = KeyOf(e)
    [] q = "number"  -> /\ r.key[1] = "bookeo"
                        /\ Parsed[e].by = "bookeo" /\ r.key[3] = Parsed[e].order
    [] q = "details" -> /\ r.key[1] = "bookeo"
                        /\ Parsed[e].full /\ r.party = PartyOf[Parsed[e].order]
                        /\ r.status = "active"

Found(e, q) == {i \in DOMAIN rows : Matches(e, q, rows[i])}

KeyTaken(k) == \E i \in DOMAIN rows : rows[i].key = k

-----------------------------------------------------------------------------
(* process_raw_email, as far as the identity goes.                         *)

Become(m, s) == agent' = [agent EXCEPT ![m] = s]

\* The lookup after `q`, or "create".
After(e, q) ==
  CASE q = "exact" -> IF Sighted(e) THEN "number" ELSE "create"
    [] q = "number" -> "details"
    [] q = "details" -> "create"

\* `saw` is history: the provisional rows this email could have found, less
\* those the import has revived since.
Begin(m, e) ==
  /\ agent[m] = Idle
  /\ runs[e] < MaxRuns \/ raw[e] = "failed"
  /\ \A n \in Mailers : agent[n].email # e
  /\ Parsed[e].cancels => Parsed[e].order \in called
  /\ Become(m, [Idle EXCEPT !.pc = "exact", !.email = e,
                 !.saw = IF Sighted(e)
                         THEN Found(e, "number") \cup Found(e, "details")
                         ELSE {}])
  /\ runs' = [runs EXCEPT ![e] = IF raw[e] = "failed" THEN @ ELSE @ + 1]
  /\ UNCHANGED <<rows, raw, flagged, called, imported>>

\* A lookup finds its candidates.
Look(m) ==
  LET a == agent[m]
      found == Found(a.email, a.pc) IN
  /\ a.pc \in Queries /\ a.left = {}
  /\ Become(m, IF found = {} THEN [a EXCEPT !.pc = After(a.email, a.pc)]
                            ELSE [a EXCEPT !.left = found])
  /\ UNCHANGED <<rows, raw, flagged, called, imported, runs>>

\* A transaction that has its row keeps the lock until it ends.
Holds(n, i) == agent[n].pc \in {"check", "save"} /\ agent[n].row = i

\* Mutant: a candidate is picked without a lock and then locked by its id; when
\* it is lost so is the lookup.
LostAll(a, i) == [a EXCEPT !.pc = After(a.email, a.pc), !.left = {}]

\* Row i is no longer what the lookup asked for.
Lost(a, i) ==
  IF a.left = {i} THEN [a EXCEPT !.pc = After(a.email, a.pc), !.left = {}]
                  ELSE [a EXCEPT !.left = @ \ {i}]

\* Mutant: the row that was lost is not forgotten.
LockForgetful(m) ==
  LET a == agent[m] IN
  /\ a.pc \in Queries
  /\ \E i \in a.left :
       /\ \A n \in Mailers : ~Holds(n, i)
       /\ Become(m, IF Matches(a.email, a.pc, rows[i])
                    THEN [a EXCEPT !.pc = "check", !.left = {}, !.row = i]
                    ELSE [Lost(a, i) EXCEPT !.row = i])
  /\ UNCHANGED <<rows, raw, flagged, called, imported, runs>>

\* LockRows below Limit: the next candidate is waited for and looked at again.
\* Which of several comes first is left open.
Lock(m) ==
  LET a == agent[m] IN
  /\ a.pc \in Queries
  /\ \E i \in a.left :
       /\ \A n \in Mailers : ~Holds(n, i)
       /\ Become(m, IF Matches(a.email, a.pc, rows[i])
                    THEN [a EXCEPT !.pc = "check", !.left = {}, !.row = i]
                    ELSE Lost(a, i))
  /\ UNCHANGED <<rows, raw, flagged, called, imported, runs>>

\* _promote_booking_identity_if_needed asks whether another row has the
\* identity; the review item is created with the rest, at the commit.
Check(m) ==
  LET a == agent[m] IN
  /\ a.pc = "check"
  /\ Become(m, [a EXCEPT !.pc = "save",
                 !.clash = /\ rows[a.row].key # KeyOf(a.email)
                           /\ KeyTaken(KeyOf(a.email))])
  /\ UNCHANGED <<rows, raw, flagged, called, imported, runs>>

\* The unique constraint ends the transaction; the caller marks the email
\* failed (polling) or leaves it for another try.
Fail(m) ==
  /\ raw' = [raw EXCEPT ![agent[m].email] = "failed"]
  /\ Become(m, Idle)
  /\ UNCHANGED <<rows, flagged, called, imported, runs>>

\* Mutant: an update takes its status from the email alone.
MergedPlain(r, e) ==
  [r EXCEPT !.party = IF Parsed[e].full THEN PartyOf[Parsed[e].order] ELSE @,
            !.status = IF Parsed[e].cancels THEN "cancelled" ELSE "active",
            !.orders = @ \cup {Parsed[e].order}]

\* _update_booking: empty values do not overwrite, cancelled stays cancelled.
Merged(r, e) ==
  [r EXCEPT !.party = IF Parsed[e].full THEN PartyOf[Parsed[e].order] ELSE @,
            !.status = IF Parsed[e].cancels THEN "cancelled" ELSE @,
            !.orders = @ \cup {Parsed[e].order}]

Save(m) ==
  LET a == agent[m]
      r == rows[a.row]
      k == KeyOf(a.email)
      promotes == r.key # k /\ ~a.clash IN
  /\ a.pc = "save"
  /\ IF promotes /\ KeyTaken(k)
     THEN Fail(m)
     ELSE /\ rows' = [rows EXCEPT ![a.row] =
                        [Merged(r, a.email) EXCEPT !.key = IF promotes THEN k ELSE @]]
          /\ raw' = [raw EXCEPT ![a.email] = "parsed"]
          /\ flagged' = IF a.clash THEN flagged \cup {a.email} ELSE flagged
          /\ Become(m, Idle)
          /\ UNCHANGED <<called, imported, runs>>

NewRow(k, o, full, cancelled) ==
  [key |-> k, party |-> IF full THEN PartyOf[o] ELSE None,
   status |-> IF cancelled THEN "cancelled" ELSE "active", orders |-> {o}]

Create(m) ==
  LET a == agent[m]
      p == Parsed[a.email] IN
  /\ a.pc = "create"
  /\ IF KeyTaken(KeyOf(a.email))
     THEN Fail(m)
     ELSE /\ rows' = Append(rows, NewRow(KeyOf(a.email), p.order, p.full, p.cancels))
          /\ raw' = [raw EXCEPT ![a.email] = "parsed"]
          /\ Become(m, Idle)
          /\ UNCHANGED <<flagged, called, imported, runs>>

-----------------------------------------------------------------------------
(* The history import and the customer.                                    *)

\* _underlying_ota_identity: provider and reference are looked for apart, and
\* each that is missing is Bookeo's.
ImportKey(o) ==
  <<IF Notes[o].names THEN "ota" ELSE "bookeo",
    IF Notes[o].cites THEN "ota" ELSE "bookeo", o>>

\* History: a row the import revives is not what an email under way could find.
Overlook(ids) ==
  agent' = [m \in Mailers |-> [agent[m] EXCEPT !.saw = @ \ ids]]

\* import_bookeo_booking: it knows exact identities only.
Import(o) ==
  LET k == ImportKey(o)
      status == IF o \in called THEN "cancelled" ELSE "active" IN
  /\ o \notin imported
  /\ \/ \E i \in DOMAIN rows :
          /\ rows[i].key = k
          /\ \A n \in Mailers : ~Holds(n, i)
          /\ rows' = [rows EXCEPT ![i].status = status, ![i].party = PartyOf[o],
                                  ![i].orders = @ \cup {o}]
          /\ Overlook(IF status = "active" /\ rows[i].status = "cancelled" THEN {i} ELSE {})
     \/ /\ ~KeyTaken(k)
        /\ rows' = Append(rows, NewRow(k, o, TRUE, o \in called))
        /\ UNCHANGED agent
  /\ imported' = imported \cup {o}
  /\ UNCHANGED <<raw, flagged, called, runs>>

\* Orders somebody will write a cancellation of.
Cancellable == {Parsed[e].order : e \in {f \in Emails : Parsed[f].cancels}}

Cancel(o) ==
  /\ o \in Cancellable \ called
  /\ called' = called \cup {o}
  /\ UNCHANGED <<rows, raw, flagged, imported, agent, runs>>

\* Bounds of the model reached, nothing left to do.
Rest ==
  /\ \A m \in Mailers : agent[m] = Idle
  /\ \A e \in Emails : runs[e] = MaxRuns
  /\ called = Cancellable
  /\ imported = Orders
  /\ UNCHANGED vars

Next ==
  \/ \E m \in Mailers, e \in Emails : Begin(m, e)
  \/ \E m \in Mailers : Look(m) \/ Lock(m) \/ Check(m) \/ Save(m) \/ Create(m)
  \/ \E o \in Orders : Import(o) \/ Cancel(o)
  \/ Rest

Spec == Init /\ [][Next]_vars

-----------------------------------------------------------------------------
(* Properties.                                                             *)

Agent == [pc : Queries \cup {"idle", "check", "save", "create"},
          email : Emails \cup {None}, left : SUBSET DOMAIN rows,
          row : DOMAIN rows \cup {None}, clash : BOOLEAN, saw : SUBSET DOMAIN rows]

\* Rows, statuses and transactions are of their types, an open transaction has
\* an email, only a running lookup has candidates, and only a transaction that is
\* past its lookups has a row.
TypeOK ==
  /\ rows \in Seq(Row)
  /\ raw \in [Emails -> {"pending", "parsed", "failed"}]
  /\ flagged \subseteq Emails
  /\ called \subseteq Orders /\ imported \subseteq Orders
  /\ agent \in [Mailers -> Agent]
  /\ runs \in [Emails -> 0..MaxRuns]
  /\ \A m \in Mailers :
       LET a == agent[m] IN
       /\ a.email = None <=> a.pc = "idle"
       /\ a.left # {} => a.pc \in Queries
       /\ a.row # None <=> a.pc \in {"check", "save"}

\* Emails about two parties never end up in one booking, whatever their order
\* and however the lookups of two processes interleave
\* (_find_bookeo_provisional_booking matches date, time, count and name).
NeverTwoParties ==
  \A i \in DOMAIN rows : \A o, p \in rows[i].orders : PartyOf[o] = PartyOf[p]

\* Once a cancellation with the OTA's identity is parsed, no booking stands
\* active under that identity, or the email has put a possible duplicate into
\* the review queue, however promotions, other emails, the import and another
\* process interleave (upsert_booking_from_parsed).
CancellationReachesOrder ==
  \A e \in Emails :
    (Sighted(e) /\ Parsed[e].cancels /\ raw[e] = "parsed" /\ e \notin flagged) =>
      \A i \in DOMAIN rows : rows[i].key = KeyOf(e) => rows[i].status = "cancelled"

\* An email with an OTA's identity never creates a booking beside a provisional
\* one of its order that it could have found when it was taken up, however many
\* of its candidates other processes take from it, unless the import revived
\* that row while it looked (_find_bookeo_provisional_booking).  Doubles come
\* from the other way round: Bookeo's emails without a reference, and the import.
NoDoubleInSight ==
  [][\A m \in Mailers :
       (agent[m].pc = "create" /\ rows' # rows /\ agent'[m] = Idle) =>
         \A i \in agent[m].saw, q \in {"number", "details"} :
           ~Matches(agent[m].email, q, rows[i])]_vars

\* An identity is only ever completed: a booking leaves Bookeo for the OTA of
\* the email that promotes it, and no step takes it back or to another one.
IdentityOnlyCompletes ==
  [][\A i \in DOMAIN rows :
       rows'[i].key # rows[i].key =>
         rows[i].key[1] = "bookeo" /\ rows'[i].key[1] = "ota"]_vars

=============================================================================
