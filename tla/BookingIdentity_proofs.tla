----------------------- MODULE BookingIdentity_proofs -----------------------
(***************************************************************************)
(* Proofs about BookingIdentity, for any orders, emails, processes and     *)
(* number of runs.  The argument: a transaction that has passed its lookup *)
(* alone holds a row which fits its email, either by its key or as a       *)
(* provisional one of the same party, and nobody else writes that row      *)
(* until the transaction ends; identities are unique and those of an OTA   *)
(* are final, so a cancellation's row stays the only one of its identity.  *)
(* And a row that a lookup passed over is never found by it later, unless  *)
(* the import revives it: it has its OTA's identity by now, or is          *)
(* cancelled.                                                              *)
(***************************************************************************)
EXTENDS BookingIdentity, TLAPS

USE IdentityAssumption

-----------------------------------------------------------------------------
(* The inductive invariant.                                                *)

UniqueKeys ==
  \A i, j \in DOMAIN rows : rows[i].key = rows[j].key => i = j

\* All the orders of a row are of one party, that of its key and its values.
RowOK(r) ==
  /\ r.key[3] \in r.orders
  /\ \A o \in r.orders : PartyOf[o] = PartyOf[r.key[3]]
  /\ r.party \in {None, PartyOf[r.key[3]]}

RowsOK == \A i \in DOMAIN rows : RowOK(rows[i])

\* A row an email may be merged into.
Fits(e, r) ==
  /\ PartyOf[r.key[3]] = PartyOf[Parsed[e].order]
  /\ r.key = KeyOf(e) \/ (r.key[1] = "bookeo" /\ Sighted(e))

Has(a) == a.pc \in {"check", "save"}

\* A transaction beyond the exact lookup has an OTA's identity, and the row it
\* holds fits its email.
AgentOK(a) ==
  /\ a.pc \in {"number", "details"} => Sighted(a.email)
  /\ Has(a) => Fits(a.email, rows[a.row])

OneHolder ==
  \A m, n \in Mailers :
    Has(agent[m]) /\ Has(agent[n]) /\ agent[m].row = agent[n].row => m = n

\* An email that cancels is only taken up when its order is cancelled.
CalledOK ==
  /\ \A m \in Mailers :
       (agent[m].pc # "idle" /\ Parsed[agent[m].email].cancels) =>
         Parsed[agent[m].email].order \in called
  /\ \A e \in Emails :
       (raw[e] = "parsed" /\ Parsed[e].cancels) => Parsed[e].order \in called

Settled(e) == Sighted(e) /\ Parsed[e].cancels /\ raw[e] = "parsed" /\ e \notin flagged

\* A parsed cancellation has its row, and that is cancelled.
Reached ==
  \A e \in Emails : Settled(e) =>
    \E i \in DOMAIN rows : rows[i].key = KeyOf(e) /\ rows[i].status = "cancelled"

IdentityInv ==
  /\ TypeOK
  /\ UniqueKeys
  /\ RowsOK
  /\ \A m \in Mailers : AgentOK(agent[m])
  /\ OneHolder
  /\ CalledOK
  /\ Reached

-----------------------------------------------------------------------------
(* Keys and rows.                                                          *)

LEMMA KeyType ==
  ASSUME NEW e \in Emails
  PROVE  /\ Parsed[e] \in ParsedEmail /\ Parsed[e].order \in Orders
         /\ KeyOf(e) \in Keys /\ KeyOf(e)[3] = Parsed[e].order
         /\ KeyOf(e)[1] \in {"bookeo", "ota"}
BY DEF KeyOf, Keys, Providers, ParsedEmail

LEMMA PartyType ==
  ASSUME NEW o \in Orders
  PROVE  PartyOf[o] \in Parties /\ PartyOf[o] # None
BY DEF Parties

\* What a lookup finds fits the email.
LEMMA MatchFits ==
  ASSUME NEW e \in Emails, NEW q \in Queries, NEW r, RowOK(r), Matches(e, q, r),
         q \in {"number", "details"} => Sighted(e)
  PROVE  Fits(e, r)
<1>1. Parsed[e].order \in Orders /\ KeyOf(e)[3] = Parsed[e].order
  BY KeyType
<1>2. PartyOf[Parsed[e].order] # None
  BY <1>1, PartyType
<1>3. CASE q = "exact"
  BY <1>1, <1>3 DEF Matches, Fits
<1>4. CASE q = "number"
  BY <1>4 DEF Matches, Fits
<1>5. CASE q = "details"
  BY <1>2, <1>5 DEF Matches, Fits, RowOK
<1>. QED BY <1>3, <1>4, <1>5 DEF Queries

LEMMA MergedRow ==
  ASSUME NEW e \in Emails, NEW r \in Row, RowOK(r), Fits(e, r)
  PROVE  /\ Merged(r, e) \in Row /\ RowOK(Merged(r, e)) /\ Merged(r, e).key = r.key
         /\ [Merged(r, e) EXCEPT !.key = KeyOf(e)] \in Row
         /\ RowOK([Merged(r, e) EXCEPT !.key = KeyOf(e)])
         /\ Merged(r, e).status =
              IF Parsed[e].cancels THEN "cancelled" ELSE r.status
<1>1. /\ Parsed[e].order \in Orders /\ KeyOf(e) \in Keys
      /\ KeyOf(e)[3] = Parsed[e].order
  BY KeyType
<1>2. PartyOf[Parsed[e].order] \in Parties
  BY <1>1, PartyType
<1>. PICK party, status, orders, k :
       /\ party = IF Parsed[e].full THEN PartyOf[Parsed[e].order] ELSE r.party
       /\ status = IF Parsed[e].cancels THEN "cancelled" ELSE r.status
       /\ orders = r.orders \cup {Parsed[e].order}
       /\ k = KeyOf(e)
  OBVIOUS
<1>3. Merged(r, e) = [r EXCEPT !.party = party, !.status = status, !.orders = orders]
  BY DEF Merged, Row
<1>4. /\ party \in Parties \cup {None} /\ status \in {"active", "cancelled"}
      /\ orders \in SUBSET Orders
  BY <1>1, <1>2 DEF Row
<1>5. /\ \A o \in orders : PartyOf[o] = PartyOf[r.key[3]]
      /\ r.key[3] \in orders /\ Parsed[e].order \in orders
      /\ party \in {None, PartyOf[r.key[3]]}
      /\ PartyOf[Parsed[e].order] = PartyOf[r.key[3]]
  BY DEF RowOK, Fits
<1>. PICK merged : merged = Merged(r, e)
  OBVIOUS
<1>6. /\ merged \in Row /\ merged.key = r.key /\ merged.party = party
      /\ merged.status = status /\ merged.orders = orders
  BY <1>3, <1>4 DEF Row
<1>7. /\ [merged EXCEPT !.key = k] \in Row
      /\ [merged EXCEPT !.key = k].key = k /\ [merged EXCEPT !.key = k].party = party
      /\ [merged EXCEPT !.key = k].orders = orders
  BY <1>1, <1>6 DEF Row
<1>8. k[3] = Parsed[e].order
  BY <1>1
<1>. QED BY <1>5, <1>6, <1>7, <1>8 DEF RowOK

LEMMA NewRowOK ==
  ASSUME NEW k \in Keys, NEW o \in Orders, k[3] = o, NEW full \in BOOLEAN,
         NEW cancelled \in BOOLEAN
  PROVE  /\ NewRow(k, o, full, cancelled) \in Row
         /\ NewRow(k, o, full, cancelled).key = k
         /\ NewRow(k, o, full, cancelled).status = "cancelled" <=> cancelled
         /\ RowOK(NewRow(k, o, full, cancelled))
BY PartyType DEF NewRow, Row, RowOK

\* Writing one row: it keeps its identity, or takes one nobody has.
LEMMA RowWritten ==
  ASSUME IdentityInv, NEW i \in DOMAIN rows, NEW new \in Row, RowOK(new),
         rows' = [rows EXCEPT ![i] = new],
         new.key = rows[i].key \/ ~KeyTaken(new.key)
  PROVE  /\ rows' \in Seq(Row) /\ DOMAIN rows' = DOMAIN rows
         /\ rows'[i] = new /\ \A j \in DOMAIN rows \ {i} : rows'[j] = rows[j]
         /\ UniqueKeys' /\ RowsOK'
<1>1. rows \in Seq(Row)
  BY DEF IdentityInv, TypeOK
<1>2. /\ rows' \in Seq(Row) /\ DOMAIN rows' = DOMAIN rows
      /\ rows'[i] = new /\ \A j \in DOMAIN rows \ {i} : rows'[j] = rows[j]
  BY <1>1
<1>3. RowsOK'
  BY <1>2 DEF RowsOK, IdentityInv, RowOK
<1>4. UniqueKeys'
  BY <1>2 DEF UniqueKeys, IdentityInv, KeyTaken
<1>. QED BY <1>2, <1>3, <1>4

LEMMA RowAppended ==
  ASSUME IdentityInv, NEW new \in Row, RowOK(new), rows' = Append(rows, new),
         ~KeyTaken(new.key)
  PROVE  /\ rows' \in Seq(Row) /\ DOMAIN rows \subseteq DOMAIN rows'
         /\ \A j \in DOMAIN rows : rows'[j] = rows[j]
         /\ \E i \in DOMAIN rows' : rows'[i] = new
         /\ UniqueKeys' /\ RowsOK'
<1>1. rows \in Seq(Row)
  BY DEF IdentityInv, TypeOK
<1>. PICK i : i = Len(rows) + 1
  OBVIOUS
<1>2. /\ rows' \in Seq(Row) /\ DOMAIN rows' = DOMAIN rows \cup {i}
      /\ rows'[i] = new /\ \A j \in DOMAIN rows : rows'[j] = rows[j]
  BY <1>1
<1>3. RowsOK'
  BY <1>2 DEF RowsOK, IdentityInv, RowOK
<1>4. UniqueKeys'
  BY <1>2 DEF UniqueKeys, IdentityInv, KeyTaken
<1>. QED BY <1>2, <1>3, <1>4

-----------------------------------------------------------------------------
(* The steps of a transaction.                                             *)

\* What TypeOK asks of a transaction.
AgentTyped(a) ==
  /\ a \in Agent
  /\ a.email = None <=> a.pc = "idle"
  /\ a.left # {} => a.pc \in Queries
  /\ a.row # None <=> a.pc \in {"check", "save"}

\* Idle is typed, holds nothing and fits.
LEMMA IdleOK == AgentTyped(Idle) /\ ~Has(Idle) /\ AgentOK(Idle) /\ Idle.pc = "idle"
BY DEF AgentTyped, Idle, Agent, Has, AgentOK

\* An id is a number, None is not.
LEMMA RowIsNone ==
  ASSUME IdentityInv
  PROVE  \A i \in DOMAIN rows : i # None
BY DEF IdentityInv, TypeOK

LEMMA MailerFacts ==
  ASSUME IdentityInv, NEW m \in Mailers
  PROVE  /\ AgentTyped(agent[m]) /\ AgentOK(agent[m])
         /\ agent[m].pc # "idle" => agent[m].email \in Emails
         /\ Has(agent[m]) => /\ agent[m].row \in DOMAIN rows
                             /\ rows[agent[m].row] \in Row /\ RowOK(rows[agent[m].row])
                             /\ Fits(agent[m].email, rows[agent[m].row])
<1>1. AgentTyped(agent[m]) /\ AgentOK(agent[m])
  BY DEF IdentityInv, TypeOK, AgentTyped
<1>2. Has(agent[m]) => agent[m].row \in DOMAIN rows
  BY <1>1 DEF AgentTyped, Agent, Has
<1>. QED BY <1>1, <1>2 DEF AgentTyped, Agent, AgentOK, IdentityInv, RowsOK, TypeOK

\* A step that changes one transaction and no row.
LEMMA AgentStep ==
  ASSUME IdentityInv, NEW m \in Mailers, NEW s, Become(m, s),
         AgentTyped(s), AgentOK(s),
         Has(s) => \A n \in Mailers \ {m} : ~(Has(agent[n]) /\ agent[n].row = s.row),
         (s.pc # "idle" /\ Parsed[s.email].cancels) => Parsed[s.email].order \in called,
         runs' \in [Emails -> 0..MaxRuns],
         UNCHANGED <<rows, raw, flagged, called, imported>>
  PROVE  IdentityInv'
<1>1. /\ agent' = [agent EXCEPT ![m] = s] /\ agent'[m] = s
      /\ \A n \in Mailers \ {m} : agent'[n] = agent[n]
  BY DEF Become, IdentityInv, TypeOK
<1>2. TypeOK'
  BY <1>1 DEF IdentityInv, TypeOK, AgentTyped, Agent
<1>3. \A n \in Mailers : AgentOK(agent[n])'
  BY <1>1 DEF IdentityInv, AgentOK, Fits
<1>4. OneHolder'
  BY <1>1 DEF IdentityInv, OneHolder, Has
<1>5. CalledOK'
  BY <1>1 DEF IdentityInv, CalledOK
<1>6. UniqueKeys' /\ RowsOK' /\ Reached'
  BY DEF IdentityInv, UniqueKeys, RowsOK, RowOK, Reached, Settled
<1>. QED BY <1>2, <1>3, <1>4, <1>5, <1>6 DEF IdentityInv

LEMMA BeginKeeps ==
  ASSUME IdentityInv, NEW m \in Mailers, NEW e \in Emails, Begin(m, e)
  PROVE  IdentityInv'
<1>. PICK s : s = [Idle EXCEPT !.pc = "exact", !.email = e,
                     !.saw = IF Sighted(e)
                             THEN Found(e, "number") \cup Found(e, "details")
                             ELSE {}]
  OBVIOUS
<1>1. Become(m, s) /\ UNCHANGED <<rows, raw, flagged, called, imported>>
  BY DEF Begin
<1>2. /\ s \in Agent /\ s.pc = "exact" /\ s.email = e /\ s.row = None /\ s.left = {}
  BY DEF Idle, Agent, Queries, Found
<1>3. AgentTyped(s) /\ AgentOK(s) /\ ~Has(s)
  BY <1>2 DEF AgentTyped, AgentOK, Has
<1>4. runs' \in [Emails -> 0..MaxRuns]
  <2>1. runs \in [Emails -> 0..MaxRuns] /\ (raw[e] # "failed" => runs[e] < MaxRuns)
    BY DEF Begin, IdentityInv, TypeOK
  <2>. PICK v : v = IF raw[e] = "failed" THEN runs[e] ELSE runs[e] + 1
    OBVIOUS
  <2>2. runs' = [runs EXCEPT ![e] = v]
    BY DEF Begin
  <2>3. v \in 0..MaxRuns
    BY <2>1
  <2>. QED BY <2>1, <2>2, <2>3
<1>5. Parsed[e].cancels => Parsed[e].order \in called
  BY DEF Begin
<1>. QED BY <1>1, <1>2, <1>3, <1>4, <1>5, AgentStep

\* The transaction goes on with the same email.
LEMMA AgentGoesOn ==
  ASSUME IdentityInv, NEW m \in Mailers, NEW s, Become(m, s), agent[m].pc # "idle",
         AgentTyped(s), AgentOK(s), s.email = agent[m].email,
         Has(s) => \A n \in Mailers \ {m} : ~(Has(agent[n]) /\ agent[n].row = s.row),
         UNCHANGED <<rows, raw, flagged, called, imported, runs>>
  PROVE  IdentityInv'
<1>1. Parsed[s.email].cancels => Parsed[s.email].order \in called
  BY DEF IdentityInv, CalledOK
<1>2. runs' \in [Emails -> 0..MaxRuns]
  BY DEF IdentityInv, TypeOK
<1>. QED BY <1>1, <1>2, AgentStep

LEMMA AfterOK ==
  ASSUME NEW a, a \in Agent, a.email \in Emails, a.pc \in Queries,
         a.pc \in {"number", "details"} => Sighted(a.email),
         NEW s, s \in Agent, s.pc = After(a.email, a.pc), s.email = a.email,
         s.left = {}, s.row = None
  PROVE  AgentTyped(s) /\ AgentOK(s) /\ ~Has(s) /\ s.pc # "idle"
BY DEF After, Queries, AgentTyped, AgentOK, Has

LEMMA AfterType ==
  ASSUME NEW e, NEW q \in Queries
  PROVE  After(e, q) \in Queries \cup {"create"}
BY DEF After, Queries

LEMMA LookKeeps ==
  ASSUME IdentityInv, NEW m \in Mailers, Look(m)
  PROVE  IdentityInv'
<1>. PICK a : a = agent[m]
  OBVIOUS
<1>. PICK found, q : found = Found(a.email, a.pc) /\ q = After(a.email, a.pc)
  OBVIOUS
<1>. PICK s : s = IF found = {} THEN [a EXCEPT !.pc = q] ELSE [a EXCEPT !.left = found]
  OBVIOUS
<1>1. /\ a.pc \in Queries /\ a.left = {} /\ a.row = None /\ a.pc # "idle" /\ a \in Agent
      /\ AgentTyped(a) /\ AgentOK(a) /\ a.email \in Emails
      /\ UNCHANGED <<rows, raw, flagged, called, imported, runs>>
  BY MailerFacts DEF Look, Queries, AgentTyped
<1>2. Become(m, s)
  BY DEF Look
<1>3. CASE found # {}
  <2>1. found \subseteq DOMAIN rows
    BY DEF Found
  <2>2. /\ s \in Agent /\ s.pc = a.pc /\ s.email = a.email /\ s.left = found
        /\ s.row = None
    BY <1>1, <1>3, <2>1 DEF Agent
  <2>3. AgentTyped(s) /\ AgentOK(s) /\ ~Has(s)
    BY <1>1, <2>2 DEF AgentTyped, AgentOK, Has, Queries
  <2>. QED BY <1>1, <1>2, <2>2, <2>3, AgentGoesOn
<1>4. CASE found = {}
  <2>1. q \in Queries \cup {"create"}
    BY <1>1, AfterType
  <2>2. /\ s \in Agent /\ s.pc = q /\ s.email = a.email /\ s.left = {}
        /\ s.row = None
    BY <1>1, <1>4, <2>1 DEF Agent
  <2>3. AgentTyped(s) /\ AgentOK(s) /\ ~Has(s)
    BY <1>1, <2>2, AfterOK DEF AgentOK
  <2>. QED BY <1>1, <1>2, <2>2, <2>3, AgentGoesOn
<1>. QED BY <1>3, <1>4

\* What a lookup is after it has lost a candidate.
LEMMA LostFacts ==
  ASSUME NEW a \in Agent, a.pc \in Queries, NEW i \in a.left
  PROVE  /\ Lost(a, i) \in Agent /\ Lost(a, i).email = a.email
         /\ Lost(a, i).row = a.row /\ Lost(a, i).saw = a.saw
         /\ Lost(a, i).left = a.left \ {i}
         /\ Lost(a, i).pc = IF a.left = {i} THEN After(a.email, a.pc) ELSE a.pc
<1>. PICK q, left : q = After(a.email, a.pc) /\ left = a.left \ {i}
  OBVIOUS
<1>1. q \in Queries \cup {"create"} /\ left \in SUBSET DOMAIN rows
  BY AfterType DEF Agent
<1>2. CASE a.left = {i}
  <2>1. Lost(a, i) = [a EXCEPT !.pc = q, !.left = {}] /\ left = {}
    BY <1>2 DEF Lost
  <2>. QED BY <1>1, <1>2, <2>1 DEF Agent
<1>3. CASE a.left # {i}
  <2>1. Lost(a, i) = [a EXCEPT !.left = left]
    BY <1>3 DEF Lost, Agent
  <2>. QED BY <1>1, <1>3, <2>1 DEF Agent
<1>. QED BY <1>2, <1>3

LEMMA LockKeeps ==
  ASSUME IdentityInv, NEW m \in Mailers, Lock(m)
  PROVE  IdentityInv'
<1>. PICK a : a = agent[m]
  OBVIOUS
<1>1. /\ a.pc \in Queries /\ a.pc # "idle" /\ a \in Agent /\ a.row = None
      /\ AgentTyped(a) /\ AgentOK(a) /\ a.email \in Emails
      /\ UNCHANGED <<rows, raw, flagged, called, imported, runs>>
  BY MailerFacts DEF Lock, Queries, AgentTyped
<1>2. PICK i \in a.left :
        /\ \A n \in Mailers : ~Holds(n, i)
        /\ Become(m, IF Matches(a.email, a.pc, rows[i])
                     THEN [a EXCEPT !.pc = "check", !.left = {}, !.row = i]
                     ELSE Lost(a, i))
  BY DEF Lock
<1>3. i \in DOMAIN rows /\ i # None
  BY <1>1, RowIsNone DEF Agent
<1>4. CASE Matches(a.email, a.pc, rows[i])
  <2>. PICK s : s = [a EXCEPT !.pc = "check", !.left = {}, !.row = i]
    OBVIOUS
  <2>1. Become(m, s)
    BY <1>2, <1>4
  <2>2. s \in Agent /\ s.pc = "check" /\ s.email = a.email /\ s.left = {} /\ s.row = i
    BY <1>1, <1>3 DEF Agent
  <2>3. RowOK(rows[i])
    BY <1>3 DEF IdentityInv, RowsOK
  <2>4. Fits(a.email, rows[i])
    BY <1>1, <1>4, <2>3, MatchFits DEF AgentOK
  <2>5. AgentTyped(s) /\ AgentOK(s)
    BY <1>1, <1>3, <2>2, <2>4 DEF AgentTyped, AgentOK
  <2>6. \A n \in Mailers : ~(Has(agent[n]) /\ agent[n].row = s.row)
    BY <1>2, <2>2 DEF Holds, Has
  <2>. QED BY <1>1, <2>1, <2>2, <2>5, <2>6, AgentGoesOn
<1>5. CASE ~Matches(a.email, a.pc, rows[i])
  <2>. PICK s : s = Lost(a, i)
    OBVIOUS
  <2>1. Become(m, s)
    BY <1>2, <1>5
  <2>2. /\ s \in Agent /\ s.email = a.email /\ s.row = None /\ s.left = a.left \ {i}
        /\ s.pc = IF a.left = {i} THEN After(a.email, a.pc) ELSE a.pc
    BY <1>1, LostFacts
  <2>3. AgentTyped(s) /\ AgentOK(s) /\ ~Has(s)
    <3>1. CASE a.left = {i}
      BY <1>1, <2>2, <3>1, AfterOK DEF AgentOK
    <3>2. CASE a.left # {i}
      BY <1>1, <2>2, <3>2 DEF AgentTyped, AgentOK, Has, Queries
    <3>. QED BY <3>1, <3>2
  <2>. QED BY <1>1, <2>1, <2>2, <2>3, AgentGoesOn
<1>. QED BY <1>4, <1>5

LEMMA CheckKeeps ==
  ASSUME IdentityInv, NEW m \in Mailers, Check(m)
  PROVE  IdentityInv'
<1>. PICK a, clash : /\ a = agent[m]
                     /\ clash = (rows[a.row].key # KeyOf(a.email) /\ KeyTaken(KeyOf(a.email)))
  OBVIOUS
<1>1. /\ a.pc = "check" /\ Has(a) /\ a \in Agent /\ AgentTyped(a) /\ AgentOK(a)
      /\ UNCHANGED <<rows, raw, flagged, called, imported, runs>>
  BY MailerFacts DEF Check, AgentTyped, Has
<1>. PICK s : s = [a EXCEPT !.pc = "save", !.clash = clash]
  OBVIOUS
<1>2. /\ s \in Agent /\ s.pc = "save" /\ s.email = a.email /\ s.left = a.left
      /\ s.row = a.row
  BY <1>1 DEF Agent, KeyTaken
<1>3. AgentTyped(s) /\ AgentOK(s)
  BY <1>1, <1>2 DEF AgentTyped, AgentOK, Has, Queries
<1>4. \A n \in Mailers \ {m} : ~(Has(agent[n]) /\ agent[n].row = s.row)
  BY <1>1, <1>2 DEF IdentityInv, OneHolder
<1>5. Become(m, s)
  BY DEF Check
<1>. QED BY <1>1, <1>2, <1>3, <1>4, <1>5, AgentGoesOn

LEMMA FailKeeps ==
  ASSUME IdentityInv, NEW m \in Mailers, agent[m].pc # "idle", Fail(m)
  PROVE  IdentityInv'
<1>. PICK e : e = agent[m].email
  OBVIOUS
<1>1. /\ raw' = [raw EXCEPT ![e] = "failed"] /\ agent' = [agent EXCEPT ![m] = Idle]
      /\ UNCHANGED <<rows, flagged, called, imported, runs>>
  BY DEF Fail, Become
<1>2. /\ raw' \in [Emails -> {"pending", "parsed", "failed"}]
      /\ \A f \in Emails : raw'[f] = "parsed" => raw[f] = "parsed"
  BY <1>1, MailerFacts DEF IdentityInv, TypeOK
<1>3. agent'[m] = Idle /\ \A n \in Mailers \ {m} : agent'[n] = agent[n]
  BY <1>1 DEF IdentityInv, TypeOK
<1>4. TypeOK'
  BY <1>1, <1>2, <1>3, IdleOK DEF IdentityInv, TypeOK, AgentTyped, Agent
<1>5. \A n \in Mailers : AgentOK(agent[n])'
  BY <1>1, <1>3, IdleOK DEF IdentityInv, AgentOK, Fits, Has
<1>6. OneHolder'
  BY <1>3, IdleOK DEF IdentityInv, OneHolder, Has
<1>7. CalledOK'
  BY <1>1, <1>2, <1>3, IdleOK DEF IdentityInv, CalledOK
<1>8. UniqueKeys' /\ RowsOK' /\ Reached'
  BY <1>1, <1>2 DEF IdentityInv, UniqueKeys, RowsOK, RowOK, Reached, Settled
<1>. QED BY <1>4, <1>5, <1>6, <1>7, <1>8 DEF IdentityInv

\* The same transaction, as far as the invariant sees it.
Alike(s, a) ==
  s.pc = a.pc /\ s.email = a.email /\ s.left = a.left /\ s.row = a.row

\* The invariant after a step that writes rows: what the others hold is as it
\* was, and what was settled stays settled.
LEMMA RowsStep ==
  ASSUME IdentityInv,
         rows' \in Seq(Row), DOMAIN rows \subseteq DOMAIN rows', UniqueKeys', RowsOK',
         \A n \in Mailers : Alike(agent'[n], agent[n]) \/ agent'[n] = Idle,
         \A n \in Mailers : Has(agent'[n]) => rows'[agent'[n].row] = rows[agent[n].row],
         agent' \in [Mailers -> Agent'],
         raw' \in [Emails -> {"pending", "parsed", "failed"}],
         flagged' \subseteq Emails, imported' \subseteq Orders, Reached',
         \A e \in Emails : (raw'[e] = "parsed" /\ Parsed[e].cancels) =>
                              Parsed[e].order \in called,
         UNCHANGED <<called, runs>>
  PROVE  IdentityInv'
<1>1. \A n \in Mailers : AgentTyped(agent[n]) /\ AgentOK(agent[n])
  BY MailerFacts
<1>2. TypeOK'
  <2>1. ASSUME NEW n \in Mailers
        PROVE  LET b == agent'[n] IN
               /\ b.email = None <=> b.pc = "idle"
               /\ b.left # {} => b.pc \in Queries
               /\ b.row # None <=> b.pc \in {"check", "save"}
    <3>1. CASE Alike(agent'[n], agent[n])
      BY <1>1, <3>1 DEF AgentTyped, Alike
    <3>2. CASE agent'[n] = Idle
      BY <3>2, IdleOK DEF AgentTyped
    <3>. QED BY <3>1, <3>2
  <2>. QED BY <2>1 DEF IdentityInv, TypeOK
<1>3. \A n \in Mailers : AgentOK(agent[n])'
  BY <1>1, IdleOK DEF AgentOK, Fits, Has, Alike
<1>4. OneHolder'
  BY IdleOK DEF IdentityInv, OneHolder, Has, Alike
<1>5. CalledOK'
  BY IdleOK DEF IdentityInv, CalledOK, Alike
<1>. QED BY <1>2, <1>3, <1>4, <1>5 DEF IdentityInv

\* The transaction of m commits: it becomes idle.
LEMMA CommitAgents ==
  ASSUME IdentityInv, NEW m \in Mailers, Become(m, Idle), DOMAIN rows \subseteq DOMAIN rows'
  PROVE  /\ agent'[m] = Idle /\ \A n \in Mailers \ {m} : agent'[n] = agent[n]
         /\ agent' \in [Mailers -> Agent']
<1>1. agent \in [Mailers -> Agent] /\ agent' = [agent EXCEPT ![m] = Idle]
  BY DEF Become, IdentityInv, TypeOK
<1>2. Agent \subseteq Agent' /\ Idle \in Agent'
  BY DEF Agent, Idle
<1>. QED BY <1>1, <1>2

LEMMA SaveKeeps ==
  ASSUME IdentityInv, NEW m \in Mailers, Save(m)
  PROVE  IdentityInv'
<1>. PICK a, i, e, k : a = agent[m] /\ i = a.row /\ e = a.email /\ k = KeyOf(e)
  OBVIOUS
<1>. PICK r : r = rows[i]
  OBVIOUS
<1>. DEFINE promotes == r.key # k /\ ~a.clash
            merged == Merged(r, e)
            new == [merged EXCEPT !.key = IF promotes THEN k ELSE @]
<1>1. /\ a.pc = "save" /\ Has(a) /\ a.pc # "idle" /\ e \in Emails /\ i \in DOMAIN rows
      /\ r \in Row /\ RowOK(r) /\ Fits(e, r)
  BY MailerFacts DEF Save, Has
<1>2. CASE promotes /\ KeyTaken(k)
  BY <1>1, <1>2, FailKeeps DEF Save
<1>3. CASE ~(promotes /\ KeyTaken(k))
  <2>1. /\ rows' = [rows EXCEPT ![i] = new]
        /\ raw' = [raw EXCEPT ![e] = "parsed"]
        /\ flagged' = IF a.clash THEN flagged \cup {e} ELSE flagged
        /\ Become(m, Idle)
        /\ UNCHANGED <<called, imported, runs>>
    BY <1>3 DEF Save
  <2>2. /\ new \in Row /\ RowOK(new) /\ new.key = IF promotes THEN k ELSE r.key
        /\ new.status = IF Parsed[e].cancels THEN "cancelled" ELSE r.status
    <3>1. /\ merged \in Row /\ RowOK(merged) /\ merged.key = r.key
          /\ [merged EXCEPT !.key = k] \in Row /\ RowOK([merged EXCEPT !.key = k])
          /\ merged.status = IF Parsed[e].cancels THEN "cancelled" ELSE r.status
      BY <1>1, MergedRow
    <3>2. CASE promotes
      BY <3>1, <3>2 DEF Row
    <3>3. CASE ~promotes
      <4>1. new = merged
        BY <3>1, <3>3 DEF Row
      <4>. QED BY <3>1, <3>3, <4>1
    <3>. QED BY <3>2, <3>3
  <2>. HIDE DEF new
  <2>3. /\ rows' \in Seq(Row) /\ DOMAIN rows' = DOMAIN rows
        /\ rows'[i] = new /\ \A j \in DOMAIN rows \ {i} : rows'[j] = rows[j]
        /\ UniqueKeys' /\ RowsOK'
    BY <1>1, <1>3, <2>1, <2>2, RowWritten
  <2>4. /\ agent'[m] = Idle /\ \A n \in Mailers \ {m} : agent'[n] = agent[n]
        /\ agent' \in [Mailers -> Agent']
    BY <2>1, <2>3, CommitAgents
  <2>5. \A n \in Mailers : Has(agent'[n]) => rows'[agent'[n].row] = rows[agent[n].row]
    <3>. SUFFICES ASSUME NEW n \in Mailers, Has(agent'[n])
                  PROVE  rows'[agent'[n].row] = rows[agent[n].row]
      OBVIOUS
    <3>1. n # m /\ agent'[n] = agent[n]
      BY <2>4, IdleOK
    <3>2. agent[n].row # i /\ agent[n].row \in DOMAIN rows
      BY <1>1, <3>1, MailerFacts DEF IdentityInv, OneHolder
    <3>. QED BY <2>3, <3>1, <3>2
  <2>6. /\ raw' \in [Emails -> {"pending", "parsed", "failed"}] /\ flagged' \subseteq Emails
        /\ raw'[e] = "parsed" /\ \A f \in Emails \ {e} : raw'[f] = raw[f]
    BY <1>1, <2>1 DEF IdentityInv, TypeOK
  <2>7. \A f \in Emails : (raw'[f] = "parsed" /\ Parsed[f].cancels) => Parsed[f].order \in called
    BY <1>1, <2>6 DEF IdentityInv, CalledOK
  <2>8. Reached'
    <3>. SUFFICES ASSUME NEW f \in Emails, Settled(f)'
                  PROVE  \E j \in DOMAIN rows' : rows'[j].key = KeyOf(f)
                                                 /\ rows'[j].status = "cancelled"
      BY DEF Reached, Settled, Sighted
    <3>1. CASE f = e
      <4>1. ~a.clash /\ Parsed[e].cancels
        BY <1>1, <2>1, <3>1 DEF Settled
      <4>2. new.key = k /\ new.status = "cancelled"
        BY <2>2, <4>1
      <4>. QED BY <1>1, <2>3, <3>1, <4>2
    <3>2. CASE f # e
      <4>1. Settled(f)
        BY <2>1, <2>6, <3>2 DEF Settled, Sighted
      <4>2. PICK j \in DOMAIN rows : rows[j].key = KeyOf(f) /\ rows[j].status = "cancelled"
        BY <4>1 DEF IdentityInv, Reached
      <4>3. CASE j # i
        BY <2>3, <4>2, <4>3
      <4>4. CASE j = i
        <5>1. r.key[1] # "bookeo"
          BY <4>1, <4>2, <4>4 DEF Settled, Sighted
        <5>2. r.key = k
          BY <1>1, <5>1 DEF Fits
        <5>. QED BY <2>2, <2>3, <4>2, <4>4, <5>2
      <4>. QED BY <4>3, <4>4
    <3>. QED BY <3>1, <3>2
  <2>9. \A n \in Mailers : Alike(agent'[n], agent[n]) \/ agent'[n] = Idle
    BY <2>4 DEF Alike
  <2>10. DOMAIN rows \subseteq DOMAIN rows' /\ imported' \subseteq Orders
    BY <2>1, <2>3 DEF IdentityInv, TypeOK
  <2>. QED BY <2>1, <2>3, <2>4, <2>5, <2>6, <2>7, <2>8, <2>9, <2>10, RowsStep
<1>. QED BY <1>2, <1>3

LEMMA CreateKeeps ==
  ASSUME IdentityInv, NEW m \in Mailers, Create(m)
  PROVE  IdentityInv'
<1>. PICK a, e : a = agent[m] /\ e = a.email
  OBVIOUS
<1>. PICK k : k = KeyOf(e)
  OBVIOUS
<1>1. a.pc = "create" /\ a.pc # "idle" /\ e \in Emails /\ ~Has(a)
  BY MailerFacts DEF Create, Has
<1>2. CASE KeyTaken(k)
  BY <1>1, <1>2, FailKeeps DEF Create
<1>3. CASE ~KeyTaken(k)
  <2>. PICK new : new = NewRow(k, Parsed[e].order, Parsed[e].full, Parsed[e].cancels)
    OBVIOUS
  <2>1. /\ rows' = Append(rows, new) /\ raw' = [raw EXCEPT ![e] = "parsed"]
        /\ Become(m, Idle)
        /\ UNCHANGED <<flagged, called, imported, runs>>
    BY <1>3 DEF Create
  <2>2. /\ new \in Row /\ RowOK(new) /\ new.key = k
        /\ new.status = "cancelled" <=> Parsed[e].cancels
    <3>1. /\ k \in Keys /\ k[3] = Parsed[e].order /\ Parsed[e].order \in Orders
          /\ Parsed[e].full \in BOOLEAN /\ Parsed[e].cancels \in BOOLEAN
      BY <1>1, KeyType DEF ParsedEmail
    <3>. QED BY <3>1, NewRowOK
  <2>3. /\ rows' \in Seq(Row) /\ DOMAIN rows \subseteq DOMAIN rows'
        /\ \A j \in DOMAIN rows : rows'[j] = rows[j]
        /\ \E i \in DOMAIN rows' : rows'[i] = new
        /\ UniqueKeys' /\ RowsOK'
    BY <1>3, <2>1, <2>2, RowAppended
  <2>4. /\ agent'[m] = Idle /\ \A n \in Mailers \ {m} : agent'[n] = agent[n]
        /\ agent' \in [Mailers -> Agent']
    BY <2>1, <2>3, CommitAgents
  <2>5. \A n \in Mailers : Has(agent'[n]) => rows'[agent'[n].row] = rows[agent[n].row]
    BY <2>3, <2>4, IdleOK, MailerFacts
  <2>6. /\ raw' \in [Emails -> {"pending", "parsed", "failed"}]
        /\ raw'[e] = "parsed" /\ \A f \in Emails \ {e} : raw'[f] = raw[f]
    BY <1>1, <2>1 DEF IdentityInv, TypeOK
  <2>7. \A f \in Emails : (raw'[f] = "parsed" /\ Parsed[f].cancels) => Parsed[f].order \in called
    BY <1>1, <2>6 DEF IdentityInv, CalledOK
  <2>8. Reached'
    <3>. SUFFICES ASSUME NEW f \in Emails, Settled(f)'
                  PROVE  \E j \in DOMAIN rows' : rows'[j].key = KeyOf(f)
                                                 /\ rows'[j].status = "cancelled"
      BY DEF Reached, Settled, Sighted
    <3>1. CASE f = e
      BY <2>2, <2>3, <3>1 DEF Settled
    <3>2. CASE f # e
      <4>1. Settled(f)
        BY <2>1, <2>6, <3>2 DEF Settled, Sighted
      <4>2. PICK j \in DOMAIN rows : rows[j].key = KeyOf(f) /\ rows[j].status = "cancelled"
        BY <4>1 DEF IdentityInv, Reached
      <4>. QED BY <2>3, <4>2
    <3>. QED BY <3>1, <3>2
  <2>9. \A n \in Mailers : Alike(agent'[n], agent[n]) \/ agent'[n] = Idle
    BY <2>4 DEF Alike
  <2>10. flagged' \subseteq Emails /\ imported' \subseteq Orders
    BY <2>1 DEF IdentityInv, TypeOK
  <2>. QED BY <2>1, <2>3, <2>4, <2>5, <2>6, <2>7, <2>8, <2>9, <2>10, RowsStep
<1>. QED BY <1>2, <1>3

-----------------------------------------------------------------------------
(* The import, the customer, and all steps.                                *)

LEMMA ImportKeyType ==
  ASSUME NEW o \in Orders
  PROVE  ImportKey(o) \in Keys /\ ImportKey(o)[3] = o
BY DEF ImportKey, Keys, Providers

LEMMA OverlookFacts ==
  ASSUME IdentityInv, NEW ids, Overlook(ids), DOMAIN rows \subseteq DOMAIN rows'
  PROVE  /\ agent' \in [Mailers -> Agent']
         /\ \A n \in Mailers : /\ Alike(agent'[n], agent[n])
                               /\ agent'[n].saw = agent[n].saw \ ids
<1>1. \A n \in Mailers : agent[n] \in Agent /\ agent'[n] = [agent[n] EXCEPT !.saw = @ \ ids]
  BY DEF Overlook, IdentityInv, TypeOK
<1>2. ASSUME NEW n \in Mailers
      PROVE  /\ agent'[n] \in Agent' /\ Alike(agent'[n], agent[n])
             /\ agent'[n].saw = agent[n].saw \ ids
  <2>. PICK a, left : a = agent[n] /\ left = a.saw \ ids
    OBVIOUS
  <2>1. a \in Agent /\ Agent \subseteq Agent' /\ agent'[n] = [a EXCEPT !.saw = left]
    BY <1>1 DEF Agent
  <2>2. left \in SUBSET DOMAIN rows
    BY <2>1 DEF Agent
  <2>3. /\ [a EXCEPT !.saw = left] \in Agent /\ [a EXCEPT !.saw = left].saw = left
        /\ Alike([a EXCEPT !.saw = left], a)
    BY <2>1, <2>2 DEF Agent, Alike
  <2>. QED BY <2>1, <2>3
<1>3. agent' = [n \in Mailers |-> agent'[n]]
  BY DEF Overlook
<1>. QED BY <1>2, <1>3

\* The import writes a row nobody holds, or a new one.
LEMMA ImportKeeps ==
  ASSUME IdentityInv, NEW o \in Orders, Import(o)
  PROVE  IdentityInv'
<1>. PICK k, status : k = ImportKey(o)
                      /\ status = IF o \in called THEN "cancelled" ELSE "active"
  OBVIOUS
<1>1. k \in Keys /\ k[3] = o /\ status \in {"active", "cancelled"} /\ PartyOf[o] \in Parties
  BY ImportKeyType, PartyType
<1>2. /\ imported' = imported \cup {o}
      /\ UNCHANGED <<raw, flagged, called, runs>>
  BY DEF Import
<1>3. /\ raw' \in [Emails -> {"pending", "parsed", "failed"}] /\ flagged' \subseteq Emails
      /\ imported' \subseteq Orders
      /\ \A e \in Emails : (raw'[e] = "parsed" /\ Parsed[e].cancels) =>
                             Parsed[e].order \in called
  BY <1>2 DEF IdentityInv, TypeOK, CalledOK
<1>4. ASSUME NEW f \in Emails, Settled(f)'
      PROVE  /\ KeyOf(f) = k => status = "cancelled"
             /\ \E j \in DOMAIN rows : rows[j].key = KeyOf(f) /\ rows[j].status = "cancelled"
  <2>1. Settled(f)
    BY <1>2, <1>4 DEF Settled, Sighted
  <2>2. Parsed[f].order \in called /\ KeyOf(f)[3] = Parsed[f].order
    BY <2>1, KeyType DEF Settled, IdentityInv, CalledOK
  <2>. QED BY <1>1, <2>1, <2>2 DEF IdentityInv, Reached
<1>5. ASSUME NEW i \in DOMAIN rows, rows[i].key = k, \A n \in Mailers : ~Holds(n, i),
             rows' = [rows EXCEPT ![i].status = status, ![i].party = PartyOf[o],
                                  ![i].orders = @ \cup {o}],
             NEW ids, Overlook(ids)
      PROVE  IdentityInv'
  <2>. PICK r : r = rows[i]
    OBVIOUS
  <2>1. r \in Row /\ RowOK(r) /\ r.key = k
    BY <1>5 DEF IdentityInv, TypeOK, RowsOK
  <2>. PICK party, orders : party = PartyOf[o] /\ orders = r.orders \cup {o}
    OBVIOUS
  <2>. PICK new : new = [r EXCEPT !.status = status, !.party = party, !.orders = orders]
    OBVIOUS
  <2>2. rows' = [rows EXCEPT ![i] = new]
    <3>1. rows \in Seq(Row)
      BY DEF IdentityInv, TypeOK
    <3>. QED BY <1>5, <2>1, <3>1 DEF Row
  <2>3. /\ new \in Row /\ new.key = k /\ new.status = status /\ new.party = party
        /\ new.orders = orders
    BY <1>1, <2>1 DEF Row
  <2>4. RowOK(new)
    BY <1>1, <2>1, <2>3 DEF RowOK
  <2>5. /\ rows' \in Seq(Row) /\ DOMAIN rows' = DOMAIN rows
        /\ rows'[i] = new /\ \A j \in DOMAIN rows \ {i} : rows'[j] = rows[j]
        /\ UniqueKeys' /\ RowsOK'
    <3>1. new.key = rows[i].key
      BY <2>1, <2>3
    <3>. QED BY <2>2, <2>3, <2>4, <3>1, RowWritten
  <2>6. /\ agent' \in [Mailers -> Agent']
        /\ \A n \in Mailers : Alike(agent'[n], agent[n])
    BY <1>5, <2>5, OverlookFacts
  <2>7. \A n \in Mailers : Has(agent'[n]) => rows'[agent'[n].row] = rows[agent[n].row]
    BY <1>5, <2>5, <2>6, MailerFacts DEF Has, Holds, Alike
  <2>8. Reached'
    <3>. SUFFICES ASSUME NEW f \in Emails, Settled(f)'
                  PROVE  \E j \in DOMAIN rows' : rows'[j].key = KeyOf(f)
                                                 /\ rows'[j].status = "cancelled"
      BY DEF Reached, Settled, Sighted
    <3>1. PICK j \in DOMAIN rows : rows[j].key = KeyOf(f) /\ rows[j].status = "cancelled"
      BY <1>4
    <3>2. CASE j # i
      BY <2>5, <3>1, <3>2
    <3>3. CASE j = i
      <4>1. status = "cancelled"
        BY <1>4, <1>5, <3>1, <3>3
      <4>. QED BY <1>5, <2>3, <2>5, <3>1, <3>3, <4>1
    <3>. QED BY <3>2, <3>3
  <2>. QED BY <1>2, <1>3, <2>5, <2>6, <2>7, <2>8, RowsStep
<1>6. ASSUME ~KeyTaken(k), rows' = Append(rows, NewRow(k, o, TRUE, o \in called)),
             UNCHANGED agent
      PROVE  IdentityInv'
  <2>. PICK new : new = NewRow(k, o, TRUE, o \in called)
    OBVIOUS
  <2>1. new \in Row /\ RowOK(new) /\ new.key = k
    BY <1>1, PartyType DEF NewRow, Row, RowOK
  <2>2. /\ rows' \in Seq(Row) /\ DOMAIN rows \subseteq DOMAIN rows'
        /\ \A j \in DOMAIN rows : rows'[j] = rows[j]
        /\ UniqueKeys' /\ RowsOK'
    BY <1>6, <2>1, RowAppended
  <2>3. \A n \in Mailers : Has(agent'[n]) => rows'[agent'[n].row] = rows[agent[n].row]
    BY <1>6, <2>2, MailerFacts
  <2>4. agent' \in [Mailers -> Agent'] /\ \A n \in Mailers : Alike(agent'[n], agent[n])
    BY <1>6, <2>2 DEF Alike, IdentityInv, TypeOK, Agent
  <2>5. Reached'
    BY <1>4, <2>2 DEF Reached, Settled, Sighted
  <2>. QED BY <1>2, <1>3, <2>2, <2>3, <2>4, <2>5, RowsStep
<1>. QED BY <1>5, <1>6 DEF Import

LEMMA CancelKeeps ==
  ASSUME IdentityInv, NEW o \in Orders, Cancel(o)
  PROVE  IdentityInv'
<1>1. called' = called \cup {o} /\ UNCHANGED <<rows, raw, flagged, imported, agent, runs>>
  BY DEF Cancel
<1>2. TypeOK'
  BY <1>1 DEF IdentityInv, TypeOK, Agent
<1>3. CalledOK'
  BY <1>1 DEF IdentityInv, CalledOK
<1>4. (\A n \in Mailers : AgentOK(agent[n])') /\ OneHolder' /\ UniqueKeys' /\ RowsOK' /\ Reached'
  BY <1>1 DEF IdentityInv, AgentOK, Fits, Has, OneHolder, UniqueKeys, RowsOK, RowOK, Reached,
              Settled
<1>. QED BY <1>2, <1>3, <1>4 DEF IdentityInv

LEMMA StutterKeeps ==
  ASSUME IdentityInv, UNCHANGED vars
  PROVE  IdentityInv'
<1>1. TypeOK' /\ CalledOK'
  BY DEF vars, IdentityInv, TypeOK, Agent, CalledOK
<1>2. (\A n \in Mailers : AgentOK(agent[n])') /\ OneHolder' /\ UniqueKeys' /\ RowsOK' /\ Reached'
  BY DEF vars, IdentityInv, AgentOK, Fits, Has, OneHolder, UniqueKeys, RowsOK, RowOK, Reached,
         Settled
<1>. QED BY <1>1, <1>2 DEF IdentityInv

LEMMA IdentityStep ==
  ASSUME IdentityInv, [Next]_vars
  PROVE  IdentityInv'
BY BeginKeeps, LookKeeps, LockKeeps, CheckKeeps, SaveKeeps, CreateKeeps, ImportKeeps,
   CancelKeeps, StutterKeeps DEF Next, Rest

LEMMA IdentityInit == Init => IdentityInv
<1>. SUFFICES ASSUME Init PROVE IdentityInv
  OBVIOUS
<1>1. /\ rows = <<>> /\ rows \in Seq(Row) /\ DOMAIN rows = {}
      /\ raw = [e \in Emails |-> "pending"] /\ runs \in [Emails -> 0..MaxRuns]
      /\ flagged = {} /\ called = {} /\ imported = {}
      /\ agent = [m \in Mailers |-> Idle]
  BY DEF Init
<1>2. TypeOK
  BY <1>1, IdleOK DEF TypeOK, AgentTyped
<1>3. UniqueKeys /\ RowsOK
  BY <1>1 DEF UniqueKeys, RowsOK
<1>4. (\A m \in Mailers : AgentOK(agent[m])) /\ OneHolder
  BY <1>1, IdleOK DEF OneHolder
<1>5. CalledOK /\ Reached
  BY <1>1, IdleOK DEF CalledOK, Reached, Settled
<1>. QED BY <1>2, <1>3, <1>4, <1>5 DEF IdentityInv

LEMMA IdentityAlways == Spec => []IdentityInv
BY IdentityInit, IdentityStep, PTL DEF Spec

-----------------------------------------------------------------------------
(* The theorems.                                                           *)

\* Rows and transactions are well typed, however they interleave.
THEOREM TypeCorrect == Spec => []TypeOK
<1>1. IdentityInv => TypeOK
  BY DEF IdentityInv
<1>. QED BY <1>1, IdentityAlways, PTL

\* One booking is never made of two parties' emails: what a lookup of
\* _find_bookeo_provisional_booking finds is still so when the row is saved.
THEOREM PartiesApart == Spec => []NeverTwoParties
<1>1. IdentityInv => NeverTwoParties
  BY DEF IdentityInv, RowsOK, RowOK, NeverTwoParties
<1>. QED BY <1>1, IdentityAlways, PTL

\* A cancellation with the OTA's identity leaves no active booking under it, or
\* is in review (upsert_booking_from_parsed).
THEOREM CancellationKept == Spec => []CancellationReachesOrder
<1>1. IdentityInv => CancellationReachesOrder
  BY DEF IdentityInv, Reached, Settled, UniqueKeys, CancellationReachesOrder
<1>. QED BY <1>1, IdentityAlways, PTL

\* How a row goes on: its identity is kept or completed, and once it has values
\* its party stays.
GoesOn(r, s) ==
  /\ s.key = r.key \/ (r.key[1] = "bookeo" /\ s.key[1] = "ota")
  /\ r.party # None => s.party = r.party

\* A row that changes goes on as the same booking.
LEMMA SameParty ==
  ASSUME NEW r, NEW s, RowOK(r), RowOK(s), r.orders \subseteq s.orders,
         r.party # None => s.party # None,
         s.key = r.key \/ (r.key[1] = "bookeo" /\ s.key[1] = "ota")
  PROVE  GoesOn(r, s)
<1>1. PartyOf[r.key[3]] = PartyOf[s.key[3]]
  BY DEF RowOK
<1>. QED BY <1>1 DEF RowOK, GoesOn

LEMMA SaveGoesOn ==
  ASSUME IdentityInv, NEW m \in Mailers, Save(m), NEW i \in DOMAIN rows
  PROVE  /\ GoesOn(rows[i], rows'[i])
         /\ rows[i].status = "cancelled" => rows'[i].status = "cancelled"
<1>. PICK a, e : a = agent[m] /\ e = a.email
  OBVIOUS
<1>. PICK r, k : r = rows[a.row] /\ k = KeyOf(e)
  OBVIOUS
<1>1. Has(a) /\ e \in Emails /\ r \in Row /\ RowOK(r) /\ Fits(e, r) /\ a.row \in DOMAIN rows
  BY MailerFacts DEF Save, Has
<1>. PICK merged, b : merged = Merged(r, e) /\ b = (r.key # k /\ ~a.clash)
  OBVIOUS
<1>. PICK new : new = [merged EXCEPT !.key = IF b THEN k ELSE @]
  OBVIOUS
<1>2. /\ merged \in Row /\ RowOK(merged) /\ merged.key = r.key
      /\ RowOK([merged EXCEPT !.key = k])
      /\ merged.status = IF Parsed[e].cancels THEN "cancelled" ELSE r.status
  BY <1>1, MergedRow
<1>3. Parsed[e].order \in Orders /\ PartyOf[Parsed[e].order] # None
  BY <1>1, KeyType, PartyType
<1>4. r.orders \subseteq merged.orders /\ (r.party # None => merged.party # None)
  BY <1>1, <1>3 DEF Merged, Row
<1>5. /\ new.key = IF b THEN k ELSE r.key
      /\ new.orders = merged.orders /\ new.party = merged.party /\ new.status = merged.status
  BY <1>2 DEF Row
<1>6. RowOK(new)
  <2>1. CASE b
    BY <1>2, <2>1
  <2>2. CASE ~b
    <3>1. new = merged
      BY <1>2, <2>2 DEF Row
    <3>. QED BY <1>2, <3>1
  <2>. QED BY <2>1, <2>2
<1>7. new.key = r.key \/ (r.key[1] = "bookeo" /\ new.key[1] = "ota")
  BY <1>1, <1>5 DEF Fits, Sighted
<1>8. GoesOn(r, new)
  BY <1>1, <1>4, <1>5, <1>6, <1>7, SameParty
<1>9. rows' = [rows EXCEPT ![a.row] = new] \/ rows' = rows
  BY DEF Save, Fail
<1>10. rows \in Seq(Row)
  BY DEF IdentityInv, TypeOK
<1>11. rows'[i] = rows[i] \/ (a.row = i /\ rows'[i] = new)
  BY <1>1, <1>9, <1>10
<1>12. r.status = "cancelled" => new.status = "cancelled"
  BY <1>2, <1>5
<1>13. CASE rows'[i] = rows[i]
  BY <1>13 DEF GoesOn
<1>14. CASE a.row = i /\ rows'[i] = new
  BY <1>8, <1>12, <1>14
<1>. QED BY <1>11, <1>13, <1>14

\* The import may revive a row, which no email under way then has in sight.
LEMMA ImportGoesOn ==
  ASSUME IdentityInv, NEW o \in Orders, Import(o), NEW i \in DOMAIN rows
  PROVE  /\ GoesOn(rows[i], rows'[i])
         /\ rows[i].status = "cancelled" =>
              \/ rows'[i].status = "cancelled"
              \/ \A n \in Mailers : i \notin agent'[n].saw
<1>1. rows \in Seq(Row) /\ rows[i] \in Row /\ RowOK(rows[i])
  BY DEF IdentityInv, TypeOK, RowsOK
<1>2. PartyOf[o] # None
  BY PartyType
<1>3. ASSUME NEW new, rows' = Append(rows, new) PROVE rows'[i] = rows[i]
  BY <1>1, <1>3
<1>4. ASSUME NEW j \in DOMAIN rows, NEW status, status \in {"active", "cancelled"},
             rows' = [rows EXCEPT ![j].status = status, ![j].party = PartyOf[o],
                                  ![j].orders = @ \cup {o}],
             Overlook(IF status = "active" /\ rows[j].status = "cancelled"
                      THEN {j} ELSE {})
      PROVE  /\ GoesOn(rows[i], rows'[i])
             /\ rows[i].status = "cancelled" =>
                  \/ rows'[i].status = "cancelled"
                  \/ \A n \in Mailers : i \notin agent'[n].saw
  <2>1. CASE i # j
    <3>1. rows'[i] = rows[i]
      BY <1>1, <1>4, <2>1
    <3>. QED BY <3>1 DEF GoesOn
  <2>2. CASE i = j
    <3>1. /\ rows'[i].status = status /\ rows'[i].party = PartyOf[o]
          /\ rows'[i].orders = rows[i].orders \cup {o} /\ rows'[i].key = rows[i].key
      BY <1>1, <1>4, <2>2 DEF Row
    <3>2. RowOK(rows'[i])
      <4>1. IdentityInv'
        BY ImportKeeps
      <4>2. i \in DOMAIN rows'
        BY <1>1, <1>4
      <4>. QED BY <4>1, <4>2 DEF IdentityInv, RowsOK
    <3>3. GoesOn(rows[i], rows'[i])
      BY <1>1, <1>2, <3>1, <3>2, SameParty
    <3>4. ASSUME status = "active", rows[i].status = "cancelled", NEW n \in Mailers
          PROVE  i \notin agent'[n].saw
      <4>1. Overlook({i})
        BY <1>4, <2>2, <3>4
      <4>2. DOMAIN rows \subseteq DOMAIN rows'
        BY <1>1, <1>4
      <4>. QED BY <4>1, <4>2, OverlookFacts
    <3>. QED BY <1>4, <3>1, <3>3, <3>4
  <2>. QED BY <2>1, <2>2
<1>5. rows'[i] = rows[i] => GoesOn(rows[i], rows'[i])
  BY DEF GoesOn
<1>. QED BY <1>3, <1>4, <1>5 DEF Import

LEMMA QuietStep ==
  ASSUME Next \/ UNCHANGED vars, \A m \in Mailers : ~Save(m) /\ ~Create(m),
         \A o \in Orders : ~Import(o)
  PROVE  UNCHANGED rows
BY DEF Next, Begin, Look, Lock, Check, Cancel, Rest, vars

LEMMA RowGoesOn ==
  ASSUME IdentityInv, [Next]_vars, NEW i \in DOMAIN rows
  PROVE  /\ GoesOn(rows[i], rows'[i])
         /\ rows[i].status = "cancelled" =>
              \/ rows'[i].status = "cancelled"
              \/ \A n \in Mailers : i \notin agent'[n].saw
<1>1. ASSUME NEW m \in Mailers, Create(m) PROVE rows'[i] = rows[i]
  <2>1. rows \in Seq(Row)
    BY DEF IdentityInv, TypeOK
  <2>2. ASSUME NEW new, rows' = Append(rows, new) PROVE rows'[i] = rows[i]
    BY <2>1, <2>2
  <2>. QED BY <1>1, <2>2 DEF Create, Fail
<1>2. rows'[i] = rows[i] => GoesOn(rows[i], rows'[i])
  BY DEF GoesOn
<1>. QED BY <1>1, <1>2, SaveGoesOn, ImportGoesOn, QuietStep

\* _promote_booking_identity_if_needed is the only writer of an identity, and it
\* only takes a booking from Bookeo to the OTA.
THEOREM IdentityGrows == Spec => IdentityOnlyCompletes
<1>1. IdentityInv /\ [Next]_vars =>
        [\A i \in DOMAIN rows :
           rows'[i].key # rows[i].key =>
             rows[i].key[1] = "bookeo" /\ rows'[i].key[1] = "ota"]_vars
  BY RowGoesOn DEF GoesOn
<1>. QED BY <1>1, IdentityAlways, PTL DEF Spec, IdentityOnlyCompletes

-----------------------------------------------------------------------------
(* What a lookup finds.                                                    *)

\* A lookup is past row i when it has asked and not found it, or has lost it.
Past(a, i, q) == a.pc = q /\ a.left # {} /\ i \notin a.left

\* A provisional row in sight of transaction a is found by Bookeo's number or is
\* one of the party; a lookup that is past it is so because the row has the OTA's
\* identity by now, or is cancelled.
RowSeen(a, i, r) ==
  /\ r.key[1] = "bookeo" =>
       \/ Matches(a.email, "number", r)
       \/ Parsed[a.email].full /\ r.party = PartyOf[Parsed[a.email].order]
  /\ a.pc \in {"details", "create"} \/ Past(a, i, "number") =>
       ~Matches(a.email, "number", r)
  /\ a.pc = "create" \/ Past(a, i, "details") => ~Matches(a.email, "details", r)

AgentSeen(a) ==
  /\ a.pc = "idle" \/ ~Sighted(a.email) => a.saw = {}
  /\ \A i \in a.saw : RowSeen(a, i, rows[i])

SeenInv == \A m \in Mailers : AgentSeen(agent[m])

LEMMA IdleSeen == AgentSeen(Idle)
BY DEF AgentSeen, Idle

LEMMA SeenStays ==
  ASSUME NEW a, NEW s, Alike(s, a), NEW i, NEW r, NEW t, a.email \in Emails,
         RowSeen(a, i, r), GoesOn(r, t), r.status \in {"active", "cancelled"},
         r.status = "cancelled" => t.status = "cancelled"
  PROVE  RowSeen(s, i, t)
<1>. PICK e : e = a.email
  OBVIOUS
<1>1. /\ e \in Emails /\ s.email = e /\ s.pc = a.pc
      /\ \A q : Past(s, i, q) <=> Past(a, i, q)
  BY DEF Alike, Past
<1>2. PartyOf[Parsed[e].order] # None
  BY <1>1, KeyType, PartyType
<1>3. CASE t.key[1] # "bookeo"
  BY <1>1, <1>3 DEF RowSeen, Matches
<1>4. CASE t.key[1] = "bookeo"
  <2>1. t.key = r.key /\ (Matches(e, "number", t) <=> Matches(e, "number", r))
    BY <1>4 DEF GoesOn, Matches
  <2>2. \/ Matches(e, "number", t)
        \/ Parsed[e].full /\ r.party = PartyOf[Parsed[e].order] /\ t.party = r.party
    BY <1>1, <1>2, <1>4, <2>1 DEF RowSeen, GoesOn
  <2>3. s.pc \in {"details", "create"} \/ Past(s, i, "number") => ~Matches(e, "number", t)
    BY <1>1, <2>1 DEF RowSeen
  <2>4. ASSUME s.pc = "create" \/ Past(s, i, "details") PROVE ~Matches(e, "details", t)
    <3>1. ~Matches(e, "number", r) /\ ~Matches(e, "details", r)
      BY <1>1, <2>4 DEF RowSeen, Past
    <3>2. r.status = "cancelled"
      BY <1>4, <2>1, <2>2, <3>1 DEF Matches
    <3>. QED BY <2>1, <3>1, <3>2 DEF Matches
  <2>. QED BY <1>1, <2>2, <2>3, <2>4 DEF RowSeen
<1>. QED BY <1>3, <1>4

\* A transaction that another process, the import or the customer leaves alone.
LEMMA OthersSeen ==
  ASSUME IdentityInv, [Next]_vars, NEW n \in Mailers, AgentSeen(agent[n]),
         Alike(agent'[n], agent[n]), agent'[n].saw \subseteq agent[n].saw
  PROVE  AgentSeen(agent[n])'
<1>. PICK a, s : a = agent[n] /\ s = agent'[n]
  OBVIOUS
<1>1. a.saw \subseteq DOMAIN rows /\ \A i \in DOMAIN rows : rows[i] \in Row
  BY DEF IdentityInv, TypeOK, Agent
<1>2. s.pc = "idle" \/ ~Sighted(s.email) => s.saw = {}
  BY DEF AgentSeen, Alike
<1>3. ASSUME NEW i \in s.saw PROVE RowSeen(s, i, rows'[i])
  <2>1. i \in DOMAIN rows /\ rows[i].status \in {"active", "cancelled"} /\ RowSeen(a, i, rows[i])
    BY <1>1, <1>3 DEF Row, AgentSeen
  <2>2. a.email \in Emails
    BY <1>3, MailerFacts DEF AgentSeen
  <2>3. /\ GoesOn(rows[i], rows'[i])
        /\ rows[i].status = "cancelled" => rows'[i].status = "cancelled"
    BY <1>3, <2>1, RowGoesOn
  <2>. QED BY <2>1, <2>2, <2>3, SeenStays
<1>. QED BY <1>2, <1>3 DEF AgentSeen, RowSeen, Past, Matches, Sighted, KeyOf

\* A step that changes one transaction and no row.
LEMMA OneSeen ==
  ASSUME IdentityInv, [Next]_vars, SeenInv, NEW m \in Mailers, NEW s, Become(m, s),
         AgentSeen(s)'
  PROVE  SeenInv'
<1>1. agent'[m] = s /\ \A n \in Mailers \ {m} : agent'[n] = agent[n]
  BY DEF Become, IdentityInv, TypeOK
<1>2. ASSUME NEW n \in Mailers \ {m} PROVE AgentSeen(agent[n])'
  BY <1>1, OthersSeen DEF SeenInv, Alike
<1>3. AgentSeen(agent[m])'
  BY <1>1 DEF AgentSeen, RowSeen, Past, Matches, Sighted, KeyOf
<1>. QED BY <1>2, <1>3 DEF SeenInv

\* What the lookups of a transaction that goes on have shown.
LEMMA UnchangedSeen ==
  ASSUME NEW s, UNCHANGED rows, AgentSeen(s)
  PROVE  AgentSeen(s)'
BY DEF AgentSeen

LEMMA BeginSeen ==
  ASSUME IdentityInv, [Next]_vars, SeenInv, NEW m \in Mailers, NEW e \in Emails, Begin(m, e)
  PROVE  SeenInv'
<1>. PICK saw : saw = IF Sighted(e) THEN Found(e, "number") \cup Found(e, "details") ELSE {}
  OBVIOUS
<1>. PICK s : s = [Idle EXCEPT !.pc = "exact", !.email = e, !.saw = saw]
  OBVIOUS
<1>1. Become(m, s) /\ UNCHANGED rows
  BY DEF Begin
<1>2. s.pc = "exact" /\ s.email = e /\ s.saw = saw
  BY DEF Idle
<1>3. \A i \in saw : RowSeen(s, i, rows[i])
  BY <1>2 DEF Found, RowSeen, Past, Matches
<1>4. AgentSeen(s)
  BY <1>2, <1>3 DEF AgentSeen
<1>. QED BY <1>1, <1>4, UnchangedSeen, OneSeen

\* A transaction whose lookup q is over without a row goes on to the next.
LEMMA AfterSeen ==
  ASSUME NEW a, a.pc \in Queries, AgentSeen(a),
         \A i \in a.saw : ~Matches(a.email, a.pc, rows[i]),
         NEW s, s.pc = After(a.email, a.pc), s.email = a.email, s.saw = a.saw, s.left = {}
  PROVE  AgentSeen(s)
<1>1. s.pc = "idle" \/ ~Sighted(s.email) => s.saw = {}
  <2>1. s.pc # "idle" /\ a.pc # "idle"
    BY DEF After, Queries
  <2>. QED BY <2>1 DEF AgentSeen
<1>2. ASSUME NEW i \in s.saw PROVE RowSeen(s, i, rows[i])
  <2>1. RowSeen(a, i, rows[i]) /\ Sighted(a.email) /\ ~Matches(a.email, a.pc, rows[i])
    BY <1>2 DEF AgentSeen
  <2>2. CASE a.pc = "exact"
    BY <2>1, <2>2 DEF RowSeen, Past, After
  <2>3. CASE a.pc = "number"
    BY <2>1, <2>3 DEF RowSeen, Past, After
  <2>4. CASE a.pc = "details"
    BY <2>1, <2>4 DEF RowSeen, Past, After
  <2>. QED BY <2>2, <2>3, <2>4 DEF Queries
<1>. QED BY <1>1, <1>2 DEF AgentSeen

\* A lookup that finds nothing goes on to the next; one that finds candidates is
\* past all other rows.
LEMMA LookSeen ==
  ASSUME IdentityInv, [Next]_vars, SeenInv, NEW m \in Mailers, Look(m)
  PROVE  SeenInv'
<1>. PICK a : a = agent[m]
  OBVIOUS
<1>. PICK found : found = Found(a.email, a.pc)
  OBVIOUS
<1>. PICK s : s = IF found = {} THEN [a EXCEPT !.pc = After(a.email, a.pc)]
                               ELSE [a EXCEPT !.left = found]
  OBVIOUS
<1>1. /\ a \in Agent /\ a.pc \in Queries /\ a.pc # "idle" /\ AgentSeen(a) /\ a.left = {}
      /\ a.saw \subseteq DOMAIN rows /\ UNCHANGED rows /\ Become(m, s)
  BY DEF Look, IdentityInv, TypeOK, Agent, Queries, SeenInv
<1>2. \A i \in a.saw \ found : ~Matches(a.email, a.pc, rows[i])
  BY <1>1 DEF Found
<1>3. CASE found # {}
  <2>1. s.pc = a.pc /\ s.email = a.email /\ s.saw = a.saw /\ s.left = found
    BY <1>1, <1>3 DEF Agent
  <2>2. ASSUME NEW i \in s.saw PROVE RowSeen(s, i, rows[i])
    <3>1. RowSeen(a, i, rows[i]) /\ (i \notin found => ~Matches(a.email, a.pc, rows[i]))
      BY <1>1, <1>2, <2>1, <2>2 DEF AgentSeen
    <3>. QED BY <1>1, <2>1, <3>1 DEF RowSeen, Past, Queries
  <2>3. AgentSeen(s)
    BY <1>1, <2>1, <2>2 DEF AgentSeen
  <2>. QED BY <1>1, <2>3, UnchangedSeen, OneSeen
<1>4. CASE found = {}
  <2>1. /\ s.pc = After(a.email, a.pc) /\ s.email = a.email /\ s.saw = a.saw
        /\ s.left = {}
    BY <1>1, <1>4 DEF Agent
  <2>2. AgentSeen(s)
    BY <1>1, <1>2, <1>4, <2>1, AfterSeen
  <2>. QED BY <1>1, <2>2, UnchangedSeen, OneSeen
<1>. QED BY <1>3, <1>4

\* A row that was lost matches no longer, nor does one the lookup was past: with
\* its last candidate lost the lookup is past every row.
LEMMA LockSeen ==
  ASSUME IdentityInv, [Next]_vars, SeenInv, NEW m \in Mailers, Lock(m)
  PROVE  SeenInv'
<1>. PICK a : a = agent[m]
  OBVIOUS
<1>1. /\ a \in Agent /\ a.pc \in Queries /\ a.pc # "idle" /\ AgentSeen(a) /\ UNCHANGED rows
  BY DEF Lock, IdentityInv, TypeOK, Queries, SeenInv
<1>2. PICK i \in a.left :
        Become(m, IF Matches(a.email, a.pc, rows[i])
                  THEN [a EXCEPT !.pc = "check", !.left = {}, !.row = i]
                  ELSE Lost(a, i))
  BY DEF Lock
<1>3. CASE Matches(a.email, a.pc, rows[i])
  <2>. PICK s : s = [a EXCEPT !.pc = "check", !.left = {}, !.row = i]
    OBVIOUS
  <2>1. s.pc = "check" /\ s.email = a.email /\ s.saw = a.saw
    BY <1>1 DEF Agent
  <2>2. AgentSeen(s)
    BY <1>1, <2>1 DEF AgentSeen, RowSeen, Past
  <2>. QED BY <1>1, <1>2, <1>3, <2>2, UnchangedSeen, OneSeen
<1>4. CASE ~Matches(a.email, a.pc, rows[i])
  <2>. PICK s : s = Lost(a, i)
    OBVIOUS
  <2>1. /\ s.email = a.email /\ s.saw = a.saw /\ s.left = a.left \ {i}
        /\ s.pc = IF a.left = {i} THEN After(a.email, a.pc) ELSE a.pc
    BY <1>1, LostFacts
  <2>2. ASSUME NEW j \in a.saw, j \notin s.left, ~(a.pc = "exact")
        PROVE  ~Matches(a.email, a.pc, rows[j])
    <3>1. CASE j = i
      BY <1>4, <3>1
    <3>2. CASE j # i
      <4>1. Past(a, j, a.pc) /\ RowSeen(a, j, rows[j])
        BY <1>1, <2>1, <2>2, <3>2 DEF Past, AgentSeen
      <4>. QED BY <1>1, <2>2, <4>1 DEF RowSeen, Queries
    <3>. QED BY <3>1, <3>2
  <2>3. AgentSeen(s)
    <3>1. CASE a.left = {i} /\ a.pc # "exact"
      BY <1>1, <2>1, <2>2, <3>1, AfterSeen
    <3>2. CASE a.left = {i} /\ a.pc = "exact"
      <4>1. s.pc = IF Sighted(a.email) THEN "number" ELSE "create"
        BY <2>1, <3>2 DEF After
      <4>. QED BY <1>1, <2>1, <3>2, <4>1 DEF AgentSeen, RowSeen, Past
    <3>3. CASE a.left # {i}
      <4>1. ASSUME NEW j \in s.saw PROVE RowSeen(s, j, rows[j])
        <5>1. RowSeen(a, j, rows[j]) /\ s.pc = a.pc
          BY <1>1, <2>1, <3>3, <4>1 DEF AgentSeen
        <5>. QED BY <1>1, <2>1, <2>2, <4>1, <5>1 DEF RowSeen, Past, Queries
      <4>. QED BY <1>1, <2>1, <3>3, <4>1 DEF AgentSeen
    <3>. QED BY <3>1, <3>2, <3>3
  <2>4. Become(m, s)
    BY <1>2, <1>4
  <2>. QED BY <1>1, <2>3, <2>4, UnchangedSeen, OneSeen
<1>. QED BY <1>3, <1>4

LEMMA CheckSeen ==
  ASSUME IdentityInv, [Next]_vars, SeenInv, NEW m \in Mailers, Check(m)
  PROVE  SeenInv'
<1>. PICK a, b : /\ a = agent[m]
                 /\ b = (rows[a.row].key # KeyOf(a.email) /\ KeyTaken(KeyOf(a.email)))
  OBVIOUS
<1>. PICK s : s = [a EXCEPT !.pc = "save", !.clash = b]
  OBVIOUS
<1>1. a \in Agent /\ a.pc = "check" /\ AgentSeen(a) /\ UNCHANGED rows /\ Become(m, s)
  BY DEF Check, IdentityInv, TypeOK, SeenInv
<1>2. s.pc = "save" /\ s.email = a.email /\ s.saw = a.saw
  BY <1>1 DEF Agent
<1>3. AgentSeen(s)
  BY <1>1, <1>2 DEF AgentSeen, RowSeen, Past
<1>. QED BY <1>1, <1>3, UnchangedSeen, OneSeen

LEMMA EndSeen ==
  ASSUME IdentityInv, [Next]_vars, SeenInv, NEW m \in Mailers, Save(m) \/ Create(m)
  PROVE  SeenInv'
<1>1. Become(m, Idle)
  BY DEF Save, Create, Fail
<1>2. AgentSeen(Idle)'
  BY DEF AgentSeen, Idle
<1>. QED BY <1>1, <1>2, OneSeen

LEMMA ImportSeen ==
  ASSUME IdentityInv, [Next]_vars, SeenInv, NEW o \in Orders, Import(o)
  PROVE  SeenInv'
<1>1. rows \in Seq(Row)
  BY DEF IdentityInv, TypeOK
<1>2. ASSUME NEW n \in Mailers
      PROVE  /\ Alike(agent'[n], agent[n]) /\ agent'[n].saw \subseteq agent[n].saw
  <2>1. ASSUME UNCHANGED agent
        PROVE  /\ Alike(agent'[n], agent[n]) /\ agent'[n].saw \subseteq agent[n].saw
    BY <2>1 DEF Alike
  <2>2. ASSUME NEW ids, Overlook(ids), NEW j \in DOMAIN rows, NEW status,
               rows' = [rows EXCEPT ![j].status = status, ![j].party = PartyOf[o],
                                    ![j].orders = @ \cup {o}]
        PROVE  /\ Alike(agent'[n], agent[n]) /\ agent'[n].saw \subseteq agent[n].saw
    <3>1. DOMAIN rows \subseteq DOMAIN rows'
      BY <1>1, <2>2
    <3>. QED BY <2>2, <3>1, OverlookFacts
  <2>. QED BY <2>1, <2>2 DEF Import
<1>3. ASSUME NEW n \in Mailers PROVE AgentSeen(agent[n])'
  BY <1>2, OthersSeen DEF SeenInv
<1>. QED BY <1>3 DEF SeenInv

LEMMA SeenStep ==
  ASSUME IdentityInv, SeenInv, [Next]_vars
  PROVE  SeenInv'
<1>1. ASSUME (\E o \in Orders : Cancel(o)) \/ Rest \/ UNCHANGED vars PROVE SeenInv'
  <2>1. UNCHANGED <<rows, agent>>
    BY <1>1 DEF Cancel, Rest, vars
  <2>. QED BY <2>1 DEF SeenInv, AgentSeen
<1>. QED
  BY <1>1, BeginSeen, LookSeen, LockSeen, CheckSeen, EndSeen, ImportSeen DEF Next

\* _find_bookeo_provisional_booking: however many candidates it loses, an OTA's
\* email never creates a booking beside a provisional one it could have taken
\* over when it was taken up, and nobody has revived since.
THEOREM NoDoublesInSight == Spec => NoDoubleInSight
<1>1. Init => SeenInv
  BY IdleSeen DEF Init, SeenInv
<1>2. SeenInv =>
        [\A m \in Mailers :
           (agent[m].pc = "create" /\ rows' # rows /\ agent'[m] = Idle) =>
             \A i \in agent[m].saw, q \in {"number", "details"} :
               ~Matches(agent[m].email, q, rows[i])]_vars
  BY DEF SeenInv, AgentSeen, RowSeen
<1>. QED BY <1>1, <1>2, SeenStep, IdentityAlways, PTL DEF Spec, NoDoubleInSight

=============================================================================
