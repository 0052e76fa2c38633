------------------------ MODULE AliasMatching_proofs ------------------------
(***************************************************************************)
(* Proofs about AliasMatching, for any names, codes, aliases, emails and   *)
(* bookings.                                                               *)
(***************************************************************************)
EXTENDS AliasMatching, TLAPS

USE AliasAssumption

-----------------------------------------------------------------------------
(* What a match is.                                                        *)

LEMMA ProductOf ==
  ASSUME NEW e \in Emails
  PROVE  /\ Parsed[e].product \in Product /\ BookingOf(e) \in Bookings
         /\ Parsed[e].cancels \in BOOLEAN
  BY DEF BookingOf

LEMMA CandidatesApproved ==
  ASSUME NEW t, NEW p, NEW x \in Firsts(Candidates(t, p))
  PROVE  x \in t /\ x.approved
  BY DEF Firsts, Candidates, ByCode, ByName, ByProduct, Approved

LEMMA AnswersAreActivities ==
  ASSUME NEW t \in SUBSET Alias, NEW p
  PROVE  Answers(t, p) \subseteq Activities
  BY CandidatesApproved DEF Answers, Alias

\* Two answers are aliases of one spelling, so without drift they agree.
LEMMA NoDriftNoTies ==
  ASSUME NEW t \in SUBSET Alias, ~Drift(t), NEW p,
         NEW a \in Answers(t, p), NEW b \in Answers(t, p)
  PROVE  a = b
<1>1. PICK x \in Firsts(Candidates(t, p)), y \in Firsts(Candidates(t, p)) :
        x.activity = a /\ y.activity = b
  BY DEF Answers
<1>2. x \in t /\ x.approved /\ y \in t /\ y.approved
  BY CandidatesApproved
<1>3. x.key.name \in Nat /\ y.key.name \in Nat
  BY <1>2 DEF Alias, Keys, Product, Blank
<1>4. ~Before(x, y) /\ ~Before(y, x)
  BY DEF Firsts
<1>5. x.key.name = y.key.name
  BY <1>3, <1>4 DEF Before
<1>. QED BY <1>1, <1>2, <1>5 DEF Drift, Approved

\* An approved alias for a product that nothing matched is its only match.
LEMMA SavedMatches ==
  ASSUME NEW t \in SUBSET Alias, NEW x \in Alias, x.approved,
         Candidates(t, x.key) = {}
  PROVE  /\ Candidates(Saved(t, x), x.key) # {}
         /\ Answers(Saved(t, x), x.key) = {x.activity}
<1>. DEFINE k == x.key
            s == Saved(t, x)
<1>0. k \in Keys /\ k.name # Blank
  BY DEF Alias, Keys
<1>1. ByCode(t, k) = {} /\ ByName(t, k) = {}
  BY DEF Candidates
<1>2. Approved(s) \subseteq Approved(t) \cup {x} /\ x \in Approved(s)
  BY DEF Saved, Without, Approved
<1>3. Candidates(s, k) = {x}
  <2>1. CASE k.code # Blank
    <3>1. x \in ByCode(s, k)
      BY <1>2, <2>1 DEF ByCode
    <3>2. ByCode(s, k) \subseteq {x}
      BY <1>1, <1>2 DEF ByCode
    <3>. QED BY <3>1, <3>2 DEF Candidates
  <2>2. CASE k.code = Blank
    <3>1. ByCode(s, k) = {}
      BY <2>2 DEF ByCode
    <3>2. x \in ByName(s, k)
      BY <1>0, <1>2 DEF ByName, ByProduct
    <3>3. ByName(s, k) \subseteq {x}
      BY <1>1, <1>2 DEF ByName, ByProduct
    <3>. QED BY <3>1, <3>2, <3>3 DEF Candidates
  <2>. QED BY <2>1, <2>2
<1>4. x.key.name \in Nat /\ x.key.option \in Nat
  BY <1>0 DEF Keys, Product, Blank
<1>5. Firsts({x}) = {x}
  BY <1>4 DEF Firsts, Before
<1>6. Candidates(Saved(t, x), x.key) = {x}
  BY <1>3
<1>7. \A z : z \in Firsts(Candidates(Saved(t, x), x.key)) <=> z = x
  BY <1>5, <1>6
<1>8. Answers(Saved(t, x), x.key) = {x.activity}
  BY <1>7 DEF Answers
<1>. QED BY <1>6, <1>8

-----------------------------------------------------------------------------
(* Types.                                                                  *)

LEMMA SeedAliasesTyped == SeedAliases \subseteq Alias
<1>1. ASSUME NEW n \in DOMAIN Catalogue PROVE SeedAlias(n) \in Alias
  <2>1. n \in Names /\ n # Blank /\ Catalogue[n] \in Activities
    BY DEF Blank
  <2>2. SeedAlias(n).key \in Keys
    BY <2>1 DEF SeedAlias, Keys, Product, Blank
  <2>. QED BY <2>1, <2>2 DEF SeedAlias, Alias
<1>. QED BY <1>1 DEF SeedAliases

LEMMA SeedAliasesUnique ==
  ASSUME NEW x \in SeedAliases, NEW y \in SeedAliases, x.key.name = y.key.name
  PROVE  x = y
<1>1. PICK n \in DOMAIN Catalogue, m \in DOMAIN Catalogue : x = SeedAlias(n) /\ y = SeedAlias(m)
  BY DEF SeedAliases
<1>2. n = m
  BY <1>1 DEF SeedAlias
<1>. QED BY <1>1, <1>2

LEMMA SeededTyped ==
  ASSUME NEW t \in SUBSET Alias, \A x, y \in t : x.key = y.key => x = y
  PROVE  /\ Seeded(t) \subseteq Alias
         /\ \A x, y \in Seeded(t) : x.key = y.key => x = y
  BY SeedAliasesTyped, SeedAliasesUnique DEF Seeded

LEMMA SavedTyped ==
  ASSUME NEW t \in SUBSET Alias, \A x, y \in t : x.key = y.key => x = y, NEW z \in Alias
  PROVE  /\ Saved(t, z) \subseteq Alias
         /\ \A x, y \in Saved(t, z) : x.key = y.key => x = y
  BY DEF Saved, Without

LEMMA FormsTyped ==
  ASSUME NEW S \in SUBSET Keys, NEW x \in Forms(S)
  PROVE  x \in Alias
  BY DEF Forms, Alias

LEMMA OfferedTyped ==
  ASSUME TypeOK, NEW e \in Emails
  PROVE  Entries \cup Offered(e) \subseteq Keys
  BY DEF Offered

LEMMA MergeTyped ==
  ASSUME NEW o \in Product, NEW p \in Product
  PROVE  Merge(o, p) \in Product
  BY DEF Merge, Filled, Product

LEMMA UpsertedTyped ==
  ASSUME NEW old \in Row \cup {None}, NEW e \in Emails, NEW a \in Activities \cup {None}
  PROVE  Upserted(old, e, a) \in Row
<1>1. CASE old = None
  BY <1>1, ProductOf DEF Upserted, Row
<1>2. CASE old # None
  <2>1. old \in Row
    BY <1>2
  <2>2. Merge(old.product, Parsed[e].product) \in Product
    BY <2>1, ProductOf, MergeTyped DEF Row
  <2>3. (old.cancelled \/ Parsed[e].cancels) \in BOOLEAN
    OBVIOUS
  <2>. QED BY <1>2, <2>1, <2>2, <2>3 DEF Upserted, Row
<1>. QED BY <1>1, <1>2

Hand == [email : Emails, activity : Activities \cup {None}]

LEMMA BeginTyped ==
  ASSUME TypeOK, NEW p \in Procs, NEW e \in Emails, Begin(p, e)
  PROVE  TypeOK'
<1>1. PICK a \in Activities \cup {None} : hand' = [hand EXCEPT ![p] = [email |-> e, activity |-> a]]
  BY AnswersAreActivities DEF Begin, TypeOK
<1>2. hand' \in [Procs -> Hand \cup {None}]
  BY <1>1 DEF TypeOK, Hand
<1>. QED BY <1>2 DEF TypeOK, Begin, Hand

LEMMA EditTyped ==
  ASSUME TypeOK, NEW t, Edit(t), t \subseteq Alias, \A x, y \in t : x.key = y.key => x = y
  PROVE  /\ aliases' \subseteq Alias /\ \A x, y \in aliases' : x.key = y.key => x = y
         /\ edits' \in 0..MaxEdits /\ up' \in BOOLEAN
         /\ clean' \subseteq Bookings /\ seeded' \in BOOLEAN
<1>1. edits' \in 0..MaxEdits
  BY DEF Edit, TypeOK
<1>2. Changed(t) /\ up' = TRUE
  BY DEF Edit, TypeOK
<1>3. aliases' = t /\ (clean' = clean \/ clean' = {})
  BY <1>2 DEF Changed
<1>4. seeded' \in BOOLEAN
  BY <1>2 DEF Changed
<1>. QED BY <1>1, <1>2, <1>3, <1>4 DEF TypeOK

LEMMA Typed == TypeOK /\ [Next]_vars => TypeOK'
<1>. SUFFICES ASSUME TypeOK, [Next]_vars PROVE TypeOK'
  OBVIOUS
<1>1. ASSUME NEW e \in Emails, Take(e) \/ ReplayNext(e) PROVE TypeOK'
  BY <1>1, BeginTyped DEF Take, ReplayNext, Procs
<1>2. ASSUME NEW e \in Emails, CloseItem(e) PROVE TypeOK'
  BY <1>2 DEF CloseItem, TypeOK
<1>3. ASSUME NEW e \in Emails, NEW x \in Forms(Entries \cup Offered(e)), MapProduct(e, x)
      PROVE  TypeOK'
  <2>1. x \in Alias
    BY OfferedTyped, FormsTyped
  <2>2. op' \in Request
    BY <1>3, <2>1 DEF MapProduct, Alias, Request
  <2>3. Edit(Saved(aliases, x))
    BY <1>3 DEF MapProduct
  <2>4. UNCHANGED <<row, items, hand, todo, merged>>
    BY <1>3 DEF MapProduct
  <2>. QED BY <2>1, <2>2, <2>3, <2>4, SavedTyped, EditTyped DEF TypeOK, Request
<1>4. ASSUME NEW p \in Procs, Commit(p) PROVE TypeOK'
  <2>. DEFINE e == hand[p].email
              a == hand[p].activity
  <2>1. e \in Emails /\ a \in Activities \cup {None} /\ BookingOf(e) \in Bookings
    BY <1>4, ProductOf DEF Commit, TypeOK
  <2>2. Upserted(row[BookingOf(e)], e, a) \in Row
    BY <2>1, UpsertedTyped DEF TypeOK
  <2>3. row' \in [Bookings -> Row \cup {None}]
    BY <1>4, <2>2 DEF Commit, TypeOK
  <2>4. items' \subseteq Emails /\ merged' \subseteq Emails /\ todo' \subseteq Emails
        /\ clean' \subseteq Bookings
    BY <1>4, <2>1 DEF Commit, TypeOK
  <2>5. hand' \in [Procs -> Hand \cup {None}]
    BY <1>4 DEF Commit, TypeOK, Hand
  <2>6. /\ op' = op \/ op' = None
        /\ UNCHANGED <<aliases, up, edits, seeded>>
    BY <1>4 DEF Commit
  <2>. QED BY <2>3, <2>4, <2>5, <2>6 DEF TypeOK, Hand
<1>5. ASSUME NEW p \in Procs, Raises(p) PROVE TypeOK'
  <2>1. hand' \in [Procs -> Hand \cup {None}]
    BY <1>5 DEF Raises, TypeOK, Hand
  <2>2. /\ todo' \subseteq Emails /\ clean' \subseteq Bookings
        /\ op' = op \/ op' = None
        /\ UNCHANGED <<aliases, row, items, up, edits, merged, seeded>>
    BY <1>5 DEF Raises, TypeOK
  <2>. QED BY <2>1, <2>2 DEF TypeOK, Hand
<1>6. ASSUME NEW S \in SUBSET Emails, StartReplay(S) PROVE TypeOK'
  BY <1>6 DEF StartReplay, TypeOK
<1>7. ASSUME NEW x \in Alias, SaveAlias(x) PROVE TypeOK'
  <2>1. /\ Edit(Saved(aliases, x)) /\ UNCHANGED <<row, items, hand, todo, merged>>
        /\ op' = IF op = None THEN None ELSE [op EXCEPT !.hold = FALSE]
    BY <1>7 DEF SaveAlias
  <2>2. op' \in Request \cup {None}
    BY <2>1 DEF TypeOK, Request
  <2>. QED BY <2>1, <2>2, SavedTyped, EditTyped DEF TypeOK, Request
<1>8. ASSUME NEW x \in Forms(Entries), SaveAlias(x) PROVE TypeOK'
  BY <1>7, <1>8, FormsTyped
<1>9. ASSUME NEW x \in aliases, ApproveAlias(x) PROVE TypeOK'
  <2>0. x \in Alias
    BY DEF TypeOK
  <2>1. [x EXCEPT !.approved = TRUE] \in Alias
    BY <2>0 DEF Alias
  <2>. QED BY <1>7, <1>9, <2>1 DEF ApproveAlias
<1>10. ASSUME NEW x \in aliases, DeleteAlias(x) PROVE TypeOK'
  <2>1. /\ Edit(aliases \ {x}) /\ UNCHANGED <<row, items, hand, todo, merged>>
        /\ op' = IF op = None THEN None ELSE [op EXCEPT !.hold = FALSE]
    BY <1>10 DEF DeleteAlias
  <2>2. op' \in Request \cup {None}
    BY <2>1 DEF TypeOK, Request
  <2>3. /\ aliases \ {x} \subseteq Alias
        /\ \A y, z \in aliases \ {x} : y.key = z.key => y = z
    BY DEF TypeOK
  <2>. QED BY <2>1, <2>2, <2>3, EditTyped DEF TypeOK, Request
<1>16. ASSUME NEW x \in aliases, NEW y \in Forms(Entries), ChangeAlias(x, y) PROVE TypeOK'
  <2>1. /\ Edit((aliases \ {x}) \cup {y}) /\ UNCHANGED <<row, items, hand, todo, merged>>
        /\ op' = IF op = None THEN None ELSE [op EXCEPT !.hold = FALSE]
        /\ \A z \in aliases \ {x} : z.key # y.key
    BY <1>16 DEF ChangeAlias
  <2>2. op' \in Request \cup {None}
    BY <2>1 DEF TypeOK, Request
  <2>3. y \in Alias
    BY AliasAssumption, FormsTyped
  <2>4. /\ (aliases \ {x}) \cup {y} \subseteq Alias
        /\ \A u, v \in (aliases \ {x}) \cup {y} : u.key = v.key => u = v
    BY <2>1, <2>3 DEF TypeOK
  <2>. QED BY <2>1, <2>2, <2>4, EditTyped DEF TypeOK, Request
<1>11. CASE Reprocess
  BY <1>11, BeginTyped DEF Reprocess, Procs, TypeOK, Request
<1>12. CASE Stop
  <2>1. hand' \in [Procs -> Hand \cup {None}]
    BY <1>12 DEF Stop, TypeOK, Hand
  <2>. QED BY <1>12, <2>1 DEF Stop, TypeOK, Hand
<1>13. CASE Seed
  BY <1>13, SeededTyped DEF Seed, TypeOK
<1>14. CASE ReplayDies
  <2>1. hand' \in [Procs -> Hand \cup {None}]
    BY <1>14 DEF ReplayDies, TypeOK, Hand
  <2>. QED BY <1>14, <2>1 DEF ReplayDies, TypeOK, Hand
<1>15. CASE UNCHANGED vars
  BY <1>15 DEF vars, TypeOK
<1>. QED BY <1>1, <1>2, <1>3, <1>4, <1>5, <1>6, <1>8, <1>9, <1>10, <1>11, <1>12, <1>13,
            <1>14, <1>15, <1>16 DEF Next

LEMMA TypeInit == Init => TypeOK
  BY SeedAliasesTyped, SeedAliasesUnique DEF Init, TypeOK

\* Every reachable state has its type (TypeOK), for any constants.
THEOREM TypeCorrect == Spec => []TypeOK
  BY TypeInit, Typed, PTL DEF Spec

-----------------------------------------------------------------------------
(* The seed leaves no ties.                                                *)

SeedInv == TypeOK /\ (seeded => ~Drift(aliases))

LEMMA SeedStep == SeedInv /\ [Next]_vars => SeedInv'
<1>. SUFFICES ASSUME SeedInv, [Next]_vars PROVE (seeded => ~Drift(aliases))'
  BY Typed DEF SeedInv
<1>1. ASSUME NEW t, Edit(t) PROVE (seeded => ~Drift(aliases))'
  BY <1>1 DEF Edit, Changed, SeedInv
<1>2. CASE UNCHANGED <<aliases, seeded>>
  BY <1>2 DEF SeedInv
<1>3. CASE Seed
  BY <1>3 DEF Seed
<1>4. (\E t : Edit(t)) \/ UNCHANGED <<aliases, seeded>> \/ Seed
  BY DEF Next, vars, Take, ReplayNext, Reprocess, Begin, Commit, Raises, StartReplay,
         CloseItem, MapProduct, SaveAlias, ApproveAlias, ChangeAlias, DeleteAlias, Stop, ReplayDies
<1>. QED BY <1>1, <1>2, <1>3, <1>4

\* Between a completed seed and the next change of an alias, every product leads
\* to one activity (SeededIsDeterminate), for any aliases administrators had
\* made before it: assert_catalog_drift refuses the others.
THEOREM SeedSettlesProducts == Spec => []SeededIsDeterminate
<1>1. Init => SeedInv
  <2>1. Init => ~Drift(SeedAliases)
    BY SeedAliasesUnique DEF Drift, Approved
  <2>. QED BY <2>1, TypeInit DEF SeedInv, Init
<1>2. SeedInv => SeededIsDeterminate
  BY NoDriftNoTies DEF SeedInv, SeededIsDeterminate, TypeOK
<1>. QED BY <1>1, <1>2, SeedStep, PTL DEF Spec

-----------------------------------------------------------------------------
(* After a replay.                                                         *)

\* What a process holds is what the aliases say now.
Fresh(h) == LET p == Parsed[h.email].product IN
  IF Candidates(aliases, p) = {} THEN h.activity = None
  ELSE h.activity \in Answers(aliases, p)

\* What a replay still has to process of a booking is later than what it has.
OrderOK(b) == \A d \in Merged(b), t \in todo \cap Of(b) : d < t
HandsOK(b) == \A p \in Procs : hand[p] # None /\ BookingOf(hand[p].email) = b => Fresh(hand[p])
RulesOK(b) == \A e \in Matched(b) :
  (\A d \in Matched(b) : d <= e) => row[b].activity \in Answers(aliases, Parsed[e].product)

LatestInv ==
  /\ TypeOK
  /\ \A e \in merged : row[BookingOf(e)] # None
  /\ hand["replay"] # None => /\ hand["replay"].email \in todo
                             /\ \A d \in todo : hand["replay"].email <= d
  /\ \A b \in clean : OrderOK(b) /\ HandsOK(b) /\ RulesOK(b)

\* Steps that leave the merge alone and shrink what is claimed.
LEMMA QuietLatest ==
  ASSUME LatestInv, TypeOK', UNCHANGED <<aliases, row, todo, merged>>,
         clean' \subseteq clean,
         \A p \in Procs : hand'[p] = hand[p] \/ hand'[p] = None
  PROVE  LatestInv'
<1>1. ASSUME NEW b \in clean' PROVE (OrderOK(b) /\ HandsOK(b) /\ RulesOK(b))'
  <2>1. OrderOK(b) /\ HandsOK(b) /\ RulesOK(b)
    BY <1>1 DEF LatestInv
  <2>2. OrderOK(b)' /\ RulesOK(b)'
    BY <2>1 DEF OrderOK, RulesOK, Matched, Merged
  <2>3. HandsOK(b)'
    BY <2>1 DEF HandsOK, Fresh
  <2>. QED BY <2>2, <2>3
<1>2. (hand["replay"] # None => /\ hand["replay"].email \in todo
                               /\ \A d \in todo : hand["replay"].email <= d)'
  BY DEF LatestInv, Procs
<1>. QED BY <1>1, <1>2 DEF LatestInv

LEMMA EditLatest ==
  ASSUME LatestInv, TypeOK', NEW t, Edit(t), UNCHANGED <<row, hand, todo, merged>>
  PROVE  LatestInv'
<1>1. CASE t = aliases
  BY <1>1, QuietLatest DEF Edit, Changed
<1>2. CASE t # aliases
  <2>1. clean' = {}
    BY <1>2 DEF Edit, Changed
  <2>. QED BY <2>1 DEF LatestInv
<1>. QED BY <1>1, <1>2

LEMMA BeginLatest ==
  ASSUME LatestInv, TypeOK', NEW p \in Procs, NEW e \in Emails, Begin(p, e),
         p = "replay" => e \in todo /\ \A d \in todo : e <= d
  PROVE  LatestInv'
<1>0. UNCHANGED <<aliases, row, todo, merged, clean>>
  BY DEF Begin
<1>1. PICK a : /\ hand' = [hand EXCEPT ![p] = [email |-> e, activity |-> a]]
               /\ a \in IF Candidates(aliases, Parsed[e].product) = {} THEN {None}
                        ELSE Answers(aliases, Parsed[e].product)
  BY DEF Begin
<1>2. hand'[p] = [email |-> e, activity |-> a] /\ \A q \in Procs \ {p} : hand'[q] = hand[q]
  BY <1>1 DEF LatestInv, TypeOK
<1>3. Fresh([email |-> e, activity |-> a])
  BY <1>1 DEF Fresh
<1>4. ASSUME NEW b \in clean' PROVE (OrderOK(b) /\ HandsOK(b) /\ RulesOK(b))'
  <2>1. OrderOK(b) /\ HandsOK(b) /\ RulesOK(b)
    BY <1>0 DEF LatestInv
  <2>2. OrderOK(b)' /\ RulesOK(b)'
    BY <1>0, <2>1 DEF OrderOK, RulesOK, Matched, Merged
  <2>3. ASSUME NEW q \in Procs, (hand[q] # None)', (BookingOf(hand[q].email) = b)'
        PROVE  Fresh(hand[q])'
    <3>1. CASE q = p
      <4>1. hand'[q] = [email |-> e, activity |-> a]
        BY <1>2, <3>1
      <4>. QED BY <1>0, <1>3, <4>1 DEF Fresh
    <3>2. CASE q # p
      <4>1. hand'[q] = hand[q]
        BY <1>2, <3>2
      <4>. QED BY <1>0, <2>1, <2>3, <4>1 DEF HandsOK, Fresh, BookingOf
    <3>. QED BY <3>1, <3>2
  <2>. QED BY <2>2, <2>3 DEF HandsOK
<1>5. (hand["replay"] # None => /\ hand["replay"].email \in todo
                               /\ \A d \in todo : hand["replay"].email <= d)'
  BY <1>0, <1>2 DEF LatestInv, Procs
<1>. QED BY <1>0, <1>4, <1>5 DEF LatestInv

LEMMA CommitLatest ==
  ASSUME LatestInv, TypeOK', NEW p \in Procs, Commit(p)
  PROVE  LatestInv'
<1>. PICK e \in Emails, a \in Activities \cup {None} :
       hand[p] # None /\ hand[p].email = e /\ hand[p].activity = a
  BY DEF Commit, LatestInv, TypeOK
<1>. PICK b \in Bookings : b = BookingOf(e)
  BY ProductOf
<1>1. /\ aliases' = aliases
      /\ row' = [row EXCEPT ![b] = Upserted(row[b], e, a)]
      /\ merged' = merged \cup {e}
      /\ todo' = IF p = "replay" THEN todo \ {e} ELSE todo
      /\ clean' = IF /\ p # "replay"
                     /\ \E d \in Of(b) : d \in todo \/ (d \in merged /\ d > e)
                  THEN clean \ {b} ELSE clean
      /\ hand' = [hand EXCEPT ![p] = None]
  BY DEF Commit
<1>2. row'[b] = Upserted(row[b], e, a) /\ \A c \in Bookings \ {b} : row'[c] = row[c]
  BY <1>1 DEF LatestInv, TypeOK
<1>3. \A q \in Procs : hand'[q] = hand[q] \/ hand'[q] = None
  BY <1>1 DEF LatestInv, TypeOK
<1>4. row'[b] # None
  BY <1>2, ProductOf, UpsertedTyped, AliasAssumption DEF LatestInv, TypeOK
<1>5. \A f \in merged' : row'[BookingOf(f)] # None
  BY <1>1, <1>2, <1>4, ProductOf DEF LatestInv, TypeOK
<1>6. clean' \subseteq clean /\ e \in Of(b)
  BY <1>1 DEF Of
<1>7. ASSUME NEW c \in clean' PROVE HandsOK(c)'
  <2>1. HandsOK(c)
    BY <1>6 DEF LatestInv
  <2>. QED BY <1>1, <1>3, <2>1 DEF HandsOK, Fresh
<1>8. ASSUME NEW c \in clean', c # b PROVE (OrderOK(c) /\ RulesOK(c))'
  <2>1. e \notin Of(c) /\ c \in Bookings /\ OrderOK(c) /\ RulesOK(c)
    BY <1>6, <1>8 DEF Of, LatestInv, TypeOK
  <2>2. todo' \cap Of(c) = todo \cap Of(c) /\ merged' \cap Of(c) = merged \cap Of(c)
    BY <1>1, <2>1
  <2>3. Merged(c)' = Merged(c)
    BY <2>2 DEF Merged
  <2>4. Matched(c)' = Matched(c)
    BY <1>1, <2>3 DEF Matched
  <2>5. row'[c] = row[c]
    BY <1>2, <1>8, <2>1
  <2>. QED BY <1>1, <2>1, <2>2, <2>3, <2>4, <2>5 DEF OrderOK, RulesOK
<1>9. ASSUME b \in clean' PROVE (OrderOK(b) /\ RulesOK(b))'
  <2>0. OrderOK(b) /\ HandsOK(b) /\ RulesOK(b)
    BY <1>6, <1>9 DEF LatestInv
  <2>1. /\ \A d \in Merged(b) : d <= e
        /\ \A t \in todo' \cap Of(b) : e < t
    <3>0. e \in Nat /\ \A d \in Of(b) : d \in Nat
      BY DEF Of
    <3>1. CASE p = "replay"
      <4>1. e \in todo /\ \A d \in todo : e <= d
        BY <3>1 DEF LatestInv
      <4>2. \A d \in Merged(b) : d < e
        BY <1>6, <2>0, <4>1 DEF OrderOK
      <4>. QED BY <1>1, <3>0, <3>1, <4>1, <4>2 DEF Merged
    <3>2. CASE p # "replay"
      <4>1. \A d \in Of(b) : d \notin todo /\ ~(d \in merged /\ d > e)
        BY <1>1, <1>9, <3>2
      <4>. QED BY <1>1, <3>0, <3>2, <4>1 DEF Merged
    <3>. QED BY <3>1, <3>2
  <2>2. e \notin todo'
    <3>1. CASE p = "replay"
      BY <1>1, <3>1
    <3>2. CASE p # "replay"
      BY <1>1, <1>6, <1>9, <3>2
    <3>. QED BY <3>1, <3>2
  <2>3. Merged(b)' = Merged(b) \cup {e}
    <3>1. todo' \subseteq todo /\ \A d \in todo : d \in todo' \/ d = e
      BY <1>1
    <3>. QED BY <1>1, <1>6, <2>2, <3>1 DEF Merged
  <2>4. OrderOK(b)'
    <3>1. \A d \in Merged(b), t \in todo' \cap Of(b) : d < t
      BY <1>1, <2>0 DEF OrderOK
    <3>. QED BY <2>1, <2>3, <3>1 DEF OrderOK
  <2>5. Fresh(hand[p])
    BY <2>0 DEF HandsOK
  <2>6. CASE Candidates(aliases, Parsed[e].product) = {}
    <3>1. a = None /\ Matched(b)' = Matched(b)
      BY <1>1, <2>3, <2>5, <2>6 DEF Fresh, Matched
    <3>2. ASSUME Matched(b) # {} PROVE row'[b].activity = row[b].activity
      <4>1. row[b] # None
        BY <3>2 DEF Matched, Merged, Of, LatestInv
      <4>. QED BY <1>2, <3>1, <4>1 DEF Upserted
    <3>. QED BY <1>1, <2>0, <2>4, <3>1, <3>2 DEF RulesOK
  <2>7. CASE Candidates(aliases, Parsed[e].product) # {}
    <3>1. a \in Answers(aliases, Parsed[e].product)
      BY <2>5, <2>7 DEF Fresh
    <3>2. a # None
      BY <3>1, AnswersAreActivities DEF LatestInv, TypeOK
    <3>3. row'[b].activity = a
      BY <1>2, <3>2 DEF Upserted
    <3>4. Matched(b)' = Matched(b) \cup {e}
      BY <1>1, <2>3, <2>7 DEF Matched
    <3>5. ASSUME NEW f \in Matched(b)', \A d \in Matched(b)' : d <= f PROVE f = e
      <4>1. e <= f
        BY <3>4, <3>5
      <4>2. f = e \/ f <= e
        BY <2>1, <3>4 DEF Matched
      <4>3. f \in Nat /\ e \in Nat
        BY <3>4, AliasAssumption DEF Matched, Merged, Of
      <4>. QED BY <4>1, <4>2, <4>3
    <3>. QED BY <1>1, <2>4, <3>1, <3>3, <3>5 DEF RulesOK
  <2>. QED BY <2>6, <2>7
<1>10. (hand["replay"] # None => /\ hand["replay"].email \in todo
                                /\ \A d \in todo : hand["replay"].email <= d)'
  <2>1. CASE p = "replay"
    BY <1>1, <2>1 DEF LatestInv, TypeOK
  <2>2. CASE p # "replay"
    BY <1>1, <2>2 DEF LatestInv, TypeOK
  <2>. QED BY <2>1, <2>2
<1>. QED BY <1>5, <1>7, <1>8, <1>9, <1>10 DEF LatestInv

LEMMA LatestStep == LatestInv /\ [Next]_vars => LatestInv'
<1>. SUFFICES ASSUME LatestInv, [Next]_vars PROVE LatestInv'
  OBVIOUS
<1>0. TypeOK /\ TypeOK'
  BY Typed DEF LatestInv
<1>1. ASSUME NEW e \in Emails, Take(e) \/ ReplayNext(e) PROVE LatestInv'
  BY <1>0, <1>1, BeginLatest DEF Take, ReplayNext, Procs
<1>2. ASSUME NEW e \in Emails, CloseItem(e) PROVE LatestInv'
  BY <1>0, <1>2, QuietLatest DEF CloseItem
<1>3. ASSUME NEW e \in Emails, NEW x, MapProduct(e, x) PROVE LatestInv'
  BY <1>0, <1>3, EditLatest DEF MapProduct
<1>4. ASSUME NEW p \in Procs, Commit(p) PROVE LatestInv'
  BY <1>0, <1>4, CommitLatest
<1>5. ASSUME NEW p \in Procs, Raises(p) PROVE LatestInv'
  <2>1. \A q \in Procs : hand'[q] = IF q = p THEN None ELSE hand[q]
    BY <1>0, <1>5 DEF Raises, TypeOK
  <2>2. CASE p # "replay"
    BY <1>0, <1>5, <2>1, <2>2, QuietLatest DEF Raises
  <2>3. CASE p = "replay"
    <3>1. PICK e \in Emails, b \in Bookings : e = hand[p].email /\ b = BookingOf(e)
      BY <1>0, <1>5, ProductOf DEF Raises, TypeOK
    <3>2. /\ todo' = todo \ {e} /\ clean' = clean \ {b}
          /\ UNCHANGED <<aliases, row, merged>>
      BY <1>5, <2>3, <3>1 DEF Raises
    <3>3. ASSUME NEW c \in clean' PROVE (OrderOK(c) /\ HandsOK(c) /\ RulesOK(c))'
      <4>1. c \in clean /\ e \notin Of(c) /\ OrderOK(c) /\ HandsOK(c) /\ RulesOK(c)
        BY <3>1, <3>2 DEF Of, LatestInv
      <4>2. Merged(c)' = Merged(c) /\ todo' \cap Of(c) = todo \cap Of(c)
        BY <3>2, <4>1 DEF Merged
      <4>3. Matched(c)' = Matched(c)
        BY <3>2, <4>2 DEF Matched
      <4>4. HandsOK(c)'
        BY <2>1, <3>2, <4>1 DEF HandsOK, Fresh
      <4>. QED BY <3>2, <4>1, <4>2, <4>3, <4>4 DEF OrderOK, RulesOK
    <3>. QED BY <1>0, <2>1, <2>3, <3>2, <3>3 DEF LatestInv
  <2>. QED BY <2>2, <2>3
<1>6. ASSUME NEW S \in SUBSET Emails, StartReplay(S) PROVE LatestInv'
  <2>1. /\ todo = {} /\ todo' = S /\ UNCHANGED <<aliases, row, hand, merged>>
        /\ clean' = {b \in Bookings : /\ merged \cap Of(b) \subseteq S
                                      /\ \A h \in InHand : BookingOf(h.email) # b}
    BY <1>6 DEF StartReplay
  <2>2. hand["replay"] = None
    BY <2>1 DEF LatestInv
  <2>3. ASSUME NEW b \in clean' PROVE (OrderOK(b) /\ HandsOK(b) /\ RulesOK(b))'
    <3>1. Merged(b)' = {} /\ Matched(b)' = {}
      BY <2>1, <2>3 DEF Merged, Matched
    <3>2. \A p \in Procs : hand[p] # None => BookingOf(hand[p].email) # b
      BY <2>1, <2>3 DEF InHand
    <3>. QED BY <2>1, <3>1, <3>2 DEF OrderOK, HandsOK, RulesOK
  <2>. QED BY <1>0, <2>1, <2>2, <2>3 DEF LatestInv
<1>7. ASSUME NEW x, SaveAlias(x) PROVE LatestInv'
  BY <1>0, <1>7, EditLatest DEF SaveAlias
<1>8. ASSUME NEW x, ApproveAlias(x) PROVE LatestInv'
  BY <1>7, <1>8 DEF ApproveAlias
<1>9. ASSUME NEW x, DeleteAlias(x) PROVE LatestInv'
  BY <1>0, <1>9, EditLatest DEF DeleteAlias
<1>15. ASSUME NEW x, NEW y, ChangeAlias(x, y) PROVE LatestInv'
  BY <1>0, <1>15, EditLatest DEF ChangeAlias
<1>10. CASE Reprocess
  BY <1>0, <1>10, BeginLatest DEF Reprocess, Procs, TypeOK, Request
<1>11. CASE Stop
  <2>1. \A p \in Procs : hand'[p] = hand[p] \/ hand'[p] = None
    BY <1>0, <1>11 DEF Stop, TypeOK
  <2>. QED BY <1>0, <1>11, <2>1, QuietLatest DEF Stop
<1>12. CASE Seed
  <2>1. CASE Seeded(aliases) = aliases
    BY <1>0, <1>12, <2>1, QuietLatest DEF Seed
  <2>2. CASE Seeded(aliases) # aliases
    <3>1. clean' = {}
      BY <1>12, <2>2 DEF Seed
    <3>. QED BY <1>0, <1>12, <3>1 DEF Seed, LatestInv
  <2>. QED BY <2>1, <2>2
<1>13. CASE ReplayDies
  <2>1. /\ todo' = {} /\ clean' = {b \in clean : todo \cap Of(b) = {}}
        /\ UNCHANGED <<aliases, row, merged>>
        /\ hand' = [hand EXCEPT !["replay"] = None]
    BY <1>13 DEF ReplayDies
  <2>2. hand'["replay"] = None /\ \A p \in Procs : hand'[p] = hand[p] \/ hand'[p] = None
    BY <1>0, <2>1 DEF TypeOK, Procs
  <2>3. ASSUME NEW b \in clean' PROVE (OrderOK(b) /\ HandsOK(b) /\ RulesOK(b))'
    <3>1. b \in clean /\ todo \cap Of(b) = {} /\ HandsOK(b) /\ RulesOK(b)
      BY <2>1, <2>3 DEF LatestInv
    <3>2. Merged(b)' = Merged(b)
      BY <2>1, <3>1 DEF Merged
    <3>3. Matched(b)' = Matched(b)
      BY <2>1, <3>2 DEF Matched
    <3>4. HandsOK(b)'
      BY <2>1, <2>2, <3>1 DEF HandsOK, Fresh
    <3>. QED BY <2>1, <3>1, <3>3, <3>4 DEF OrderOK, RulesOK
  <2>. QED BY <1>0, <2>1, <2>2, <2>3 DEF LatestInv
<1>14. CASE UNCHANGED vars
  BY <1>0, <1>14, QuietLatest DEF vars
<1>. QED BY <1>1, <1>2, <1>3, <1>4, <1>5, <1>6, <1>7, <1>8, <1>9, <1>10, <1>11, <1>12,
            <1>13, <1>14, <1>15 DEF Next

\* A booking a replay has gone over is mapped by the latest of its emails that an
\* alias matches (LatestMatchRules), for any aliases and emails, whatever the
\* poller and requests process beside it.
THEOREM ReplayMapsByLatest == Spec => []LatestMatchRules
<1>1. Init => LatestInv
  <2>1. Init => hand["replay"] = None
    BY DEF Init, Procs
  <2>. QED BY <2>1, TypeInit DEF Init, LatestInv
<1>2. LatestInv => LatestMatchRules
  BY DEF LatestInv, LatestMatchRules, RulesOK
<1>. QED BY <1>1, <1>2, LatestStep, PTL DEF Spec

-----------------------------------------------------------------------------
(* A product mapped in the inbox.                                          *)

\* While the request that mapped a product holds, its alias is the only match, and
\* what the request has in hand is what the operator chose.
HoldInv ==
  /\ TypeOK
  /\ ~up => op = None
  /\ op # None /\ op.hold =>
       /\ Candidates(aliases, Parsed[op.email].product) # {}
       /\ Answers(aliases, Parsed[op.email].product) = {op.activity}
  /\ hand["op"] # None =>
       /\ op # None /\ hand["op"].email = op.email
       /\ op.hold => hand["op"].activity = op.activity

LEMMA HoldStep == HoldInv /\ [Next]_vars => HoldInv'
<1>. SUFFICES ASSUME HoldInv, [Next]_vars PROVE HoldInv'
  OBVIOUS
<1>0. TypeOK /\ TypeOK'
  BY Typed DEF HoldInv
<1>1. ASSUME NEW p \in Procs, Commit(p) \/ Raises(p) PROVE HoldInv'
  <2>1. UNCHANGED <<aliases, up>> /\ op' = IF p = "op" THEN None ELSE op
    BY <1>1 DEF Commit, Raises
  <2>2. hand' = [hand EXCEPT ![p] = None]
    BY <1>1 DEF Commit, Raises
  <2>3. CASE p = "op"
    <3>1. hand'["op"] = None
      BY <1>0, <2>2, <2>3 DEF TypeOK
    <3>. QED BY <1>0, <2>1, <2>3, <3>1 DEF HoldInv
  <2>4. CASE p # "op"
    <3>1. hand'["op"] = hand["op"]
      BY <1>0, <2>2, <2>4 DEF TypeOK
    <3>. QED BY <1>0, <2>1, <2>4, <3>1 DEF HoldInv
  <2>. QED BY <2>3, <2>4
<1>2. ASSUME UNCHANGED <<aliases, op, up>>, hand'["op"] = hand["op"] PROVE HoldInv'
  BY <1>0, <1>2 DEF HoldInv
<1>3. ASSUME NEW e \in Emails, Take(e) \/ ReplayNext(e) PROVE HoldInv'
  <2>1. UNCHANGED <<aliases, op, up>> /\ \E p \in Procs \ {"op"} : \E h : hand' = [hand EXCEPT ![p] = h]
    BY <1>3 DEF Take, ReplayNext, Begin, Procs
  <2>2. hand'["op"] = hand["op"]
    BY <1>0, <2>1 DEF TypeOK
  <2>. QED BY <1>2, <2>1, <2>2
<1>4. CASE Reprocess
  <2>1. op # None /\ UNCHANGED <<aliases, op, up>>
    BY <1>4 DEF Reprocess, Begin
  <2>2. PICK a : /\ hand' = [hand EXCEPT !["op"] = [email |-> op.email, activity |-> a]]
                 /\ a \in IF Candidates(aliases, Parsed[op.email].product) = {} THEN {None}
                          ELSE Answers(aliases, Parsed[op.email].product)
    BY <1>4 DEF Reprocess, Begin
  <2>3. hand'["op"] = [email |-> op.email, activity |-> a]
    BY <1>0, <2>2 DEF TypeOK, Procs
  <2>4. op.hold => a = op.activity
    BY <2>1, <2>2 DEF HoldInv
  <2>. QED BY <1>0, <2>1, <2>3, <2>4 DEF HoldInv
<1>5. ASSUME NEW e \in Emails, NEW x \in Forms(Entries \cup Offered(e)), MapProduct(e, x)
      PROVE HoldInv'
  <2>1. /\ op = None /\ up /\ up' = up /\ hand' = hand /\ aliases' = Saved(aliases, x)
        /\ op' = [email |-> e, activity |-> x.activity,
                  hold |-> /\ x.approved /\ x.key = Parsed[e].product
                           /\ Candidates(aliases, x.key) = {}]
    BY <1>5 DEF MapProduct, Edit, Changed
  <2>2. hand'["op"] = None
    BY <2>1 DEF HoldInv
  <2>3. x \in Alias
    BY <1>0, <1>5, FormsTyped, OfferedTyped
  <2>4. op'.hold => /\ Candidates(aliases', Parsed[op'.email].product) # {}
                    /\ Answers(aliases', Parsed[op'.email].product) = {op'.activity}
    BY <1>0, <2>1, <2>3, SavedMatches DEF TypeOK
  <2>. QED BY <1>0, <2>1, <2>2, <2>4 DEF HoldInv
<1>6. ASSUME NEW t, Edit(t), hand' = hand,
             op' = IF op = None THEN None ELSE [op EXCEPT !.hold = FALSE]
      PROVE HoldInv'
  <2>1. up /\ up' = up
    BY <1>6 DEF Edit
  <2>2. CASE op = None
    BY <1>0, <1>6, <2>1, <2>2 DEF HoldInv
  <2>3. CASE op # None
    <3>1. op' # None => ~op'.hold /\ op'.email = op.email
      BY <1>0, <1>6, <2>3 DEF TypeOK
    <3>2. op' # None
      BY <1>0, <1>6, <2>3, AliasAssumption DEF TypeOK, Request
    <3>. QED BY <1>0, <1>6, <2>1, <2>3, <3>1, <3>2 DEF HoldInv
  <2>. QED BY <2>2, <2>3
<1>7. CASE Stop
  <2>1. hand'["op"] = None /\ op' = None
    BY <1>0, <1>7 DEF Stop, TypeOK, Procs
  <2>. QED BY <1>0, <2>1 DEF HoldInv
<1>8. CASE Seed
  <2>1. op = None /\ op' = None /\ hand' = hand
    BY <1>8 DEF Seed, HoldInv
  <2>. QED BY <1>0, <2>1 DEF HoldInv
<1>9. CASE ReplayDies
  <2>1. hand'["op"] = hand["op"]
    BY <1>0, <1>9 DEF ReplayDies, TypeOK
  <2>. QED BY <1>2, <1>9, <2>1 DEF ReplayDies
<1>10. \A e \in Emails : CloseItem(e) => HoldInv'
  BY <1>2 DEF CloseItem
<1>11. \A S \in SUBSET Emails : StartReplay(S) => HoldInv'
  BY <1>2 DEF StartReplay
<1>12. \A x, y : \/ SaveAlias(x) \/ ApproveAlias(x) \/ ChangeAlias(x, y)
                 \/ DeleteAlias(x)
        => HoldInv'
  BY <1>6 DEF SaveAlias, ApproveAlias, ChangeAlias, DeleteAlias
<1>13. CASE UNCHANGED vars
  BY <1>2, <1>13 DEF vars
<1>. QED BY <1>1, <1>3, <1>4, <1>5, <1>7, <1>8, <1>9, <1>10, <1>11, <1>12, <1>13 DEF Next

\* An operator who maps an unmatched product from its email's item gets that
\* mapping (MapTakesHold), whatever else is processed between the save and the
\* reprocessing, for any aliases there were.
THEOREM MappingTakesHold == Spec => MapTakesHold
<1>1. Init => HoldInv
  <2>1. Init => hand["op"] = None
    BY DEF Init, Procs
  <2>. QED BY <2>1, TypeInit DEF Init, HoldInv
<1>2. ASSUME HoldInv, Commit("op"), op.hold
      PROVE  /\ row'[BookingOf(op.email)].activity = op.activity
             /\ items' \cap Of(BookingOf(op.email)) = {}
  <2>1. TypeOK /\ op # None /\ hand["op"].email = op.email /\ hand["op"].activity = op.activity
    BY <1>2 DEF HoldInv, Commit
  <2>2. op.email \in Emails /\ op.activity # None
    BY <2>1, AliasAssumption DEF TypeOK, Request
  <2>. PICK b \in Bookings : b = BookingOf(op.email)
    BY <2>2, ProductOf
  <2>3. /\ row' = [row EXCEPT ![b] = Upserted(row[b], op.email, op.activity)]
        /\ items' = IF Upserted(row[b], op.email, op.activity).activity # None
                    THEN items \ Of(b)
                    ELSE items \cup {x \in {op.email} :
                      Mismatch(Upserted(row[b], op.email, op.activity), op.email, op.activity)}
    BY <1>2, <2>1 DEF Commit
  <2>4. Upserted(row[b], op.email, op.activity).activity = op.activity
    BY <2>2 DEF Upserted
  <2>5. row'[b].activity = op.activity
    BY <2>1, <2>3, <2>4 DEF TypeOK
  <2>. QED BY <2>2, <2>3, <2>4, <2>5
<1>3. HoldInv /\ [Next]_vars =>
        [(Commit("op") /\ op.hold) =>
           /\ row'[BookingOf(op.email)].activity = op.activity
           /\ items' \cap Of(BookingOf(op.email)) = {}]_vars
  BY <1>2
<1>. QED BY <1>1, <1>3, HoldStep, PTL DEF Spec, MapTakesHold

=============================================================================
