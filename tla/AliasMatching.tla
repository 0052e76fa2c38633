---------------------------- MODULE AliasMatching ----------------------------
(***************************************************************************)
(* How a product named in an email becomes an activity: the aliases of one *)
(* provider, everybody who writes them (the settings page, the inbox's     *)
(* "map product", the admin site, the seed of every deploy) and the emails *)
(* that are mapped by them.                                                *)
(*                                                                         *)
(* process_raw_email reads the aliases before it locks the booking, so     *)
(* processing is two steps, and what it read may be old when it commits.   *)
(* Saving an alias and reprocessing the email it was opened from are two   *)
(* transactions.  Names are numbers in the database's order, 0 is blank;   *)
(* Norm is what two spellings of a name have in common.  Which booking an  *)
(* email belongs to is BookingIdentity's, slots are ScheduleBook's.        *)
(***************************************************************************)
EXTENDS Naturals

CONSTANTS
  Names, Options, \* product and option names as providers write them
  Codes,          \* product and option codes
  Norm,           \* a name without its case and extra spaces
  Activities,
  Emails,         \* numbers, in the order they were received
  Bookings,
  Parsed,         \* per email: the product it names, its booking, a cancellation?
  Catalogue,      \* the seed's product names and their activities
  Entries,        \* the products administrators enter by hand
  None,           \* no alias, no booking, no activity
  MaxEdits        \* bound: changes administrators make

Blank == 0
Product == [name : Names \cup {Blank}, option : Options \cup {Blank},
            code : Codes \cup {Blank}, optcode : Codes \cup {Blank}]

\* The fields of the unique constraint, less the provider.
Keys == {k \in Product : k.name # Blank}
Alias == [key : Keys, activity : Activities, approved : BOOLEAN]
Row == [product : Product, activity : Activities \cup {None}, cancelled : BOOLEAN]
Request == [email : Emails, activity : Activities, hold : BOOLEAN]

ASSUME AliasAssumption ==
  /\ Names \cup Options \cup Codes \subseteq Nat \ {Blank}
  /\ Norm \in [Names \cup Options \cup {Blank} -> Nat]
  /\ \A x \in Names \cup Options : Norm[x] # Norm[Blank]
  /\ Emails \subseteq Nat
  /\ Parsed \in [Emails -> [product : Product, booking : Bookings, cancels : BOOLEAN]]
  /\ DOMAIN Catalogue \subseteq Names /\ Catalogue \in [DOMAIN Catalogue -> Activities]
  /\ Entries \subseteq Keys
  /\ None \notin Activities \cup Row \cup Request
  /\ MaxEdits \in Nat

-----------------------------------------------------------------------------
\* Meta.ordering; two aliases of one product that differ in their codes come in
\* any order.
Before(x, y) == \/ x.key.name < y.key.name
                \/ x.key.name = y.key.name /\ x.key.option < y.key.option
Firsts(S) == {x \in S : \A y \in S : ~Before(y, x)}

Approved(t) == {x \in t : x.approved}

ByCode(t, p) == {x \in Approved(t) : /\ p.code # Blank
                                     /\ x.key.code = p.code /\ x.key.optcode = p.optcode}
ByProduct(t, p) == {x \in Approved(t) : p.name # Blank /\ Norm[x.key.name] = Norm[p.name]}
ByName(t, p) == {x \in ByProduct(t, p) : Norm[x.key.option] = Norm[p.option]}

\* The aliases match_product_alias chooses from: by code, by product and option,
\* and for an email with an option by the product alone.
Candidates(t, p) ==
  IF ByCode(t, p) # {} THEN ByCode(t, p)
  ELSE IF ByName(t, p) # {} THEN ByName(t, p)
  ELSE {x \in ByProduct(t, p) : p.option # Blank}

Answers(t, p) == {x.activity : x \in Firsts(Candidates(t, p))}

\* One alias per key: saving replaces it.
Without(t, k) == {x \in t : x.key # k}

\* Mutant: an alias that exists is left as it is.
SavedOnce(t, x) == IF Without(t, x.key) = t THEN t \cup {x} ELSE t

Saved(t, x) == Without(t, x.key) \cup {x}

\* What the seed makes of the aliases, and what it refuses (assert_catalog_drift).
SeedAlias(n) == [key |-> [name |-> n, option |-> Blank, code |-> Blank, optcode |-> Blank],
                 activity |-> Catalogue[n], approved |-> TRUE]
SeedAliases == {SeedAlias(n) : n \in DOMAIN Catalogue}
Seeded(t) == {x \in t : \A y \in SeedAliases : x.key # y.key} \cup SeedAliases

\* Mutant: only aliases of one key are compared.
DriftPerKey(t) == \E x, y \in Approved(t) : x.key = y.key /\ x.activity # y.activity

Drift(t) == \E x, y \in Approved(t) : x.key.name = y.key.name /\ x.activity # y.activity

-----------------------------------------------------------------------------
VARIABLES
  aliases, \* ProviderAlias
  row,     \* Booking: its product as merged, its activity, cancelled or not; or None
  items,   \* emails with open items about an unmapped product
  hand,    \* per process: the email it processes and the activity its alias gave
  todo,    \* emails replay_raw_emails still has to process
  op,      \* the request that mapped a product and is to reprocess its email
  up,      \* does the web process run?
  edits,
  merged,  \* history: emails that reached their booking
  clean,   \* history: bookings a replay mapped anew, or will, in order
  seeded   \* history: no alias has changed since the last seed
vars == <<aliases, row, items, hand, todo, op, up, edits, merged, clean, seeded>>

Procs == {"poller", "replay", "op"}

BookingOf(e) == Parsed[e].booking
Of(b) == {e \in Emails : BookingOf(e) = b}
InHand == {h \in {hand[p] : p \in Procs} : h # None}

TypeOK ==
  /\ aliases \subseteq Alias
  /\ \A x, y \in aliases : x.key = y.key => x = y
  /\ row \in [Bookings -> Row \cup {None}]
  /\ items \subseteq Emails /\ todo \subseteq Emails
  /\ hand \in [Procs -> [email : Emails, activity : Activities \cup {None}] \cup {None}]
  /\ op \in Request \cup {None}
  /\ up \in BOOLEAN /\ seeded \in BOOLEAN
  /\ edits \in 0..MaxEdits
  /\ merged \subseteq Emails
  /\ clean \subseteq Bookings

Init ==
  /\ aliases = SeedAliases
  /\ row = [b \in Bookings |-> None]
  /\ hand = [p \in Procs |-> None]
  /\ op = None /\ up = TRUE /\ edits = 0 /\ seeded = TRUE
  /\ items = {} /\ todo = {} /\ merged = {} /\ clean = {}

-----------------------------------------------------------------------------
\* Processing an email: lock it, parse it, match its product.
Begin(p, e) ==
  /\ hand[p] = None /\ \A h \in InHand : h.email # e
  /\ \E a \in IF Candidates(aliases, Parsed[e].product) = {} THEN {None}
              ELSE Answers(aliases, Parsed[e].product) :
       hand' = [hand EXCEPT ![p] = [email |-> e, activity |-> a]]
  /\ UNCHANGED <<aliases, row, items, todo, op, up, edits, merged, clean, seeded>>

\* _skip_empty_provider_update: a blank never replaces a name.
Filled(old, new) == IF new = Blank THEN old ELSE new

Merge(old, p) == [name |-> Filled(old.name, p.name),
                  option |-> Filled(old.option, p.option),
                  code |-> Filled(old.code, p.code),
                  optcode |-> Filled(old.optcode, p.optcode)]

\* _create_booking or _update_booking with the match made before; the mismatch
\* items, and those of the booking that have become obsolete.
Upserted(old, e, a) ==
  IF old = None THEN [product |-> Parsed[e].product, activity |-> a,
                      cancelled |-> Parsed[e].cancels]
  ELSE [product |-> Merge(old.product, Parsed[e].product),
        activity |-> IF a = None THEN old.activity ELSE a,
        cancelled |-> old.cancelled \/ Parsed[e].cancels]

Mismatch(new, e, a) == /\ a = None /\ Parsed[e].product.name # Blank
                       /\ ~new.cancelled

Commit(p) ==
  /\ hand[p] # None
  /\ LET e == hand[p].email  a == hand[p].activity  b == BookingOf(e)
         new == Upserted(row[b], e, a)
     IN /\ row' = [row EXCEPT ![b] = new]
        /\ items' = IF new.activity # None THEN items \ Of(b)
                    ELSE items \cup {x \in {e} : Mismatch(new, e, a)}
        /\ merged' = merged \cup {e}
        /\ clean' = IF /\ p # "replay"
                       /\ \E d \in Of(b) : d \in todo \/ (d \in merged /\ d > e)
                    THEN clean \ {b} ELSE clean
        /\ todo' = IF p = "replay" THEN todo \ {e} ELSE todo
  /\ hand' = [hand EXCEPT ![p] = None]
  /\ op' = IF p = "op" THEN None ELSE op
  /\ UNCHANGED <<aliases, up, edits, seeded>>

\* The poller, or process_pending_emails, with an email not yet processed.
Take(e) == e \notin merged /\ Begin("poller", e)

\* replay_raw_emails, in the order the emails were received.
StartReplay(S) ==
  /\ todo = {} /\ S # {} /\ todo' = S
  /\ clean' = {b \in Bookings : /\ merged \cap Of(b) \subseteq S
                                /\ \A h \in InHand : BookingOf(h.email) # b}
  /\ UNCHANGED <<aliases, row, items, hand, op, up, edits, merged, seeded>>

\* Mutant: the newest emails first.
ReplayNewest(e) == e \in todo /\ (\A d \in todo : e >= d) /\ Begin("replay", e)

ReplayNext(e) == e \in todo /\ (\A d \in todo : e <= d) /\ Begin("replay", e)

\* Processing that raises, or whose process dies, leaves the booking alone.
Raises(p) ==
  /\ hand[p] # None
  /\ hand' = [hand EXCEPT ![p] = None]
  /\ todo' = IF p = "replay" THEN todo \ {hand[p].email} ELSE todo
  /\ clean' = IF p = "replay" THEN clean \ {BookingOf(hand[p].email)} ELSE clean
  /\ op' = IF p = "op" THEN None ELSE op
  /\ UNCHANGED <<aliases, row, items, up, edits, merged, seeded>>

-----------------------------------------------------------------------------
\* Aliases change: what was mapped by the old ones is no longer known to agree.
Changed(t) ==
  /\ aliases' = t
  /\ clean' = IF t = aliases THEN clean ELSE {}
  /\ seeded' = (seeded /\ t = aliases)

Edit(t) == up /\ up' = up /\ edits < MaxEdits /\ edits' = edits + 1 /\ Changed(t)

\* The settings page finds the alias of that product or makes one; the page of an
\* activity only makes one; the admin site also changes the product of one (a save
\* that meets the unique constraint changes nothing) and deletes one.
SaveAlias(x) ==
  /\ Edit(Saved(aliases, x))
  /\ op' = IF op = None THEN None ELSE [op EXCEPT !.hold = FALSE]
  /\ UNCHANGED <<row, items, hand, todo, merged>>

ApproveAlias(x) == ~x.approved /\ SaveAlias([x EXCEPT !.approved = TRUE])

ChangeAlias(x, y) ==
  /\ \A z \in aliases \ {x} : z.key # y.key
  /\ Edit((aliases \ {x}) \cup {y})
  /\ op' = IF op = None THEN None ELSE [op EXCEPT !.hold = FALSE]
  /\ UNCHANGED <<row, items, hand, todo, merged>>

DeleteAlias(x) ==
  /\ Edit(aliases \ {x})
  /\ op' = IF op = None THEN None ELSE [op EXCEPT !.hold = FALSE]
  /\ UNCHANGED <<row, items, hand, todo, merged>>

\* The inbox's "map product": the form shows the product of the item's booking,
\* approved; saving it reprocesses the item's email.
Offered(e) == {r.product : r \in {row[BookingOf(e)]} \ {None}} \cap Keys

MapProduct(e, x) ==
  /\ op = None
  /\ Edit(Saved(aliases, x))
  /\ op' = [email |-> e, activity |-> x.activity,
            hold |-> /\ x.approved /\ x.key = Parsed[e].product
                     /\ Candidates(aliases, x.key) = {}]
  /\ UNCHANGED <<row, items, hand, todo, merged>>

Reprocess == op # None /\ Begin("op", op.email)

\* review_action.
CloseItem(e) ==
  /\ up /\ e \in items
  /\ items' = items \ {e}
  /\ UNCHANGED <<aliases, row, hand, todo, op, up, edits, merged, clean, seeded>>

-----------------------------------------------------------------------------
\* A deploy stops the web process; it starts again when the seed has committed.
Stop ==
  /\ up /\ up' = FALSE /\ op' = None
  /\ hand' = [hand EXCEPT !["op"] = None]
  /\ UNCHANGED <<aliases, row, items, todo, edits, merged, clean, seeded>>

Seed ==
  /\ ~up /\ ~Drift(Seeded(aliases))
  /\ up' = TRUE
  /\ aliases' = Seeded(aliases) /\ seeded' = TRUE
  /\ clean' = IF Seeded(aliases) = aliases THEN clean ELSE {}
  /\ UNCHANGED <<row, items, hand, todo, op, edits, merged>>

\* replay_raw_emails dies with its container.
ReplayDies ==
  /\ todo # {}
  /\ clean' = {b \in clean : todo \cap Of(b) = {}}
  /\ todo' = {} /\ hand' = [hand EXCEPT !["replay"] = None]
  /\ UNCHANGED <<aliases, row, items, op, up, edits, merged, seeded>>

Forms(keys) == {[key |-> k, activity |-> a, approved |-> ok] :
                 k \in keys, a \in Activities, ok \in BOOLEAN}

Next ==
  \/ \E e \in Emails : \/ Take(e) \/ ReplayNext(e) \/ CloseItem(e)
                      \/ \E x \in Forms(Entries \cup Offered(e)) : MapProduct(e, x)
  \/ \E p \in Procs : Commit(p) \/ Raises(p)
  \/ \E S \in SUBSET Emails : StartReplay(S)
  \/ \E x \in Forms(Entries) : SaveAlias(x)
  \/ \E x \in aliases : \/ ApproveAlias(x) \/ DeleteAlias(x)
                        \/ \E y \in Forms(Entries) : ChangeAlias(x, y)
  \/ Reprocess \/ Stop \/ Seed \/ ReplayDies

Spec == Init /\ [][Next]_vars

-----------------------------------------------------------------------------
\* Once the seed has accepted the aliases, a product leads to one activity,
\* whatever order the database returns equal aliases in: the drift check leaves
\* no two approved aliases of one spelling that disagree, and the match never
\* compares across spellings (match_product_alias, assert_catalog_drift).
SeededIsDeterminate ==
  seeded => \A e \in Emails : \A a, b \in Answers(aliases, Parsed[e].product) : a = b

\* After a replay a booking has the activity of the latest of its emails that any
\* alias matches, whatever it was mapped to before and whatever arrived or was
\* reprocessed meanwhile, as long as no alias changed and nobody processed its
\* emails out of order (replay_raw_emails, match_product_alias).
Merged(b) == (merged \cap Of(b)) \ todo
Matched(b) == {e \in Merged(b) : Candidates(aliases, Parsed[e].product) # {}}
LatestMatchRules ==
  \A b \in clean : \A e \in Matched(b) :
    (\A d \in Matched(b) : d <= e) => row[b].activity \in Answers(aliases, Parsed[e].product)

\* Mapping an unmatched product in the inbox takes effect: the reprocessed email
\* gives its booking the activity the operator chose and closes the booking's
\* items, unless an alias changed in between or the form showed another product
\* than the email's (provider_aliases, match_product_alias).
MapTakesHold ==
  [][(Commit("op") /\ op.hold) =>
       /\ row'[BookingOf(op.email)].activity = op.activity
       /\ items' \cap Of(BookingOf(op.email)) = {}]_vars

=============================================================================
