----------------------- MODULE CapacityControl_proofs -----------------------
(***************************************************************************)
(* Proofs about CapacityControl, for any processes, bookings, counts,      *)
(* capacities and exceptions.  The argument: as long as nothing overtook a *)
(* transaction, what it has read of the seats, statement by statement, is  *)
(* no better than what those statements would return now, because a commit *)
(* that makes them worse either waits for its locks or overtakes it.  When *)
(* it has read them all and saw room, there is room.                       *)
(***************************************************************************)
EXTENDS CapacityControl, FiniteSetTheorems, WellFoundedInduction, TLAPS

USE CapacityAssumption

-----------------------------------------------------------------------------
(* Counting.                                                               *)

\* A bounded set of integers has a largest element.
LEMMA LargestExists ==
  ASSUME NEW S \in SUBSET Int, S # {}, NEW c \in Int, \A s \in S : s <= c
  PROVE  \E n \in S : \A k \in S : k <= n
<1>. DEFINE T == {n \in Nat : \E s \in S : n = c - s}
<1>1. T # {}
  <2>1. PICK s \in S : TRUE
    OBVIOUS
  <2>2. s \in Int /\ s <= c
    BY <2>1
  <2>3. c - s \in Nat
    BY <2>2
  <2>. QED BY <2>1, <2>3
<1>2. PICK x \in T : \A y \in T : ~ (<<y, x>> \in OpToRel(<, Nat))
  <2>1. T \subseteq Nat
    OBVIOUS
  <2>. HIDE DEF T
  <2>. QED BY <1>1, <2>1, NatLessThanWellFounded, WFMin
<1>3. \A y \in T : x <= y
  <2>. SUFFICES ASSUME NEW y \in T, y < x PROVE FALSE
    OBVIOUS
  <2>1. <<y, x>> \in OpToRel(<, Nat)
    BY DEF OpToRel
  <2>. QED BY <1>2, <2>1
<1>4. PICK n \in S : x = c - n
  OBVIOUS
<1>5. ASSUME NEW k \in S PROVE k <= n
  <2>1. k \in Int /\ k <= c /\ n \in Int
    OBVIOUS
  <2>2. c - k \in T
    BY <2>1
  <2>3. c - n <= c - k
    BY <1>3, <1>4, <2>2
  <2>. QED BY <2>1, <2>3
<1>. QED BY <1>5


\* What the exceptions block is a number, at most the seats where they block a
\* slot, and it leaves no more of fewer seats.
LEMMA BlockedMax ==
  ASSUME NEW c \in Nat, NEW xs \in SUBSET Exceptions,
         ~ \E x \in xs : x.exception_type = "blocked"
  PROVE  /\ BlockedPax(c, xs) \in Int /\ 0 <= BlockedPax(c, xs)
         /\ \A x \in xs : c - x.capacity <= BlockedPax(c, xs)
         /\ \/ BlockedPax(c, xs) = 0
            \/ \E x \in xs : BlockedPax(c, xs) = c - x.capacity
<1>. DEFINE blocks == {0} \cup {c - x.capacity : x \in xs}
<1>1. \A x \in xs : x.capacity \in Nat
  OBVIOUS
<1>2. blocks \in SUBSET Int /\ blocks # {} /\ c \in Int /\ \A s \in blocks : s <= c
  BY <1>1
<1>3. BlockedPax(c, xs) = CHOOSE n \in blocks : \A k \in blocks : k <= n
  BY DEF BlockedPax
<1>. HIDE DEF blocks
<1>4. \E n \in blocks : \A k \in blocks : k <= n
  BY <1>2, LargestExists, Zenon
<1>5. BlockedPax(c, xs) \in blocks /\ \A k \in blocks : k <= BlockedPax(c, xs)
  BY <1>3, <1>4
<1>. QED BY <1>2, <1>5 DEF blocks

LEMMA BlockedType ==
  ASSUME NEW c \in Nat, NEW xs \in SUBSET Exceptions
  PROVE  BlockedPax(c, xs) \in Int
<1>1. CASE \E x \in xs : x.exception_type = "blocked"
  BY <1>1 DEF BlockedPax
<1>2. CASE ~ \E x \in xs : x.exception_type = "blocked"
  BY <1>2, BlockedMax
<1>. QED BY <1>1, <1>2

LEMMA FewerSeats ==
  ASSUME NEW c \in Nat, NEW d \in Nat, c <= d, NEW xs \in SUBSET Exceptions
  PROVE  c - BlockedPax(c, xs) <= d - BlockedPax(d, xs)
<1>1. CASE \E x \in xs : x.exception_type = "blocked"
  BY <1>1 DEF BlockedPax
<1>2. CASE ~ \E x \in xs : x.exception_type = "blocked"
  <2>. PICK m, n : m = BlockedPax(c, xs) /\ n = BlockedPax(d, xs)
    OBVIOUS
  <2>1. /\ m \in Int /\ n \in Int /\ 0 <= m
        /\ \A x \in xs : c - x.capacity <= m
        /\ n = 0 \/ \E x \in xs : n = d - x.capacity
    BY <1>2, BlockedMax
  <2>2. CASE n = 0
    BY <2>1, <2>2
  <2>3. CASE \E x \in xs : n = d - x.capacity
    <3>1. PICK x \in xs : n = d - x.capacity
      BY <2>3
    <3>2. x.capacity \in Nat /\ c - x.capacity <= m
      BY <2>1
    <3>. QED BY <2>1, <3>1, <3>2
  <2>. QED BY <2>1, <2>2, <2>3
<1>. QED BY <1>1, <1>2

\* The people of the bookings S, as many as f says of each.
Crowd(f, S) == UNION {{b} \X (1..f[b]) : b \in S}

LEMMA CrowdFinite ==
  ASSUME NEW f \in [Bookings -> Nat], NEW S \in SUBSET Bookings
  PROVE  IsFiniteSet(Crowd(f, S))
<1>. DEFINE group == [b \in S |-> {b} \X (1..f[b])]
            groups == {{b} \X (1..f[b]) : b \in S}
<1>1. group \in Surjection(S, groups)
  BY DEF Surjection
<1>2. IsFiniteSet(S)
  BY FS_Subset
<1>3. IsFiniteSet(groups)
  BY <1>1, <1>2, FS_Surjection
<1>4. ASSUME NEW T \in groups PROVE IsFiniteSet(T)
  <2>1. PICK b \in S : T = {b} \X (1..f[b])
    OBVIOUS
  <2>2. IsFiniteSet({b}) /\ IsFiniteSet(1..f[b])
    <3>1. f[b] \in Int /\ 1 \in Int
      OBVIOUS
    <3>. QED BY <3>1, FS_Singleton, FS_Interval
  <2>. QED BY <2>1, <2>2, FS_Product
<1>5. IsFiniteSet(UNION groups)
  BY <1>3, <1>4, FS_UNION
<1>. QED BY <1>5 DEF Crowd

\* One booking's people and the others are the whole crowd.
LEMMA CrowdSplit ==
  ASSUME NEW f \in [Bookings -> Nat], NEW b \in Bookings
  PROVE  /\ Cardinality(Crowd(f, Bookings)) \in Nat
         /\ Cardinality(Crowd(f, Bookings \ {b})) \in Nat
         /\ Cardinality(Crowd(f, Bookings)) = Cardinality(Crowd(f, Bookings \ {b})) + f[b]
<1>. DEFINE own == {b} \X (1..f[b])
            others == Crowd(f, Bookings \ {b})
<1>1. Crowd(f, Bookings) = others \cup own
  BY DEF Crowd
<1>2. others \cap own = {}
  <2>. SUFFICES ASSUME NEW x \in others, x \in own PROVE FALSE
    OBVIOUS
  <2>1. PICK c \in Bookings \ {b} : x \in {c} \X (1..f[c])
    BY DEF Crowd
  <2>. QED BY <2>1
<1>3. IsFiniteSet(others) /\ IsFiniteSet(Crowd(f, Bookings))
  BY CrowdFinite
<1>4. IsFiniteSet(own) /\ Cardinality(own) = f[b]
  <2>1. f[b] \in Nat
    OBVIOUS
  <2>2. IsFiniteSet({b}) /\ Cardinality({b}) = 1
    BY FS_Singleton
  <2>3. IsFiniteSet(1..f[b]) /\ Cardinality(1..f[b]) = f[b]
    BY <2>1, FS_Interval
  <2>4. Cardinality(own) = 1 * f[b] /\ IsFiniteSet(own)
    BY <2>2, <2>3, FS_Product
  <2>. QED BY <2>1, <2>4
<1>. HIDE DEF own, others
<1>5. Cardinality(others) \in Nat /\ Cardinality(Crowd(f, Bookings)) \in Nat
  BY <1>3, FS_CardinalityType
<1>6. Cardinality(others \cup own) =
        Cardinality(others) + Cardinality(own) - Cardinality(others \cap own)
  BY <1>3, <1>4, FS_Union
<1>7. Cardinality(others \cap own) = 0
  BY <1>2, FS_EmptySet
<1>. QED BY <1>1, <1>4, <1>5, <1>6, <1>7 DEF others

LEMMA PaxIsCount == \A p \in Pax : p \in Int /\ p \in Nat
OBVIOUS

\* The bookings and reviews of a state, well typed.
Book(rows, opens, closes) ==
  /\ rows \in [Bookings -> Rows]
  /\ opens \in [Bookings -> SUBSET Issues] /\ closes \in [Bookings -> SUBSET Issues]

LEMMA PaxType ==
  ASSUME NEW rows, NEW opens, NEW closes, Book(rows, opens, closes), NEW b \in Bookings, NEW S
  PROVE  PaxOf(b, S, rows, opens, closes) \in Nat
<1>1. rows[b].pax \in Nat
  BY DEF Book, Rows
<1>. QED BY <1>1 DEF PaxOf

LEMMA TakenType ==
  ASSUME NEW rows, NEW opens, NEW closes, Book(rows, opens, closes), NEW S
  PROVE  /\ Taken(S, rows, opens, closes) \in Nat
         /\ IsFiniteSet(Travelers(S, rows, opens, closes))
<1>. DEFINE f == [d \in Bookings |-> PaxOf(d, S, rows, opens, closes)]
<1>1. f \in [Bookings -> Nat]
  BY PaxType
<1>2. Travelers(S, rows, opens, closes) = Crowd(f, Bookings)
  BY DEF Travelers, Crowd
<1>. HIDE DEF f
<1>. QED BY <1>1, <1>2, CrowdFinite, FS_CardinalityType DEF Taken

\* Before the first sum nobody is counted, and each sum counts others.
LEMMA TakenNone ==
  ASSUME NEW rows, NEW opens, NEW closes
  PROVE  Taken({}, rows, opens, closes) = 0
<1>1. \A b \in Bookings : PaxOf(b, {}, rows, opens, closes) = 0
  BY DEF PaxOf
<1>2. Travelers({}, rows, opens, closes) = {}
  <2>. SUFFICES ASSUME NEW x \in Travelers({}, rows, opens, closes) PROVE FALSE
    OBVIOUS
  <2>1. PICK b \in Bookings : x \in {b} \X (1..PaxOf(b, {}, rows, opens, closes))
    BY DEF Travelers
  <2>2. x \in {b} \X (1..0)
    BY <1>1, <2>1
  <2>. QED BY <2>2
<1>. QED BY <1>2, FS_EmptySet DEF Taken

LEMMA TakenMore ==
  ASSUME NEW rows, NEW opens, NEW closes, Book(rows, opens, closes), NEW S, NEW c, c \notin S
  PROVE  Taken(S \cup {c}, rows, opens, closes)
           = Taken(S, rows, opens, closes) + Taken({c}, rows, opens, closes)
<1>. DEFINE T(Q) == Travelers(Q, rows, opens, closes)
            pax(b, Q) == PaxOf(b, Q, rows, opens, closes)
<1>1. ASSUME NEW b \in Bookings
      PROVE  /\ pax(b, S \cup {c}) \in {pax(b, S), pax(b, {c})}
             /\ pax(b, S) # 0 => pax(b, {c}) = 0 /\ pax(b, S \cup {c}) = pax(b, S)
             /\ pax(b, S) = 0 => pax(b, S \cup {c}) = pax(b, {c})
  BY DEF PaxOf
<1>2. \A b \in Bookings : pax(b, S) \in Nat /\ pax(b, {c}) \in Nat /\ pax(b, S \cup {c}) \in Nat
  BY PaxType
<1>3. \A Q, x : x \in T(Q) <=> \E b \in Bookings : x \in {b} \X (1..pax(b, Q))
  BY DEF Travelers
<1>4. IsFiniteSet(T(S)) /\ IsFiniteSet(T({c}))
  BY TakenType
<1>. HIDE DEF pax, T
<1>5. ASSUME NEW b \in Bookings
      PROVE  {b} \X (1..pax(b, S \cup {c})) = ({b} \X (1..pax(b, S))) \cup ({b} \X (1..pax(b, {c})))
  <2>1. CASE pax(b, S) = 0
    <3>1. {b} \X (1..pax(b, S)) = {}
      BY <2>1
    <3>. QED BY <1>1, <2>1, <3>1
  <2>2. CASE pax(b, S) # 0
    <3>1. {b} \X (1..pax(b, {c})) = {}
      BY <1>1, <2>2
    <3>. QED BY <1>1, <2>2, <3>1
  <2>. QED BY <2>1, <2>2
<1>6. T(S \cup {c}) = T(S) \cup T({c})
  <2>1. ASSUME NEW x PROVE x \in T(S \cup {c}) <=> x \in T(S) \/ x \in T({c})
    <3>1. \A b \in Bookings : x \in {b} \X (1..pax(b, S \cup {c}))
            <=> x \in {b} \X (1..pax(b, S)) \/ x \in {b} \X (1..pax(b, {c}))
      BY <1>5
    <3>. QED BY <1>3, <3>1, Zenon
  <2>. QED BY <2>1
<1>7. T(S) \cap T({c}) = {}
  <2>. SUFFICES ASSUME NEW x \in T(S), x \in T({c}) PROVE FALSE
    OBVIOUS
  <2>1. PICK b \in Bookings : x \in {b} \X (1..pax(b, S))
    BY <1>3
  <2>2. PICK d \in Bookings : x \in {d} \X (1..pax(d, {c}))
    BY <1>3
  <2>3. b = d
    BY <2>1, <2>2
  <2>. QED BY <1>1, <1>2, <2>1, <2>2, <2>3
<1>8. Cardinality(T(S)) \in Nat /\ Cardinality(T({c})) \in Nat
  BY <1>4, FS_CardinalityType
<1>9. Cardinality(T(S) \cup T({c}))
        = Cardinality(T(S)) + Cardinality(T({c})) - Cardinality(T(S) \cap T({c}))
  BY <1>4, FS_Union
<1>10. Cardinality(T(S) \cap T({c})) = 0
  BY <1>7, FS_EmptySet
<1>11. Cardinality(T(S \cup {c})) = Cardinality(T(S)) + Cardinality(T({c}))
  <2>1. Cardinality(T(S \cup {c})) = Cardinality(T(S) \cup T({c}))
    BY <1>6, Zenon
  <2>. PICK k, m, n : k = Cardinality(T(S)) /\ m = Cardinality(T({c}))
                      /\ n = Cardinality(T(S) \cap T({c}))
    OBVIOUS
  <2>. QED BY <1>8, <1>9, <1>10, <2>1
<1>. QED BY <1>11 DEF Taken, T

AgreeBut(b, rows, opens, closes, rows2, opens2, closes2) ==
  \A d \in Bookings \ {b} :
    rows2[d] = rows[d] /\ opens2[d] = opens[d] /\ closes2[d] = closes[d]

\* Where only one booking differs, only its seats do.
LEMMA Exchange ==
  ASSUME NEW b \in Bookings, NEW S,
         NEW rows, NEW opens, NEW closes, Book(rows, opens, closes),
         NEW rows2, NEW opens2, NEW closes2, Book(rows2, opens2, closes2),
         AgreeBut(b, rows, opens, closes, rows2, opens2, closes2)
  PROVE  Taken(S, rows2, opens2, closes2) + PaxOf(b, S, rows, opens, closes)
           = Taken(S, rows, opens, closes) + PaxOf(b, S, rows2, opens2, closes2)
<1>. DEFINE f == [d \in Bookings |-> PaxOf(d, S, rows, opens, closes)]
            g == [d \in Bookings |-> PaxOf(d, S, rows2, opens2, closes2)]
<1>1. f \in [Bookings -> Nat] /\ g \in [Bookings -> Nat]
  BY PaxType
<1>2. Taken(S, rows, opens, closes) = Cardinality(Crowd(f, Bookings))
  BY DEF Taken, Travelers, Crowd
<1>3. Taken(S, rows2, opens2, closes2) = Cardinality(Crowd(g, Bookings))
  BY DEF Taken, Travelers, Crowd
<1>4. \A d \in Bookings \ {b} : f[d] = g[d]
  BY DEF PaxOf, AgreeBut
<1>5. f[b] = PaxOf(b, S, rows, opens, closes) /\ g[b] = PaxOf(b, S, rows2, opens2, closes2)
  OBVIOUS
<1>. HIDE DEF f, g
<1>6. Crowd(f, Bookings \ {b}) = Crowd(g, Bookings \ {b})
  BY <1>4 DEF Crowd
<1>. DEFINE n == Cardinality(Crowd(f, Bookings \ {b}))
<1>7. n \in Nat /\ Cardinality(Crowd(f, Bookings)) = n + f[b]
  BY <1>1, CrowdSplit
<1>8. Cardinality(Crowd(g, Bookings)) = n + g[b]
  BY <1>1, <1>6, CrowdSplit
<1>9. f[b] \in Nat /\ g[b] \in Nat
  BY <1>1
<1>. HIDE DEF n
<1>. QED BY <1>2, <1>3, <1>5, <1>7, <1>8, <1>9

-----------------------------------------------------------------------------
(* The inductive invariant.                                                *)

Intact(p) == Running(p) /\ p \notin overtaken

\* What a transaction under way has read of the seats, unless it was overtaken,
\* is no better than what it would read now.
SnapshotOK(p) ==
  Intact(p) /\ snapshot[p].next # "done" =>
    /\ snapshot[p].seats <= SeatsRead(p)
    /\ PaxRead(p) <= snapshot[p].active_pax

\* A desk under way holds the locks and has a row to make; if it found room for
\* its travelers there is room.
DeskOK(u) ==
  Running(u) =>
    /\ lock = u /\ NewBookings # {} /\ snapshot[u].next # "slot"
    /\ snapshot[u].next = "done" =>
         /\ job[u].allow \/ ~job[u].over
         /\ Intact(u) /\ ~job[u].over => job[u].pax <= LeftFor(u)

\* An email under way has its booking for itself; if it computed the warning
\* and saw no reason to warn, its row fits.
MailerOK(m) ==
  Running(m) =>
    /\ job[m].row.status # "absent"
    /\ \A n \in Mailers : Running(n) /\ job[n].booking = job[m].booking => n = m
    /\ snapshot[m].next # "done" => job[m].unseen = Hidden(job[m].open, job[m].closed)
    /\ ( /\ snapshot[m].next = "done" /\ Intact(m) /\ ~job[m].unseen
         /\ job[m].row.placed /\ job[m].row.dated
         /\ "capacity_overbooked" \notin job[m].open ) => 0 <= LeftFor(m)

SeatsInv ==
  /\ \A p \in Processes : SnapshotOK(p)
  /\ \A u \in Desks : DeskOK(u)
  /\ \A m \in Mailers : MailerOK(m)
CapacityInv == TypeOK /\ SeatsInv

LEMMA JobShape ==
  ASSUME TypeOK
  PROVE  /\ Idle \notin DeskJobs /\ Idle \notin MailJobs
         /\ \A u \in Desks : Running(u) => job[u] \in DeskJobs
         /\ \A m \in Mailers : Running(m) => job[m] \in MailJobs
         /\ \A m \in Mailers, b \in MailBookings : job[m].booking = b => Running(m)
<1>1. Idle \notin DeskJobs
  BY DEF Idle, DeskJobs
<1>2. Idle \notin MailJobs
  BY DEF Idle, MailJobs
<1>3. \A m \in Mailers, b \in MailBookings : job[m].booking = b => Running(m)
  BY DEF Running, Idle, Bookings
<1>. QED BY <1>1, <1>2, <1>3 DEF TypeOK, Running

\* Only transactions under way have read anything.
LEMMA ReadersRun ==
  ASSUME TypeOK
  PROVE  \A p \in Processes :
           /\ snapshot[p] \in Snapshots
           /\ snapshot[p].next # "done" => Running(p) /\ snapshot[p].next \in DOMAIN Following
           /\ snapshot[p].next = "done" => snapshot[p] = Unread
<1>1. "done" \notin DOMAIN Following
  BY DEF Following
<1>2. ASSUME NEW s \in Snapshots
      PROVE  IF s.next = "done" THEN s = Unread ELSE s.next \in DOMAIN Following
  <2>1. Unread.next = "done"
    BY DEF Unread
  <2>. HIDE DEF Unread
  <2>. QED BY <1>1, <2>1 DEF Snapshots
<1>. QED BY <1>2 DEF TypeOK, Unread

LEMMA NoRowType == NoRow \in Rows
<1>1. (CHOOSE p \in Pax : TRUE) \in Pax
  OBVIOUS
<1>. QED BY <1>1 DEF NoRow, Rows

LEMMA UnreadType == Unread \in Snapshots
BY DEF Unread, Snapshots

LEMMA ReadFromType ==
  ASSUME NEW n \in DOMAIN Following, NEW c \in Nat
  PROVE  ReadFrom(n, c) \in Snapshots
BY DEF ReadFrom, Snapshots, Following

LEMMA FollowingType ==
  /\ Following["slot"] = "confirmed"
  /\ DOMAIN Following = {"slot", "confirmed", "pending", "manual_review", "exceptions"}
  /\ \A n \in Active : n \in DOMAIN Following /\ Following[n] \in DOMAIN Following
                       /\ Following[n] # "slot" /\ n # "done" /\ Following[n] # "done"
BY DEF Following, Active

LEMMA CapacityInit == Init => CapacityInv
<1>. SUFFICES ASSUME Init PROVE CapacityInv
  OBVIOUS
<1>1. TypeOK
  <2>1. row \in [Bookings -> Rows]
    BY NoRowType DEF Init
  <2>2. \A p \in Processes : job[p] = Idle
    BY DEF Init
  <2>. QED BY <2>1, <2>2, UnreadType DEF Init, TypeOK, Processes
<1>2. SeatsInv
  BY DEF Init, SeatsInv, SnapshotOK, DeskOK, MailerOK, Intact, Running, Processes
<1>. QED BY <1>1, <1>2 DEF CapacityInv

-----------------------------------------------------------------------------
(* Types.                                                                  *)

\* What a step leaves alone keeps its type.
TypeRest ==
  /\ Book(row, open, closed)
  /\ \A b \in Bookings : row[b].status = "absent" => open[b] \cup closed[b] = {}
TypeSettings == approved \in BOOLEAN /\ capacity \in Seats /\ exceptions \in SUBSET Exceptions
TypeJobs ==
  /\ job \in [Processes -> {Idle} \cup DeskJobs \cup MailJobs]
  /\ \A u \in Desks : job[u] \in {Idle} \cup DeskJobs
  /\ \A m \in Mailers : job[m] \in {Idle} \cup MailJobs
  /\ snapshot \in [Processes -> Snapshots]
  /\ \A p \in Processes : ~Running(p) => snapshot[p] = Unread
  /\ lock = NoOne \/ (lock \in Desks /\ Running(lock))
  /\ overtaken \subseteq {p \in Processes : Running(p)}

LEMMA TypeParts == TypeOK <=> TypeRest /\ TypeSettings /\ TypeJobs /\ writes \in 0..MaxWrites
BY DEF TypeOK, TypeRest, TypeSettings, TypeJobs, Book

LEMMA TypePartsNext ==
  TypeRest' /\ TypeSettings' /\ TypeJobs' /\ writes' \in 0..MaxWrites => TypeOK'
BY DEF TypeOK, TypeRest, TypeSettings, TypeJobs, Book

LEMMA WriteType ==
  ASSUME TypeOK, Write \/ writes' = writes
  PROVE  writes' \in 0..MaxWrites
BY DEF TypeOK, Write, MayWrite

\* A transaction ends: what is taken away is its own.
LEMMA EndType ==
  ASSUME TypeOK, NEW p \in Processes, Begin(p, Idle),
         Look(p, Unread) \/ (snapshot' = snapshot /\ snapshot[p] = Unread),
         lock' = NoOne \/ (lock' = lock /\ lock # p),
         NEW S \in SUBSET Processes, \A q \in S : q # p /\ Running(q),
         overtaken' = (overtaken \ {p}) \cup S
  PROVE  TypeJobs'
<1>1. job' = [job EXCEPT ![p] = Idle]
  BY DEF Begin
<1>2. \A q \in Processes : job'[q] = IF q = p THEN Idle ELSE job[q]
  BY <1>1 DEF TypeOK
<1>3. \A q \in Processes : q # p /\ Running(q) => Running(q)'
  BY <1>2 DEF Running
<1>4. \A u \in Desks : job'[u] \in {Idle} \cup DeskJobs
  BY <1>2 DEF TypeOK, Processes
<1>5. \A m \in Mailers : job'[m] \in {Idle} \cup MailJobs
  BY <1>2 DEF TypeOK, Processes
<1>6. job' \in [Processes -> {Idle} \cup DeskJobs \cup MailJobs]
  BY <1>1 DEF TypeOK
<1>7. lock' = NoOne \/ (lock' \in Desks /\ Running(lock)')
  BY <1>3 DEF TypeOK, Processes, Running
<1>8. overtaken' \subseteq {q \in Processes : Running(q)'}
  BY <1>3 DEF TypeOK
<1>9. snapshot' \in [Processes -> Snapshots] /\ snapshot'[p] = Unread
      /\ \A q \in Processes \ {p} : snapshot'[q] = snapshot[q]
  BY UnreadType DEF TypeOK, Look
<1>10. \A q \in Processes : ~Running(q)' => snapshot'[q] = Unread
  BY <1>3, <1>9 DEF TypeOK
<1>. QED BY <1>4, <1>5, <1>6, <1>7, <1>8, <1>9, <1>10 DEF TypeJobs

\* A transaction begins or goes on.
LEMMA BeginType ==
  ASSUME TypeOK, NEW p \in Processes, NEW j, Begin(p, j), j # Idle,
         p \in Desks => j \in DeskJobs, p \in Mailers => j \in MailJobs,
         NEW s \in Snapshots, Look(p, s),
         lock' = lock \/ (lock' = p /\ p \in Desks), overtaken' = overtaken
  PROVE  TypeJobs'
<1>1. job' = [job EXCEPT ![p] = j]
  BY DEF Begin
<1>2. \A q \in Processes : job'[q] = IF q = p THEN j ELSE job[q]
  BY <1>1 DEF TypeOK
<1>3. \A q \in Processes : q = p \/ Running(q) => Running(q)'
  BY <1>2 DEF Running
<1>4. \A u \in Desks : job'[u] \in {Idle} \cup DeskJobs
  BY <1>2 DEF TypeOK, Processes
<1>5. \A m \in Mailers : job'[m] \in {Idle} \cup MailJobs
  BY <1>2 DEF TypeOK, Processes
<1>6. job' \in [Processes -> {Idle} \cup DeskJobs \cup MailJobs]
  BY <1>1 DEF TypeOK, Processes
<1>7. lock' = NoOne \/ (lock' \in Desks /\ Running(lock)')
  BY <1>3 DEF TypeOK, Processes, Running
<1>8. overtaken' \subseteq {q \in Processes : Running(q)'}
  BY <1>3 DEF TypeOK
<1>9. snapshot' \in [Processes -> Snapshots]
      /\ \A q \in Processes \ {p} : snapshot'[q] = snapshot[q]
  BY DEF TypeOK, Look
<1>10. \A q \in Processes : ~Running(q)' => snapshot'[q] = Unread
  BY <1>3, <1>9 DEF TypeOK
<1>. QED BY <1>4, <1>5, <1>6, <1>7, <1>8, <1>9, <1>10 DEF TypeJobs

\* Nobody begins or ends.
LEMMA SameJobsType ==
  ASSUME TypeOK, UNCHANGED <<job, lock, snapshot>>, NEW p,
         overtaken' = overtaken \/ \E ps \in SUBSET Processes : Overtakes(p, ps)
  PROVE  TypeJobs'
<1>1. \A q : Running(q)' = Running(q)
  BY DEF Running
<1>2. overtaken' \subseteq {q \in Processes : Running(q)'}
  BY <1>1 DEF TypeOK, Overtakes
<1>. QED BY <1>1, <1>2 DEF TypeOK, TypeJobs

\* A transaction reads on.
LEMMA ReadType ==
  ASSUME TypeOK, NEW p \in Processes, Running(p), NEW s \in Snapshots, Look(p, s),
         UNCHANGED <<job, lock, overtaken>>
  PROVE  TypeJobs'
<1>1. \A q : Running(q)' = Running(q)
  BY DEF Running
<1>2. snapshot' \in [Processes -> Snapshots]
      /\ \A q \in Processes \ {p} : snapshot'[q] = snapshot[q]
  BY DEF TypeOK, Look
<1>. QED BY <1>1, <1>2 DEF TypeOK, TypeJobs

\* Whom a commit overtakes.
Late(p, ps) == {q \in ps \ {p} : Running(q) /\ Worsens(q)}

\* The bookings p sees are a book, and what it counts of them is a number.
LEMMA SeenType ==
  ASSUME NEW rows, NEW opens, NEW closes, Book(rows, opens, closes), NEW j \in MailJobs
  PROVE  Book([rows EXCEPT ![j.booking] = j.row], [opens EXCEPT ![j.booking] = j.open],
              [closes EXCEPT ![j.booking] = j.closed])
BY DEF Book, MailJobs

LEMMA SeatsTakenType ==
  ASSUME TypeOK, NEW p \in Processes, Running(p), NEW S
  PROVE  SeatsTaken(p, S) \in Nat
<1>1. Book(row, open, closed)
  BY DEF TypeOK, Book
<1>2. CASE p \in Mailers
  <2>. PICK j : j = job[p]
    OBVIOUS
  <2>1. j \in MailJobs
    BY <1>2, JobShape
  <2>2. Taken(S, [row EXCEPT ![j.booking] = j.row], [open EXCEPT ![j.booking] = j.open],
              [closed EXCEPT ![j.booking] = j.closed]) \in Nat
    BY <1>1, <2>1, SeenType, TakenType
  <2>. QED BY <1>2, <2>2 DEF SeatsTaken
<1>3. CASE p \notin Mailers
  BY <1>1, <1>3, TakenType DEF SeatsTaken
<1>. QED BY <1>2, <1>3

LEMMA SettledType ==
  ASSUME NEW j \in MailJobs, NEW warned \in SUBSET {"capacity_overbooked"}
  PROVE  /\ Settled(j, warned) \in MailJobs
         /\ Settled(j, warned).booking = j.booking /\ Settled(j, warned).row = j.row
         /\ Settled(j, warned).unseen = j.unseen
         /\ Settled(j, warned).open = (j.open \cup warned) \ Obsolete(j.row)
         /\ Settled(j, warned).closed = j.closed \cup (j.open \cap Obsolete(j.row))
<1>1. /\ (j.open \cup warned) \ Obsolete(j.row) \in SUBSET Issues
      /\ j.closed \cup (j.open \cap Obsolete(j.row)) \in SUBSET Issues
  BY DEF MailJobs, Issues
<1>. QED BY <1>1 DEF Settled, MailJobs

\* An email's transaction is well typed, does not unmake its booking, and has
\* not settled its reviews before it computed the warning.
LEMMA MailMergeType ==
  ASSUME TypeOK, NEW m \in Mailers, NEW b \in MailBookings, NEW r \in Rows,
         NEW confirm \in BOOLEAN, MailMerge(m, b, r, confirm)
  PROVE  \E j \in MailJobs, s \in Snapshots :
           /\ Begin(m, j) /\ Look(m, s)
           /\ j.booking = b /\ j.row = r /\ r.status # "absent"
           /\ \/ /\ r.placed /\ r.dated /\ s = ReadFrom("slot", 0)
                 /\ j.unseen = Hidden(j.open, j.closed)
              \/ ~(r.placed /\ r.dated) /\ s = Unread
<1>. PICK opens, warns, j :
       /\ opens = Opened(b, r, confirm)
       /\ warns = (r.placed /\ r.dated)
       /\ j = [booking |-> b, row |-> r, open |-> opens, closed |-> closed[b],
               unseen |-> Hidden(opens, closed[b])]
  OBVIOUS
<1>1. b \in Bookings /\ open[b] \in SUBSET Issues /\ closed[b] \in SUBSET Issues
  BY DEF Bookings, TypeOK
<1>2. opens \in SUBSET Issues
  BY <1>1 DEF Opened, Issues, UnmappedIssues
<1>3. j \in MailJobs
  BY <1>1, <1>2 DEF MailJobs, Hidden
<1>4. /\ r.status # "absent"
      /\ Begin(m, IF warns THEN j ELSE Settled(j, {}))
      /\ Look(m, IF warns THEN ReadFrom("slot", 0) ELSE Unread)
  BY DEF MailMerge, Merges
<1>5. j.booking = b /\ j.row = r /\ j.unseen = Hidden(j.open, j.closed)
  OBVIOUS
<1>6. CASE warns
  <2>1. ReadFrom("slot", 0) \in Snapshots
    BY ReadFromType, FollowingType
  <2>. QED BY <1>3, <1>4, <1>5, <1>6, <2>1
<1>7. CASE ~warns
  <2>1. Settled(j, {}) \in MailJobs /\ Settled(j, {}).booking = b /\ Settled(j, {}).row = r
    BY <1>3, <1>5, SettledType
  <2>. QED BY <1>4, <1>7, <2>1, UnreadType
<1>. QED BY <1>6, <1>7

LEMMA TypeStep ==
  ASSUME CapacityInv, [Next]_vars
  PROVE  TypeOK'
<1>0. TypeOK /\ TypeRest /\ TypeSettings /\ TypeJobs
  BY TypeParts DEF CapacityInv
<1>1. ASSUME NEW u \in Desks, NEW p \in Pax, NEW allow \in BOOLEAN, DeskLock(u, p, allow)
      PROVE  TypeOK'
  <2>. PICK j : j = [pax |-> p, allow |-> allow, over |-> FALSE]
    OBVIOUS
  <2>1. j \in DeskJobs /\ j # Idle
    <3>1. j \in DeskJobs
      BY DEF DeskJobs
    <3>. QED BY <1>0, <3>1, JobShape
  <2>2. ReadFrom("confirmed", capacity) \in Snapshots
    BY <1>0, ReadFromType, FollowingType DEF TypeSettings
  <2>3. TypeJobs'
    <3>1. u \in Processes /\ u \notin Mailers
      BY DEF Processes
    <3>. QED BY <1>0, <1>1, <2>1, <2>2, <3>1, BeginType DEF DeskLock
  <2>4. TypeRest' /\ TypeSettings' /\ writes' = writes
    BY <1>0, <1>1 DEF DeskLock, bookingVars, settingVars, TypeRest, TypeSettings, Book
  <2>. QED BY <1>0, <2>3, <2>4, WriteType, TypePartsNext
<1>2. ASSUME NEW u \in Desks, DeskDecide(u) PROVE TypeOK'
  <2>1. Running(u) /\ job[u] \in DeskJobs
    BY <1>0, <1>2, ReadersRun, JobShape DEF DeskDecide, Processes
  <2>2. PICK over \in BOOLEAN : Begin(u, [job[u] EXCEPT !.over = over])
    <3>1. (RemainingRead(u) - job[u].pax < 0) \in BOOLEAN
      OBVIOUS
    <3>2. Begin(u, [job[u] EXCEPT !.over = RemainingRead(u) - job[u].pax < 0])
      BY <1>2 DEF DeskDecide
    <3>. QED BY <3>1, <3>2, Zenon
  <2>3. [job[u] EXCEPT !.over = over] \in DeskJobs
    BY <2>1 DEF DeskJobs
  <2>4. TypeJobs'
    <3>. PICK j : j = [job[u] EXCEPT !.over = over]
      OBVIOUS
    <3>1. u \in Processes /\ u \notin Mailers /\ j # Idle
      BY <1>0, <2>3, JobShape DEF Processes
    <3>. QED BY <1>0, <1>2, <2>2, <2>3, <3>1, UnreadType, BeginType DEF DeskDecide
  <2>5. TypeRest' /\ TypeSettings' /\ writes' = writes
    BY <1>0, <1>2 DEF DeskDecide, bookingVars, settingVars, TypeRest, TypeSettings, Book
  <2>. QED BY <1>0, <2>4, <2>5, WriteType, TypePartsNext
<1>3. ASSUME NEW u \in Desks, DeskCommit(u) PROVE TypeOK'
  <2>. DEFINE booking == CHOOSE b \in NewBookings : TRUE
  <2>1. NewBookings # {} /\ job[u] \in DeskJobs
    BY <1>0, <1>3, JobShape DEF DeskCommit, CapacityInv, SeatsInv, DeskOK
  <2>2. booking \in Bookings
    BY <2>1 DEF NewBookings, Bookings
  <2>3. [status |-> "confirmed", pax |-> job[u].pax, mapped |-> TRUE, placed |-> TRUE,
         dated |-> TRUE, noShow |-> FALSE] \in Rows
    BY <2>1 DEF Rows, DeskJobs, Active
  <2>. PICK r, i : /\ r = [status |-> "confirmed", pax |-> job[u].pax, mapped |-> TRUE,
                           placed |-> TRUE, dated |-> TRUE, noShow |-> FALSE]
                   /\ i = IF job[u].over THEN {"capacity_overbooked"} ELSE {}
    OBVIOUS
  <2>4. row' = [row EXCEPT ![booking] = r] /\ open' = [open EXCEPT ![booking] = i] /\ closed' = closed
    BY <1>3 DEF DeskCommit
  <2>. HIDE DEF booking
  <2>5. r \in Rows /\ r.status # "absent" /\ i \in SUBSET Issues
    BY <2>3 DEF Issues
  <2>6. TypeRest'
    BY <1>0, <2>2, <2>4, <2>5 DEF TypeRest, Book
  <2>7. TypeSettings' /\ writes' = writes
    BY <1>0, <1>3 DEF DeskCommit, settingVars, TypeSettings
  <2>8. TypeJobs'
    <3>1. /\ Begin(u, Idle) /\ lock' = NoOne /\ u \in Processes
          /\ overtaken' = (overtaken \ {u}) \cup Late(u, Mailers) /\ snapshot' = snapshot
      BY <1>3 DEF DeskCommit, Overtakes, Late, Processes
    <3>2. Late(u, Mailers) \in SUBSET Processes /\ \A q \in Late(u, Mailers) : q # u /\ Running(q)
      BY DEF Late, Processes
    <3>3. snapshot[u] = Unread
      BY <1>0, <1>3, ReadersRun DEF DeskCommit, Processes
    <3>. QED BY <1>0, <3>1, <3>2, <3>3, EndType
  <2>. QED BY <1>0, <2>6, <2>7, <2>8, WriteType, TypePartsNext
<1>4. ASSUME NEW p \in Processes, Rollback(p) PROVE TypeOK'
  <2>1. TypeJobs'
    <3>1. Begin(p, Idle) /\ overtaken' = (overtaken \ {p}) \cup {} /\ Look(p, Unread)
      BY <1>4 DEF Rollback
    <3>2. lock' = NoOne \/ (lock' = lock /\ lock # p)
      BY <1>4 DEF Rollback
    <3>. QED BY <1>0, <3>1, <3>2, EndType
  <2>2. TypeRest' /\ TypeSettings' /\ writes' = writes
    BY <1>0, <1>4 DEF Rollback, bookingVars, settingVars, TypeRest, TypeSettings, Book
  <2>. QED BY <1>0, <2>1, <2>2, WriteType, TypePartsNext
<1>5. ASSUME NEW m \in Mailers, NEW b \in MailBookings, NEW r \in Rows,
             NEW confirm \in BOOLEAN, MailMerge(m, b, r, confirm)
      PROVE  TypeOK'
  <2>1. PICK j \in MailJobs, s \in Snapshots : Begin(m, j) /\ Look(m, s)
    BY <1>0, <1>5, MailMergeType
  <2>2. lock' = lock /\ overtaken' = overtaken /\ m \in Processes /\ m \notin Desks /\ j # Idle
    BY <1>0, <1>5, JobShape DEF MailMerge, Processes
  <2>3. TypeJobs'
    BY <1>0, <2>1, <2>2, BeginType
  <2>4. TypeRest' /\ TypeSettings' /\ Write
    BY <1>0, <1>5 DEF MailMerge, bookingVars, settingVars, TypeRest, TypeSettings, Book
  <2>. QED BY <1>0, <2>3, <2>4, WriteType, TypePartsNext
<1>6. ASSUME NEW m \in Mailers, LoadSlot(m) PROVE TypeOK'
  <2>1. Running(m) /\ m \in Processes
    BY <1>0, <1>6, ReadersRun DEF LoadSlot, Processes
  <2>2. ReadFrom(Following["slot"], capacity) \in Snapshots
    BY <1>0, ReadFromType, FollowingType DEF TypeSettings
  <2>3. TypeJobs'
    BY <1>0, <1>6, <2>1, <2>2, ReadType DEF LoadSlot
  <2>4. TypeRest' /\ TypeSettings' /\ writes' = writes
    BY <1>0, <1>6 DEF LoadSlot, bookingVars, settingVars, TypeRest, TypeSettings, Book
  <2>. QED BY <1>0, <2>3, <2>4, WriteType, TypePartsNext
<1>7. ASSUME NEW p \in Processes, SumPax(p) PROVE TypeOK'
  <2>. PICK s, n : s = snapshot[p] /\ n = SeatsTaken(p, {s.next})
    OBVIOUS
  <2>1. Running(p) /\ s \in Snapshots /\ s.next \in Active
    BY <1>0, <1>7, ReadersRun, FollowingType DEF SumPax
  <2>2. n \in Nat
    BY <1>0, <2>1, SeatsTakenType
  <2>3. Look(p, [s EXCEPT !.next = Following[s.next], !.active_pax = @ + n])
    BY <1>7 DEF SumPax
  <2>4. [s EXCEPT !.next = Following[s.next], !.active_pax = @ + n] \in Snapshots
    <3>1. s \in [next : DOMAIN Following, seats : Nat, active_pax : Nat]
      BY <2>1, FollowingType DEF Snapshots, Unread
    <3>2. Following[s.next] \in DOMAIN Following /\ s.active_pax + n \in Nat
      BY <2>1, <2>2, <3>1, FollowingType
    <3>. QED BY <3>1, <3>2 DEF Snapshots
  <2>5. TypeJobs'
    BY <1>0, <1>7, <2>1, <2>3, <2>4, ReadType DEF SumPax
  <2>6. TypeRest' /\ TypeSettings' /\ writes' = writes
    BY <1>0, <1>7 DEF SumPax, bookingVars, settingVars, TypeRest, TypeSettings, Book
  <2>. QED BY <1>0, <2>5, <2>6, WriteType, TypePartsNext
<1>8. ASSUME NEW m \in Mailers, MailWarn(m) PROVE TypeOK'
  <2>1. Running(m) /\ job[m] \in MailJobs
    BY <1>0, <1>8, ReadersRun, JobShape DEF MailWarn, Processes
  <2>2. PICK warned \in SUBSET {"capacity_overbooked"} : Begin(m, Settled(job[m], warned))
    BY <1>8 DEF MailWarn
  <2>3. Settled(job[m], warned) \in MailJobs /\ Settled(job[m], warned) # Idle
    BY <1>0, <2>1, SettledType, JobShape
  <2>4. TypeJobs'
    <3>1. m \in Processes /\ m \notin Desks
      BY DEF Processes
    <3>. QED BY <1>0, <1>8, <2>2, <2>3, <3>1, UnreadType, BeginType DEF MailWarn
  <2>5. TypeRest' /\ TypeSettings' /\ writes' = writes
    BY <1>0, <1>8 DEF MailWarn, bookingVars, settingVars, TypeRest, TypeSettings, Book
  <2>. QED BY <1>0, <2>4, <2>5, WriteType, TypePartsNext
<1>9. ASSUME NEW m \in Mailers, MailCommit(m) PROVE TypeOK'
  <2>. PICK j, b : j = job[m] /\ b = j.booking
    OBVIOUS
  <2>1. /\ j \in MailJobs /\ j.row.status # "absent"
    BY <1>0, <1>9, JobShape DEF MailCommit, CapacityInv, SeatsInv, MailerOK
  <2>2. /\ b \in Bookings /\ j.row \in Rows /\ j.open \in SUBSET Issues
        /\ j.closed \in SUBSET Issues
    BY <2>1 DEF MailJobs, Bookings
  <2>3. /\ row' = [row EXCEPT ![b] = j.row] /\ open' = [open EXCEPT ![b] = j.open]
        /\ closed' = [closed EXCEPT ![b] = j.closed]
    BY <1>9 DEF MailCommit
  <2>4. TypeRest'
    BY <1>0, <2>1, <2>2, <2>3 DEF TypeRest, Book
  <2>5. TypeSettings' /\ writes' = writes
    BY <1>0, <1>9 DEF MailCommit, settingVars, TypeSettings
  <2>6. TypeJobs'
    <3>. PICK ps : ps = NotAwaited(row[j.booking], j.row)
      OBVIOUS
    <3>1. /\ Begin(m, Idle) /\ lock' = lock /\ m \in Processes /\ lock # m
          /\ overtaken' = (overtaken \ {m}) \cup Late(m, ps)
      BY <1>0, <1>9 DEF MailCommit, Overtakes, Late, Processes, TypeOK
    <3>2. Late(m, ps) \in SUBSET Processes /\ \A q \in Late(m, ps) : q # m /\ Running(q)
      BY DEF Late, Processes, NotAwaited
    <3>3. snapshot[m] = Unread /\ snapshot' = snapshot
      BY <1>0, <1>9, ReadersRun DEF MailCommit, Processes
    <3>. QED BY <1>0, <3>1, <3>2, <3>3, EndType
  <2>. QED BY <1>0, <2>4, <2>5, <2>6, WriteType, TypePartsNext
<1>10. ASSUME NEW b \in Bookings, NEW r \in Rows, EditBooking(b, r) PROVE TypeOK'
  <2>1. TypeRest' /\ TypeSettings' /\ Write /\ UNCHANGED <<job, lock, snapshot>>
    BY <1>0, <1>10 DEF EditBooking, settingVars, TypeRest, TypeSettings, Book
  <2>2. \E ps \in SUBSET Processes : Overtakes(NoOne, ps)
    BY <1>10 DEF EditBooking, NotAwaited, Processes
  <2>. QED BY <1>0, <2>1, <2>2, SameJobsType, WriteType, TypePartsNext
<1>11. ASSUME NEW b \in Bookings, NEW issues \in (SUBSET open[b]) \ {{}}, CloseReviews(b, issues)
      PROVE  TypeOK'
  <2>1. row[b].status # "absent" /\ issues \in SUBSET Issues
    <3>1. issues \subseteq open[b] /\ issues # {}
      OBVIOUS
    <3>2. open[b] \cup closed[b] # {} /\ open[b] \in SUBSET Issues
      BY <1>0, <3>1 DEF TypeRest, Book
    <3>. QED BY <1>0, <3>1, <3>2 DEF TypeRest
  <2>2. TypeRest' /\ TypeSettings' /\ writes' = writes /\ UNCHANGED <<job, lock, snapshot>>
    BY <1>0, <1>11, <2>1 DEF CloseReviews, settingVars, TypeRest, TypeSettings, Book
  <2>3. \E ps \in SUBSET Processes : Overtakes(NoOne, ps)
    BY <1>11 DEF CloseReviews, Processes
  <2>. QED BY <1>0, <2>2, <2>3, SameJobsType, WriteType, TypePartsNext
<1>12. CASE Administrator
  <2>1. TypeRest' /\ (Write \/ writes' = writes) /\ UNCHANGED <<job, lock, snapshot>>
    BY <1>0, <1>12 DEF Administrator, SaveAlias, UpdateSlotCapacity, AddException,
                       ChangeException, bookingVars, TypeRest, Book
  <2>2. TypeSettings'
    BY <1>0, <1>12 DEF Administrator, SaveAlias, UpdateSlotCapacity, AddException,
                       ChangeException, TypeSettings
  <2>3. overtaken' = overtaken \/ \E ps \in SUBSET Processes : Overtakes(NoOne, ps)
    BY <1>12 DEF Administrator, SaveAlias, UpdateSlotCapacity, AddException,
                 ChangeException, Processes
  <2>. QED BY <1>0, <2>1, <2>2, <2>3, SameJobsType, WriteType, TypePartsNext
<1>13. CASE UNCHANGED vars
  BY <1>0, <1>13 DEF vars, TypeOK, Running
<1>. QED
  BY <1>1, <1>2, <1>3, <1>4, <1>5, <1>6, <1>7, <1>8, <1>9, <1>10, <1>11, <1>12, <1>13
     DEF Next, Desk, Mailer, Operator, Processes

-----------------------------------------------------------------------------
(* Seats.                                                                  *)

\* What p counts of the statuses S, told apart from where it looks.
View(p, j, rows, opens, closes, S) ==
  IF p \in Mailers
  THEN Taken(S, [rows EXCEPT ![j.booking] = j.row], [opens EXCEPT ![j.booking] = j.open],
             [closes EXCEPT ![j.booking] = j.closed])
  ELSE Taken(S, rows, opens, closes)

LEMMA ViewType ==
  ASSUME NEW rows, NEW opens, NEW closes, Book(rows, opens, closes), NEW p, NEW j,
         p \in Mailers => j \in MailJobs, NEW S
  PROVE  View(p, j, rows, opens, closes, S) \in Nat
<1>1. CASE p \in Mailers
  <2>1. Taken(S, [rows EXCEPT ![j.booking] = j.row], [opens EXCEPT ![j.booking] = j.open],
              [closes EXCEPT ![j.booking] = j.closed]) \in Nat
    BY <1>1, SeenType, TakenType
  <2>. QED BY <1>1, <2>1 DEF View
<1>2. CASE p \notin Mailers
  BY <1>2, TakenType DEF View
<1>. QED BY <1>1, <1>2

LEMMA ViewNow ==
  ASSUME NEW p, NEW S
  PROVE  /\ SeatsTaken(p, S) = View(p, job[p], row, open, closed, S)
         /\ SeatsTaken(p, S)' = View(p, job'[p], row', open', closed', S)
BY DEF SeatsTaken, View

LEMMA SeatNumbers ==
  ASSUME TypeOK, TypeOK'
  PROVE  /\ Remaining \in Int /\ Remaining' \in Int
         /\ \A p \in Processes : Running(p) =>
              /\ SeatsRead(p) \in Int /\ PaxRead(p) \in Int /\ LeftFor(p) \in Int
         /\ \A p \in Processes : Running(p)' =>
              /\ SeatsRead(p)' \in Int /\ PaxRead(p)' \in Int /\ LeftFor(p)' \in Int
<1>1. /\ Book(row, open, closed) /\ capacity \in Nat /\ exceptions \in SUBSET Exceptions
      /\ Book(row', open', closed') /\ capacity' \in Nat /\ exceptions' \in SUBSET Exceptions
  BY DEF TypeOK, Book
<1>2. /\ BlockedPax(capacity, exceptions) \in Int /\ BlockedPax(capacity', exceptions') \in Int
      /\ Taken(Active, row, open, closed) \in Nat /\ Taken(Active, row', open', closed') \in Nat
  BY <1>1, BlockedType, TakenType
<1>3. Remaining \in Int /\ Remaining' \in Int
  BY <1>1, <1>2 DEF Remaining
<1>4. ASSUME NEW p \in Processes, Running(p)
      PROVE  SeatsRead(p) \in Int /\ PaxRead(p) \in Int /\ LeftFor(p) \in Int
  <2>1. \A S : SeatsTaken(p, S) \in Nat
    BY <1>4, SeatsTakenType
  <2>2. SeatsRead(p) \in Int
    BY <1>1 DEF SeatsRead
  <2>. QED BY <1>1, <1>2, <2>1, <2>2 DEF PaxRead, LeftFor
<1>5. ASSUME NEW p \in Processes, Running(p)'
      PROVE  SeatsRead(p)' \in Int /\ PaxRead(p)' \in Int /\ LeftFor(p)' \in Int
  <2>1. p \in Mailers => job'[p] \in MailJobs
    BY <1>5 DEF TypeOK, Running
  <2>2. \A S : View(p, job'[p], row', open', closed', S) \in Nat
    BY <1>1, <2>1, ViewType
  <2>3. SeatsRead(p)' \in Int
    BY <1>1 DEF SeatsRead
  <2>4. PaxRead(p)' = View(p, job'[p], row', open', closed', Summed(snapshot'[p].next))
    BY DEF PaxRead, SeatsTaken, View, Summed
  <2>5. LeftFor(p)' = capacity' - BlockedPax(capacity', exceptions')
                        - View(p, job'[p], row', open', closed', Active)
    BY DEF LeftFor, SeatsTaken, View
  <2>6. PaxRead(p)' \in Nat /\ View(p, job'[p], row', open', closed', Active) \in Nat
    BY <2>2, <2>4
  <2>. QED BY <1>1, <1>2, <2>3, <2>5, <2>6
<1>. QED BY <1>3, <1>4, <1>5

\* What p has read is no worse now.
Holds(p) ==
  IF snapshot[p].next = "done" THEN LeftFor(p) <= LeftFor(p)'
  ELSE SeatsRead(p) <= SeatsRead(p)' /\ PaxRead(p)' <= PaxRead(p)

\* Where neither bookings nor settings change, all that was read holds.
LEMMA NothingMoves ==
  ASSUME TypeOK, TypeOK', UNCHANGED <<row, open, closed, capacity, exceptions>>,
         NEW p \in Processes, Running(p), job'[p] = job[p], snapshot'[p] = snapshot[p]
  PROVE  Holds(p)
<1>1. SeatsRead(p)' = SeatsRead(p) /\ PaxRead(p)' = PaxRead(p) /\ LeftFor(p)' = LeftFor(p)
  BY DEF SeatsRead, PaxRead, LeftFor, SeatsTaken, Summed
<1>2. SeatsRead(p) \in Int /\ PaxRead(p) \in Int /\ LeftFor(p) \in Int
  BY SeatNumbers
<1>. QED BY <1>1, <1>2 DEF Holds

\* Who is among those a commit does not wait for is overtaken by it, or all that
\* was read holds.
LEMMA OvertakenOrNot ==
  ASSUME TypeOK, TypeOK', NEW p, NEW ps, Overtakes(p, ps),
         NEW q \in Processes, q \in ps, q # p, Running(q), job'[q] = job[q], q \notin overtaken'
  PROVE  q \notin overtaken /\ Holds(q)
<1>1. q \notin overtaken /\ ~Worsens(q)
  BY DEF Overtakes
<1>2. /\ SeatsRead(q) \in Int /\ PaxRead(q) \in Int /\ LeftFor(q) \in Int
      /\ SeatsRead(q)' \in Int /\ PaxRead(q)' \in Int /\ LeftFor(q)' \in Int
  BY SeatNumbers DEF Running
<1>. QED BY <1>1, <1>2 DEF Worsens, Holds

\* A transaction that does nothing itself.
Rests(p) == job'[p] = job[p] /\ snapshot'[p] = snapshot[p]
Spared(p) == p \notin overtaken' => p \notin overtaken /\ Holds(p)

LEMMA SnapshotKeeps ==
  ASSUME CapacityInv, TypeOK', NEW p \in Processes, Rests(p), Running(p) => Spared(p)
  PROVE  SnapshotOK(p)'
<1>. SUFFICES ASSUME Intact(p)', snapshot'[p].next # "done" PROVE SnapshotOK(p)'
  BY DEF SnapshotOK
<1>1. Running(p) /\ Running(p)' /\ p \notin overtaken /\ Holds(p)
  BY DEF Intact, Running, Rests, Spared
<1>2. snapshot[p].seats <= SeatsRead(p) /\ PaxRead(p) <= snapshot[p].active_pax
  BY <1>1 DEF CapacityInv, SeatsInv, SnapshotOK, Intact, Rests
<1>3. snapshot[p].seats \in Int /\ snapshot[p].active_pax \in Int
  BY ReadersRun DEF CapacityInv, Snapshots, Unread
<1>4. /\ SeatsRead(p) \in Int /\ PaxRead(p) \in Int
      /\ SeatsRead(p)' \in Int /\ PaxRead(p)' \in Int
  BY <1>1, SeatNumbers DEF CapacityInv
<1>5. SeatsRead(p) <= SeatsRead(p)' /\ PaxRead(p)' <= PaxRead(p)
  BY <1>1 DEF Holds, Rests
<1>6. snapshot[p].seats <= SeatsRead(p)' /\ PaxRead(p)' <= snapshot[p].active_pax
  BY <1>2, <1>3, <1>4, <1>5
<1>. QED BY <1>6 DEF SnapshotOK, Rests

LEMMA DeskKeeps ==
  ASSUME CapacityInv, TypeOK', NEW u \in Desks, Rests(u), Running(u) => Spared(u),
         Running(u) => lock' = lock /\ NewBookings' # {}
  PROVE  DeskOK(u)'
<1>. SUFFICES ASSUME Running(u)' PROVE DeskOK(u)'
  BY DEF DeskOK
<1>1. Running(u) /\ DeskOK(u) /\ u \in Processes
  BY DEF Running, CapacityInv, SeatsInv, Rests, Processes
<1>2. job[u].pax \in Int
  <2>1. job[u] \in DeskJobs
    BY <1>1, JobShape DEF CapacityInv
  <2>. QED BY <2>1, PaxIsCount DEF DeskJobs
<1>3. LeftFor(u) \in Int /\ LeftFor(u)' \in Int
  BY <1>1, SeatNumbers DEF CapacityInv
<1>4. Intact(u)' => Intact(u) /\ Holds(u)
  BY <1>1 DEF Intact, Spared
<1>5. snapshot[u].next = "done" /\ Intact(u)' /\ ~job[u].over => job[u].pax <= LeftFor(u)'
  <2>. SUFFICES ASSUME snapshot[u].next = "done", Intact(u)', ~job[u].over
                PROVE  job[u].pax <= LeftFor(u)'
    OBVIOUS
  <2>1. job[u].pax <= LeftFor(u) /\ LeftFor(u) <= LeftFor(u)'
    BY <1>1, <1>4 DEF DeskOK, Holds
  <2>. QED BY <1>2, <1>3, <2>1
<1>. QED BY <1>1, <1>5 DEF DeskOK, Rests

LEMMA MailerKeeps ==
  ASSUME CapacityInv, TypeOK', NEW m \in Mailers, Rests(m), Running(m) => Spared(m),
         \A n \in Mailers \ {m} : job'[n] # Idle /\ job'[n].booking = job[m].booking
                                    => Running(n) /\ job[n].booking = job[m].booking
  PROVE  MailerOK(m)'
<1>. SUFFICES ASSUME Running(m)' PROVE MailerOK(m)'
  BY DEF MailerOK
<1>1. Running(m) /\ MailerOK(m) /\ m \in Processes
  BY DEF Running, CapacityInv, SeatsInv, Rests, Processes
<1>2. LeftFor(m) \in Int /\ LeftFor(m)' \in Int
  BY <1>1, SeatNumbers DEF CapacityInv
<1>3. Intact(m)' => Intact(m) /\ Holds(m)
  BY <1>1 DEF Intact, Spared
<1>4. ( /\ snapshot[m].next = "done" /\ Intact(m)' /\ ~job[m].unseen
        /\ job[m].row.placed /\ job[m].row.dated
        /\ "capacity_overbooked" \notin job[m].open ) => 0 <= LeftFor(m)'
  <2>. SUFFICES ASSUME snapshot[m].next = "done", Intact(m)', ~job[m].unseen,
                       job[m].row.placed, job[m].row.dated,
                       "capacity_overbooked" \notin job[m].open
                PROVE  0 <= LeftFor(m)'
    OBVIOUS
  <2>1. 0 <= LeftFor(m) /\ LeftFor(m) <= LeftFor(m)'
    BY <1>1, <1>3 DEF MailerOK, Holds
  <2>. QED BY <1>2, <2>1
<1>5. \A n \in Mailers : Running(n)' /\ job'[n].booking = job[m].booking => n = m
  <2>. SUFFICES ASSUME NEW n \in Mailers, n # m, Running(n)', job'[n].booking = job[m].booking
                PROVE  FALSE
    OBVIOUS
  <2>. QED BY <1>1 DEF MailerOK, Running
<1>. QED BY <1>1, <1>4, <1>5 DEF MailerOK, Rests

\* One process moves, and the others only see what it changes.
OthersRest(p) == \A q \in Processes \ {p} : Rests(q) /\ (Running(q) => Spared(q))

LEMMA OneMoves ==
  ASSUME CapacityInv, TypeOK', NEW p, OthersRest(p),
         \A u \in Desks \ {p} : Running(u) => lock' = lock /\ NewBookings' # {},
         \A m \in Mailers \ {p} : \A n \in Mailers :
           Running(m) /\ job'[n] # Idle /\ job'[n].booking = job[m].booking
             => Running(n) /\ job[n].booking = job[m].booking,
         p \in Processes => SnapshotOK(p)', p \in Desks => DeskOK(p)',
         p \in Mailers => MailerOK(p)'
  PROVE  SeatsInv'
<1>1. ASSUME NEW q \in Processes PROVE SnapshotOK(q)'
  BY SnapshotKeeps DEF OthersRest
<1>2. ASSUME NEW u \in Desks PROVE DeskOK(u)'
  BY DeskKeeps DEF OthersRest, Processes
<1>3. ASSUME NEW m \in Mailers PROVE MailerOK(m)'
  <2>1. CASE m = p
    BY <2>1
  <2>2. CASE m # p /\ Running(m)
    BY <2>2, MailerKeeps DEF OthersRest, Processes
  <2>3. CASE m # p /\ ~Running(m)
    BY <2>3 DEF OthersRest, Rests, MailerOK, Running, Processes
  <2>. QED BY <2>1, <2>2, <2>3
<1>. QED BY <1>1, <1>2, <1>3 DEF SeatsInv

\* While p reads, begins or ends, nothing moves for the others.
Quiet == UNCHANGED <<row, open, closed, capacity, exceptions>>

LEMMA QuietOthers ==
  ASSUME CapacityInv, TypeOK', Quiet, NEW p,
         \A q \in Processes \ {p} : Rests(q) /\ (q \notin overtaken' => q \notin overtaken)
  PROVE  OthersRest(p)
BY NothingMoves DEF CapacityInv, Quiet, Rests, Spared, OthersRest

\* Only one process's job and snapshot are written.
LEMMA BeginRests ==
  ASSUME TypeOK, NEW p, NEW j, NEW s,
         job' = [job EXCEPT ![p] = j] \/ job' = job,
         snapshot' = [snapshot EXCEPT ![p] = s] \/ snapshot' = snapshot
  PROVE  \A q \in Processes \ {p} : Rests(q)
BY DEF TypeOK, Rests

LEMMA OwnWrite ==
  ASSUME TypeOK, NEW p \in Processes, NEW j, NEW s
  PROVE  /\ Begin(p, j) => job'[p] = j
         /\ Look(p, s) => snapshot'[p] = s
BY DEF TypeOK, Begin, Look

LEMMA DeskLockSeats ==
  ASSUME CapacityInv, TypeOK', NEW u \in Desks, NEW p \in Pax, NEW allow \in BOOLEAN,
         DeskLock(u, p, allow)
  PROVE  SeatsInv'
<1>. PICK j, s : j = [pax |-> p, allow |-> allow, over |-> FALSE]
                 /\ s = ReadFrom("confirmed", capacity)
  OBVIOUS
<1>1. /\ Begin(u, j) /\ Look(u, s) /\ Quiet /\ NewBookings # {} /\ lock = NoOne /\ lock' = u
      /\ overtaken' = overtaken /\ ~Running(u)
  BY DEF DeskLock, bookingVars, settingVars, Quiet
<1>2. TypeOK /\ u \in Processes /\ u \notin Mailers
  BY DEF CapacityInv, Processes
<1>3. NewBookings' = NewBookings
  BY <1>1 DEF NewBookings, Quiet
<1>4. OthersRest(u)
  BY <1>1, <1>2, BeginRests, QuietOthers DEF Begin, Look
<1>5. \A v \in Desks : ~Running(v)
  BY <1>1 DEF CapacityInv, SeatsInv, DeskOK, Processes
<1>6. job'[u] = j /\ snapshot'[u] = s
  BY <1>1, <1>2, OwnWrite
<1>7. s.next = "confirmed" /\ s.seats = capacity /\ s.active_pax = 0
  BY DEF ReadFrom
<1>8. SnapshotOK(u)'
  <2>1. SeatsRead(u)' = capacity
    BY <1>1, <1>6, <1>7 DEF SeatsRead, Quiet
  <2>2. PaxRead(u)' = Taken({}, row', open', closed')
    BY <1>2, <1>6, <1>7 DEF PaxRead, SeatsTaken, Summed
  <2>3. PaxRead(u)' = 0 /\ capacity <= capacity
    BY <1>2, <2>2, TakenNone DEF TypeOK
  <2>. QED BY <1>6, <1>7, <2>1, <2>3 DEF SnapshotOK
<1>9. DeskOK(u)'
  BY <1>1, <1>3, <1>6, <1>7 DEF DeskOK
<1>10. \A n \in Mailers : job'[n] = job[n]
  BY <1>2, <1>4 DEF OthersRest, Rests, Processes
<1>. QED BY <1>2, <1>4, <1>5, <1>8, <1>9, <1>10, OneMoves DEF Running

LEMMA LoadSlotSeats ==
  ASSUME CapacityInv, TypeOK', NEW m \in Mailers, LoadSlot(m)
  PROVE  SeatsInv'
<1>. PICK s : s = ReadFrom(Following["slot"], capacity)
  OBVIOUS
<1>1. /\ Look(m, s) /\ Quiet /\ UNCHANGED <<job, lock, overtaken>> /\ snapshot[m].next = "slot"
  BY DEF LoadSlot, bookingVars, settingVars, Quiet
<1>2. TypeOK /\ m \in Processes /\ m \notin Desks /\ Running(m)
  BY <1>1, ReadersRun DEF CapacityInv, Processes
<1>3. NewBookings' = NewBookings
  BY <1>1 DEF NewBookings, Quiet
<1>4. OthersRest(m)
  <2>1. \A q \in Processes \ {m} : Rests(q)
    BY <1>1, <1>2, BeginRests DEF Look
  <2>. QED BY <1>1, <2>1, QuietOthers
<1>5. snapshot'[m] = s
  BY <1>1, <1>2, OwnWrite
<1>6. s.next = "confirmed" /\ s.seats = capacity /\ s.active_pax = 0
  BY FollowingType DEF ReadFrom
<1>7. SnapshotOK(m)'
  <2>1. SeatsRead(m)' = capacity
    BY <1>1, <1>5, <1>6 DEF SeatsRead, Quiet
  <2>2. PaxRead(m)' = 0
    <3>1. PaxRead(m)' = View(m, job'[m], row', open', closed', {})
      BY <1>5, <1>6 DEF PaxRead, SeatsTaken, Summed, View
    <3>. QED BY <1>2, <3>1, TakenNone DEF View
  <2>3. capacity <= capacity
    BY <1>2 DEF TypeOK
  <2>. QED BY <1>5, <1>6, <2>1, <2>2, <2>3 DEF SnapshotOK
<1>8. MailerOK(m)'
  <2>1. MailerOK(m)
    BY DEF CapacityInv, SeatsInv
  <2>. QED BY <1>1, <1>2, <1>5, <1>6, <2>1 DEF MailerOK, Running
<1>9. \A u \in Desks : Running(u) => NewBookings # {}
  BY DEF CapacityInv, SeatsInv, DeskOK
<1>. QED BY <1>1, <1>2, <1>3, <1>4, <1>7, <1>8, <1>9, OneMoves DEF Running

\* The statuses summed so far and the next are those summed after it.
LEMMA SummedNext ==
  ASSUME NEW n \in Active
  PROVE  Summed(Following[n]) = Summed(n) \cup {n} /\ n \notin Summed(n)
BY DEF Active, Following, Summed

LEMMA SumPaxSeats ==
  ASSUME CapacityInv, TypeOK', NEW p \in Processes, SumPax(p)
  PROVE  SeatsInv'
<1>. PICK s, t, n : /\ s = snapshot[p] /\ n = SeatsTaken(p, {s.next})
                    /\ t = [s EXCEPT !.next = Following[s.next], !.active_pax = @ + n]
  OBVIOUS
<1>1. /\ Look(p, t) /\ Quiet /\ UNCHANGED <<job, lock, overtaken>> /\ s.next \in Active
  BY DEF SumPax, bookingVars, settingVars, Quiet
<1>2. TypeOK /\ Running(p) /\ s \in Snapshots
  BY <1>1, ReadersRun, FollowingType DEF CapacityInv
<1>3. NewBookings' = NewBookings
  BY <1>1 DEF NewBookings, Quiet
<1>4. OthersRest(p)
  <2>1. \A q \in Processes \ {p} : Rests(q)
    BY <1>1, <1>2, BeginRests DEF Look
  <2>. QED BY <1>1, <2>1, QuietOthers
<1>5. snapshot'[p] = t
  BY <1>1, <1>2, OwnWrite
<1>6. /\ s.seats \in Nat /\ s.active_pax \in Nat /\ n \in Nat
      /\ t.next = Following[s.next] /\ t.seats = s.seats /\ t.active_pax = s.active_pax + n
  <2>1. s \in [next : DOMAIN Following, seats : Nat, active_pax : Nat]
    BY <1>1, <1>2, FollowingType DEF Snapshots, Unread
  <2>2. n \in Nat
    BY <1>2, SeatsTakenType
  <2>. QED BY <2>1, <2>2
<1>7. t.next # "slot" /\ t.next # "done" /\ s.next # "slot" /\ s.next # "done"
  BY <1>1, <1>6, FollowingType DEF Active
<1>8. SnapshotOK(p)'
  <2>. SUFFICES ASSUME Intact(p) PROVE SnapshotOK(p)'
    BY <1>1 DEF SnapshotOK, Intact, Running
  <2>1. s.seats <= SeatsRead(p) /\ PaxRead(p) <= s.active_pax
    BY <1>7 DEF CapacityInv, SeatsInv, SnapshotOK
  <2>2. SeatsRead(p)' = SeatsRead(p)
    BY <1>1, <1>5, <1>7 DEF SeatsRead, Quiet
  <2>3. PaxRead(p)' = PaxRead(p) + n
    <3>. DEFINE S == Summed(s.next)
    <3>1. Summed(t.next) = S \cup {s.next} /\ s.next \notin S
      BY <1>1, <1>6, SummedNext
    <3>2. PaxRead(p)' = View(p, job[p], row, open, closed, S \cup {s.next})
      <4>1. PaxRead(p)' = View(p, job'[p], row', open', closed', Summed(t.next))
        BY <1>5 DEF PaxRead, SeatsTaken, View, Summed
      <4>. QED BY <1>1, <3>1, <4>1 DEF Quiet
    <3>3. PaxRead(p) = View(p, job[p], row, open, closed, S)
          /\ n = View(p, job[p], row, open, closed, {s.next})
      BY ViewNow DEF PaxRead
    <3>4. View(p, job[p], row, open, closed, S \cup {s.next})
            = View(p, job[p], row, open, closed, S) + View(p, job[p], row, open, closed, {s.next})
      <4>1. Book(row, open, closed) /\ (p \in Mailers => job[p] \in MailJobs)
        BY <1>2, JobShape DEF TypeOK, Book
      <4>. HIDE DEF S
      <4>2. CASE p \in Mailers
        <5>. PICK j : j = job[p]
          OBVIOUS
        <5>1. Book([row EXCEPT ![j.booking] = j.row], [open EXCEPT ![j.booking] = j.open],
                   [closed EXCEPT ![j.booking] = j.closed])
          BY <4>1, <4>2, SeenType
        <5>. QED BY <3>1, <4>2, <5>1, TakenMore DEF View
      <4>3. CASE p \notin Mailers
        BY <3>1, <4>1, <4>3, TakenMore DEF View
      <4>. QED BY <4>2, <4>3
    <3>. QED BY <3>2, <3>3, <3>4
  <2>4. PaxRead(p) \in Int /\ SeatsRead(p) \in Int
    BY <1>2, SeatNumbers DEF Intact
  <2>5. PaxRead(p)' <= t.active_pax
    BY <1>6, <2>1, <2>3, <2>4
  <2>. QED BY <1>5, <1>6, <2>1, <2>2, <2>5 DEF SnapshotOK
<1>9. p \in Desks => DeskOK(p)'
  <2>1. p \in Desks => DeskOK(p)
    BY DEF CapacityInv, SeatsInv
  <2>. QED BY <1>1, <1>2, <1>3, <1>5, <1>7, <2>1 DEF DeskOK
<1>10. p \in Mailers => MailerOK(p)'
  <2>1. p \in Mailers => MailerOK(p)
    BY DEF CapacityInv, SeatsInv
  <2>. QED BY <1>1, <1>2, <1>5, <1>7, <2>1 DEF MailerOK, Running
<1>11. \A u \in Desks : Running(u) => NewBookings # {}
  BY DEF CapacityInv, SeatsInv, DeskOK
<1>. QED BY <1>1, <1>3, <1>4, <1>8, <1>9, <1>10, <1>11, OneMoves DEF Running


\* Once the exceptions are reached, what a transaction nobody overtook makes of
\* its readings is no more than what is left.
LEMMA ReadFits ==
  ASSUME CapacityInv, NEW p \in Processes, snapshot[p].next = "exceptions"
  PROVE  /\ RemainingRead(p) \in Int
         /\ Intact(p) => RemainingRead(p) <= LeftFor(p)
<1>. PICK c, k, xs : c = snapshot[p].seats /\ k = snapshot[p].active_pax /\ xs = exceptions
  OBVIOUS
<1>1. /\ TypeOK /\ Running(p)
      /\ c \in Nat /\ k \in Nat /\ xs \in SUBSET Exceptions /\ capacity \in Nat
  <2>1. TypeOK /\ snapshot[p] \in Snapshots /\ Running(p)
    BY ReadersRun DEF CapacityInv
  <2>. QED BY <2>1 DEF Snapshots, Unread, TypeOK
<1>2. BlockedPax(c, xs) \in Int /\ BlockedPax(capacity, xs) \in Int
  BY <1>1, BlockedType
<1>3. RemainingRead(p) = c - BlockedPax(c, xs) - k
  BY DEF RemainingRead
<1>4. ASSUME Intact(p) PROVE RemainingRead(p) <= LeftFor(p)
  <2>1. c <= capacity /\ SeatsTaken(p, Active) <= k
    <3>1. c <= SeatsRead(p) /\ PaxRead(p) <= k
      BY <1>4 DEF CapacityInv, SeatsInv, SnapshotOK
    <3>2. SeatsRead(p) = capacity /\ PaxRead(p) = SeatsTaken(p, Active)
      BY DEF SeatsRead, PaxRead, Summed
    <3>. QED BY <3>1, <3>2
  <2>2. c - BlockedPax(c, xs) <= capacity - BlockedPax(capacity, xs)
    BY <1>1, <2>1, FewerSeats
  <2>3. SeatsTaken(p, Active) \in Nat
    BY <1>1, SeatsTakenType
  <2>4. LeftFor(p) = capacity - BlockedPax(capacity, xs) - SeatsTaken(p, Active)
    BY DEF LeftFor
  <2>. QED BY <1>1, <1>2, <1>3, <2>1, <2>2, <2>3, <2>4
<1>. QED BY <1>1, <1>2, <1>3, <1>4

\* Without the locks no desk is under way, and only one is with them.
LEMMA OneDesk ==
  ASSUME CapacityInv
  PROVE  \A u \in Desks : Running(u) => lock = u /\ u # NoOne
BY DEF CapacityInv, SeatsInv, DeskOK, Processes

\* Whoever does not wait for the commit is among those it may overtake.
LEMMA OvertakesSpares ==
  ASSUME CapacityInv, TypeOK', NEW p, NEW ps, Overtakes(p, ps),
         \A q \in Processes \ {p} : Rests(q) /\ (Running(q) => q \in ps)
  PROVE  OthersRest(p)
<1>1. ASSUME NEW q \in Processes \ {p}, Running(q), q \notin overtaken'
      PROVE  q \notin overtaken /\ Holds(q)
  BY <1>1, OvertakenOrNot DEF CapacityInv, Rests
<1>. QED BY <1>1 DEF OthersRest, Spared

LEMMA DeskDecideSeats ==
  ASSUME CapacityInv, TypeOK', NEW u \in Desks, DeskDecide(u)
  PROVE  SeatsInv'
<1>1. TypeOK /\ u \in Processes /\ u \notin Mailers /\ snapshot[u].next = "exceptions"
  BY DEF CapacityInv, Processes, DeskDecide
<1>2. Running(u) /\ job[u] \in DeskJobs /\ DeskOK(u)
  <2>1. Running(u)
    BY <1>1, ReadersRun
  <2>. QED BY <1>1, <2>1, JobShape DEF CapacityInv, SeatsInv
<1>. PICK n : n = RemainingRead(u) - job[u].pax
  OBVIOUS
<1>3. n \in Int /\ job[u].pax \in Int /\ (Intact(u) /\ 0 <= n => job[u].pax <= LeftFor(u))
  <2>1. job[u].pax \in Int
    BY <1>2, PaxIsCount DEF DeskJobs
  <2>2. RemainingRead(u) \in Int /\ (Intact(u) => RemainingRead(u) <= LeftFor(u))
    BY <1>1, ReadFits
  <2>3. Running(u) => LeftFor(u) \in Int
    BY <1>1, SeatNumbers
  <2>. QED BY <1>2, <2>1, <2>2, <2>3
<1>4. PICK over \in BOOLEAN : (over <=> n < 0) /\ Begin(u, [job[u] EXCEPT !.over = over])
  <2>1. Begin(u, [job[u] EXCEPT !.over = n < 0])
    BY DEF DeskDecide
  <2>2. (n < 0) \in BOOLEAN
    OBVIOUS
  <2>. QED BY <2>1, <2>2, Zenon
<1>. PICK j : j = [job[u] EXCEPT !.over = over]
  OBVIOUS
<1>5. /\ Begin(u, j) /\ Look(u, Unread) /\ Quiet /\ UNCHANGED <<lock, overtaken>>
      /\ n >= 0 \/ job[u].allow
  BY <1>4 DEF DeskDecide, bookingVars, settingVars, Quiet
<1>6. j.pax = job[u].pax /\ j.allow = job[u].allow /\ (j.over <=> n < 0)
  BY <1>2, <1>4 DEF DeskJobs
<1>7. job'[u] = j /\ snapshot'[u] = Unread /\ Unread.next = "done"
  BY <1>1, <1>5, OwnWrite DEF Unread
<1>8. NewBookings' = NewBookings /\ NewBookings # {}
  BY <1>2, <1>5 DEF NewBookings, Quiet, DeskOK
<1>9. OthersRest(u)
  <2>1. \A q \in Processes \ {u} : Rests(q)
    BY <1>1, <1>5, BeginRests DEF Begin, Look
  <2>. QED BY <1>5, <2>1, QuietOthers
<1>10. SnapshotOK(u)'
  BY <1>7 DEF SnapshotOK
<1>11. LeftFor(u)' = LeftFor(u)
  BY <1>1, <1>5 DEF LeftFor, SeatsTaken, Quiet
<1>12. Intact(u)' => Intact(u)
  BY <1>2, <1>5 DEF Intact
<1>13. DeskOK(u)'
  <2>1. j.allow \/ ~j.over
    BY <1>3, <1>5, <1>6
  <2>2. Intact(u)' /\ ~j.over => j.pax <= LeftFor(u)'
    BY <1>3, <1>6, <1>11, <1>12
  <2>3. lock' = u
    BY <1>2, <1>5 DEF DeskOK
  <2>. QED BY <1>7, <1>8, <2>1, <2>2, <2>3 DEF DeskOK, Unread
<1>14. \A q \in Mailers : job'[q] = job[q]
  BY <1>1, <1>9 DEF OthersRest, Rests, Processes
<1>. QED BY <1>1, <1>5, <1>8, <1>9, <1>10, <1>13, <1>14, OneMoves DEF Running

LEMMA RollbackSeats ==
  ASSUME CapacityInv, TypeOK', NEW p \in Processes, Rollback(p)
  PROVE  SeatsInv'
<1>1. /\ TypeOK /\ Begin(p, Idle) /\ Look(p, Unread) /\ Quiet
      /\ overtaken' = overtaken \ {p} /\ lock' = IF lock = p THEN NoOne ELSE lock
  BY DEF Rollback, CapacityInv, bookingVars, settingVars, Quiet
<1>2. job'[p] = Idle /\ ~Running(p)'
  BY <1>1, OwnWrite DEF Running
<1>3. OthersRest(p)
  <2>1. \A q \in Processes \ {p} : Rests(q)
    BY <1>1, BeginRests DEF Begin, Look
  <2>. QED BY <1>1, <2>1, QuietOthers
<1>4. SnapshotOK(p)' /\ (p \in Desks => DeskOK(p)') /\ (p \in Mailers => MailerOK(p)')
  BY <1>2 DEF SnapshotOK, DeskOK, MailerOK, Intact
<1>5. \A u \in Desks \ {p} : Running(u) => lock' = lock /\ NewBookings' # {}
  <2>1. NewBookings' = NewBookings
    BY <1>1 DEF NewBookings, Quiet
  <2>. QED BY <1>1, <2>1 DEF CapacityInv, SeatsInv, DeskOK
<1>6. \A n \in Mailers : job'[n] # Idle => job'[n] = job[n]
  BY <1>2, <1>3 DEF OthersRest, Rests, Processes
<1>. QED BY <1>3, <1>4, <1>5, <1>6, OneMoves DEF Running

\* What the commit of an internal booking makes of the seats.
LEMMA DeskCommitFacts ==
  ASSUME CapacityInv, TypeOK', NEW u \in Desks, DeskCommit(u)
  PROVE  \E b \in NewBookings :
           /\ row' = [row EXCEPT ![b] =
                [status |-> "confirmed", pax |-> job[u].pax, mapped |-> TRUE,
                 placed |-> TRUE, dated |-> TRUE, noShow |-> FALSE]]
           /\ open' = [open EXCEPT ![b] =
                IF job[u].over THEN {"capacity_overbooked"} ELSE {}]
           /\ job[u].pax \in Int /\ LeftFor(u) \in Int
           /\ Remaining' = LeftFor(u) - job[u].pax
<1>1. TypeOK /\ u \in Processes /\ u \notin Mailers /\ Running(u)
  BY DEF CapacityInv, Processes, DeskCommit
<1>2. NewBookings # {} /\ job[u] \in DeskJobs
  BY <1>1, JobShape DEF CapacityInv, SeatsInv, DeskOK
<1>. PICK b, r, i :
       /\ b = (CHOOSE c \in NewBookings : TRUE)
       /\ r = [status |-> "confirmed", pax |-> job[u].pax, mapped |-> TRUE,
               placed |-> TRUE, dated |-> TRUE, noShow |-> FALSE]
       /\ i = IF job[u].over THEN {"capacity_overbooked"} ELSE {}
  OBVIOUS
<1>3. b \in NewBookings
  BY <1>2
<1>4. /\ row' = [row EXCEPT ![b] = r] /\ open' = [open EXCEPT ![b] = i]
      /\ closed' = closed /\ capacity' = capacity /\ exceptions' = exceptions
  BY DEF DeskCommit, settingVars
<1>5. b \in Bookings /\ row[b].status = "absent" /\ closed[b] = {}
  BY <1>1, <1>3 DEF NewBookings, Bookings, TypeOK
<1>6. Book(row, open, closed) /\ Book(row', open', closed')
  BY <1>1 DEF TypeOK, Book
<1>7. AgreeBut(b, row, open, closed, row', open', closed')
  BY <1>4, <1>6 DEF AgreeBut, Book
<1>8. row'[b] = r /\ open'[b] = i /\ closed'[b] = {}
  BY <1>4, <1>5, <1>6 DEF Book
<1>9. PaxOf(b, Active, row, open, closed) = 0
  BY <1>5 DEF PaxOf, Active
<1>10. PaxOf(b, Active, row', open', closed') = job[u].pax
  <2>1. ~Hidden(i, {})
    BY DEF Hidden
  <2>2. r.status \in Active /\ InSlot(r) /\ r.pax = job[u].pax
    BY DEF Active, InSlot
  <2>. QED BY <1>8, <2>1, <2>2 DEF PaxOf
<1>11. Taken(Active, row', open', closed') + PaxOf(b, Active, row, open, closed)
         = Taken(Active, row, open, closed) + PaxOf(b, Active, row', open', closed')
  BY <1>5, <1>6, <1>7, Exchange
<1>12. job[u].pax \in Int /\ LeftFor(u) \in Int
  BY <1>1, <1>2, PaxIsCount, SeatNumbers DEF DeskJobs
<1>13. Remaining' = LeftFor(u) - job[u].pax
  <2>. PICK k, n, d : /\ k = Taken(Active, row, open, closed)
                      /\ n = Taken(Active, row', open', closed')
                      /\ d = capacity - BlockedPax(capacity, exceptions)
    OBVIOUS
  <2>1. k \in Nat /\ n \in Nat /\ d \in Int
    <3>1. capacity \in Nat /\ BlockedPax(capacity, exceptions) \in Int
      BY <1>1, BlockedType DEF TypeOK
    <3>. QED BY <1>6, <3>1, TakenType
  <2>2. n = k + job[u].pax
    BY <1>9, <1>10, <1>11, <1>12, <2>1
  <2>3. LeftFor(u) = d - k
    BY <1>1 DEF LeftFor, SeatsTaken
  <2>4. Remaining' = d - n
    <3>1. Remaining' = capacity' - BlockedPax(capacity', exceptions')
                         - Taken(Active, row', open', closed')
      BY DEF Remaining
    <3>. QED BY <1>4, <3>1
  <2>. QED BY <1>12, <2>1, <2>2, <2>3, <2>4
<1>. QED BY <1>3, <1>4, <1>12, <1>13

LEMMA DeskCommitSeats ==
  ASSUME CapacityInv, TypeOK', NEW u \in Desks, DeskCommit(u)
  PROVE  SeatsInv'
<1>1. /\ TypeOK /\ u \in Processes /\ Running(u)
      /\ Begin(u, Idle) /\ snapshot' = snapshot /\ Overtakes(u, Mailers)
  BY DEF DeskCommit, CapacityInv, Processes
<1>2. job'[u] = Idle /\ ~Running(u)'
  BY <1>1, OwnWrite DEF Running
<1>3. \A q \in Processes \ {u} : Rests(q)
  BY <1>1, BeginRests DEF Begin
<1>4. \A v \in Desks \ {u} : ~Running(v)
  BY <1>1, OneDesk
<1>5. OthersRest(u)
  BY <1>1, <1>3, <1>4, OvertakesSpares DEF Processes
<1>6. SnapshotOK(u)' /\ DeskOK(u)' /\ u \notin Mailers
  BY <1>2 DEF SnapshotOK, DeskOK, Intact
<1>7. \A n \in Mailers : job'[n] = job[n]
  BY <1>3, <1>6 DEF Rests, Processes
<1>. QED BY <1>1, <1>4, <1>5, <1>6, <1>7, OneMoves DEF Running

LEMMA MailMergeSeats ==
  ASSUME CapacityInv, TypeOK', NEW m \in Mailers, NEW b \in MailBookings, NEW r \in Rows,
         NEW confirm \in BOOLEAN, MailMerge(m, b, r, confirm)
  PROVE  SeatsInv'
<1>1. /\ TypeOK /\ m \in Processes /\ m \notin Desks /\ ~Running(m) /\ ~InHand(b) /\ Quiet
      /\ UNCHANGED <<lock, overtaken>>
  BY DEF MailMerge, CapacityInv, Processes, bookingVars, settingVars, Quiet
<1>2. PICK j \in MailJobs, s \in Snapshots :
        /\ Begin(m, j) /\ Look(m, s)
        /\ j.booking = b /\ j.row = r /\ r.status # "absent"
        /\ \/ /\ r.placed /\ r.dated /\ s = ReadFrom("slot", 0)
              /\ j.unseen = Hidden(j.open, j.closed)
           \/ ~(r.placed /\ r.dated) /\ s = Unread
  BY <1>1, MailMergeType
<1>3. job'[m] = j /\ snapshot'[m] = s
  BY <1>1, <1>2, OwnWrite
<1>4. OthersRest(m)
  <2>1. \A q \in Processes \ {m} : Rests(q)
    BY <1>1, <1>2, BeginRests DEF Begin, Look
  <2>. QED BY <1>1, <2>1, QuietOthers
<1>5. \A n \in Mailers \ {m} : job'[n] = job[n] /\ job[n].booking # b
  BY <1>1, <1>4 DEF OthersRest, Rests, Processes, InHand
<1>6. SnapshotOK(m)'
  <2>. SUFFICES ASSUME s.next # "done" PROVE SnapshotOK(m)'
    BY <1>3 DEF SnapshotOK
  <2>1. s.next = "slot" /\ s.seats = 0 /\ s.active_pax = 0
    BY <1>2 DEF ReadFrom, Unread
  <2>2. SeatsRead(m)' = 0
    BY <1>3, <2>1 DEF SeatsRead
  <2>3. PaxRead(m)' = View(m, job'[m], row', open', closed', {})
    BY <1>3, <2>1 DEF PaxRead, SeatsTaken, Summed, View
  <2>4. PaxRead(m)' = 0
    BY <2>3, TakenNone DEF View
  <2>. QED BY <1>3, <2>1, <2>2, <2>4 DEF SnapshotOK
<1>7. MailerOK(m)'
  <2>1. \A n \in Mailers : Running(n)' /\ job'[n].booking = j.booking => n = m
    BY <1>2, <1>5
  <2>2. s.next # "done" => j.unseen = Hidden(j.open, j.closed)
    BY <1>2 DEF Unread
  <2>3. ~(s.next = "done" /\ j.row.placed /\ j.row.dated)
    BY <1>2 DEF ReadFrom
  <2>. QED BY <1>2, <1>3, <2>1, <2>2, <2>3 DEF MailerOK
<1>8. \A u \in Desks : Running(u) => lock' = lock /\ NewBookings' # {}
  <2>1. NewBookings' = NewBookings
    BY <1>1 DEF NewBookings, Quiet
  <2>. QED BY <1>1, <2>1 DEF CapacityInv, SeatsInv, DeskOK
<1>9. \A k \in Mailers \ {m} : \A n \in Mailers :
        Running(k) /\ job'[n] # Idle /\ job'[n].booking = job[k].booking
          => Running(n) /\ job[n].booking = job[k].booking
  <2>. SUFFICES ASSUME NEW k \in Mailers \ {m}, NEW n \in Mailers, Running(k), job'[n] # Idle,
                       job'[n].booking = job[k].booking
                PROVE  Running(n) /\ job[n].booking = job[k].booking
    OBVIOUS
  <2>1. n # m
    BY <1>2, <1>3, <1>5
  <2>. QED BY <1>5, <2>1 DEF Running
<1>. QED BY <1>1, <1>4, <1>6, <1>7, <1>8, <1>9, OneMoves

LEMMA MailWarnSeats ==
  ASSUME CapacityInv, TypeOK', NEW m \in Mailers, MailWarn(m)
  PROVE  SeatsInv'
<1>. PICK j, w, s : /\ j = job[m]
                    /\ w = IF RemainingRead(m) < 0 THEN {"capacity_overbooked"} ELSE {}
                    /\ s = Settled(j, w)
  OBVIOUS
<1>1. /\ TypeOK /\ m \in Processes /\ m \notin Desks /\ snapshot[m].next = "exceptions"
      /\ Begin(m, s) /\ Look(m, Unread) /\ Quiet /\ UNCHANGED <<lock, overtaken>>
  BY DEF MailWarn, CapacityInv, Processes, bookingVars, settingVars, Quiet
<1>2. Running(m) /\ j \in MailJobs /\ MailerOK(m)
  <2>1. Running(m)
    BY <1>1, ReadersRun
  <2>. QED BY <1>1, <2>1, JobShape DEF CapacityInv, SeatsInv
<1>3. /\ s \in MailJobs /\ s.booking = j.booking /\ s.row = j.row /\ s.unseen = j.unseen
      /\ s.open = (j.open \cup w) \ Obsolete(j.row)
  <2>1. w \in SUBSET {"capacity_overbooked"}
    OBVIOUS
  <2>. QED BY <1>2, <2>1, SettledType
<1>4. job'[m] = s /\ snapshot'[m] = Unread /\ Unread.next = "done" /\ s # Idle
  BY <1>1, <1>3, OwnWrite, JobShape DEF Unread
<1>5. OthersRest(m)
  <2>1. \A q \in Processes \ {m} : Rests(q)
    BY <1>1, BeginRests DEF Begin, Look
  <2>. QED BY <1>1, <2>1, QuietOthers
<1>6. SnapshotOK(m)'
  BY <1>4 DEF SnapshotOK
<1>7. \A n \in Mailers \ {m} : job'[n] = job[n]
  BY <1>5 DEF OthersRest, Rests, Processes
<1>8. j.unseen = Hidden(j.open, j.closed) /\ j.row.status # "absent"
  BY <1>1, <1>2 DEF MailerOK
<1>9. \A n \in Mailers : Running(n)' /\ job'[n].booking = j.booking => n = m
  <2>1. \A n \in Mailers : Running(n) /\ job[n].booking = j.booking => n = m
    BY <1>2 DEF MailerOK
  <2>. QED BY <1>7, <2>1 DEF Running
<1>10. ASSUME ~j.unseen PROVE LeftFor(m) <= LeftFor(m)'
  <2>. PICK b, k, n : /\ b = j.booking
                      /\ k = View(m, j, row, open, closed, Active)
                      /\ n = View(m, s, row, open, closed, Active)
    OBVIOUS
  <2>. PICK rows, opens, closes, opens2, closes2 :
         /\ rows = [row EXCEPT ![b] = j.row] /\ opens = [open EXCEPT ![b] = j.open]
         /\ closes = [closed EXCEPT ![b] = j.closed]
         /\ opens2 = [open EXCEPT ![b] = s.open] /\ closes2 = [closed EXCEPT ![b] = s.closed]
    OBVIOUS
  <2>1. Book(row, open, closed) /\ b \in Bookings
    BY <1>1, <1>2 DEF TypeOK, Book, MailJobs, Bookings
  <2>2. Book(rows, opens, closes) /\ Book(rows, opens2, closes2)
    BY <1>2, <1>3, <2>1, SeenType
  <2>3. k = Taken(Active, rows, opens, closes) /\ n = Taken(Active, rows, opens2, closes2)
    BY <1>3 DEF View
  <2>4. AgreeBut(b, rows, opens, closes, rows, opens2, closes2)
    BY <2>1 DEF AgreeBut, Book
  <2>5. n + PaxOf(b, Active, rows, opens, closes) = k + PaxOf(b, Active, rows, opens2, closes2)
    BY <2>1, <2>2, <2>3, <2>4, Exchange
  <2>6. opens[b] = j.open /\ closes[b] = j.closed
    BY <2>1 DEF Book
  <2>7. PaxOf(b, Active, rows, opens2, closes2) <= PaxOf(b, Active, rows, opens, closes)
    <3>1. PaxOf(b, Active, rows, opens2, closes2) \in Nat
          /\ PaxOf(b, Active, rows, opens, closes) \in Nat
      BY <2>1, <2>2, PaxType
    <3>2. ~Hidden(opens[b], closes[b])
      BY <1>8, <1>10, <2>6
    <3>3. PaxOf(b, Active, rows, opens2, closes2) \in {0, PaxOf(b, Active, rows, opens, closes)}
      BY <3>2 DEF PaxOf
    <3>. QED BY <3>1, <3>3
  <2>8. n <= k
    <3>1. n \in Nat /\ k \in Nat /\ PaxOf(b, Active, rows, opens2, closes2) \in Nat
          /\ PaxOf(b, Active, rows, opens, closes) \in Nat
      BY <2>1, <2>2, <2>3, TakenType, PaxType
    <3>. QED BY <2>5, <2>7, <3>1
  <2>. PICK d : d = capacity - BlockedPax(capacity, exceptions)
    OBVIOUS
  <2>9. d \in Int /\ n \in Nat /\ k \in Nat
    <3>1. capacity \in Nat /\ BlockedPax(capacity, exceptions) \in Int
      BY <1>1, BlockedType DEF TypeOK
    <3>. QED BY <2>2, <2>3, <3>1, TakenType
  <2>10. LeftFor(m) = d - k
    BY ViewNow DEF LeftFor
  <2>11. LeftFor(m)' = d - n
    <3>1. LeftFor(m)' = capacity' - BlockedPax(capacity', exceptions')
                          - View(m, job'[m], row', open', closed', Active)
      BY DEF LeftFor, SeatsTaken, View
    <3>. QED BY <1>1, <1>4, <3>1 DEF Quiet
  <2>. QED BY <2>8, <2>9, <2>10, <2>11
<1>11. ASSUME Intact(m)', ~s.unseen, "capacity_overbooked" \notin s.open
       PROVE  0 <= LeftFor(m)'
  <2>1. w = {}
    <3>1. "capacity_overbooked" \notin Obsolete(j.row)
      BY DEF Obsolete, UnmappedIssues
    <3>. QED BY <1>3, <1>11, <3>1
  <2>2. ~(RemainingRead(m) < 0)
    BY <2>1
  <2>3. Intact(m)
    BY <1>1, <1>2, <1>11 DEF Intact
  <2>4. RemainingRead(m) \in Int /\ RemainingRead(m) <= LeftFor(m)
    BY <1>1, <2>3, ReadFits
  <2>5. LeftFor(m) <= LeftFor(m)'
    BY <1>3, <1>10, <1>11
  <2>6. LeftFor(m) \in Int /\ LeftFor(m)' \in Int
    BY <1>1, <1>2, <1>4, SeatNumbers DEF Running
  <2>. QED BY <2>2, <2>4, <2>5, <2>6
<1>12. MailerOK(m)'
  BY <1>3, <1>4, <1>8, <1>9, <1>11 DEF MailerOK
<1>13. \A u \in Desks : Running(u) => lock' = lock /\ NewBookings' # {}
  <2>1. NewBookings' = NewBookings
    BY <1>1 DEF NewBookings, Quiet
  <2>. QED BY <1>1, <2>1 DEF CapacityInv, SeatsInv, DeskOK
<1>14. \A n \in Mailers : job'[n] # Idle => Running(n) /\ job'[n].booking = job[n].booking
  BY <1>2, <1>3, <1>4, <1>7 DEF Running
<1>. QED BY <1>1, <1>5, <1>6, <1>12, <1>13, <1>14, OneMoves

\* A commit that refers to a locked row anew waits until no desk is under way.
LEMMA NotAwaitedRuns ==
  ASSUME CapacityInv, NEW old, NEW r, Waits(old, r)
  PROVE  \A q \in Processes : Running(q) => q \in NotAwaited(old, r)
<1>1. CASE RefersAnew(old, r)
  BY <1>1, OneDesk DEF Waits, NotAwaited, Processes
<1>2. CASE ~RefersAnew(old, r)
  BY <1>2 DEF NotAwaited
<1>. QED BY <1>1, <1>2

\* An email's commit makes the booking what its transaction saw of it.
LEMMA MailCommitFacts ==
  ASSUME CapacityInv, TypeOK', NEW m \in Mailers, MailCommit(m)
  PROVE  /\ Running(m) /\ job[m] \in MailJobs /\ LeftFor(m) \in Int /\ Remaining' = LeftFor(m)
         /\ row' = [row EXCEPT ![job[m].booking] = job[m].row]
         /\ open' = [open EXCEPT ![job[m].booking] = job[m].open]
<1>1. TypeOK /\ Running(m) /\ m \in Processes
  BY DEF MailCommit, CapacityInv, Processes
<1>2. job[m] \in MailJobs /\ LeftFor(m) \in Int
  BY <1>1, JobShape, SeatNumbers
<1>. PICK j : j = job[m]
  OBVIOUS
<1>3. /\ row' = [row EXCEPT ![j.booking] = j.row] /\ open' = [open EXCEPT ![j.booking] = j.open]
      /\ closed' = [closed EXCEPT ![j.booking] = j.closed]
      /\ capacity' = capacity /\ exceptions' = exceptions
  BY DEF MailCommit, settingVars
<1>4. SeatsTaken(m, Active) = Taken(Active, row', open', closed')
  BY <1>3 DEF SeatsTaken
<1>5. Remaining' = capacity' - BlockedPax(capacity', exceptions') - Taken(Active, row', open', closed')
  BY DEF Remaining
<1>6. Remaining' = LeftFor(m)
  BY <1>3, <1>4, <1>5 DEF LeftFor
<1>. QED BY <1>1, <1>2, <1>3, <1>6

LEMMA MailCommitSeats ==
  ASSUME CapacityInv, TypeOK', NEW m \in Mailers, MailCommit(m)
  PROVE  SeatsInv'
<1>. PICK b, r : b = job[m].booking /\ r = job[m].row
  OBVIOUS
<1>1. /\ TypeOK /\ m \in Processes /\ m \notin Desks /\ b \in MailBookings
      /\ row' = [row EXCEPT ![b] = r] /\ Begin(m, Idle) /\ snapshot' = snapshot /\ lock' = lock
      /\ Waits(row[b], r) /\ Overtakes(m, NotAwaited(row[b], r))
  BY MailCommitFacts DEF MailCommit, CapacityInv, Processes, MailJobs
<1>2. job'[m] = Idle /\ ~Running(m)'
  BY <1>1, OwnWrite DEF Running
<1>3. \A q \in Processes \ {m} : Rests(q)
  BY <1>1, BeginRests DEF Begin
<1>4. OthersRest(m)
  BY <1>1, <1>3, NotAwaitedRuns, OvertakesSpares
<1>5. SnapshotOK(m)' /\ MailerOK(m)'
  BY <1>2 DEF SnapshotOK, MailerOK, Intact
<1>6. NewBookings' = NewBookings
  <2>1. \A c \in DeskBookings : row'[c] = row[c]
    BY <1>1 DEF TypeOK, Bookings
  <2>. QED BY <2>1 DEF NewBookings
<1>7. \A u \in Desks : Running(u) => NewBookings' # {}
  BY <1>6 DEF CapacityInv, SeatsInv, DeskOK
<1>8. \A n \in Mailers : job'[n] # Idle => job'[n] = job[n]
  BY <1>2, <1>3 DEF Rests, Processes
<1>. QED BY <1>1, <1>4, <1>5, <1>7, <1>8, OneMoves DEF Running

\* Nobody's transaction moves.
LEMMA NobodyMoves ==
  ASSUME CapacityInv, TypeOK', UNCHANGED <<job, lock, snapshot>>, NewBookings' = NewBookings,
         OthersRest(NoOne)
  PROVE  SeatsInv'
<1>1. NoOne \notin Processes /\ NoOne \notin Desks /\ NoOne \notin Mailers
  BY DEF Processes
<1>2. \A u \in Desks : Running(u) => NewBookings # {}
  BY DEF CapacityInv, SeatsInv, DeskOK
<1>. QED BY <1>1, <1>2, OneMoves DEF Running

LEMMA EditSeats ==
  ASSUME CapacityInv, TypeOK', NEW b \in Bookings, NEW r \in Rows, EditBooking(b, r)
  PROVE  SeatsInv'
<1>1. /\ TypeOK /\ row' = [row EXCEPT ![b] = r] /\ row[b].status # "absent" /\ r.status # "absent"
      /\ UNCHANGED <<job, lock, snapshot>>
      /\ Waits(row[b], r) /\ Overtakes(NoOne, NotAwaited(row[b], r))
  BY DEF EditBooking, CapacityInv
<1>2. NewBookings' = NewBookings
  BY <1>1 DEF NewBookings, TypeOK, Bookings
<1>3. OthersRest(NoOne)
  BY <1>1, NotAwaitedRuns, OvertakesSpares DEF Rests
<1>. QED BY <1>1, <1>2, <1>3, NobodyMoves

LEMMA CloseSeats ==
  ASSUME CapacityInv, TypeOK', NEW b \in Bookings, NEW issues, CloseReviews(b, issues)
  PROVE  SeatsInv'
<1>1. UNCHANGED <<row, job, lock, snapshot>> /\ Overtakes(NoOne, Processes)
  BY DEF CloseReviews
<1>2. NewBookings' = NewBookings
  BY <1>1 DEF NewBookings
<1>3. OthersRest(NoOne)
  BY <1>1, OvertakesSpares DEF Rests
<1>. QED BY <1>1, <1>2, <1>3, NobodyMoves

LEMMA AdministratorSeats ==
  ASSUME CapacityInv, TypeOK', Administrator
  PROVE  SeatsInv'
<1>1. UNCHANGED <<row, job, lock, snapshot>>
  BY DEF Administrator, SaveAlias, UpdateSlotCapacity, AddException, ChangeException, bookingVars
<1>2. NewBookings' = NewBookings
  BY <1>1 DEF NewBookings
<1>3. \/ Quiet /\ overtaken' = overtaken
      \/ lock = NoOne /\ Overtakes(NoOne, Mailers)
      \/ Overtakes(NoOne, Processes)
  BY DEF Administrator, SaveAlias, UpdateSlotCapacity, AddException, ChangeException, bookingVars,
         Quiet
<1>4. CASE Quiet /\ overtaken' = overtaken
  <2>1. OthersRest(NoOne)
    BY <1>1, <1>4, QuietOthers DEF Rests
  <2>. QED BY <1>1, <1>2, <2>1, NobodyMoves
<1>5. CASE lock = NoOne /\ Overtakes(NoOne, Mailers)
  <2>1. OthersRest(NoOne)
    BY <1>1, <1>5, OneDesk, OvertakesSpares DEF Rests, Processes
  <2>. QED BY <1>1, <1>2, <2>1, NobodyMoves
<1>6. CASE Overtakes(NoOne, Processes)
  <2>1. OthersRest(NoOne)
    BY <1>1, <1>6, OvertakesSpares DEF Rests
  <2>. QED BY <1>1, <1>2, <2>1, NobodyMoves
<1>. QED BY <1>3, <1>4, <1>5, <1>6

LEMMA StutterSeats ==
  ASSUME CapacityInv, TypeOK', UNCHANGED vars
  PROVE  SeatsInv'
<1>1. Quiet /\ UNCHANGED <<job, lock, snapshot, overtaken>>
  BY DEF vars, bookingVars, settingVars, Quiet
<1>2. NewBookings' = NewBookings
  BY <1>1 DEF NewBookings, Quiet
<1>3. OthersRest(NoOne)
  BY <1>1, QuietOthers DEF Rests
<1>. QED BY <1>1, <1>2, <1>3, NobodyMoves

LEMMA CapacityStep == CapacityInv /\ [Next]_vars => CapacityInv'
<1>. SUFFICES ASSUME CapacityInv, [Next]_vars PROVE CapacityInv'
  OBVIOUS
<1>1. TypeOK'
  BY TypeStep
<1>2. SeatsInv'
  <2>1. ASSUME NEW u \in Desks, Desk(u) PROVE SeatsInv'
    BY <1>1, <2>1, DeskLockSeats, SumPaxSeats, DeskDecideSeats, DeskCommitSeats, RollbackSeats
       DEF Desk, Processes
  <2>2. ASSUME NEW m \in Mailers, Mailer(m) PROVE SeatsInv'
    BY <1>1, <2>2, MailMergeSeats, LoadSlotSeats, SumPaxSeats, MailWarnSeats, MailCommitSeats,
       RollbackSeats DEF Mailer, Processes
  <2>3. CASE Operator
    BY <1>1, <2>3, EditSeats, CloseSeats DEF Operator
  <2>4. CASE Administrator
    BY <1>1, <2>4, AdministratorSeats
  <2>5. CASE UNCHANGED vars
    BY <1>1, <2>5, StutterSeats
  <2>. QED BY <2>1, <2>2, <2>3, <2>4, <2>5 DEF Next
<1>. QED BY <1>1, <1>2 DEF CapacityInv

LEMMA CapacityAlways == Spec => []CapacityInv
BY CapacityInit, CapacityStep, PTL DEF Spec

\* The rows, their reviews and the settings stay well typed, and the row locks
\* are held by a desk under way or by nobody: no path through
\* create_internal_booking ends with them.
THEOREM TypeCorrect == Spec => []TypeOK
<1>1. CapacityInv => TypeOK
  BY DEF CapacityInv
<1>. QED BY <1>1, CapacityAlways, PTL

-----------------------------------------------------------------------------
(* The two promises.                                                       *)

\* Who commits made a row: every other step leaves each transaction under way
\* as it is, or leaves the rows.
LEMMA WhoCommits ==
  ASSUME CapacityInv, [Next]_vars, NEW p \in Processes, Commits(p)
  PROVE  (p \in Desks /\ DeskCommit(p)) \/ (p \in Mailers /\ MailCommit(p))
<1>1. row' # row /\ job'[p] # job[p]
  BY DEF Commits, Running
<1>2. ~(UNCHANGED vars) /\ ~Operator /\ ~Administrator
  BY <1>1 DEF vars, Operator, EditBooking, CloseReviews, Administrator, SaveAlias,
              UpdateSlotCapacity, AddException, ChangeException
<1>3. ASSUME NEW u \in Desks, Desk(u) PROVE p = u /\ DeskCommit(u)
  <2>1. DeskCommit(u)
    BY <1>1, <1>3 DEF Desk, DeskLock, SumPax, DeskDecide, Rollback, bookingVars
  <2>2. job' = [job EXCEPT ![u] = Idle]
    BY <2>1 DEF DeskCommit, Begin
  <2>. QED BY <1>1, <2>1, <2>2 DEF CapacityInv, TypeOK
<1>4. ASSUME NEW m \in Mailers, Mailer(m) PROVE p = m /\ MailCommit(m)
  <2>1. MailCommit(m)
    BY <1>1, <1>4 DEF Mailer, MailMerge, LoadSlot, SumPax, MailWarn, Rollback, bookingVars
  <2>2. job' = [job EXCEPT ![m] = Idle]
    BY <2>1 DEF MailCommit, Begin
  <2>. QED BY <1>1, <2>1, <2>2 DEF CapacityInv, TypeOK
<1>. QED BY <1>2, <1>3, <1>4 DEF Next

\* A desk that commits was ready to, so what it decided still stands.
LEMMA DeskDecided ==
  ASSUME CapacityInv, NEW u \in Desks, DeskCommit(u), u \notin overtaken
  PROVE  /\ job[u].allow \/ ~job[u].over
         /\ ~job[u].over => job[u].pax <= LeftFor(u)
BY DEF CapacityInv, SeatsInv, DeskOK, DeskCommit, Intact

LEMMA FitsStep ==
  ASSUME CapacityInv, [Next]_vars, NEW u \in Desks,
         Commits(u), u \notin overtaken, ~job[u].allow
  PROVE  Remaining' >= 0
<1>1. TypeOK' /\ DeskCommit(u)
  BY TypeStep, WhoCommits DEF Processes
<1>2. /\ job[u].pax \in Int /\ LeftFor(u) \in Int
      /\ Remaining' = LeftFor(u) - job[u].pax
  BY <1>1, DeskCommitFacts
<1>3. job[u].pax <= LeftFor(u)
  BY <1>1, DeskDecided
<1>. QED BY <1>2, <1>3

\* create_internal_booking: an internal booking whose request did not allow
\* overbooking leaves the slot within its capacity, unless a commit that does
\* not wait for its row locks made worse what it had read already: its three
\* sums and the exceptions need not belong to one instant.
THEOREM InternalBookingsFit == Spec => InternalFits
<1>1. CapacityInv /\ [Next]_vars =>
        \A u \in Desks : Commits(u) /\ u \notin overtaken /\ ~job[u].allow => Remaining' >= 0
  BY FitsStep
<1>2. CapacityInv /\ [Next]_vars =>
        [\A u \in Desks : Commits(u) /\ u \notin overtaken /\ ~job[u].allow => Remaining' >= 0]_vars
  BY <1>1
<1>. QED BY <1>2, CapacityAlways, PTL DEF Spec, InternalFits

LEMMA FlagStep ==
  ASSUME CapacityInv, [Next]_vars, NEW p \in Processes, NEW b \in Bookings,
         Commits(p), p \notin overtaken, row'[b] # row[b], row'[b].placed, row'[b].dated,
         p \in Mailers => ~job[p].unseen, Remaining' < 0
  PROVE  "capacity_overbooked" \in open'[b]
<1>1. TypeOK /\ TypeOK'
  BY TypeStep DEF CapacityInv
<1>2. CASE p \in Desks /\ DeskCommit(p)
  <2>1. /\ job[p].pax \in Int /\ LeftFor(p) \in Int /\ Remaining' = LeftFor(p) - job[p].pax
    BY <1>1, <1>2, DeskCommitFacts
  <2>2. job[p].over
    BY <1>2, <2>1, DeskDecided
  <2>3. PICK c \in NewBookings : \E r :
          row' = [row EXCEPT ![c] = r] /\ open' = [open EXCEPT ![c] = {"capacity_overbooked"}]
    BY <1>1, <1>2, <2>2, DeskCommitFacts
  <2>4. b = c
    BY <1>1, <2>3 DEF TypeOK
  <2>. QED BY <1>1, <2>3, <2>4 DEF TypeOK
<1>3. CASE p \in Mailers /\ MailCommit(p)
  <2>. PICK j : j = job[p]
    OBVIOUS
  <2>1. /\ Running(p) /\ Remaining' = LeftFor(p) /\ LeftFor(p) \in Int
        /\ row' = [row EXCEPT ![j.booking] = j.row] /\ open' = [open EXCEPT ![j.booking] = j.open]
    BY <1>1, <1>3, MailCommitFacts
  <2>2. b = j.booking /\ row'[b] = j.row /\ open'[b] = j.open
    BY <1>1, <2>1 DEF TypeOK
  <2>. SUFFICES ASSUME "capacity_overbooked" \notin j.open PROVE FALSE
    BY <2>2
  <2>3. 0 <= LeftFor(p)
    <3>1. MailerOK(p) /\ snapshot[p].next = "done"
      BY <1>3 DEF CapacityInv, SeatsInv, MailCommit
    <3>. QED BY <1>3, <2>1, <2>2, <3>1 DEF MailerOK, Intact
  <2>. QED BY <2>1, <2>3
<1>. QED BY <1>2, <1>3, WhoCommits

\* create_internal_booking and warn_if_capacity_overbooked: a transaction that
\* leaves the slot over its capacity leaves the capacity_overbooked item open on
\* the booking it wrote, unless a commit made worse what it had read already, or
\* its sums left its own booking out.
THEOREM OverbookingFlagged == Spec => OverbookingIsFlagged
<1>. DEFINE Flagged ==
       \A p \in Processes : \A b \in Bookings :
         /\ Commits(p) /\ p \notin overtaken
         /\ row'[b] # row[b] /\ row'[b].placed /\ row'[b].dated
         /\ p \in Mailers => ~job[p].unseen
         /\ Remaining' < 0
         => "capacity_overbooked" \in open'[b]
<1>1. CapacityInv /\ [Next]_vars => Flagged
  BY FlagStep
<1>2. CapacityInv /\ [Next]_vars => [Flagged]_vars
  BY <1>1
<1>. QED BY <1>2, CapacityAlways, PTL DEF Spec, OverbookingIsFlagged

=============================================================================
