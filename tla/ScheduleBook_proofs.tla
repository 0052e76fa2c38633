------------------------ MODULE ScheduleBook_proofs ------------------------
(***************************************************************************)
(* Proofs about ScheduleBook, for any bookings, calendar, catalogue and    *)
(* edits.                                                                  *)
(***************************************************************************)
EXTENDS ScheduleBook, FiniteSetTheorems, WellFoundedInduction, TLAPS

-----------------------------------------------------------------------------
(* Least and greatest.                                                     *)

LEMMA LeastExists ==
  ASSUME NEW S \in SUBSET Nat, S # {}
  PROVE  \E n \in S : \A k \in S : n <= k
<1>1. PICK n \in S : \A k \in S : ~ (<<k, n>> \in OpToRel(<, Nat))
  <2>1. S \subseteq Nat
    OBVIOUS
  <2>. QED BY <2>1, NatLessThanWellFounded, WFMin, Zenon
<1>2. ASSUME NEW k \in S, ~(n <= k) PROVE FALSE
  <2>1. k < n /\ k \in Nat /\ n \in Nat
    BY <1>2
  <2>2. <<k, n>> \in OpToRel(<, Nat)
    BY <2>1 DEF OpToRel
  <2>. QED BY <1>1, <2>2
<1>. QED BY <1>2

LEMMA GreatestExists ==
  ASSUME NEW S \in SUBSET Nat, S # {}, NEW b \in Nat, \A k \in S : k <= b
  PROVE  \E n \in S : \A k \in S : k <= n
<1>. DEFINE T == {n \in Nat : \E k \in S : n = b - k}
<1>1. \A k \in S : b - k \in T
  OBVIOUS
<1>2. T \in SUBSET Nat /\ T # {}
  BY <1>1
<1>. HIDE DEF T
<1>3. PICK m \in T : \A k \in T : m <= k
  BY <1>2, LeastExists
<1>4. PICK n \in S : m = b - n
  BY DEF T
<1>5. ASSUME NEW k \in S PROVE k <= n
  BY <1>1, <1>3, <1>4
<1>. QED BY <1>5

\* A finite set of naturals has a largest element: of the sets without one, a
\* smallest would leave a smaller one.
LEMMA FiniteGreatest ==
  ASSUME NEW S \in SUBSET Nat, S # {}, IsFiniteSet(S)
  PROVE  \E n \in S : \A k \in S : k <= n
<1>. DEFINE Endless(T) == /\ T \in SUBSET Nat /\ T # {} /\ IsFiniteSet(T)
                          /\ ~ \E n \in T : \A k \in T : k <= n
            sizes == {n \in Nat : \E T : Endless(T) /\ Cardinality(T) = n}
<1>. SUFFICES ASSUME Endless(S) PROVE FALSE
  OBVIOUS
<1>1. Cardinality(S) \in sizes
  BY FS_CardinalityType
<1>2. PICK n \in sizes : \A m \in sizes : n <= m
  <2>1. sizes \in SUBSET Nat /\ sizes # {}
    BY <1>1
  <2>. HIDE DEF sizes
  <2>. QED BY <2>1, LeastExists
<1>3. PICK T : Endless(T) /\ Cardinality(T) = n
  OBVIOUS
<1>4. PICK x \in T : x \in Nat
  BY <1>3
<1>. DEFINE R == T \ {x}
<1>5. IsFiniteSet(R) /\ Cardinality(R) = n - 1 /\ n \in Nat
  BY <1>3, FS_RemoveElement
<1>6. CASE R = {}
  <2>1. T = {x}
    BY <1>6
  <2>2. \A k \in T : k <= x
    BY <1>4, <2>1
  <2>. QED BY <1>3, <2>2
<1>7. CASE R # {}
  <2>1. ~Endless(R)
    <3>. SUFFICES ASSUME Endless(R) PROVE FALSE
      OBVIOUS
    <3>1. Cardinality(R) \in Nat
      BY <1>5, FS_CardinalityType
    <3>2. Cardinality(R) \in sizes
      BY <3>1
    <3>3. n <= Cardinality(R)
      BY <1>2, <3>2
    <3>. HIDE DEF R
    <3>. QED BY <1>5, <3>1, <3>3
  <2>2. R \in SUBSET Nat
    BY <1>3
  <2>3. PICK m \in R : \A k \in R : k <= m
    BY <1>5, <1>7, <2>1, <2>2
  <2>4. m \in Nat /\ m \in T
    BY <2>2
  <2>5. CASE m <= x
    <3>1. \A k \in T : k <= x
      BY <1>3, <1>4, <2>3, <2>4, <2>5
    <3>. QED BY <1>3, <3>1
  <2>6. CASE x <= m
    <3>1. \A k \in T : k <= m
      BY <1>3, <1>4, <2>3, <2>4, <2>6
    <3>. QED BY <1>3, <2>4, <3>1
  <2>. QED BY <1>4, <2>4, <2>5, <2>6
<1>. QED BY <1>6, <1>7

-----------------------------------------------------------------------------
(* Tables.                                                                 *)

\* Rows by positive ids below some bound.
Table(t) ==
  /\ DOMAIN t \subseteq Nat \ {0} /\ t = [i \in DOMAIN t |-> t[i]]
  /\ \E n \in Nat : \A i \in DOMAIN t : i <= n

LEMMA NextFresh ==
  ASSUME NEW t, Table(t)
  PROVE  NextId(t) \in Nat \ {0} /\ \A i \in DOMAIN t : i < NextId(t)
<1>1. CASE DOMAIN t = {}
  BY <1>1 DEF NextId
<1>2. CASE DOMAIN t # {}
  <2>. DEFINE D == DOMAIN t
             m == CHOOSE i \in D : \A j \in D : j <= i
  <2>1. D \in SUBSET Nat /\ D # {} /\ \E n \in Nat : \A i \in D : i <= n
    BY <1>2 DEF Table
  <2>. HIDE DEF D
  <2>2. \E i \in D : \A j \in D : j <= i
    BY <2>1, GreatestExists
  <2>3. m \in D /\ \A j \in D : j <= m
    BY <2>2
  <2>4. NextId(t) = 1 + m
    BY <1>2 DEF NextId, D
  <2>. HIDE DEF m
  <2>5. m \in Nat /\ D \in SUBSET Nat
    BY <2>1, <2>3
  <2>6. \A j \in D : j < NextId(t)
    BY <2>3, <2>4, <2>5
  <2>. QED BY <2>4, <2>5, <2>6 DEF D
<1>. QED BY <1>1, <1>2

\* w is t with row r under id.
Put(w, t, id, r) ==
  /\ Table(w) /\ DOMAIN w = DOMAIN t \cup {id} /\ w[id] = r
  /\ \A i \in DOMAIN t \ {id} : w[i] = t[i]

LEMMA TableWith ==
  ASSUME NEW t, Table(t), NEW id \in Nat \ {0}, NEW r
  PROVE  Put(With(t, id, r), t, id, r)
<1>1. PICK n \in Nat : \A i \in DOMAIN t : i <= n
  BY DEF Table
<1>2. \A i \in DOMAIN t \cup {id} : i <= n + id
  BY <1>1 DEF Table
<1>. QED BY <1>2 DEF With, Table, Put

\* w is t without the rows ids.
Taken(w, t, ids) ==
  Table(w) /\ DOMAIN w = DOMAIN t \ ids /\ \A i \in DOMAIN w : w[i] = t[i]

LEMMA TableWithout ==
  ASSUME NEW t, Table(t), NEW ids
  PROVE  Taken(Without(t, ids), t, ids)
BY DEF Table, Without, Taken

LEMMA TableFinite ==
  ASSUME NEW t, Table(t)
  PROVE  IsFiniteSet(DOMAIN t)
<1>1. PICK n \in Nat : \A i \in DOMAIN t : i <= n
  BY DEF Table
<1>2. DOMAIN t \in SUBSET Nat
  BY DEF Table
<1>. QED BY <1>1, <1>2, FS_BoundedSetOfNaturals

\* At most one element.
LEMMA AtMostOne ==
  ASSUME NEW S, IsFiniteSet(S), ~(Cardinality(S) > 1), NEW x \in S, NEW y \in S
  PROVE  x = y
<1>. SUFFICES ASSUME x # y PROVE FALSE
  OBVIOUS
<1>1. IsFiniteSet({x}) /\ Cardinality({x}) = 1
  BY FS_Singleton
<1>2. IsFiniteSet({x, y}) /\ Cardinality({x, y}) = 2
  <2>1. {x, y} = {x} \cup {y} /\ y \notin {x}
    OBVIOUS
  <2>2. IsFiniteSet({x} \cup {y}) /\ Cardinality({x} \cup {y}) = 1 + 1
    <3>1. Cardinality({x} \cup {y}) = IF y \in {x} THEN Cardinality({x}) ELSE Cardinality({x}) + 1
      BY <1>1, FS_AddElement
    <3>2. IsFiniteSet({x} \cup {y})
      BY <1>1, FS_AddElement
    <3>. QED BY <1>1, <2>1, <3>1, <3>2, Zenon
  <2>3. Cardinality({x} \cup {y}) = 2
    BY <1>1, <2>2
  <2>. QED BY <2>1, <2>2, <2>3, Zenon
<1>3. Cardinality({x, y}) <= Cardinality(S) /\ Cardinality(S) \in Nat
  BY <1>2, FS_Subset, FS_CardinalityType
<1>. QED BY <1>2, <1>3

-----------------------------------------------------------------------------
(* update_or_create.                                                       *)

\* What the keys find: rows of the table, no row by two keys.
Found(t, found) ==
  /\ Table(t)
  /\ DOMAIN found \subseteq Nat /\ IsFiniteSet(DOMAIN found)
  /\ \A k \in DOMAIN found : found[k] \subseteq DOMAIN t
  /\ \A k, l \in DOMAIN found : k # l => found[k] \cap found[l] = {}

LEMMA IdsFacts ==
  ASSUME NEW t, NEW found, Found(t, found)
  PROVE  /\ DOMAIN IdsOf(t, found) = DOMAIN found
         /\ \E n \in Nat : \A k \in DOMAIN found :
              IdsOf(t, found)[k] \in Nat \ {0} /\ IdsOf(t, found)[k] <= n
         /\ \A k \in DOMAIN found :
              IF found[k] = {} THEN IdsOf(t, found)[k] \notin DOMAIN t
              ELSE IdsOf(t, found)[k] \in found[k]
         /\ \A k, l \in DOMAIN found : IdsOf(t, found)[k] = IdsOf(t, found)[l] => k = l
<1>. DEFINE K == DOMAIN found
            ids == IdsOf(t, found)
            Before(k) == {l \in K : l < k /\ found[l] = {}}
            next == NextId(t)
<1>1. next \in Nat \ {0} /\ \A i \in DOMAIN t : i < next
  BY NextFresh DEF Found
<1>2. K \in SUBSET Nat /\ IsFiniteSet(K) /\ Cardinality(K) \in Nat
  BY FS_CardinalityType DEF Found
<1>3. \A k \in K : ids[k] = IF found[k] = {} THEN next + Cardinality(Before(k))
                           ELSE CHOOSE i \in found[k] : TRUE
  BY DEF IdsOf
<1>4. DOMAIN ids = K
  BY DEF IdsOf
<1>5. \A k \in K : /\ IsFiniteSet(Before(k)) /\ Cardinality(Before(k)) \in Nat
                  /\ Cardinality(Before(k)) <= Cardinality(K)
  <2>. SUFFICES ASSUME NEW k \in K
                PROVE  /\ IsFiniteSet(Before(k)) /\ Cardinality(Before(k)) \in Nat
                       /\ Cardinality(Before(k)) <= Cardinality(K)
    OBVIOUS
  <2>1. Before(k) \in SUBSET K
    OBVIOUS
  <2>. HIDE DEF Before
  <2>. QED BY <1>2, <2>1, FS_Subset, FS_CardinalityType
<1>6. \A k \in K : IF found[k] = {} THEN ids[k] = next + Cardinality(Before(k))
                  ELSE ids[k] \in found[k]
  BY <1>3
<1>7. \A k, l \in K : k < l /\ found[k] = {} /\ found[l] = {} =>
        Cardinality(Before(k)) < Cardinality(Before(l))
  <2>. SUFFICES ASSUME NEW k \in K, NEW l \in K, k < l, found[k] = {}, found[l] = {}
                PROVE  Cardinality(Before(k)) < Cardinality(Before(l))
    OBVIOUS
  <2>1. Before(k) \in SUBSET Before(l) /\ k \in Before(l) /\ k \notin Before(k)
    BY <1>2
  <2>2. Before(k) # Before(l)
    BY <2>1
  <2>. HIDE DEF Before, K
  <2>3. Cardinality(Before(k)) <= Cardinality(Before(l))
        /\ (Cardinality(Before(l)) = Cardinality(Before(k)) => Before(l) = Before(k))
    BY <1>5, <2>1, FS_Subset
  <2>. QED BY <1>5, <2>2, <2>3
<1>. HIDE DEF Before, ids, next, K
<1>8. \A k \in K : found[k] \subseteq DOMAIN t /\ DOMAIN t \subseteq Nat \ {0}
  BY DEF Found, Table, K
<1>9. \A k \in K : ids[k] \in Nat \ {0} /\ ids[k] <= next + Cardinality(K)
  <2>. TAKE k \in K
  <2>1. CASE found[k] = {}
    BY <1>1, <1>2, <1>5, <1>6, <2>1
  <2>2. CASE found[k] # {}
    <3>1. ids[k] \in DOMAIN t /\ ids[k] \in Nat \ {0}
      BY <1>6, <1>8, <2>2
    <3>. QED BY <1>1, <1>2, <3>1
  <2>. QED BY <2>1, <2>2
<1>10. \A k \in K : found[k] = {} => ids[k] \notin DOMAIN t
  <2>. SUFFICES ASSUME NEW k \in K, found[k] = {}, ids[k] \in DOMAIN t PROVE FALSE
    OBVIOUS
  <2>1. ids[k] = next + Cardinality(Before(k)) /\ ids[k] < next
    BY <1>1, <1>6
  <2>. QED BY <1>1, <1>5, <2>1
<1>11. \A k, l \in K : ids[k] = ids[l] => k = l
  <2>. SUFFICES ASSUME NEW k \in K, NEW l \in K, ids[k] = ids[l], k # l PROVE FALSE
    OBVIOUS
  <2>1. CASE found[k] = {} /\ found[l] = {}
    <3>1. Cardinality(Before(k)) = Cardinality(Before(l))
      BY <1>1, <1>5, <1>6, <2>1
    <3>2. k < l \/ l < k
      BY <1>2
    <3>3. Cardinality(Before(k)) < Cardinality(Before(l)) \/ Cardinality(Before(l)) < Cardinality(Before(k))
      BY <1>7, <2>1, <3>2
    <3>. QED BY <1>5, <3>1, <3>3
  <2>2. CASE found[k] # {} /\ found[l] # {}
    <3>1. ids[k] \in found[k] \cap found[l]
      BY <1>6, <2>2
    <3>. QED BY <3>1 DEF Found, K
  <2>3. CASE (found[k] = {}) # (found[l] = {})
    <3>1. (ids[k] \in DOMAIN t) # (ids[l] \in DOMAIN t)
      BY <1>6, <1>8, <1>10, <2>3
    <3>. QED BY <3>1
  <2>. QED BY <2>1, <2>2, <2>3
<1>12. \E n \in Nat : \A k \in K : ids[k] \in Nat \ {0} /\ ids[k] <= n
  <2>1. next + Cardinality(K) \in Nat
    BY <1>1, <1>2
  <2>. QED BY <1>9, <2>1
<1>. QED BY <1>4, <1>6, <1>10, <1>11, <1>12 DEF ids, K

\* A loop of update_or_create leaves each key its row under its id and the
\* other rows alone.
Loaded(u, t, K, ids, rows) ==
  /\ Table(u)
  /\ DOMAIN u = DOMAIN t \cup {ids[k] : k \in K}
  /\ \A k \in K : u[ids[k]] = rows[k]
  /\ \A i \in DOMAIN t : (\A k \in K : i # ids[k]) => u[i] = t[i]

LEMMA UpsertFacts ==
  ASSUME NEW t, NEW found, Found(t, found), NEW rows
  PROVE  Loaded(Upserted(t, found, rows), t, DOMAIN found, IdsOf(t, found), rows)
<1>. DEFINE K == DOMAIN found
            ids == IdsOf(t, found)
            U == Upserted(t, found, rows)
            KeysOf(i) == {k \in DOMAIN ids : ids[k] = i}
<1>1. DOMAIN ids = K /\ \A k, l \in K : ids[k] = ids[l] => k = l
  BY IdsFacts
<1>2. U = [i \in DOMAIN t \cup {ids[k] : k \in DOMAIN ids} |->
             IF KeysOf(i) = {} THEN t[i] ELSE rows[CHOOSE k \in KeysOf(i) : TRUE]]
  BY DEF Upserted
<1>3. PICK n \in Nat : \A k \in K : ids[k] \in Nat \ {0} /\ ids[k] <= n
  BY IdsFacts
<1>4. PICK m \in Nat : \A i \in DOMAIN t : i <= m
  BY DEF Found, Table
<1>5. DOMAIN t \subseteq Nat \ {0}
  BY DEF Found, Table
<1>. HIDE DEF ids, U, K
<1>6. DOMAIN U = DOMAIN t \cup {ids[k] : k \in K}
  BY <1>1, <1>2
<1>7. \A i \in DOMAIN U : i \in Nat \ {0} /\ i <= n + m
  BY <1>3, <1>4, <1>5, <1>6
<1>8. Table(U)
  <2>1. n + m \in Nat
    OBVIOUS
  <2>2. DOMAIN U \subseteq Nat \ {0}
    BY <1>7
  <2>3. U = [i \in DOMAIN U |-> U[i]]
    BY <1>2
  <2>. QED BY <1>7, <2>1, <2>2, <2>3 DEF Table
<1>9. \A k \in K : U[ids[k]] = rows[k]
  <2>. SUFFICES ASSUME NEW k \in K PROVE U[ids[k]] = rows[k]
    OBVIOUS
  <2>1. KeysOf(ids[k]) = {k}
    BY <1>1
  <2>2. (CHOOSE l \in KeysOf(ids[k]) : TRUE) = k
    BY <2>1
  <2>. HIDE DEF KeysOf
  <2>. QED BY <1>2, <1>6, <2>1, <2>2
<1>10. \A i \in DOMAIN t : (\A k \in K : i # ids[k]) => U[i] = t[i]
  <2>. SUFFICES ASSUME NEW i \in DOMAIN t, \A k \in K : i # ids[k] PROVE U[i] = t[i]
    OBVIOUS
  <2>1. KeysOf(i) = {}
    BY <1>1
  <2>. HIDE DEF KeysOf
  <2>. QED BY <1>2, <1>6, <2>1
<1>11. Loaded(U, t, K, ids, rows)
  BY <1>6, <1>8, <1>9, <1>10 DEF Loaded
<1>. QED BY <1>11 DEF ids, U, K

\* A loop of update_or_create that finds every row as it writes it changes
\* nothing.
LEMMA UpsertAgain ==
  ASSUME NEW t, NEW found, Found(t, found), NEW rows,
         \A k \in DOMAIN found : found[k] # {} /\ \A i \in found[k] : t[i] = rows[k]
  PROVE  Upserted(t, found, rows) = t
<1>. DEFINE ids == IdsOf(t, found)
            U == Upserted(t, found, rows)
            K == DOMAIN found
<1>1. \A k \in K : ids[k] \in found[k]
  BY IdsFacts
<1>2. \A k \in K : ids[k] \in DOMAIN t /\ t[ids[k]] = rows[k]
  BY <1>1 DEF Found
<1>3. Loaded(U, t, K, ids, rows)
  BY UpsertFacts
<1>. HIDE DEF ids, U, K
<1>4. DOMAIN U = DOMAIN t
  <2>1. {ids[k] : k \in K} \subseteq DOMAIN t
    BY <1>2
  <2>2. DOMAIN U = DOMAIN t \cup {ids[k] : k \in K}
    BY <1>3 DEF Loaded
  <2>. QED BY <2>1, <2>2
<1>6. ASSUME NEW i \in DOMAIN t PROVE U[i] = t[i]
  <2>1. CASE \A k \in K : i # ids[k]
    BY <1>3, <2>1 DEF Loaded
  <2>2. CASE \E k \in K : i = ids[k]
    <3>1. PICK k \in K : i = ids[k]
      BY <2>2
    <3>2. U[ids[k]] = t[ids[k]]
      BY <1>2, <1>3 DEF Loaded
    <3>. QED BY <3>1, <3>2, Zenon
  <2>. QED BY <2>1, <2>2
<1>5. U = [i \in DOMAIN U |-> U[i]] /\ t = [i \in DOMAIN t |-> t[i]]
  BY <1>3 DEF Found, Table, Loaded
<1>. QED BY <1>4, <1>5, <1>6 DEF U

-----------------------------------------------------------------------------
(* The inductive invariant.                                                *)

ScheduleInv(sc) ==
  /\ Table(sc) /\ \A i \in DOMAIN sc : sc[i] \in ScheduleRows
  /\ \E k \in DOMAIN sc :
       /\ sc[k].priority = 100
       /\ \A i \in DOMAIN sc : sc[i].kind = "current" <=> i = k

SlotInv(sl, sc) ==
  Table(sl) /\ \A i \in DOMAIN sl : sl[i] \in SlotRows /\ sl[i].schedule \in DOMAIN sc

ExceptionInv(xs, sc) == \A x \in xs : x \in ExceptionRows /\ x.schedule \in DOMAIN sc

\* Two slots share a time and a day only where one of them has that day alone.
Meet(r, q) ==
  /\ r.active /\ q.active /\ r.schedule = q.schedule /\ r.time = q.time
  /\ \E d \in Dates : OnDay(r.days, d) /\ OnDay(q.days, d)
OneDay(r) == Cardinality(r.days) = 1
Apart(r, q) == Meet(r, q) => OneDay(r) \/ OneDay(q)
ApartInv(sl) == \A i, j \in DOMAIN sl : i # j => Apart(sl[i], sl[j])

BookingInv(bs, sl) ==
  /\ bs = [b \in Bookings |-> bs[b]]
  /\ \A b \in Bookings : \/ bs[b] = NoBooking
                         \/ bs[b] \in BookingRows /\ bs[b].slot \in DOMAIN sl \cup {None}

AliasInv(as, sl) == as \in [{"seeded", "added"} -> DOMAIN sl \cup {None}]

\* What a request still has to write fits what it wrote.
Tasks == [mode : {"none", "slots", "day"}, left : SUBSET [from : Nat, row : SlotRows],
          last : Nat]
TaskInv(tk, sl, sc) ==
  /\ tk \in Tasks
  /\ \A c \in tk.left : /\ c.row.schedule \in DOMAIN sc
                        /\ tk.mode = "day" => OneDay(c.row)
                        /\ \A e \in tk.left \ {c} : Apart(c.row, e.row)
                        /\ \A i \in DOMAIN sl : Apart(c.row, sl[i])
  /\ tk.last # None => tk.last \in DOMAIN sc /\ sc[tk.last].kind = "other"

CatalogInv(sc, sl, xs) ==
  ScheduleInv(sc) /\ SlotInv(sl, sc) /\ ExceptionInv(xs, sc) /\ ApartInv(sl)

BookInv ==
  /\ CatalogInv(schedules, slots, exceptions)
  /\ BookingInv(bookings, slots) /\ AliasInv(aliases, slots)
  /\ TaskInv(task, slots, schedules)
  /\ up \in BOOLEAN /\ edits \in 0..MaxEdits

LEMMA ApartSymmetric == \A r, q : Apart(r, q) => Apart(q, r)
BY DEF Apart, Meet

LEMMA NoneIsNat == None \in Nat
BY DEF None

LEMMA IdleFits == \A sl, sc : TaskInv(Idle, sl, sc)
BY NoneIsNat DEF TaskInv, Idle, Tasks

LEMMA InvType == BookInv => TypeOK
<1>. SUFFICES ASSUME BookInv PROVE TypeOK
  OBVIOUS
<1>1. \A c \in task.left : c.row \in SlotRows
  BY DEF BookInv, TaskInv, Tasks
<1>. QED
  BY <1>1 DEF BookInv, CatalogInv, ScheduleInv, SlotInv, ExceptionInv, BookingInv, TypeOK

LEMMA InvReferences == BookInv => ReferencesLive
BY DEF BookInv, BookingInv, AliasInv, ReferencesLive

LEMMA InvDoubles == BookInv => OnlyCopiesDouble
<1>. SUFFICES ASSUME BookInv PROVE OnlyCopiesDouble
  OBVIOUS
<1>1. \A i, j \in DOMAIN slots : i # j => Apart(slots[i], slots[j])
  BY DEF BookInv, CatalogInv, ApartInv
<1>. QED BY <1>1 DEF Apart, Meet, OneDay, OnlyCopiesDouble

-----------------------------------------------------------------------------
(* The daily pages: what each of them lists in a state of that kind.       *)

UnscheduledRow == [row |-> "unscheduled", slot |-> None]
RunningRow(i) == [row |-> "running", slot |-> i]
BookedRow(i) == [row |-> "booked", slot |-> i]
FoundRow(i) == [row |-> "found", slot |-> i]

LEMMA OneRow ==
  ASSUME NEW b, NEW page, NEW row, RowsWith(b, page) = {row}
  PROVE  Cardinality(RowsWith(b, page)) = 1
BY FS_Singleton

LEMMA RunningIds ==
  ASSUME BookInv, NEW d
  PROVE  Running(d) \subseteq DOMAIN slots /\ None \notin Running(d)
<1>1. Running(d) \subseteq DOMAIN slots
  BY DEF Running, SlotsOf
<1>2. None \notin DOMAIN slots
  BY DEF BookInv, CatalogInv, SlotInv, Table, None
<1>. QED BY <1>1, <1>2

\* The rows of the summary, by their kinds.
LEMMA SummaryKinds ==
  ASSUME NEW d, NEW row
  PROVE  row \in SummaryRows(d) <=>
           \/ \E i \in Running(d) : row = RunningRow(i)
           \/ ExtraSlots(d) # {} /\ row = [row |-> "extra", slot |-> None]
           \/ \E i : /\ i # None /\ i \notin Running(d) /\ row = BookedRow(i)
                     /\ \E c \in Dated(d) : ~Hidden(c) /\ bookings[c].slot = i
           \/ Unscheduled(d) # {} /\ row = UnscheduledRow
BY DEF SummaryRows, RunningRow, BookedRow, UnscheduledRow

LEMMA AgendaOnce ==
  ASSUME BookInv, NEW d, NEW b, b \in Manifest(d)
  PROVE  OnceOnAgenda(b, d)
<1>. SUFFICES ASSUME NEW shown \in BOOLEAN
              PROVE  Cardinality(RowsWith(b, Agenda(d, shown))) =
                       IF /\ bookings[b].slot # None
                          /\ "product_mismatch" \notin bookings[b].open
                          /\ Hidden(b) \/ ~shown
                       THEN 0 ELSE 1
  BY DEF OnceOnAgenda
<1>. DEFINE rows == RowsWith(b, Agenda(d, shown))
            slot == bookings[b].slot
            mismatch == "product_mismatch" \in bookings[b].open
            seen == ~Hidden(b) /\ shown
<1>1. b \in Dated(d)
  BY DEF Manifest, Dated
<1>2. \A row : row \in rows <=> /\ row \in SummaryRows(d) /\ (shown \/ row.slot = None)
                               /\ b \in BookingsIn(row, d)
  BY DEF RowsWith, Agenda
<1>3. mismatch => Hidden(b)
  BY DEF Hidden
<1>4. /\ BookingsIn(UnscheduledRow, d) = Unscheduled(d)
      /\ \A i : BookingsIn(RunningRow(i), d) = InSlot(i, d)
      /\ \A i : BookingsIn(BookedRow(i), d) = InSlot(i, d)
      /\ BookingsIn([row |-> "extra", slot |-> None], d) = {}
  BY DEF BookingsIn, UnscheduledRow, RunningRow, BookedRow
<1>5. \A i : b \in InSlot(i, d) <=> slot = i /\ ~Hidden(b)
  BY <1>1 DEF InSlot
<1>6. b \in Unscheduled(d) <=> slot = None \/ mismatch
  BY <1>1 DEF Unscheduled
<1>7. None \notin Running(d)
  BY RunningIds
<1>11. /\ UnscheduledRow.slot = None
       /\ \A i : RunningRow(i).slot = i /\ BookedRow(i).slot = i
  BY DEF UnscheduledRow, RunningRow, BookedRow
<1>. HIDE DEF rows, slot, mismatch
<1>8. \A row : row \in rows <=>
        \/ row = UnscheduledRow /\ (slot = None \/ mismatch)
        \/ row = RunningRow(slot) /\ slot \in Running(d) /\ seen
        \/ row = BookedRow(slot) /\ slot # None /\ slot \notin Running(d) /\ seen
  <2>. TAKE row
  <2>1. ASSUME row \in rows
        PROVE  \/ row = UnscheduledRow /\ (slot = None \/ mismatch)
               \/ row = RunningRow(slot) /\ slot \in Running(d) /\ seen
               \/ row = BookedRow(slot) /\ slot # None /\ slot \notin Running(d) /\ seen
    BY <1>2, <1>4, <1>5, <1>6, <1>7, <1>11, <2>1, SummaryKinds
  <2>2. ASSUME row = UnscheduledRow, slot = None \/ mismatch PROVE row \in rows
    BY <1>2, <1>4, <1>6, <1>11, <2>2, SummaryKinds
  <2>3. ASSUME row = RunningRow(slot), slot \in Running(d), seen PROVE row \in rows
    BY <1>2, <1>4, <1>5, <2>3, SummaryKinds
  <2>4. ASSUME row = BookedRow(slot), slot # None, slot \notin Running(d), seen
        PROVE  row \in rows
    BY <1>1, <1>2, <1>4, <1>5, <2>4, SummaryKinds DEF slot
  <2>. QED BY <2>1, <2>2, <2>3, <2>4
<1>9. CASE ~seen /\ ~mismatch /\ slot # None
  <2>1. rows = {}
    BY <1>8, <1>9
  <2>. QED BY <1>9, <2>1, FS_EmptySet DEF rows, slot, mismatch
<1>10. CASE ~(~seen /\ ~mismatch /\ slot # None)
  <2>1. \E row : rows = {row}
    <3>1. CASE slot = None \/ mismatch
      <4>1. rows = {UnscheduledRow}
        BY <1>3, <1>7, <1>8, <3>1
      <4>. QED BY <4>1
    <3>2. CASE slot # None /\ ~mismatch /\ slot \in Running(d)
      <4>1. rows = {RunningRow(slot)}
        BY <1>8, <1>10, <3>2
      <4>. QED BY <4>1
    <3>3. CASE slot # None /\ ~mismatch /\ slot \notin Running(d)
      <4>1. rows = {BookedRow(slot)}
        BY <1>8, <1>10, <3>3
      <4>. QED BY <4>1
    <3>. QED BY <3>1, <3>2, <3>3
  <2>2. Cardinality(rows) = 1
    BY <2>1, OneRow DEF rows
  <2>. QED BY <1>10, <2>2 DEF rows, slot, mismatch
<1>. QED BY <1>9, <1>10

LEMMA CalendarOnce ==
  ASSUME BookInv, NEW d, NEW b \in Bookings
  PROVE  OnceOnCalendar(b, d)
<1>. SUFFICES ASSUME NEW f \in Filters, b \in Filtered(d, f)
              PROVE  Cardinality(RowsWith(b, Calendar(d, f))) =
                       IF bookings[b].slot = None /\ (f.activity \/ Unscheduled(d) = {})
                       THEN 0 ELSE 1
  BY DEF OnceOnCalendar
<1>. DEFINE rows == RowsWith(b, Calendar(d, f))
            slot == bookings[b].slot
            found == Filtered(d, f)
            wanted == {bookings[c].slot : c \in found} \ {None}
            left == {row \in SummaryRows(d) :
                       IF row.row = "unscheduled"
                       THEN ~f.activity /\ (f.restrict => \E c \in found : IsUnscheduled(c))
                       ELSE f.restrict => row.slot \in wanted}
<1>1. \A row : row \in rows <=> /\ row \in CalendarRows(d, f)
                               /\ b \in ListedIn(row, d, f)
  BY DEF RowsWith, Calendar
<1>2. CalendarRows(d, f) =
        left \cup {FoundRow(i) : i \in wanted \ {row.slot : row \in left}}
  BY DEF CalendarRows, FoundRow
<1>3. \A row : b \in ListedIn(row, d, f) <=>
        IF row.row = "unscheduled" THEN IsUnscheduled(b)
        ELSE row.slot # None /\ slot = row.slot
  BY DEF ListedIn
<1>4. ~Hidden(b) /\ "product_mismatch" \notin bookings[b].open
  BY DEF Filtered, Hidden
<1>5. IsUnscheduled(b) <=> slot = None
  BY <1>4 DEF IsUnscheduled
<1>7. CASE slot = None
  <2>1. Unscheduled(d) # {} <=> UnscheduledRow \in SummaryRows(d)
    BY SummaryKinds DEF RunningRow, BookedRow, UnscheduledRow
  <2>2. UnscheduledRow \in left <=> ~(f.activity \/ Unscheduled(d) = {})
    BY <1>5, <1>7, <2>1 DEF UnscheduledRow
  <2>3. ASSUME NEW row \in rows PROVE row = UnscheduledRow /\ row \in left
    <3>1. row.row = "unscheduled"
      BY <1>1, <1>3, <1>7, <2>3
    <3>2. row \in left \/ \E i : row = FoundRow(i)
      BY <1>1, <1>2, <2>3
    <3>3. row \in left /\ row \in SummaryRows(d)
      BY <3>1, <3>2 DEF FoundRow
    <3>. QED BY <3>1, <3>3, SummaryKinds DEF RunningRow, BookedRow
  <2>4. CASE f.activity \/ Unscheduled(d) = {}
    <3>1. rows = {}
      BY <2>2, <2>3, <2>4
    <3>. QED BY <1>7, <2>4, <3>1, FS_EmptySet
  <2>5. CASE ~(f.activity \/ Unscheduled(d) = {})
    <3>1. b \in ListedIn(UnscheduledRow, d, f)
      BY <1>3, <1>5, <1>7 DEF UnscheduledRow
    <3>2. UnscheduledRow \in rows
      BY <1>1, <1>2, <2>2, <2>5, <3>1
    <3>3. rows = {UnscheduledRow}
      BY <2>3, <3>2
    <3>4. Cardinality(rows) = 1
      BY <3>3, OneRow
    <3>. QED BY <1>7, <2>5, <3>4
  <2>. QED BY <2>4, <2>5
<1>8. CASE slot # None
  <2>1. slot \in wanted
    BY <1>8
  <2>2. \A row : b \in ListedIn(row, d, f) <=>
          row.row # "unscheduled" /\ row.slot = slot
    BY <1>3, <1>5, <1>8
  <2>3. \A row \in SummaryRows(d) : row.row # "unscheduled" /\ row.slot = slot =>
          \/ slot \in Running(d) /\ row = RunningRow(slot)
          \/ slot \notin Running(d) /\ row = BookedRow(slot)
    BY <1>8, SummaryKinds DEF RunningRow, BookedRow, UnscheduledRow
  <2>4. \A row, other \in left : row.slot = slot /\ other.slot = slot => row = other
    <3>1. \A row \in SummaryRows(d) : row.row = "unscheduled" => row.slot = None
      BY SummaryKinds DEF RunningRow, BookedRow, UnscheduledRow
    <3>. QED BY <1>8, <2>3, <3>1
  <2>. HIDE DEF left, wanted, rows, slot, found
  <2>5. CASE \E row \in left : row.slot = slot
    <3>1. PICK row \in left : row.slot = slot
      BY <2>5
    <3>2. row.row # "unscheduled"
      BY <1>8, <3>1, SummaryKinds DEF left, RunningRow, BookedRow, UnscheduledRow
    <3>3. row \in rows
      BY <1>1, <1>2, <2>2, <3>1, <3>2
    <3>4. ASSUME NEW other \in rows PROVE other = row
      <4>1. other.slot = slot
        BY <1>1, <2>2, <3>4
      <4>2. other \in left
        BY <1>1, <1>2, <2>5, <3>4, <4>1 DEF FoundRow
      <4>. QED BY <2>4, <3>1, <4>1, <4>2
    <3>5. rows = {row}
      BY <3>3, <3>4
    <3>6. Cardinality(rows) = 1
      BY <3>5, OneRow DEF rows
    <3>. QED BY <1>8, <3>6 DEF rows, slot
  <2>6. CASE ~ \E row \in left : row.slot = slot
    <3>1. FoundRow(slot) \in CalendarRows(d, f)
      BY <1>2, <2>1, <2>6
    <3>2. FoundRow(slot) \in rows
      BY <1>1, <2>2, <3>1 DEF FoundRow
    <3>3. ASSUME NEW row \in rows PROVE row = FoundRow(slot)
      BY <1>1, <1>2, <2>2, <2>6, <3>3 DEF FoundRow
    <3>4. rows = {FoundRow(slot)}
      BY <3>2, <3>3
    <3>5. Cardinality(rows) = 1
      BY <3>4, OneRow DEF rows
    <3>. QED BY <1>8, <3>5 DEF rows, slot
  <2>. QED BY <2>5, <2>6
<1>. QED BY <1>7, <1>8

LEMMA InvPages == BookInv => OnceOrLeftOut
BY AgendaOnce, CalendarOnce DEF OnceOrLeftOut

-----------------------------------------------------------------------------
(* What keeps the parts of the invariant.                                  *)

LEMMA ExceptWith ==
  ASSUME NEW t, Table(t), NEW id \in DOMAIN t, NEW r
  PROVE  [t EXCEPT ![id] = r] = With(t, id, r)
BY DEF Table, With

LEMMA ScheduleWith ==
  ASSUME NEW sc, ScheduleInv(sc), NEW id \in Nat \ {0}, NEW r \in ScheduleRows,
         \/ id \notin DOMAIN sc /\ r.kind = "other"
         \/ /\ id \in DOMAIN sc /\ r.kind = sc[id].kind
            /\ r.kind = "current" => r.priority = sc[id].priority
  PROVE  ScheduleInv(With(sc, id, r))
<1>. DEFINE w == With(sc, id, r)
<1>1. Table(sc) /\ \A i \in DOMAIN sc : sc[i] \in ScheduleRows
  BY DEF ScheduleInv
<1>0. Put(w, sc, id, r)
  BY <1>1, TableWith
<1>. HIDE DEF w
<1>2. /\ Table(w) /\ DOMAIN w = DOMAIN sc \cup {id} /\ w[id] = r
      /\ \A i \in DOMAIN sc \ {id} : w[i] = sc[i]
  BY <1>0 DEF Put
<1>3. \A i \in DOMAIN w : w[i] \in ScheduleRows
  BY <1>1, <1>2
<1>4. PICK k \in DOMAIN sc : /\ sc[k].priority = 100
                             /\ \A i \in DOMAIN sc : sc[i].kind = "current" <=> i = k
  BY DEF ScheduleInv
<1>5. k \in DOMAIN w /\ w[k].priority = 100
  BY <1>2, <1>4
<1>6. \A i \in DOMAIN w : w[i].kind = "current" <=> i = k
  BY <1>2, <1>4
<1>. QED BY <1>2, <1>3, <1>5, <1>6 DEF ScheduleInv, w

LEMMA SlotWith ==
  ASSUME NEW sl, NEW sc, SlotInv(sl, sc), NEW id \in Nat \ {0}, NEW r \in SlotRows,
         r.schedule \in DOMAIN sc
  PROVE  SlotInv(With(sl, id, r), sc) /\ DOMAIN sl \subseteq DOMAIN With(sl, id, r)
<1>1. Put(With(sl, id, r), sl, id, r)
  BY TableWith DEF SlotInv
<1>. QED BY <1>1 DEF SlotInv, Put

LEMMA ApartWith ==
  ASSUME NEW sl, Table(sl), ApartInv(sl), NEW id \in Nat \ {0}, NEW r,
         \A i \in DOMAIN sl \ {id} : Apart(r, sl[i])
  PROVE  ApartInv(With(sl, id, r))
<1>. DEFINE w == With(sl, id, r)
<1>0. Put(w, sl, id, r)
  BY TableWith
<1>. HIDE DEF w
<1>1. /\ DOMAIN w = DOMAIN sl \cup {id} /\ w[id] = r
      /\ \A i \in DOMAIN sl \ {id} : w[i] = sl[i]
  BY <1>0 DEF Put
<1>2. ASSUME NEW i \in DOMAIN w, NEW j \in DOMAIN w, i # j PROVE Apart(w[i], w[j])
  <2>1. CASE i = id
    BY <1>1, <1>2, <2>1
  <2>2. CASE j = id
    BY <1>1, <1>2, <2>2, ApartSymmetric
  <2>3. CASE i # id /\ j # id
    BY <1>1, <1>2, <2>3 DEF ApartInv
  <2>. QED BY <2>1, <2>2, <2>3
<1>. QED BY <1>2 DEF ApartInv, w

\* References stay good while no slot goes.
LEMMA ReferencesKept ==
  ASSUME NEW sl, NEW sl2, DOMAIN sl \subseteq DOMAIN sl2,
         BookingInv(bookings, sl), AliasInv(aliases, sl)
  PROVE  BookingInv(bookings, sl2) /\ AliasInv(aliases, sl2)
BY DEF BookingInv, AliasInv

\* Slots and exceptions stay good while no schedule goes.
LEMMA SchedulesKept ==
  ASSUME NEW sc, NEW sc2, DOMAIN sc \subseteq DOMAIN sc2
  PROVE  /\ \A sl : SlotInv(sl, sc) => SlotInv(sl, sc2)
         /\ \A xs : ExceptionInv(xs, sc) => ExceptionInv(xs, sc2)
BY DEF SlotInv, ExceptionInv

LEMMA EditFrame ==
  ASSUME BookInv, Edit
  PROVE  task = Idle /\ edits' \in 0..MaxEdits
BY ScheduleAssumption DEF Edit, Ready, BookInv

LEMMA FirstIsOne ==
  ASSUME BookInv, NEW ids \in SUBSET DOMAIN slots, ids # {}
  PROVE  First(ids) \in ids
<1>1. /\ DOMAIN slots \subseteq Nat
      /\ \A i \in DOMAIN slots : slots[i].time \in Nat
  BY ScheduleAssumption DEF BookInv, CatalogInv, SlotInv, Table, SlotRows
<1>. DEFINE times == {n \in Nat : \E i \in ids : slots[i].time = n}
<1>2. times \in SUBSET Nat /\ times # {}
  BY <1>1
<1>3. PICK t \in times : \A n \in times : t <= n
  BY <1>2, LeastExists
<1>. DEFINE early == {i \in ids : slots[i].time = t}
<1>4. early \in SUBSET Nat /\ early # {}
  BY <1>1
<1>5. PICK f \in early : \A i \in early : f <= i
  BY <1>4, LeastExists
<1>6. ASSUME NEW j \in ids
      PROVE  slots[f].time < slots[j].time \/ (slots[f].time = slots[j].time /\ f <= j)
  <2>1. slots[j].time \in times /\ slots[j].time \in Nat /\ t \in Nat /\ slots[f].time = t
    BY <1>1
  <2>2. t <= slots[j].time
    BY <1>3, <2>1
  <2>3. CASE slots[j].time = t
    BY <1>5, <2>1, <2>3
  <2>4. CASE slots[j].time # t
    BY <2>1, <2>2, <2>4
  <2>. QED BY <2>3, <2>4
<1>7. f \in ids
  OBVIOUS
<1>. QED BY <1>6, <1>7 DEF First

LEMMA CurrentIs ==
  ASSUME BookInv
  PROVE  CurrentSchedule \in DOMAIN schedules /\ schedules[CurrentSchedule].kind = "current"
<1>1. PICK k \in DOMAIN schedules : \A i \in DOMAIN schedules :
        schedules[i].kind = "current" <=> i = k
  BY DEF BookInv, CatalogInv, ScheduleInv
<1>2. OfKind("current") = {k}
  BY <1>1 DEF OfKind
<1>3. k \in Nat
  BY DEF BookInv, CatalogInv, ScheduleInv, Table
<1>4. CurrentSchedule = k
  BY <1>2, <1>3 DEF CurrentSchedule
<1>. QED BY <1>1, <1>4

LEMMA NextPriorityType ==
  ASSUME BookInv
  PROVE  NextPriority \in Nat
<1>. DEFINE O == OfKind("other")
            P == {schedules[i].priority : i \in O}
            f == [i \in O |-> schedules[i].priority]
<1>1. O \in SUBSET DOMAIN schedules
  BY DEF OfKind
<1>2. P \in SUBSET Nat
  BY <1>1 DEF BookInv, CatalogInv, ScheduleInv, ScheduleRows
<1>3. IsFiniteSet(O)
  <2>1. IsFiniteSet(DOMAIN schedules)
    BY TableFinite DEF BookInv, CatalogInv, ScheduleInv
  <2>. QED BY <1>1, <2>1, FS_Subset
<1>4. CASE O = {}
  BY <1>4 DEF NextPriority
<1>5. CASE O # {}
  <2>1. f \in Surjection(O, P)
    BY DEF Surjection
  <2>2. IsFiniteSet(P)
    BY <1>3, <2>1, FS_Surjection
  <2>3. P # {}
    BY <1>5
  <2>4. \E p \in P : \A n \in P : n <= p
    <3>. HIDE DEF P
    <3>. QED BY <1>2, <2>2, <2>3, FiniteGreatest
  <2>5. \E p \in P : \A i \in O : schedules[i].priority <= p
    BY <2>4
  <2>6. (CHOOSE p \in P : \A i \in O : schedules[i].priority <= p) \in Nat
    BY <1>2, <2>5
  <2>. QED BY <1>5, <2>6 DEF NextPriority
<1>. QED BY <1>4, <1>5

-----------------------------------------------------------------------------
(* The requests that edit.                                                 *)

LEMMA SaveCurrentScheduleStep ==
  ASSUME BookInv, NEW active \in BOOLEAN, NEW range \in Ranges, NEW days \in DayChoices,
         SaveCurrentSchedule(active, range, days)
  PROVE  BookInv'
<1>. PICK k, r : k = CurrentSchedule /\ r = Saved("current", k, active, range, days)
  OBVIOUS
<1>1. /\ schedules' = With(schedules, k, r)
      /\ UNCHANGED <<slots, exceptions, aliases, bookings, task, up>> /\ Edit
  BY DEF SaveCurrentSchedule
<1>2. ScheduleInv(schedules) /\ k \in DOMAIN schedules /\ schedules[k].kind = "current"
  BY CurrentIs DEF BookInv, CatalogInv
<1>3. k \in Nat \ {0} /\ schedules[k] \in ScheduleRows
  BY <1>2 DEF ScheduleInv, Table
<1>4. r \in ScheduleRows /\ r.kind = "current" /\ r.priority = schedules[k].priority
  BY <1>3, ScheduleAssumption DEF Saved, ScheduleRows, Kinds, None
<1>5. ScheduleInv(schedules')
  BY <1>1, <1>2, <1>3, <1>4, ScheduleWith
<1>6. DOMAIN schedules \subseteq DOMAIN schedules'
  BY <1>1 DEF With
<1>7. CatalogInv(schedules', slots, exceptions)
  BY <1>5, <1>6, SchedulesKept DEF BookInv, CatalogInv
<1>8. TaskInv(task', slots, schedules')
  BY <1>1, EditFrame, IdleFits
<1>. QED BY <1>1, <1>7, <1>8, EditFrame DEF BookInv

\* A new schedule with what is left to copy into it.
LEMMA CopiesFit ==
  ASSUME BookInv, NEW source \in DOMAIN schedules \cup {None}, NEW new \in Nat \ {0},
         source # None => new \notin DOMAIN schedules, NEW raise \in BOOLEAN,
         NEW sc, new \in DOMAIN sc, sc[new].kind = "other"
  PROVE  TaskInv(Copies(new, source, raise), slots, sc)
<1>. DEFINE left == IF source = None THEN {} ELSE CopiesOf(source, new)
            tk == [mode |-> "slots", left |-> left, last |-> IF raise THEN new ELSE None]
<1>1. \A i \in DOMAIN slots : slots[i] \in SlotRows /\ i \in Nat /\ slots[i].schedule \in DOMAIN schedules
  BY DEF BookInv, CatalogInv, SlotInv, Table
<1>2. ASSUME NEW c \in left
      PROVE  /\ source # None /\ c.from \in DOMAIN slots /\ slots[c.from].schedule = source
             /\ c = [from |-> c.from, row |-> [slots[c.from] EXCEPT !.schedule = new]]
  BY DEF CopiesOf, SlotsOf
<1>3. ASSUME NEW c \in left
      PROVE  /\ c \in [from : Nat, row : SlotRows]
             /\ c.row.schedule = new /\ c.row.active = slots[c.from].active
             /\ c.row.time = slots[c.from].time /\ c.row.days = slots[c.from].days
  BY <1>1, <1>2 DEF SlotRows
<1>. HIDE DEF left
<1>4. ASSUME NEW c \in left, NEW e \in left \ {c} PROVE Apart(c.row, e.row)
  <2>1. c.from # e.from
    BY <1>2
  <2>2. Apart(slots[c.from], slots[e.from])
    BY <1>2, <2>1 DEF BookInv, CatalogInv, ApartInv
  <2>3. Meet(c.row, e.row) => Meet(slots[c.from], slots[e.from])
    BY <1>2, <1>3 DEF Meet
  <2>. QED BY <1>3, <2>2, <2>3 DEF Apart, OneDay
<1>5. ASSUME NEW c \in left, NEW i \in DOMAIN slots PROVE Apart(c.row, slots[i])
  <2>1. slots[i].schedule # new
    BY <1>1, <1>2
  <2>. QED BY <1>3, <2>1 DEF Apart, Meet
<1>6. TaskInv(tk, slots, sc)
  <2>1. tk \in Tasks
    BY <1>3, NoneIsNat DEF Tasks
  <2>2. tk.last # None => tk.last = new
    OBVIOUS
  <2>. QED BY <1>3, <1>4, <1>5, <2>1, <2>2 DEF TaskInv
<1>7. Copies(new, source, raise) = Idle \/ Copies(new, source, raise) = tk
  BY DEF Copies, left
<1>. QED BY <1>6, <1>7, IdleFits

\* A schedule of the kind "other" is made or saved.
LEMMA OtherScheduleStep ==
  ASSUME BookInv, Edit, UNCHANGED <<slots, exceptions, aliases, bookings, up>>,
         NEW new \in Nat \ {0}, NEW r \in ScheduleRows, r.kind = "other",
         new \in DOMAIN schedules => schedules[new].kind = "other",
         schedules' = With(schedules, new, r),
         NEW source \in DOMAIN schedules \cup {None}, NEW raise \in BOOLEAN,
         source # None => new \notin DOMAIN schedules,
         task' = Copies(new, source, raise)
  PROVE  BookInv'
<1>1. ScheduleInv(schedules')
  BY ScheduleWith DEF BookInv, CatalogInv
<1>2. /\ DOMAIN schedules \subseteq DOMAIN schedules'
      /\ new \in DOMAIN schedules' /\ schedules'[new] = r
  BY DEF With
<1>3. CatalogInv(schedules', slots, exceptions)
  BY <1>1, <1>2, SchedulesKept DEF BookInv, CatalogInv
<1>4. TaskInv(task', slots, schedules')
  BY <1>2, CopiesFit
<1>. QED BY <1>3, <1>4, EditFrame DEF BookInv

LEMMA ScheduleIds ==
  ASSUME BookInv
  PROVE  /\ NextId(schedules) \in Nat \ {0} /\ NextId(schedules) \notin DOMAIN schedules
         /\ \A i \in DOMAIN schedules : i \in Nat \ {0} /\ schedules[i] \in ScheduleRows
<1>1. Table(schedules)
  BY DEF BookInv, CatalogInv, ScheduleInv
<1>2. NextId(schedules) \in Nat \ {0} /\ \A i \in DOMAIN schedules : i < NextId(schedules)
  BY <1>1, NextFresh
<1>. QED BY <1>1, <1>2 DEF BookInv, CatalogInv, ScheduleInv, Table

LEMMA SaveOtherScheduleStep ==
  ASSUME BookInv, NEW id \in OfKind("other") \cup {None},
         NEW source \in DOMAIN schedules \cup {None}, NEW active \in BOOLEAN,
         NEW range \in Ranges, NEW days \in DayChoices,
         SaveOtherSchedule(id, source, active, range, days)
  PROVE  BookInv'
<1>. PICK new, r, from, raise :
       /\ new = IF id = None THEN NextId(schedules) ELSE id
       /\ r = Saved("other", id, active, range, days)
       /\ from = IF id = None THEN source ELSE None
       /\ raise = (r.priority = 100)
  OBVIOUS
<1>1. /\ schedules' = With(schedules, new, r) /\ task' = Copies(new, from, raise)
      /\ UNCHANGED <<slots, exceptions, aliases, bookings, up>> /\ Edit
  BY DEF SaveOtherSchedule
<1>2. /\ new \in Nat \ {0}
      /\ new \in DOMAIN schedules => schedules[new].kind = "other"
      /\ from \in DOMAIN schedules \cup {None}
      /\ from # None => new \notin DOMAIN schedules
  BY ScheduleIds DEF OfKind
<1>3. r \in ScheduleRows /\ r.kind = "other"
  <2>1. id # None => schedules[id].priority \in Nat
    BY ScheduleIds DEF OfKind, ScheduleRows
  <2>. QED BY <2>1, ScheduleAssumption DEF Saved, ScheduleRows, Kinds
<1>4. raise \in BOOLEAN
  OBVIOUS
<1>. QED BY <1>1, <1>2, <1>3, <1>4, OtherScheduleStep

LEMMA CopyScheduleStep ==
  ASSUME BookInv, NEW source \in DOMAIN schedules, CopySchedule(source)
  PROVE  BookInv'
<1>. PICK new, r :
       /\ new = NextId(schedules)
       /\ r = [schedules[source] EXCEPT !.kind = "other", !.active = FALSE,
                                        !.priority = NextPriority]
  OBVIOUS
<1>1. /\ schedules' = With(schedules, new, r) /\ task' = Copies(new, source, FALSE)
      /\ UNCHANGED <<slots, exceptions, aliases, bookings, up>> /\ Edit
  BY DEF CopySchedule
<1>2. new \in Nat \ {0} /\ new \notin DOMAIN schedules
  BY ScheduleIds
<1>3. r \in ScheduleRows /\ r.kind = "other"
  BY ScheduleIds, NextPriorityType DEF ScheduleRows, Kinds
<1>. QED BY <1>1, <1>2, <1>3, OtherScheduleStep

LEMMA CopyDayStep ==
  ASSUME BookInv, NEW from \in Days, NEW to \in SUBSET Days, CopyDay(from, to)
  PROVE  BookInv'
<1>. PICK read : read = {i \in SlotsOf(CurrentSchedule, slots) :
                          /\ slots[i].active
                          /\ slots[i].days = {} \/ from \in slots[i].days}
  OBVIOUS
<1>0. read \in SUBSET DOMAIN slots
  BY DEF SlotsOf
<1>. DEFINE left == {[from |-> i, row |-> [slots[i] EXCEPT !.days = {day}]] :
                         i \in read, day \in to}
<1>1. UNCHANGED <<schedules, slots, exceptions, aliases, bookings, up>> /\ Edit
  BY DEF CopyDay
<1>2. ASSUME NEW c \in left
      PROVE  /\ c \in [from : Nat, row : SlotRows] /\ OneDay(c.row)
             /\ c.row.schedule \in DOMAIN schedules
  <2>1. PICK i \in read, day \in to :
          c = [from |-> i, row |-> [slots[i] EXCEPT !.days = {day}]]
    OBVIOUS
  <2>2. slots[i] \in SlotRows /\ i \in Nat /\ slots[i].schedule \in DOMAIN schedules
    BY <1>0 DEF BookInv, CatalogInv, SlotInv, Table
  <2>3. c.row \in SlotRows /\ c.row.days = {day} /\ c.row.schedule \in DOMAIN schedules
    BY <2>1, <2>2 DEF SlotRows
  <2>4. c = [from |-> i, row |-> [slots[i] EXCEPT !.days = {day}]]
    BY <2>1
  <2>5. Cardinality({day}) = 1
    BY FS_Singleton
  <2>. QED BY <2>2, <2>3, <2>4, <2>5 DEF OneDay
<1>4. task' = Idle \/ task' = [mode |-> "day", left |-> left, last |-> None]
  BY DEF CopyDay
<1>. HIDE DEF left
<1>3. TaskInv(task', slots, schedules)
  <2>. DEFINE tk == [mode |-> "day", left |-> left, last |-> None]
  <2>1. tk \in Tasks
    BY <1>2, NoneIsNat DEF Tasks
  <2>2. TaskInv(tk, slots, schedules)
    BY <1>2, <2>1 DEF TaskInv, Apart
  <2>. QED BY <1>4, <2>2, IdleFits
<1>. QED BY <1>1, <1>3, EditFrame DEF BookInv

LEMMA CopyStepStep ==
  ASSUME BookInv, CopyStep
  PROVE  BookInv'
<1>. PICK c \in task.left : \E same, left :
       /\ same = {i \in SlotsOf(c.row.schedule, slots) :
                    /\ task.mode = "day"
                    /\ slots[i].time = c.row.time /\ slots[i].days = c.row.days}
       /\ left = task.left \ {c}
       /\ IF same = {} THEN slots' = With(slots, NextId(slots), c.row)
          ELSE slots' = [slots EXCEPT ![First(same)].active = c.row.active]
       /\ task' = IF left = {} /\ task.last = None THEN Idle ELSE [task EXCEPT !.left = left]
       /\ UNCHANGED <<schedules, exceptions, aliases, bookings, up, edits>>
  BY DEF CopyStep
<1>. PICK same, left :
       /\ same = {i \in SlotsOf(c.row.schedule, slots) :
                    /\ task.mode = "day"
                    /\ slots[i].time = c.row.time /\ slots[i].days = c.row.days}
       /\ left = task.left \ {c}
       /\ IF same = {} THEN slots' = With(slots, NextId(slots), c.row)
          ELSE slots' = [slots EXCEPT ![First(same)].active = c.row.active]
       /\ task' = IF left = {} /\ task.last = None THEN Idle ELSE [task EXCEPT !.left = left]
       /\ UNCHANGED <<schedules, exceptions, aliases, bookings, up, edits>>
  OBVIOUS
<1>1. /\ task \in Tasks /\ SlotInv(slots, schedules) /\ ApartInv(slots) /\ Table(slots)
      /\ c.row \in SlotRows /\ c.row.schedule \in DOMAIN schedules
      /\ \A i \in DOMAIN slots : Apart(c.row, slots[i])
      /\ \A e \in left : Apart(c.row, e.row)
  BY DEF BookInv, TaskInv, CatalogInv, SlotInv, Tasks
<1>2. PICK id, r :
        /\ id \in Nat \ {0} /\ r \in SlotRows /\ r.schedule \in DOMAIN schedules
        /\ slots' = With(slots, id, r)
        /\ \A i \in DOMAIN slots \ {id} : Apart(r, slots[i])
        /\ \A e \in left : Apart(e.row, r)
  <2>1. CASE same = {}
    <3>1. NextId(slots) \in Nat \ {0}
      BY <1>1, NextFresh
    <3>. QED BY <1>1, <2>1, <3>1, ApartSymmetric
  <2>2. CASE same # {}
    <3>. PICK f : f = First(same)
      OBVIOUS
    <3>1. f \in same
      BY <2>2, FirstIsOne DEF SlotsOf
    <3>2. f \in DOMAIN slots /\ f \in Nat \ {0} /\ slots[f] \in SlotRows
          /\ slots[f].schedule \in DOMAIN schedules
      BY <1>1, <3>1 DEF SlotInv, SlotsOf, Table
    <3>. PICK s : s = [slots[f] EXCEPT !.active = c.row.active]
      OBVIOUS
    <3>3. slots' = [slots EXCEPT ![f] = s]
      BY <2>2
    <3>4. slots' = With(slots, f, s)
      <4>1. [slots EXCEPT ![f] = s] = With(slots, f, s)
        BY <1>1, <3>2, ExceptWith
      <4>. QED BY <3>3, <4>1, Zenon
    <3>5. s \in SlotRows /\ s.schedule \in DOMAIN schedules /\ s.days = c.row.days
      BY <1>1, <3>1, <3>2 DEF SlotRows
    <3>6. OneDay(s)
      <4>1. OneDay(c.row)
        BY <3>1 DEF BookInv, TaskInv
      <4>. QED BY <3>5, <4>1 DEF OneDay
    <3>. QED BY <3>2, <3>4, <3>5, <3>6 DEF Apart
  <2>. QED BY <2>1, <2>2
<1>3. Put(slots', slots, id, r)
  BY <1>1, <1>2, TableWith
<1>4. SlotInv(slots', schedules) /\ ApartInv(slots') /\ DOMAIN slots \subseteq DOMAIN slots'
  BY <1>1, <1>2, SlotWith, ApartWith
<1>5. TaskInv(task', slots', schedules)
  <2>1. \A e \in left, i \in DOMAIN slots' : Apart(e.row, slots'[i])
    BY <1>2, <1>3 DEF Put, BookInv, TaskInv
  <2>. DEFINE tk == [task EXCEPT !.left = left]
  <2>2. tk \in Tasks /\ tk.left = left /\ tk.mode = task.mode /\ tk.last = task.last
    BY <1>1 DEF Tasks
  <2>3. TaskInv(tk, slots', schedules)
    <3>. HIDE DEF tk
    <3>. QED BY <2>1, <2>2 DEF BookInv, TaskInv
  <2>4. task' = Idle \/ task' = tk
    OBVIOUS
  <2>. QED BY <2>3, <2>4, IdleFits
<1>6. CatalogInv(schedules, slots', exceptions)
  BY <1>4 DEF BookInv, CatalogInv
<1>7. BookingInv(bookings, slots') /\ AliasInv(aliases, slots')
  BY <1>4, ReferencesKept DEF BookInv
<1>. QED BY <1>5, <1>6, <1>7 DEF BookInv

LEMMA RaisePriorityStep ==
  ASSUME BookInv, RaisePriority
  PROVE  BookInv'
<1>. PICK k, r : k = task.last /\ r = [schedules[k] EXCEPT !.priority = NextPriority]
  OBVIOUS
<1>1. /\ schedules' = [schedules EXCEPT ![k] = r] /\ task' = Idle /\ k # None
      /\ UNCHANGED <<slots, exceptions, aliases, bookings, up, edits>>
  BY DEF RaisePriority
<1>2. k \in DOMAIN schedules /\ schedules[k].kind = "other" /\ ScheduleInv(schedules)
  BY <1>1 DEF BookInv, TaskInv, CatalogInv
<1>3. k \in Nat \ {0} /\ r \in ScheduleRows /\ r.kind = "other"
  BY <1>2, ScheduleIds, NextPriorityType DEF ScheduleRows
<1>4. schedules' = With(schedules, k, r)
  <2>1. [schedules EXCEPT ![k] = r] = With(schedules, k, r)
    BY <1>2, ExceptWith DEF ScheduleInv
  <2>. QED BY <1>1, <2>1, Zenon
<1>5. ScheduleInv(schedules')
  BY <1>2, <1>3, <1>4, ScheduleWith
<1>6. DOMAIN schedules \subseteq DOMAIN schedules'
  BY <1>4 DEF With
<1>7. CatalogInv(schedules', slots, exceptions)
  BY <1>5, <1>6, SchedulesKept DEF BookInv, CatalogInv
<1>. QED BY <1>1, <1>7, IdleFits DEF BookInv


LEMMA DeleteScheduleStep ==
  ASSUME BookInv, NEW id, DeleteSchedule(id)
  PROVE  BookInv'
<1>. DEFINE gone == SlotsOf(id, slots)
<1>1. /\ Edit /\ id \in DOMAIN schedules /\ schedules[id].kind = "other"
      /\ ~Referenced(gone)
      /\ schedules' = Without(schedules, {id}) /\ slots' = Without(slots, gone)
      /\ exceptions' = {x \in exceptions : x.schedule # id}
      /\ UNCHANGED <<aliases, bookings, task, up>>
  BY DEF DeleteSchedule, OfKind
<1>. HIDE DEF gone
<1>2. Table(schedules) /\ Table(slots)
  BY DEF BookInv, CatalogInv, ScheduleInv, SlotInv
<1>3. Taken(schedules', schedules, {id}) /\ Taken(slots', slots, gone)
  BY <1>1, <1>2, TableWithout
<1>4. /\ Table(schedules') /\ DOMAIN schedules' = DOMAIN schedules \ {id}
      /\ \A i \in DOMAIN schedules' : schedules'[i] = schedules[i]
      /\ Table(slots') /\ DOMAIN slots' = DOMAIN slots \ gone
      /\ \A i \in DOMAIN slots' : slots'[i] = slots[i]
  BY <1>3 DEF Taken
<1>5. ScheduleInv(schedules')
  <2>1. PICK k \in DOMAIN schedules :
          /\ schedules[k].priority = 100
          /\ \A i \in DOMAIN schedules : schedules[i].kind = "current" <=> i = k
    BY DEF BookInv, CatalogInv, ScheduleInv
  <2>2. k # id
    BY <1>1, <2>1
  <2>3. k \in DOMAIN schedules' /\ schedules'[k] = schedules[k]
    BY <1>4, <2>1, <2>2
  <2>4. /\ schedules'[k].priority = 100
        /\ \A i \in DOMAIN schedules' : schedules'[i].kind = "current" <=> i = k
    BY <1>4, <2>1, <2>3
  <2>5. \A i \in DOMAIN schedules' : schedules'[i] \in ScheduleRows
    BY <1>4 DEF BookInv, CatalogInv, ScheduleInv
  <2>. QED BY <1>4, <2>3, <2>4, <2>5 DEF ScheduleInv
<1>6. SlotInv(slots', schedules')
  <2>1. ASSUME NEW i \in DOMAIN slots'
        PROVE  slots'[i] \in SlotRows /\ slots'[i].schedule \in DOMAIN schedules'
    <3>1. i \in DOMAIN slots /\ i \notin gone /\ slots'[i] = slots[i]
      BY <1>4
    <3>2. slots[i].schedule # id
      BY <3>1 DEF gone, SlotsOf
    <3>. QED BY <1>4, <3>1, <3>2 DEF BookInv, CatalogInv, SlotInv
  <2>. QED BY <1>4, <2>1 DEF SlotInv
<1>7. ExceptionInv(exceptions', schedules')
  BY <1>1, <1>4 DEF BookInv, CatalogInv, ExceptionInv
<1>8. ApartInv(slots')
  BY <1>4 DEF BookInv, CatalogInv, ApartInv
<1>9. BookingInv(bookings, slots') /\ AliasInv(aliases, slots')
  BY <1>1, <1>4 DEF BookInv, BookingInv, AliasInv, Referenced
<1>10. TaskInv(task', slots', schedules')
  BY <1>1, EditFrame, IdleFits
<1>. QED BY <1>1, <1>5, <1>6, <1>7, <1>8, <1>9, <1>10, EditFrame DEF BookInv, CatalogInv

\* A request writes one slot.
LEMMA SlotStep ==
  ASSUME BookInv, Edit, UNCHANGED <<schedules, exceptions, aliases, bookings, task, up>>,
         NEW id \in Nat \ {0}, NEW r \in SlotRows, r.schedule \in DOMAIN schedules,
         slots' = With(slots, id, r), \A i \in DOMAIN slots \ {id} : Apart(r, slots[i])
  PROVE  BookInv'
<1>1. SlotInv(slots', schedules) /\ ApartInv(slots') /\ DOMAIN slots \subseteq DOMAIN slots'
  BY SlotWith, ApartWith DEF BookInv, CatalogInv, SlotInv
<1>2. CatalogInv(schedules, slots', exceptions)
  BY <1>1 DEF BookInv, CatalogInv
<1>3. BookingInv(bookings, slots') /\ AliasInv(aliases, slots')
  BY <1>1, ReferencesKept DEF BookInv
<1>4. TaskInv(task, slots', schedules)
  BY EditFrame, IdleFits
<1>. QED BY <1>2, <1>3, <1>4, EditFrame DEF BookInv

LEMMA SlotRow ==
  ASSUME BookInv, NEW i \in DOMAIN slots
  PROVE  /\ i \in Nat \ {0} /\ slots[i] \in SlotRows
         /\ slots[i].schedule \in DOMAIN schedules
BY DEF BookInv, CatalogInv, SlotInv, Table

LEMMA SaveSlotStep ==
  ASSUME BookInv, NEW s \in DOMAIN schedules, NEW t \in Times, NEW days \in DayChoices,
         NEW active \in BOOLEAN, NEW id \in SlotsOf(s, slots) \cup {None},
         SaveSlot(id, s, t, days, active)
  PROVE  BookInv'
<1>. PICK key, r : /\ key = IF id = None THEN NextId(slots) ELSE id
                   /\ r = [schedule |-> s, time |-> t, days |-> days, active |-> active]
  OBVIOUS
<1>1. /\ Edit /\ slots' = With(slots, key, r)
      /\ UNCHANGED <<schedules, exceptions, aliases, bookings, task, up>>
      /\ \A i \in SlotsOf(s, slots) \ {id} :
           slots[i].active /\ slots[i].time = t => ~SlotDaysOverlap(slots[i].days, days)
  BY DEF SaveSlot
<1>2. key \in Nat \ {0}
  <2>1. CASE id = None
    BY <2>1, NextFresh DEF BookInv, CatalogInv, SlotInv
  <2>2. CASE id # None
    BY <2>2, SlotRow DEF SlotsOf
  <2>. QED BY <2>1, <2>2
<1>3. r \in SlotRows /\ r.schedule \in DOMAIN schedules
  <2>1. s \in Nat
    BY DEF BookInv, CatalogInv, ScheduleInv, Table
  <2>. QED BY <2>1, ScheduleAssumption DEF SlotRows
<1>4. ASSUME NEW i \in DOMAIN slots \ {key} PROVE Apart(r, slots[i])
  <2>. SUFFICES ASSUME Meet(r, slots[i]) PROVE FALSE
    BY DEF Apart
  <2>1. i \in SlotsOf(s, slots) \ {id} /\ slots[i].active /\ slots[i].time = t
    <3>1. i # None
      BY SlotRow DEF None
    <3>. QED BY <3>1 DEF Meet, SlotsOf
  <2>2. PICK d \in Dates : OnDay(days, d) /\ OnDay(slots[i].days, d)
    BY DEF Meet
  <2>3. ~SlotDaysOverlap(slots[i].days, days)
    BY <1>1, <2>1
  <2>. QED BY <2>2, <2>3 DEF SlotDaysOverlap, OnDay
<1>. QED BY <1>1, <1>2, <1>3, <1>4, SlotStep

\* Days taken from a slot that has one day leave it that day.
LEMMA FewerDays ==
  ASSUME NEW S \in SUBSET Days, Cardinality(S) = 1, NEW T \in SUBSET S, T # {}
  PROVE  T = S
<1>1. IsFiniteSet(Days)
  BY FS_Interval, ScheduleAssumption DEF Days
<1>2. IsFiniteSet(S) /\ IsFiniteSet(T)
  BY <1>1, FS_Subset
<1>3. Cardinality(T) <= Cardinality(S) /\ (Cardinality(S) = Cardinality(T) => S = T)
  BY <1>2, FS_Subset
<1>4. Cardinality(T) \in Nat /\ Cardinality(T) # 0
  BY <1>2, FS_CardinalityType, FS_EmptySet
<1>. QED BY <1>3, <1>4

LEMMA DeactivateSlotStep ==
  ASSUME BookInv, NEW id \in DOMAIN slots, NEW day, DeactivateSlot(id, day)
  PROVE  BookInv'
<1>. DEFINE old == slots[id]
            left == (IF old.days = {} THEN Days ELSE old.days) \ {day}
<1>1. Edit /\ UNCHANGED <<schedules, exceptions, aliases, bookings, task, up>>
  BY DEF DeactivateSlot
<1>2. old \in SlotRows /\ old.schedule \in DOMAIN schedules /\ id \in Nat \ {0}
  BY SlotRow
<1>3. PICK r : /\ slots' = [slots EXCEPT ![id] = r]
               /\ \/ r = [old EXCEPT !.days = left] /\ left # {}
                  \/ r = [old EXCEPT !.active = FALSE]
  BY DEF DeactivateSlot
<1>4. slots' = With(slots, id, r)
  <2>1. [slots EXCEPT ![id] = r] = With(slots, id, r)
    BY ExceptWith DEF BookInv, CatalogInv, SlotInv
  <2>. QED BY <1>3, <2>1, Zenon
<1>5. left \in SUBSET Days
  BY <1>2 DEF SlotRows
<1>6. r \in SlotRows /\ r.schedule = old.schedule
  <2>. HIDE DEF left
  <2>. QED BY <1>2, <1>3, <1>5 DEF SlotRows
<1>7. ASSUME NEW i \in DOMAIN slots \ {id} PROVE Apart(r, slots[i])
  <2>1. Apart(old, slots[i])
    BY DEF BookInv, CatalogInv, ApartInv
  <2>2. CASE r = [old EXCEPT !.active = FALSE]
    BY <1>2, <2>2 DEF Apart, Meet, SlotRows
  <2>3. CASE r = [old EXCEPT !.days = left] /\ left # {}
    <3>1. /\ r.active = old.active /\ r.time = old.time /\ r.schedule = old.schedule
          /\ r.days = left
      BY <1>2, <2>3 DEF SlotRows
    <3>2. \A d \in Dates : OnDay(left, d) => OnDay(old.days, d)
      BY <2>3 DEF OnDay
    <3>3. Meet(r, slots[i]) => Meet(old, slots[i])
      BY <3>1, <3>2 DEF Meet
    <3>4. OneDay(old) => OneDay(r)
      <4>. SUFFICES ASSUME OneDay(old) PROVE OneDay(r)
        OBVIOUS
      <4>1. old.days # {} /\ old.days \in SUBSET Days /\ Cardinality(old.days) = 1
        BY <1>2, FS_EmptySet DEF OneDay, SlotRows
      <4>2. left \in SUBSET old.days
        BY <4>1
      <4>. HIDE DEF left
      <4>3. left = old.days
        BY <2>3, <4>1, <4>2, FewerDays
      <4>. QED BY <3>1, <4>1, <4>3 DEF OneDay
    <3>. QED BY <2>1, <3>3, <3>4 DEF Apart
  <2>. QED BY <1>3, <2>2, <2>3
<1>. HIDE DEF old
<1>. QED BY <1>1, <1>2, <1>4, <1>6, <1>7, SlotStep DEF old

LEMMA SaveExceptionStep ==
  ASSUME BookInv, NEW old,
         NEW x \in [type : {"removed", "extra"}, schedule : DOMAIN schedules,
                    date : Dates, time : Times],
         SaveException(old, x)
  PROVE  BookInv'
<1>1. x \in ExceptionRows /\ x.schedule \in DOMAIN schedules
  <2>1. DOMAIN schedules \subseteq Nat
    BY DEF BookInv, CatalogInv, ScheduleInv, Table
  <2>. QED BY <2>1 DEF ExceptionRows
<1>2. ExceptionInv(exceptions', schedules)
  BY <1>1 DEF SaveException, BookInv, CatalogInv, ExceptionInv
<1>. QED BY <1>2, EditFrame DEF SaveException, BookInv, CatalogInv

LEMMA DeactivateExceptionStep ==
  ASSUME BookInv, NEW x, DeactivateException(x)
  PROVE  BookInv'
<1>1. ExceptionInv(exceptions', schedules)
  BY DEF DeactivateException, BookInv, CatalogInv, ExceptionInv
<1>. QED BY <1>1, EditFrame DEF DeactivateException, BookInv, CatalogInv

LEMMA SaveAliasStep ==
  ASSUME BookInv, NEW id \in DOMAIN slots, SaveAlias("added", id)
  PROVE  BookInv'
<1>1. AliasInv(aliases', slots)
  BY DEF SaveAlias, BookInv, AliasInv
<1>. QED BY <1>1, EditFrame DEF SaveAlias, BookInv

LEMMA RequestDiesStep ==
  ASSUME BookInv, RequestDies
  PROVE  BookInv'
BY IdleFits DEF RequestDies, BookInv

-----------------------------------------------------------------------------
(* Emails and reviews.                                                     *)

LEMMA CandidatesAreSlots ==
  ASSUME NEW d
  PROVE  CandidateSlots(d) \subseteq DOMAIN slots
BY DEF CandidateSlots, Running, SlotsOf

\* What a date and a time lead to: a candidate, or the fallback.
LEMMA ResolvedFacts ==
  ASSUME BookInv, NEW d, NEW t, NEW fallback, NEW found, found = Resolved(d, t, fallback)
  PROVE  \/ found.slot \in CandidateSlots(d)
         \/ found.slot = fallback /\ (found.no_match <=> t # None)
<1>. DEFINE here == CandidateSlots(d)
            atTime == {i \in here : slots[i].time = t}
            ids == IF atTime # {} THEN atTime ELSE here
<1>1. found =
        IF atTime # {} \/ Cardinality(here) = 1
        THEN [slot |-> First(ids), no_match |-> FALSE]
        ELSE [slot |-> fallback, no_match |-> t # None]
  BY DEF Resolved
<1>2. CASE atTime # {} \/ Cardinality(here) = 1
  <2>1. ids # {} /\ ids \subseteq here
    BY <1>2, FS_EmptySet
  <2>2. ids \in SUBSET DOMAIN slots
    BY <2>1, CandidatesAreSlots
  <2>4. found = [slot |-> First(ids), no_match |-> FALSE]
    BY <1>1, <1>2
  <2>. HIDE DEF ids
  <2>3. First(ids) \in here
    BY <2>1, <2>2, FirstIsOne
  <2>. QED BY <2>3, <2>4
<1>3. CASE ~(atTime # {} \/ Cardinality(here) = 1)
  <2>1. found = [slot |-> fallback, no_match |-> t # None]
    BY <1>1, <1>3, Zenon
  <2>2. found.slot = fallback
    BY <2>1
  <2>3. PICK blind \in BOOLEAN : blind = (t # None)
    OBVIOUS
  <2>4. found = [slot |-> fallback, no_match |-> blind]
    BY <2>1, <2>3, Zenon
  <2>5. found.no_match = blind
    BY <2>4
  <2>. QED BY <2>2, <2>3, <2>5
<1>. QED BY <1>2, <1>3

LEMMA ResolvedSlot ==
  ASSUME BookInv, NEW d, NEW t, NEW fallback \in DOMAIN slots \cup {None}
  PROVE  Resolved(d, t, fallback).slot \in DOMAIN slots \cup {None}
<1>. PICK found : found = Resolved(d, t, fallback)
  OBVIOUS
<1>1. found.slot \in CandidateSlots(d) \/ found.slot = fallback
  BY ResolvedFacts
<1>. QED BY <1>1, CandidatesAreSlots

LEMMA RowFacts ==
  ASSUME BookInv, NEW b \in Bookings
  PROVE  RowOf(b) \in BookingRows /\ RowOf(b).slot \in DOMAIN slots \cup {None}
<1>1. Fresh \in BookingRows /\ Fresh.slot = None
  BY NoneIsNat DEF Fresh, BookingRows
<1>. QED BY <1>1 DEF BookInv, BookingInv, RowOf

\* One booking is written.
LEMMA BookingStep ==
  ASSUME BookInv, NEW b \in Bookings, NEW r \in BookingRows,
         r.slot \in DOMAIN slots \cup {None}, bookings' = [bookings EXCEPT ![b] = r],
         UNCHANGED <<schedules, slots, exceptions, aliases, task, up, edits>>
  PROVE  BookInv'
<1>1. BookingInv(bookings', slots)
  BY DEF BookInv, BookingInv
<1>. QED BY <1>1 DEF BookInv

LEMMA ParsedParts ==
  ASSUME NEW p \in Parsed
  PROVE  p[1] \in Dates \cup {None} /\ p[2] \in Times \cup {None}
BY ScheduleAssumption

LEMMA EmailPlacesStep ==
  ASSUME BookInv, NEW b \in Bookings, NEW a \in DOMAIN aliases,
         NEW d \in Dates \cup {None}, NEW t \in Times \cup {None}, EmailPlaces(b, a, d, t)
  PROVE  BookInv'
<1>. PICK old, found, late :
       /\ old = RowOf(b) /\ found = Resolved(d, t, aliases[a])
       /\ late = IF found.no_match /\ old.live THEN {"time_missing"} ELSE {}
  OBVIOUS
<1>. DEFINE r == [old EXCEPT !.date = d, !.time = t, !.slot = found.slot, !.mapped = TRUE,
                    !.open = (@ \ {"product_mismatch"}) \cup late,
                    !.closed = (@ \cup (old.open \cap {"product_mismatch"})) \ late]
<1>1. bookings' = [bookings EXCEPT ![b] = r]
      /\ UNCHANGED <<schedules, slots, exceptions, aliases, task, up, edits>>
  BY DEF EmailPlaces
<1>2. found.slot \in DOMAIN slots \cup {None} /\ found.slot \in Nat
  <2>1. aliases[a] \in DOMAIN slots \cup {None}
    BY DEF BookInv, AliasInv
  <2>2. DOMAIN slots \subseteq Nat
    BY DEF BookInv, CatalogInv, SlotInv, Table
  <2>3. found.slot \in DOMAIN slots \cup {None}
    BY <2>1, ResolvedSlot
  <2>. QED BY <2>2, <2>3, NoneIsNat
<1>3. old \in BookingRows /\ late \subseteq Issues
  BY RowFacts DEF Issues
<1>4. r \in BookingRows /\ r.slot = found.slot
  BY <1>2, <1>3 DEF BookingRows
<1>. HIDE DEF r
<1>. QED BY <1>1, <1>2, <1>4, BookingStep

LEMMA EmailUnmappedStep ==
  ASSUME BookInv, NEW b \in Bookings, NEW d \in Dates \cup {None},
         NEW t \in Times \cup {None}, EmailUnmapped(b, d, t)
  PROVE  BookInv'
<1>. PICK old, issue :
       old = RowOf(b) /\ issue = IF old.live THEN {"product_mismatch"} ELSE {}
  OBVIOUS
<1>. DEFINE r == [old EXCEPT !.date = d, !.time = t,
                    !.open = IF old.mapped THEN @ \ issue ELSE @ \cup issue,
                    !.closed = IF old.mapped THEN @ \cup issue ELSE @ \ issue]
<1>1. bookings' = [bookings EXCEPT ![b] = r]
      /\ UNCHANGED <<schedules, slots, exceptions, aliases, task, up, edits>>
  BY DEF EmailUnmapped
<1>2. old \in BookingRows /\ old.slot \in DOMAIN slots \cup {None} /\ issue \subseteq Issues
  BY RowFacts DEF Issues
<1>3. r \in BookingRows /\ r.slot = old.slot
  BY <1>2 DEF BookingRows
<1>. HIDE DEF r
<1>. QED BY <1>1, <1>2, <1>3, BookingStep

LEMMA StoredRow ==
  ASSUME BookInv, NEW b \in Bookings, bookings[b] # NoBooking
  PROVE  bookings[b] \in BookingRows /\ bookings[b].slot \in DOMAIN slots \cup {None}
BY DEF BookInv, BookingInv

LEMMA EmailCancelsStep ==
  ASSUME BookInv, NEW b \in Bookings, EmailCancels(b)
  PROVE  BookInv'
<1>. DEFINE r == [bookings[b] EXCEPT !.live = FALSE]
<1>1. bookings' = [bookings EXCEPT ![b] = r]
      /\ UNCHANGED <<schedules, slots, exceptions, aliases, task, up, edits>>
  BY DEF EmailCancels
<1>2. r \in BookingRows /\ r.slot \in DOMAIN slots \cup {None}
  BY StoredRow DEF EmailCancels, BookingRows
<1>. HIDE DEF r
<1>. QED BY <1>1, <1>2, BookingStep

LEMMA CloseReviewStep ==
  ASSUME BookInv, NEW b \in Bookings, NEW issue \in Issues, CloseReview(b, issue)
  PROVE  BookInv'
<1>. DEFINE r == [bookings[b] EXCEPT !.open = @ \ {issue}, !.closed = @ \cup {issue}]
<1>1. bookings' = [bookings EXCEPT ![b] = r]
  BY DEF CloseReview, BookInv, BookingInv
<1>2. r \in BookingRows /\ r.slot \in DOMAIN slots \cup {None}
  BY StoredRow DEF CloseReview, BookingRows
<1>3. UNCHANGED <<schedules, slots, exceptions, aliases, task, up, edits>>
  BY DEF CloseReview
<1>. HIDE DEF r
<1>. QED BY <1>1, <1>2, <1>3, BookingStep

LEMMA ReslotStep ==
  ASSUME BookInv, NEW b \in Bookings, Reslot(b)
  PROVE  BookInv'
<1>. PICK old, found :
       old = bookings[b] /\ found = Resolved(old.date, old.time, old.slot)
  OBVIOUS
<1>1. old \in BookingRows /\ old.slot \in DOMAIN slots \cup {None}
  BY StoredRow DEF Reslot
<1>2. found.slot \in DOMAIN slots \cup {None}
  BY <1>1, ResolvedSlot
<1>3. found.slot \in Nat
  BY <1>2, NoneIsNat DEF BookInv, CatalogInv, SlotInv, Table
<1>4. PICK r :
        /\ bookings' = [bookings EXCEPT ![b] = r]
        /\ \/ r = [old EXCEPT !.open = @ \cup {"time_missing"},
                              !.closed = @ \ {"time_missing"}]
           \/ r = [old EXCEPT !.slot = found.slot]
  BY DEF Reslot
<1>5. UNCHANGED <<schedules, slots, exceptions, aliases, task, up, edits>>
  BY DEF Reslot
<1>6. r \in BookingRows /\ r.slot \in DOMAIN slots \cup {None}
  BY <1>1, <1>2, <1>3, <1>4 DEF BookingRows, Issues
<1>. QED BY <1>4, <1>5, <1>6, BookingStep

-----------------------------------------------------------------------------
(* The seed.                                                               *)

\* The seed finds at most one row for each of its keys.
Seedable(sc, sl) ==
  /\ Table(sc) /\ Table(sl)
  /\ \A i \in DOMAIN sc : sc[i] \in ScheduleRows
                          /\ (sc[i].kind = "current" => sc[i].priority = 100)
  /\ \A n \in SeedEntries : \A i, j \in Lookup(sc, n) : i = j
  /\ \A i \in DOMAIN sl : sl[i] \in SlotRows /\ sl[i].schedule \in DOMAIN sc
  /\ \A t \in SeedTimes :
       \A i, j \in AtSeedTime(SeededCurrent(SeedSchedules(sc)), sl, t) : i = j

\* A row of the catalogue is there, once and as the catalogue has it.
Planted(w, n) == \E i : Lookup(w, n) = {i} /\ w[i] = SeededRow(n)

\* What the first two loops of the seed make of the schedules sc.
Sown(w, sc) ==
  /\ Table(w) /\ DOMAIN sc \subseteq DOMAIN w
  /\ \A i \in DOMAIN w : w[i] \in ScheduleRows
  /\ \A n \in SeedEntries : Planted(w, n)
  /\ \A i \in DOMAIN w : w[i].kind = "current" => i \in Lookup(w, 0)

LEMMA EntryFacts ==
  /\ SeedEntries \in SUBSET Nat /\ IsFiniteSet(SeedEntries) /\ 0 \in SeedEntries
  /\ DOMAIN SeedOthers = SeedEntries \ {0}
  /\ \A n \in SeedEntries : SeededRow(n) \in ScheduleRows
  /\ \A n, m \in SeedEntries :
       SeededRow(n).kind = SeededRow(m).kind /\ EntryPriority(n) = EntryPriority(m) => n = m
<1>1. SeedOthers \in Seq(Ranges) /\ Len(SeedOthers) \in Nat /\ DOMAIN SeedOthers = 1..Len(SeedOthers)
  BY ScheduleAssumption
<1>2. SeedEntries \in SUBSET Nat /\ 0 \in SeedEntries /\ DOMAIN SeedOthers = SeedEntries \ {0}
  BY <1>1 DEF SeedEntries
<1>3. IsFiniteSet(SeedEntries)
  BY <1>1, FS_Interval DEF SeedEntries
<1>4. ASSUME NEW n \in SeedEntries PROVE SeededRow(n) \in ScheduleRows
  <2>1. n = 0 \/ n \in 1..Len(SeedOthers)
    BY <1>1 DEF SeedEntries
  <2>2. (IF n = 0 THEN SeedRange ELSE SeedOthers[n]) \in Ranges
    BY <1>1, <2>1, ScheduleAssumption
  <2>3. EntryPriority(n) \in Nat
    BY <1>2 DEF EntryPriority
  <2>. QED BY <2>2, <2>3 DEF SeededRow, ScheduleRows, Kinds
<1>5. ASSUME NEW n \in SeedEntries, NEW m \in SeedEntries,
             SeededRow(n).kind = SeededRow(m).kind, EntryPriority(n) = EntryPriority(m)
      PROVE  n = m
  BY <1>2, <1>5 DEF SeededRow, EntryPriority
<1>. QED BY <1>2, <1>3, <1>4, <1>5

LEMMA SchedulesSown ==
  ASSUME NEW sc, NEW sl, Seedable(sc, sl)
  PROVE  Sown(SeedSchedules(sc), sc)
<1>. DEFINE found == [n \in SeedEntries |-> Lookup(sc, n)]
            rows == [n \in SeedEntries |-> SeededRow(n)]
            ids == IdsOf(sc, found)
            w == SeedSchedules(sc)
<1>1. Found(sc, found)
  <2>1. \A n \in SeedEntries : Lookup(sc, n) \subseteq DOMAIN sc
    BY DEF Lookup
  <2>2. \A n, m \in SeedEntries : n # m => Lookup(sc, n) \cap Lookup(sc, m) = {}
    BY EntryFacts DEF Lookup
  <2>3. DOMAIN found = SeedEntries /\ \A n \in SeedEntries : found[n] = Lookup(sc, n)
    OBVIOUS
  <2>. HIDE DEF found
  <2>4. DOMAIN found \subseteq Nat /\ IsFiniteSet(DOMAIN found)
    <3>1. SeedEntries \subseteq Nat /\ IsFiniteSet(SeedEntries)
      BY EntryFacts
    <3>. QED BY <2>3, <3>1
  <2>5. \A n, m \in DOMAIN found : n # m => found[n] \cap found[m] = {}
    BY <2>2, <2>3
  <2>6. \A n \in DOMAIN found : found[n] \subseteq DOMAIN sc
    BY <2>1, <2>3
  <2>. QED BY <2>4, <2>5, <2>6 DEF Found, Seedable
<1>2. Loaded(w, sc, DOMAIN found, ids, rows)
  BY <1>1, UpsertFacts DEF SeedSchedules
<1>3. \A n \in SeedEntries : IF Lookup(sc, n) = {} THEN ids[n] \notin DOMAIN sc
                            ELSE ids[n] \in Lookup(sc, n)
  BY <1>1, IdsFacts
<1>4. DOMAIN found = SeedEntries /\ \A n \in SeedEntries : rows[n] = SeededRow(n)
  OBVIOUS
<1>. HIDE DEF found, rows, ids, w
<1>5. /\ Table(w) /\ DOMAIN w = DOMAIN sc \cup {ids[n] : n \in SeedEntries}
      /\ \A n \in SeedEntries : w[ids[n]] = SeededRow(n)
      /\ \A i \in DOMAIN sc : (\A n \in SeedEntries : i # ids[n]) => w[i] = sc[i]
  BY <1>2, <1>4 DEF Loaded
<1>6. ASSUME NEW i \in DOMAIN w
      PROVE  \/ \E n \in SeedEntries : i = ids[n] /\ w[i] = SeededRow(n)
             \/ i \in DOMAIN sc /\ w[i] = sc[i] /\ \A n \in SeedEntries : i # ids[n]
  BY <1>5
<1>7. \A i \in DOMAIN w : w[i] \in ScheduleRows
  BY <1>6, EntryFacts DEF Seedable
<1>8. ASSUME NEW n \in SeedEntries, NEW i \in Lookup(w, n) PROVE i = ids[n]
  <2>1. i \in DOMAIN w /\ w[i].kind = SeededRow(n).kind /\ w[i].priority = EntryPriority(n)
    BY DEF Lookup
  <2>2. CASE \E m \in SeedEntries : i = ids[m] /\ w[i] = SeededRow(m)
    <3>1. PICK m \in SeedEntries : i = ids[m] /\ w[i] = SeededRow(m)
      BY <2>2
    <3>2. SeededRow(m).kind = SeededRow(n).kind /\ SeededRow(m).priority = EntryPriority(n)
      BY <2>1, <3>1
    <3>3. SeededRow(m).priority = EntryPriority(m)
      BY DEF SeededRow
    <3>4. m = n
      BY <3>2, <3>3, EntryFacts
    <3>. QED BY <3>1, <3>4
  <2>3. CASE i \in DOMAIN sc /\ w[i] = sc[i] /\ \A m \in SeedEntries : i # ids[m]
    <3>1. i \in Lookup(sc, n)
      BY <2>1, <2>3 DEF Lookup
    <3>2. ids[n] \in Lookup(sc, n)
      BY <1>3, <3>1
    <3>. QED BY <3>1, <3>2 DEF Seedable
  <2>. QED BY <1>6, <2>1, <2>2, <2>3
<1>9. ASSUME NEW n \in SeedEntries PROVE Planted(w, n)
  <2>1. ids[n] \in DOMAIN w /\ w[ids[n]] = SeededRow(n)
    BY <1>5
  <2>2. ids[n] \in Lookup(w, n)
    BY <2>1 DEF Lookup, SeededRow
  <2>3. Lookup(w, n) = {ids[n]}
    BY <1>8, <2>2
  <2>. QED BY <2>1, <2>3 DEF Planted
<1>10. ASSUME NEW i \in DOMAIN w, w[i].kind = "current" PROVE i \in Lookup(w, 0)
  <2>1. w[i].priority = 100
    <3>1. \A n \in SeedEntries : SeededRow(n).kind = "current" => SeededRow(n).priority = 100
      BY DEF SeededRow, EntryPriority
    <3>. QED BY <1>6, <1>10, <3>1 DEF Seedable
  <2>. QED BY <1>10, <2>1 DEF Lookup, SeededRow, EntryPriority
<1>11. Sown(w, sc)
  BY <1>5, <1>7, <1>9, <1>10 DEF Sown
<1>. QED BY <1>11 DEF w

\* The current schedule of a sown table.
LEMMA SownCurrent ==
  ASSUME NEW w, NEW sc, Sown(w, sc)
  PROVE  /\ SeededCurrent(w) \in DOMAIN w /\ w[SeededCurrent(w)] = SeededRow(0)
         /\ Lookup(w, 0) = {SeededCurrent(w)}
         /\ \A i \in DOMAIN w : w[i].kind = "current" <=> i = SeededCurrent(w)
<1>1. PICK s : Lookup(w, 0) = {s} /\ w[s] = SeededRow(0)
  BY EntryFacts DEF Sown, Planted
<1>2. SeededCurrent(w) = s
  BY <1>1 DEF SeededCurrent
<1>3. s \in DOMAIN w /\ w[s].kind = "current"
  <2>1. s \in Lookup(w, 0)
    BY <1>1
  <2>. QED BY <1>1, <2>1 DEF Lookup, SeededRow
<1>4. \A i \in DOMAIN w : w[i].kind = "current" => i = s
  BY <1>1 DEF Sown
<1>. QED BY <1>1, <1>2, <1>3, <1>4

\* Nothing but the catalogue's schedules.
Grown(w) ==
  /\ Table(w)
  /\ \A n \in SeedEntries : Planted(w, n)
  /\ \A i \in DOMAIN w : w[i] \in ScheduleRows /\ \E n \in SeedEntries : i \in Lookup(w, n)

LEMMA Weeded ==
  ASSUME NEW w, NEW sc, Sown(w, sc), NEW v, v = Without(w, StaleSchedules(w))
  PROVE  /\ Grown(v) /\ SeededCurrent(v) = SeededCurrent(w)
         /\ DOMAIN v = DOMAIN w \ StaleSchedules(w)
<1>. DEFINE gone == StaleSchedules(w)
<1>1. Taken(v, w, gone)
  BY TableWithout DEF Sown
<1>. HIDE DEF gone
<1>2. Table(v) /\ DOMAIN v = DOMAIN w \ gone /\ \A i \in DOMAIN v : v[i] = w[i]
  BY <1>1 DEF Taken
<1>3. ASSUME NEW n \in SeedEntries PROVE Lookup(v, n) = Lookup(w, n)
  <2>1. ASSUME NEW i \in Lookup(w, n) PROVE i \notin gone
    <3>1. CASE n = 0
      BY <2>1, <3>1 DEF gone, StaleSchedules, Lookup, SeededRow
    <3>2. CASE n # 0
      <4>1. n \in DOMAIN SeedOthers /\ EntryPriority(n) = 199 + n
        BY <3>2, EntryFacts DEF EntryPriority
      <4>2. EntryPriority(n) \in OtherPriorities
        BY <4>1 DEF OtherPriorities
      <4>. QED BY <2>1, <4>2 DEF gone, StaleSchedules, Lookup
    <3>. QED BY <3>1, <3>2
  <2>. QED BY <1>2, <2>1 DEF Lookup
<1>4. ASSUME NEW n \in SeedEntries PROVE Planted(v, n)
  <2>1. PICK i : Lookup(w, n) = {i} /\ w[i] = SeededRow(n)
    BY DEF Sown, Planted
  <2>2. Lookup(v, n) = {i}
    BY <1>3, <2>1
  <2>3. i \in DOMAIN v
    BY <2>2 DEF Lookup
  <2>. QED BY <1>2, <2>1, <2>2, <2>3 DEF Planted
<1>5. ASSUME NEW i \in DOMAIN v
      PROVE  v[i] \in ScheduleRows /\ \E n \in SeedEntries : i \in Lookup(v, n)
  <2>1. v[i] \in ScheduleRows /\ v[i] = w[i] /\ i \in DOMAIN w /\ i \notin gone
    BY <1>2 DEF Sown
  <2>2. CASE v[i].kind = "current"
    BY <1>3, <2>1, <2>2, EntryFacts DEF Sown
  <2>3. CASE v[i].kind = "other"
    <3>1. v[i].priority \in OtherPriorities
      BY <2>1, <2>3 DEF gone, StaleSchedules
    <3>2. PICK n \in DOMAIN SeedOthers : v[i].priority = 199 + n
      BY <3>1 DEF OtherPriorities
    <3>3. n \in SeedEntries /\ n # 0
      BY EntryFacts
    <3>4. i \in Lookup(v, n)
      BY <2>3, <3>2, <3>3 DEF Lookup, SeededRow, EntryPriority
    <3>. QED BY <2>1, <3>3, <3>4
  <2>. QED BY <2>1, <2>2, <2>3 DEF ScheduleRows, Kinds
<1>6. SeededCurrent(v) = SeededCurrent(w)
  BY <1>3, EntryFacts DEF SeededCurrent
<1>7. Grown(v)
  BY <1>2, <1>4, <1>5 DEF Grown
<1>. QED BY <1>2, <1>6, <1>7 DEF gone

LEMMA GrownIsSown ==
  ASSUME NEW w, Grown(w)
  PROVE  Sown(w, w)
<1>1. ASSUME NEW i \in DOMAIN w, w[i].kind = "current" PROVE i \in Lookup(w, 0)
  <2>1. PICK n \in SeedEntries : i \in Lookup(w, n)
    BY DEF Grown
  <2>2. n = 0
    BY <1>1, <2>1 DEF Lookup, SeededRow
  <2>. QED BY <2>1, <2>2
<1>. QED BY <1>1 DEF Grown, Sown

\* Sowing again changes nothing, and nothing is stale.
LEMMA SowAgain ==
  ASSUME NEW w, Grown(w)
  PROVE  SeedSchedules(w) = w /\ StaleSchedules(w) = {}
<1>. DEFINE found == [n \in SeedEntries |-> Lookup(w, n)]
            rows == [n \in SeedEntries |-> SeededRow(n)]
<1>1. DOMAIN found = SeedEntries
      /\ \A n \in SeedEntries : found[n] = Lookup(w, n) /\ rows[n] = SeededRow(n)
  OBVIOUS
<1>. HIDE DEF found, rows
<1>2. Found(w, found)
  <2>1. \A n \in SeedEntries : Lookup(w, n) \subseteq DOMAIN w
    BY DEF Lookup
  <2>2. \A n, m \in SeedEntries : n # m => Lookup(w, n) \cap Lookup(w, m) = {}
    BY EntryFacts DEF Lookup
  <2>3. DOMAIN found \subseteq Nat /\ IsFiniteSet(DOMAIN found)
    <3>1. SeedEntries \subseteq Nat /\ IsFiniteSet(SeedEntries)
      BY EntryFacts
    <3>. QED BY <1>1, <3>1
  <2>4. \A n, m \in DOMAIN found : n # m => found[n] \cap found[m] = {}
    BY <1>1, <2>2
  <2>5. \A n \in DOMAIN found : found[n] \subseteq DOMAIN w
    BY <1>1, <2>1
  <2>. QED BY <2>3, <2>4, <2>5 DEF Found, Grown
<1>3. \A n \in DOMAIN found : found[n] # {} /\ \A i \in found[n] : w[i] = rows[n]
  BY <1>1 DEF Grown, Planted
<1>4. Upserted(w, found, rows) = w
  BY <1>2, <1>3, UpsertAgain
<1>5. SeedSchedules(w) = w
  BY <1>4 DEF SeedSchedules, found, rows
<1>6. ASSUME NEW i \in StaleSchedules(w) PROVE FALSE
  <2>1. i \in DOMAIN w /\ w[i].kind = "other" /\ w[i].priority \notin OtherPriorities
    BY DEF StaleSchedules
  <2>2. PICK n \in SeedEntries : i \in Lookup(w, n)
    BY <2>1 DEF Grown
  <2>3. n # 0 /\ w[i].priority = 199 + n
    BY <2>1, <2>2 DEF Lookup, SeededRow, EntryPriority
  <2>4. n \in DOMAIN SeedOthers
    BY <2>3, EntryFacts
  <2>. QED BY <2>1, <2>3, <2>4 DEF OtherPriorities
<1>. QED BY <1>5, <1>6

SeededSlot(s, t) == [schedule |-> s, time |-> t, days |-> {}, active |-> TRUE]

\* Nothing but one slot at each time of the catalogue.
Stocked(s, u) ==
  /\ Table(u)
  /\ \A t \in SeedTimes : \E i : AtSeedTime(s, u, t) = {i} /\ u[i] = SeededSlot(s, t)
  /\ \A i \in DOMAIN u : \E t \in SeedTimes : i \in AtSeedTime(s, u, t)

LEMMA SeedTimeFacts ==
  SeedTimes \in SUBSET Nat /\ IsFiniteSet(SeedTimes) /\ FirstSeedTime \in SeedTimes
<1>1. SeedTimes \in SUBSET Nat /\ SeedTimes # {} /\ IsFiniteSet(SeedTimes)
  BY ScheduleAssumption
<1>2. \E t \in SeedTimes : \A u \in SeedTimes : t <= u
  BY <1>1, LeastExists
<1>. QED BY <1>1, <1>2 DEF FirstSeedTime

\* What the slots at the times of the catalogue are looked up in.
LEMMA FoundSlotsFacts ==
  ASSUME NEW s, NEW u, Table(u)
  PROVE  Found(u, FoundSlots(s, u))
<1>1. /\ DOMAIN FoundSlots(s, u) = SeedTimes
      /\ \A t \in SeedTimes : FoundSlots(s, u)[t] = AtSeedTime(s, u, t)
  BY DEF FoundSlots
<1>2. DOMAIN FoundSlots(s, u) \subseteq Nat /\ IsFiniteSet(DOMAIN FoundSlots(s, u))
  <2>1. SeedTimes \subseteq Nat /\ IsFiniteSet(SeedTimes)
    BY SeedTimeFacts
  <2>. QED BY <1>1, <2>1
<1>3. \A t \in SeedTimes : AtSeedTime(s, u, t) \subseteq DOMAIN u
  BY DEF AtSeedTime, SlotsOf
<1>4. \A t, v \in SeedTimes : t # v => AtSeedTime(s, u, t) \cap AtSeedTime(s, u, v) = {}
  BY DEF AtSeedTime
<1>. HIDE DEF FoundSlots
<1>5. \A t \in DOMAIN FoundSlots(s, u) : FoundSlots(s, u)[t] \subseteq DOMAIN u
  BY <1>1, <1>3
<1>6. \A t, v \in DOMAIN FoundSlots(s, u) :
        t # v => FoundSlots(s, u)[t] \cap FoundSlots(s, u)[v] = {}
  BY <1>1, <1>4
<1>. QED BY <1>2, <1>5, <1>6 DEF Found

LEMMA SlotsStocked ==
  ASSUME NEW s, NEW u, Table(u),
         \A i \in DOMAIN u : u[i].schedule = s /\ u[i].time \in SeedTimes,
         \A t \in SeedTimes : \A i, j \in AtSeedTime(s, u, t) : i = j
  PROVE  Stocked(s, SeedSlots(s, u)) /\ DOMAIN u \subseteq DOMAIN SeedSlots(s, u)
<1>. DEFINE found == FoundSlots(s, u)
            rows == [t \in SeedTimes |-> [schedule |-> s, time |-> t, days |-> {}, active |-> TRUE]]
            ids == IdsOf(u, found)
            w == SeedSlots(s, u)
<1>1. Found(u, found)
  BY FoundSlotsFacts
<1>2. Loaded(w, u, DOMAIN found, ids, rows)
  BY <1>1, UpsertFacts DEF SeedSlots
<1>3. DOMAIN found = SeedTimes /\ \A t \in SeedTimes : found[t] = AtSeedTime(s, u, t)
  BY DEF FoundSlots
<1>4. \A t \in SeedTimes : rows[t] = SeededSlot(s, t)
  BY DEF SeededSlot
<1>. HIDE DEF found, rows, ids, w
<1>5. /\ \A t \in SeedTimes : found[t] # {} => ids[t] \in found[t]
      /\ \A t, v \in SeedTimes : ids[t] = ids[v] => t = v
  BY <1>1, <1>3, IdsFacts DEF ids
<1>6. /\ Table(w) /\ DOMAIN w = DOMAIN u \cup {ids[t] : t \in SeedTimes}
      /\ \A t \in SeedTimes : w[ids[t]] = SeededSlot(s, t)
  BY <1>2, <1>3, <1>4 DEF Loaded
<1>7. ASSUME NEW i \in DOMAIN w PROVE \E t \in SeedTimes : i = ids[t]
  <2>1. CASE i \in DOMAIN u
    <3>1. u[i].time \in SeedTimes /\ i \in AtSeedTime(s, u, u[i].time)
      BY <2>1 DEF AtSeedTime, SlotsOf
    <3>2. ids[u[i].time] \in AtSeedTime(s, u, u[i].time)
      BY <1>3, <1>5, <3>1
    <3>3. i = ids[u[i].time]
      BY <3>1, <3>2
    <3>. QED BY <3>1, <3>3
  <2>. QED BY <1>6, <2>1
<1>0. ASSUME NEW t \in SeedTimes
      PROVE  ids[t] \in DOMAIN w /\ w[ids[t]].schedule = s /\ w[ids[t]].time = t
  <2>1. SeededSlot(s, t).schedule = s /\ SeededSlot(s, t).time = t
    BY DEF SeededSlot
  <2>. QED BY <1>6, <2>1
<1>8. ASSUME NEW t \in SeedTimes PROVE AtSeedTime(s, w, t) = {ids[t]}
  <2>1. ids[t] \in AtSeedTime(s, w, t)
    BY <1>0 DEF AtSeedTime, SlotsOf
  <2>2. ASSUME NEW i \in AtSeedTime(s, w, t) PROVE i = ids[t]
    <3>1. i \in DOMAIN w /\ w[i].time = t
      BY DEF AtSeedTime, SlotsOf
    <3>2. PICK v \in SeedTimes : i = ids[v]
      BY <1>7, <3>1
    <3>3. w[i].time = v
      BY <1>0, <3>2
    <3>. QED BY <3>1, <3>2, <3>3
  <2>. QED BY <2>1, <2>2
<1>9. Stocked(s, w)
  <2>1. \A t \in SeedTimes : \E i : AtSeedTime(s, w, t) = {i} /\ w[i] = SeededSlot(s, t)
    BY <1>6, <1>8
  <2>2. \A i \in DOMAIN w : \E t \in SeedTimes : i \in AtSeedTime(s, w, t)
    BY <1>7, <1>8
  <2>. QED BY <1>6, <2>1, <2>2 DEF Stocked
<1>. QED BY <1>6, <1>9 DEF w

LEMMA StockAgain ==
  ASSUME NEW s, NEW u, Stocked(s, u)
  PROVE  SeedSlots(s, u) = u
<1>. DEFINE found == FoundSlots(s, u)
            rows == [t \in SeedTimes |-> [schedule |-> s, time |-> t, days |-> {}, active |-> TRUE]]
<1>1. Found(u, found)
  BY FoundSlotsFacts DEF Stocked
<1>2. DOMAIN found = SeedTimes /\ \A t \in SeedTimes : found[t] = AtSeedTime(s, u, t)
  BY DEF FoundSlots
<1>3. \A t \in SeedTimes : rows[t] = SeededSlot(s, t)
  BY DEF SeededSlot
<1>. HIDE DEF found, rows
<1>4. \A t \in DOMAIN found : found[t] # {} /\ \A i \in found[t] : u[i] = rows[t]
  BY <1>2, <1>3 DEF Stocked
<1>5. Upserted(u, found, rows) = u
  BY <1>1, <1>4, UpsertAgain
<1>. QED BY <1>5 DEF SeedSlots, found, rows

LEMMA StockedSlot ==
  ASSUME NEW s \in Nat, NEW u, Stocked(s, u), NEW i \in DOMAIN u
  PROVE  /\ u[i] \in SlotRows /\ u[i].schedule = s /\ u[i].time \in SeedTimes
         /\ \A j \in DOMAIN u : u[i].time = u[j].time => i = j
<1>1. PICK t \in SeedTimes : i \in AtSeedTime(s, u, t)
  BY DEF Stocked
<1>2. PICK k : AtSeedTime(s, u, t) = {k} /\ u[k] = SeededSlot(s, t)
  BY DEF Stocked
<1>3. u[i] = SeededSlot(s, t)
  BY <1>1, <1>2
<1>4. u[i] \in SlotRows /\ u[i].schedule = s /\ u[i].time = t
  BY <1>3, ScheduleAssumption DEF SeededSlot, SlotRows
<1>5. ASSUME NEW j \in DOMAIN u, u[i].time = u[j].time PROVE i = j
  <2>1. PICK v \in SeedTimes : j \in AtSeedTime(s, u, v)
    BY DEF Stocked
  <2>2. v = t
    BY <1>4, <1>5, <2>1 DEF AtSeedTime
  <2>. QED BY <1>1, <1>2, <2>1, <2>2
<1>. QED BY <1>4, <1>5

\* What the seed makes of the catalogue c: w sown, v weeded, u stocked.
Gardened(c, w, s, stale, v, u) ==
  /\ Sown(w, c.schedules) /\ Grown(v) /\ Stocked(s, u)
  /\ s = SeededCurrent(v) /\ s \in DOMAIN v /\ s \in Nat
  /\ DOMAIN v = DOMAIN w \ StaleSchedules(w)
  /\ DOMAIN c.slots \ stale \subseteq DOMAIN u

LEMMA SeededFacts ==
  ASSUME NEW c, Seedable(c.schedules, c.slots), NEW w, w = SeedSchedules(c.schedules),
         NEW s, s = SeededCurrent(w), NEW stale, stale = StaleSlots(w, c.slots),
         NEW rest, rest = Without(c.slots, stale), NEW v, v = Without(w, StaleSchedules(w)),
         NEW u, u = SeedSlots(s, rest)
  PROVE  Gardened(c, w, s, stale, v, u)
<1>1. Sown(w, c.schedules)
  BY SchedulesSown
<1>2. /\ s \in DOMAIN w /\ w[s] = SeededRow(0)
      /\ \A i \in DOMAIN w : w[i].kind = "current" <=> i = s
  BY <1>1, SownCurrent
<1>3. Grown(v) /\ SeededCurrent(v) = s /\ DOMAIN v = DOMAIN w \ StaleSchedules(w)
  BY <1>1, Weeded
<1>4. s \in DOMAIN v /\ s \in Nat
  <2>1. s \notin StaleSchedules(w)
    BY <1>2 DEF StaleSchedules, SeededRow
  <2>. QED BY <1>1, <1>2, <1>3, <2>1 DEF Sown, Table
<1>5. Taken(rest, c.slots, stale)
  BY TableWithout DEF Seedable
<1>6. Table(rest) /\ DOMAIN rest = DOMAIN c.slots \ stale
      /\ \A i \in DOMAIN rest : rest[i] = c.slots[i]
  BY <1>5 DEF Taken
<1>7. ASSUME NEW i \in DOMAIN rest PROVE rest[i].schedule = s /\ rest[i].time \in SeedTimes
  <2>1. /\ i \in DOMAIN c.slots /\ rest[i] = c.slots[i]
        /\ w[c.slots[i].schedule].kind # "other" /\ c.slots[i].time \in SeedTimes
    BY <1>6 DEF StaleSlots
  <2>2. c.slots[i].schedule \in DOMAIN w
    BY <1>1, <2>1 DEF Seedable, Sown
  <2>3. w[c.slots[i].schedule].kind = "current"
    BY <1>1, <2>1, <2>2 DEF Sown, ScheduleRows, Kinds
  <2>. QED BY <1>2, <2>1, <2>2, <2>3
<1>8. ASSUME NEW t \in SeedTimes, NEW i \in AtSeedTime(s, rest, t),
             NEW j \in AtSeedTime(s, rest, t)
      PROVE  i = j
  <2>1. AtSeedTime(s, rest, t) \subseteq AtSeedTime(s, c.slots, t)
    BY <1>6 DEF AtSeedTime, SlotsOf
  <2>. QED BY <2>1 DEF Seedable
<1>9. Stocked(s, u) /\ DOMAIN rest \subseteq DOMAIN u
  BY <1>6, <1>7, <1>8, SlotsStocked
<1>. QED BY <1>1, <1>3, <1>4, <1>6, <1>9 DEF Gardened

LEMMA WithoutNothing ==
  ASSUME NEW t, Table(t)
  PROVE  Without(t, {}) = t
<1>1. DOMAIN t \ {} = DOMAIN t
  OBVIOUS
<1>2. t = [i \in DOMAIN t |-> t[i]]
  BY DEF Table
<1>. QED BY <1>1, <1>2 DEF Without

\* The catalogue d the seed leaves of c is one the invariant allows.
Harvest(c, d) ==
  /\ CatalogInv(d.schedules, d.slots, d.exceptions)
  /\ DOMAIN c.slots \ StaleSlots(SeedSchedules(c.schedules), c.slots) \subseteq DOMAIN d.slots
  /\ \E f \in DOMAIN d.slots : d.aliases = [c.aliases EXCEPT !.seeded = f]

LEMMA SeededCatalog ==
  ASSUME NEW c, Seedable(c.schedules, c.slots), ExceptionInv(c.exceptions, c.schedules),
         NEW d, d = Seeded(c)
  PROVE  Harvest(c, d)
<1>. DEFINE w == SeedSchedules(c.schedules)
            s == SeededCurrent(w)
            stale == StaleSlots(w, c.slots)
            gone == StaleSchedules(w)
            v == Without(w, gone)
            u == SeedSlots(s, Without(c.slots, stale))
            f == CHOOSE i \in AtSeedTime(s, u, FirstSeedTime) : TRUE
<1>1. d = [schedules |-> v, slots |-> u,
           exceptions |-> {x \in c.exceptions : x.schedule \notin gone},
           aliases |-> [c.aliases EXCEPT !.seeded = f]]
  BY DEF Seeded
<1>0. Gardened(c, w, s, stale, v, u)
  BY SeededFacts
<1>2. /\ Sown(w, c.schedules) /\ Grown(v) /\ Stocked(s, u)
      /\ s = SeededCurrent(v) /\ s \in DOMAIN v /\ s \in Nat
      /\ DOMAIN v = DOMAIN w \ gone /\ DOMAIN c.slots \ stale \subseteq DOMAIN u
  BY <1>0 DEF Gardened
<1>. HIDE DEF w, s, stale, gone, v, u, f
<1>3. /\ d.schedules = v /\ d.slots = u
      /\ d.exceptions = {x \in c.exceptions : x.schedule \notin gone}
      /\ d.aliases = [c.aliases EXCEPT !.seeded = f]
  BY <1>1
<1>4. ScheduleInv(v)
  <2>1. Sown(v, v)
    BY <1>2, GrownIsSown
  <2>2. v[s] = SeededRow(0) /\ \A i \in DOMAIN v : v[i].kind = "current" <=> i = s
    BY <1>2, <2>1, SownCurrent
  <2>3. v[s].priority = 100
    BY <2>2 DEF SeededRow, EntryPriority
  <2>. QED BY <1>2, <2>1, <2>2, <2>3 DEF ScheduleInv, Sown
<1>5. SlotInv(u, v)
  <2>1. \A i \in DOMAIN u : u[i] \in SlotRows /\ u[i].schedule = s
    BY <1>2, StockedSlot
  <2>. QED BY <1>2, <2>1 DEF SlotInv, Stocked
<1>6. ApartInv(u)
  <2>1. \A i, j \in DOMAIN u : i # j => u[i].time # u[j].time
    BY <1>2, StockedSlot
  <2>. QED BY <2>1 DEF ApartInv, Apart, Meet
<1>7. ExceptionInv(d.exceptions, v)
  BY <1>2, <1>3 DEF ExceptionInv, Sown
<1>8. f \in DOMAIN u
  <2>1. PICK i : AtSeedTime(s, u, FirstSeedTime) = {i}
    BY <1>2, SeedTimeFacts DEF Stocked
  <2>2. f = i
    BY <2>1 DEF f
  <2>. QED BY <2>1, <2>2 DEF AtSeedTime, SlotsOf
<1>9. CatalogInv(d.schedules, d.slots, d.exceptions)
  BY <1>3, <1>4, <1>5, <1>6, <1>7 DEF CatalogInv
<1>. QED BY <1>2, <1>3, <1>8, <1>9 DEF Harvest, stale, w

\* Seeding a seeded catalogue changes nothing.
LEMMA SeedAgain ==
  ASSUME NEW c, Seedable(c.schedules, c.slots)
  PROVE  Seeded(Seeded(c)) = Seeded(c)
<1>. DEFINE w == SeedSchedules(c.schedules)
            s == SeededCurrent(w)
            stale == StaleSlots(w, c.slots)
            gone == StaleSchedules(w)
            v == Without(w, gone)
            u == SeedSlots(s, Without(c.slots, stale))
            f == CHOOSE i \in AtSeedTime(s, u, FirstSeedTime) : TRUE
            X == {x \in c.exceptions : x.schedule \notin gone}
            A == [c.aliases EXCEPT !.seeded = f]
            d == [schedules |-> v, slots |-> u, exceptions |-> X, aliases |-> A]
<1>1. Seeded(c) = d
  BY DEF Seeded
<1>0. Gardened(c, w, s, stale, v, u)
  BY SeededFacts
<1>2. Grown(v) /\ Stocked(s, u) /\ s = SeededCurrent(v) /\ s \in DOMAIN v /\ s \in Nat
  BY <1>0 DEF Gardened
<1>. HIDE DEF w, s, stale, gone, v, u
<1>3. SeedSchedules(v) = v /\ StaleSchedules(v) = {}
  BY <1>2, SowAgain
<1>4. Without(v, {}) = v /\ Without(u, {}) = u
  BY <1>2, WithoutNothing DEF Grown, Stocked
<1>5. StaleSlots(v, u) = {}
  <2>1. Sown(v, v)
    BY <1>2, GrownIsSown
  <2>2. v[s].kind = "current"
    BY <1>2, <2>1, SownCurrent
  <2>3. \A i \in DOMAIN u : u[i].schedule = s /\ u[i].time \in SeedTimes
    BY <1>2, StockedSlot
  <2>. QED BY <2>2, <2>3 DEF StaleSlots
<1>6. SeedSlots(s, u) = u
  BY <1>2, StockAgain
<1>7. d.schedules = v /\ d.slots = u /\ d.exceptions = X /\ d.aliases = A
  OBVIOUS
<1>8. {x \in X : x.schedule \notin {}} = X
  OBVIOUS
<1>9. [A EXCEPT !.seeded = f] = A
  <2>. HIDE DEF f
  <2>. QED OBVIOUS
<1>. HIDE DEF d, X, A
<1>10. Seeded(d) = [schedules |-> v, slots |-> u,
                    exceptions |-> {x \in X : x.schedule \notin {}},
                    aliases |-> [A EXCEPT !.seeded = f]]
  BY <1>2, <1>3, <1>4, <1>5, <1>6, <1>7, Zenon DEF Seeded
<1>11. Seeded(d) = d
  BY <1>8, <1>9, <1>10, Zenon DEF d
<1>. QED BY <1>1, <1>11, Zenon

\* A seed that does not raise finds no row twice.
LEMMA InvSeedable ==
  ASSUME BookInv, ~SeedFails
  PROVE  Seedable(schedules, slots)
<1>1. Table(schedules) /\ Table(slots)
  BY DEF BookInv, CatalogInv, ScheduleInv, SlotInv
<1>2. \A i \in DOMAIN schedules : schedules[i] \in ScheduleRows
                                 /\ (schedules[i].kind = "current" => schedules[i].priority = 100)
  BY DEF BookInv, CatalogInv, ScheduleInv
<1>3. ASSUME NEW n \in SeedEntries, NEW i \in Lookup(schedules, n), NEW j \in Lookup(schedules, n)
      PROVE  i = j
  <2>1. Lookup(schedules, n) \subseteq DOMAIN schedules /\ IsFiniteSet(DOMAIN schedules)
    BY <1>1, TableFinite DEF Lookup
  <2>2. IsFiniteSet(Lookup(schedules, n))
    BY <2>1, FS_Subset
  <2>3. ~(Cardinality(Lookup(schedules, n)) > 1)
    BY DEF SeedFails
  <2>. QED BY <2>2, <2>3, AtMostOne
<1>. DEFINE s == SeededCurrent(SeedSchedules(schedules))
<1>4. ASSUME NEW t \in SeedTimes, NEW i \in AtSeedTime(s, slots, t), NEW j \in AtSeedTime(s, slots, t)
      PROVE  i = j
  <2>1. ~(Cardinality(AtSeedTime(s, slots, t)) > 1)
    BY DEF SeedFails
  <2>. HIDE DEF s
  <2>2. AtSeedTime(s, slots, t) \subseteq DOMAIN slots /\ IsFiniteSet(DOMAIN slots)
    BY <1>1, TableFinite DEF AtSeedTime, SlotsOf
  <2>3. IsFiniteSet(AtSeedTime(s, slots, t))
    BY <2>2, FS_Subset
  <2>. QED BY <2>1, <2>3, AtMostOne
<1>5. \A i \in DOMAIN slots : slots[i] \in SlotRows /\ slots[i].schedule \in DOMAIN schedules
  BY DEF BookInv, CatalogInv, SlotInv
<1>. QED BY <1>1, <1>2, <1>3, <1>4, <1>5 DEF Seedable

LEMMA InvSeedTwice == BookInv => SeedIdempotent
<1>. SUFFICES ASSUME BookInv, ~SeedFails PROVE Seeded(Seeded(Catalog)) = Seeded(Catalog)
  BY DEF SeedIdempotent
<1>1. Catalog.schedules = schedules /\ Catalog.slots = slots
  BY DEF Catalog
<1>2. Seedable(Catalog.schedules, Catalog.slots)
  BY <1>1, InvSeedable
<1>. QED BY <1>2, SeedAgain

LEMMA StartStep ==
  ASSUME BookInv, Start
  PROVE  BookInv'
<1>1. task' = Idle /\ up' \in BOOLEAN /\ UNCHANGED <<bookings, edits>>
  BY DEF Start
<1>2. CASE SeedFails
  <2>1. UNCHANGED <<schedules, slots, exceptions, aliases>>
    BY <1>2 DEF Start
  <2>. QED BY <1>1, <2>1, IdleFits DEF BookInv
<1>3. CASE ~SeedFails
  <2>. PICK c, d : c = Catalog /\ d = Seeded(c)
    OBVIOUS
  <2>1. /\ schedules' = d.schedules /\ slots' = d.slots
        /\ exceptions' = d.exceptions /\ aliases' = d.aliases
    BY <1>3 DEF Start
  <2>2. /\ c.schedules = schedules /\ c.slots = slots
        /\ c.exceptions = exceptions /\ c.aliases = aliases
    BY DEF Catalog
  <2>3. Seedable(c.schedules, c.slots) /\ ExceptionInv(c.exceptions, c.schedules)
    BY <1>3, <2>2, InvSeedable DEF BookInv, CatalogInv
  <2>. DEFINE stale == StaleSlots(SeedSchedules(schedules), slots)
  <2>4. /\ CatalogInv(schedules', slots', exceptions')
        /\ DOMAIN slots \ stale \subseteq DOMAIN slots'
        /\ \E f \in DOMAIN slots' : aliases' = [aliases EXCEPT !.seeded = f]
    <3>1. Harvest(c, d)
      BY <2>3, SeededCatalog
    <3>. QED BY <2>1, <2>2, <3>1 DEF Harvest
  <2>5. ~Referenced(stale)
    BY <1>3 DEF SeedFails
  <2>. HIDE DEF stale
  <2>6. BookingInv(bookings, slots')
    <3>1. \A b \in Bookings : bookings[b] # NoBooking => bookings[b].slot \notin stale
      BY <2>5 DEF Referenced
    <3>2. DOMAIN slots \ stale \subseteq DOMAIN slots'
      BY <2>4
    <3>. QED BY <3>1, <3>2 DEF BookInv, BookingInv
  <2>7. AliasInv(aliases', slots')
    <3>1. PICK f \in DOMAIN slots' : aliases' = [aliases EXCEPT !.seeded = f]
      BY <2>4
    <3>2. aliases["added"] \in (DOMAIN slots \ stale) \cup {None}
      BY <2>5 DEF Referenced, BookInv, AliasInv
    <3>. QED BY <2>4, <3>1, <3>2 DEF BookInv, AliasInv
  <2>. QED BY <1>1, <2>4, <2>6, <2>7, IdleFits DEF BookInv
<1>. QED BY <1>2, <1>3

LEMMA BookInit == Init => BookInv
<1>. SUFFICES ASSUME Init PROVE BookInv
  OBVIOUS
<1>. PICK c, d :
       /\ c = [schedules |-> <<>>, slots |-> <<>>, exceptions |-> {},
               aliases |-> [seeded |-> None, added |-> None]]
       /\ d = Seeded(c)
  OBVIOUS
<1>1. /\ schedules = d.schedules /\ slots = d.slots
      /\ exceptions = d.exceptions /\ aliases = d.aliases
      /\ bookings = [b \in Bookings |-> NoBooking] /\ task = Idle /\ up = TRUE /\ edits = 0
  BY DEF Init
<1>2. /\ c.schedules = <<>> /\ c.slots = <<>> /\ c.exceptions = {}
      /\ c.aliases = [seeded |-> None, added |-> None]
  OBVIOUS
<1>3. Seedable(c.schedules, c.slots)
  <2>1. Table(<<>>)
    BY DEF Table
  <2>2. (\A n : Lookup(<<>>, n) = {}) /\ \A s, t : AtSeedTime(s, <<>>, t) = {}
    BY DEF Lookup, AtSeedTime, SlotsOf
  <2>. QED BY <1>2, <2>1, <2>2 DEF Seedable
<1>4. ExceptionInv(c.exceptions, c.schedules)
  BY <1>2 DEF ExceptionInv
<1>5. Harvest(c, d)
  BY <1>3, <1>4, SeededCatalog
<1>8. /\ CatalogInv(schedules, slots, exceptions)
      /\ \E f \in DOMAIN slots : aliases = [c.aliases EXCEPT !.seeded = f]
  BY <1>1, <1>5 DEF Harvest
<1>6. AliasInv(aliases, slots)
  BY <1>2, <1>8 DEF AliasInv
<1>7. BookingInv(bookings, slots)
  BY <1>1 DEF BookingInv
<1>. QED BY <1>1, <1>6, <1>7, <1>8, IdleFits, ScheduleAssumption DEF BookInv

-----------------------------------------------------------------------------
(* The invariant holds.                                                    *)

LEMMA EditsStep ==
  ASSUME BookInv, Edits
  PROVE  BookInv'
<1>1. CASE \E active \in BOOLEAN, range \in Ranges, days \in DayChoices :
             SaveCurrentSchedule(active, range, days)
  BY <1>1, SaveCurrentScheduleStep
<1>2. CASE \E active \in BOOLEAN, range \in Ranges, days \in DayChoices,
              id \in OfKind("other") \cup {None}, source \in DOMAIN schedules \cup {None} :
             SaveOtherSchedule(id, source, active, range, days)
  BY <1>2, SaveOtherScheduleStep
<1>3. CASE Copying
  BY <1>3, CopyScheduleStep DEF Copying
<1>4. CASE \E from \in Days, to \in SUBSET Days : CopyDay(from, to)
  BY <1>4, CopyDayStep
<1>5. CASE \E id \in DOMAIN schedules : DeleteSchedule(id)
  BY <1>5, DeleteScheduleStep
<1>6. CASE \E s \in DOMAIN schedules, t \in Times, days \in DayChoices, active \in BOOLEAN :
             \E id \in SlotsOf(s, slots) \cup {None} : SaveSlot(id, s, t, days, active)
  BY <1>6, SaveSlotStep
<1>7. CASE \E id \in DOMAIN slots, day \in Days \cup {None} : DeactivateSlot(id, day)
  BY <1>7, DeactivateSlotStep
<1>8. CASE \E x \in [type : {"removed", "extra"}, schedule : DOMAIN schedules,
                     date : Dates, time : Times],
              old \in {{}} \cup {{o} : o \in exceptions} : SaveException(old, x)
  BY <1>8, SaveExceptionStep
<1>9. CASE \E x \in exceptions : DeactivateException(x)
  BY <1>9, DeactivateExceptionStep
<1>10. CASE \E id \in DOMAIN slots : SaveAlias("added", id)
  BY <1>10, SaveAliasStep
<1>. QED
  BY <1>1, <1>2, <1>3, <1>4, <1>5, <1>6, <1>7, <1>8, <1>9, <1>10 DEF Edits

LEMMA MailStep ==
  ASSUME BookInv, NEW b \in Bookings, Mail(b)
  PROVE  BookInv'
<1>1. ASSUME NEW p \in Parsed, EmailUnmapped(b, p[1], p[2]) PROVE BookInv'
  BY <1>1, ParsedParts, EmailUnmappedStep
<1>2. ASSUME NEW p \in Parsed, NEW a \in DOMAIN aliases, EmailPlaces(b, a, p[1], p[2])
      PROVE  BookInv'
  BY <1>2, ParsedParts, EmailPlacesStep
<1>. QED BY <1>1, <1>2, EmailCancelsStep DEF Mail

LEMMA BookStep ==
  ASSUME BookInv, [Next]_vars
  PROVE  BookInv'
<1>1. CASE Ready /\ Edits
  BY <1>1, EditsStep
<1>2. CASE CopyStep
  BY <1>2, CopyStepStep
<1>3. CASE RaisePriority
  BY <1>3, RaisePriorityStep
<1>4. CASE RequestDies
  BY <1>4, RequestDiesStep
<1>5. CASE Start
  BY <1>5, StartStep
<1>6. ASSUME NEW b \in Bookings, Mail(b) PROVE BookInv'
  BY <1>6, MailStep
<1>7. ASSUME NEW b \in Bookings, Reslot(b) PROVE BookInv'
  BY <1>7, ReslotStep
<1>8. ASSUME NEW b \in Bookings, NEW issue \in Issues, CloseReview(b, issue) PROVE BookInv'
  BY <1>8, CloseReviewStep
<1>9. CASE UNCHANGED vars
  <2>1. UNCHANGED <<schedules, slots, exceptions, aliases, bookings, task, up, edits>>
    BY <1>9 DEF vars
  <2>. QED BY <2>1 DEF BookInv
<1>. QED
  BY <1>1, <1>2, <1>3, <1>4, <1>5, <1>6, <1>7, <1>8, <1>9 DEF Next, Administrator

LEMMA BookAlways == Spec => []BookInv
<1>1. Init => BookInv
  BY BookInit
<1>2. BookInv /\ [Next]_vars => BookInv'
  BY BookStep
<1>. QED BY <1>1, <1>2, PTL DEF Spec

-----------------------------------------------------------------------------
(* A booking that is put off its schedule is queued.                       *)

\* What OffScheduleIsQueued says of the step and the booking b.
QueuedIfOff(b) ==
  ( /\ bookings'[b] # NoBooking /\ bookings'[b] # bookings[b]
    /\ bookings'[b].live /\ bookings'[b].date # None
    /\ bookings'[b].time # None
    /\ bookings'[b].slot # RowOf(b).slot
    /\ bookings'[b].slot \notin Running(bookings'[b].date) ) =>
      "time_missing" \in bookings'[b].open

\* A step that writes one booking is judged by that booking.
LEMMA OneWritten ==
  ASSUME BookInv, NEW b \in Bookings, NEW r, bookings' = [bookings EXCEPT ![b] = r],
         ( /\ r.live /\ r.date # None /\ r.time # None /\ r.slot # RowOf(b).slot
           /\ r.slot \notin Running(r.date) ) => "time_missing" \in r.open
  PROVE  \A c \in Bookings : QueuedIfOff(c)
<1>1. bookings'[b] = r /\ \A c \in Bookings \ {b} : bookings'[c] = bookings[c]
  BY DEF BookInv, BookingInv
<1>2. QueuedIfOff(b)
  BY <1>1 DEF QueuedIfOff
<1>3. \A c \in Bookings \ {b} : QueuedIfOff(c)
  BY <1>1 DEF QueuedIfOff
<1>. QED BY <1>2, <1>3

\* A date and a time that lead off the schedule do so by the fallback, and say so.
LEMMA OffSchedule ==
  ASSUME BookInv, NEW d, d # None, NEW t, t # None, NEW fallback,
         NEW found, found = Resolved(d, t, fallback), found.slot \notin Running(d)
  PROVE  found.slot = fallback /\ found.no_match
<1>1. CandidateSlots(d) = Running(d)
  BY DEF CandidateSlots
<1>. QED BY <1>1, ResolvedFacts

LEMMA EmailPlacesQueues ==
  ASSUME BookInv, NEW b \in Bookings, NEW a, NEW d, NEW t, EmailPlaces(b, a, d, t)
  PROVE  \A c \in Bookings : QueuedIfOff(c)
<1>. PICK old, found, late :
       /\ old = RowOf(b) /\ found = Resolved(d, t, aliases[a])
       /\ late = IF found.no_match /\ old.live THEN {"time_missing"} ELSE {}
  OBVIOUS
<1>. PICK r :
       r = [old EXCEPT !.date = d, !.time = t, !.slot = found.slot, !.mapped = TRUE,
              !.open = (@ \ {"product_mismatch"}) \cup late,
              !.closed = (@ \cup (old.open \cap {"product_mismatch"})) \ late]
  OBVIOUS
<1>1. bookings' = [bookings EXCEPT ![b] = r]
  BY DEF EmailPlaces
<1>2. old \in BookingRows
  BY RowFacts
<1>3. /\ r.live = old.live /\ r.date = d /\ r.time = t /\ r.slot = found.slot
      /\ r.open = (old.open \ {"product_mismatch"}) \cup late
  BY <1>2 DEF BookingRows
<1>4. ASSUME r.live, d # None, t # None, found.slot \notin Running(d)
      PROVE  "time_missing" \in r.open
  <2>1. found.no_match
    BY <1>4, OffSchedule
  <2>2. late = {"time_missing"}
    BY <1>3, <1>4, <2>1
  <2>. QED BY <1>3, <2>2
<1>. QED BY <1>1, <1>3, <1>4, OneWritten

LEMMA EmailUnmappedQueues ==
  ASSUME BookInv, NEW b \in Bookings, NEW d, NEW t, EmailUnmapped(b, d, t)
  PROVE  \A c \in Bookings : QueuedIfOff(c)
<1>. PICK old, issue :
       old = RowOf(b) /\ issue = IF old.live THEN {"product_mismatch"} ELSE {}
  OBVIOUS
<1>. PICK r :
       r = [old EXCEPT !.date = d, !.time = t,
              !.open = IF old.mapped THEN @ \ issue ELSE @ \cup issue,
              !.closed = IF old.mapped THEN @ \cup issue ELSE @ \ issue]
  OBVIOUS
<1>1. bookings' = [bookings EXCEPT ![b] = r]
  BY DEF EmailUnmapped
<1>2. old \in BookingRows
  BY RowFacts
<1>3. r.slot = old.slot
  BY <1>2 DEF BookingRows
<1>. QED BY <1>1, <1>3, OneWritten

LEMMA EmailCancelsQueues ==
  ASSUME BookInv, NEW b \in Bookings, EmailCancels(b)
  PROVE  \A c \in Bookings : QueuedIfOff(c)
<1>. PICK r : r = [bookings[b] EXCEPT !.live = FALSE]
  OBVIOUS
<1>1. bookings' = [bookings EXCEPT ![b] = r] /\ bookings[b] # NoBooking
  BY DEF EmailCancels
<1>2. r.slot = RowOf(b).slot
  BY <1>1, StoredRow DEF RowOf, BookingRows
<1>. QED BY <1>1, <1>2, OneWritten

LEMMA CloseReviewQueues ==
  ASSUME BookInv, NEW b \in Bookings, NEW issue, CloseReview(b, issue)
  PROVE  \A c \in Bookings : QueuedIfOff(c)
<1>. PICK r : r = [bookings[b] EXCEPT !.open = @ \ {issue}, !.closed = @ \cup {issue}]
  OBVIOUS
<1>1. bookings' = [bookings EXCEPT ![b] = r] /\ bookings[b] # NoBooking
  BY DEF CloseReview, BookInv, BookingInv
<1>2. r.slot = RowOf(b).slot
  BY <1>1, StoredRow DEF RowOf, BookingRows
<1>. QED BY <1>1, <1>2, OneWritten

LEMMA ReslotQueues ==
  ASSUME BookInv, NEW b \in Bookings, Reslot(b)
  PROVE  \A c \in Bookings : QueuedIfOff(c)
<1>. PICK old, found :
       old = bookings[b] /\ found = Resolved(old.date, old.time, old.slot)
  OBVIOUS
<1>1. bookings[b] # NoBooking /\ old.date # None /\ old.time # None
  BY DEF Reslot
<1>2. old \in BookingRows /\ RowOf(b) = old
  BY <1>1, StoredRow DEF RowOf
<1>3. PICK r :
        /\ bookings' = [bookings EXCEPT ![b] = r]
        /\ \/ r = [old EXCEPT !.open = @ \cup {"time_missing"},
                              !.closed = @ \ {"time_missing"}]
           \/ r = [old EXCEPT !.slot = found.slot] /\ ~found.no_match
  BY DEF Reslot
<1>4. CASE r = [old EXCEPT !.open = @ \cup {"time_missing"},
                           !.closed = @ \ {"time_missing"}]
  <2>1. "time_missing" \in r.open
    BY <1>2, <1>4 DEF BookingRows
  <2>. QED BY <1>3, <2>1, OneWritten
<1>5. CASE r = [old EXCEPT !.slot = found.slot] /\ ~found.no_match
  <2>1. r.slot = found.slot /\ r.date = old.date
    BY <1>2, <1>5 DEF BookingRows
  <2>2. found.slot \in Running(old.date)
    BY <1>1, <1>5, OffSchedule
  <2>. QED BY <1>3, <2>1, <2>2, OneWritten
<1>. QED BY <1>3, <1>4, <1>5

LEMMA EditsKeepBookings ==
  ASSUME Edits
  PROVE  UNCHANGED bookings
<1>1. \A active, range, days : SaveCurrentSchedule(active, range, days) => UNCHANGED bookings
  BY DEF SaveCurrentSchedule
<1>2. \A id, source, active, range, days :
        SaveOtherSchedule(id, source, active, range, days) => UNCHANGED bookings
  BY DEF SaveOtherSchedule
<1>3. Copying => UNCHANGED bookings
  BY DEF Copying, CopySchedule
<1>4. \A from, to : CopyDay(from, to) => UNCHANGED bookings
  BY DEF CopyDay
<1>5. \A id : DeleteSchedule(id) => UNCHANGED bookings
  BY DEF DeleteSchedule
<1>6. \A id, s, t, days, active : SaveSlot(id, s, t, days, active) => UNCHANGED bookings
  BY DEF SaveSlot
<1>7. \A id, day : DeactivateSlot(id, day) => UNCHANGED bookings
  BY DEF DeactivateSlot
<1>8. \A old, x : SaveException(old, x) => UNCHANGED bookings
  BY DEF SaveException
<1>9. \A x : DeactivateException(x) => UNCHANGED bookings
  BY DEF DeactivateException
<1>10. \A a, id : SaveAlias(a, id) => UNCHANGED bookings
  BY DEF SaveAlias
<1>. QED
  BY <1>1, <1>2, <1>3, <1>4, <1>5, <1>6, <1>7, <1>8, <1>9, <1>10 DEF Edits

LEMMA QueuesStep ==
  ASSUME BookInv, [Next]_vars
  PROVE  \A b \in Bookings : QueuedIfOff(b)
<1>1. CASE UNCHANGED bookings
  BY <1>1 DEF QueuedIfOff
<1>2. ASSUME NEW b \in Bookings, Mail(b) PROVE \A c \in Bookings : QueuedIfOff(c)
  BY <1>2, EmailPlacesQueues, EmailUnmappedQueues, EmailCancelsQueues DEF Mail
<1>3. ASSUME NEW b \in Bookings, Reslot(b) PROVE \A c \in Bookings : QueuedIfOff(c)
  BY <1>3, ReslotQueues
<1>4. ASSUME NEW b \in Bookings, NEW issue \in Issues, CloseReview(b, issue)
      PROVE  \A c \in Bookings : QueuedIfOff(c)
  BY <1>4, CloseReviewQueues
<1>5. CASE Administrator \/ RequestDies \/ Start \/ UNCHANGED vars
  <2>1. ASSUME Edits PROVE UNCHANGED bookings
    BY <2>1, EditsKeepBookings
  <2>2. ASSUME CopyStep \/ RaisePriority \/ RequestDies \/ Start PROVE UNCHANGED bookings
    BY <2>2 DEF CopyStep, RaisePriority, RequestDies, Start
  <2>3. ASSUME UNCHANGED vars PROVE UNCHANGED bookings
    BY <2>3 DEF vars
  <2>. QED BY <1>1, <1>5, <2>1, <2>2, <2>3 DEF Administrator
<1>. QED BY <1>2, <1>3, <1>4, <1>5 DEF Next

-----------------------------------------------------------------------------
(* The theorems.                                                           *)

\* The rows of the four tables, and of a copy under way, have the columns the
\* models declare (apps/bookings/models.py).
THEOREM TypeCorrect == Spec => []TypeOK
BY BookAlways, InvType, PTL

\* No edit, deleted schedule or seed, whenever it comes, leaves a booking or an
\* alias with a slot that is gone (on_delete=PROTECT, seed_slots).
THEOREM ReferencesStay == Spec => []ReferencesLive
BY BookAlways, InvReferences, PTL

\* However the requests that copy slots are cut off or overlap with emails, two
\* active slots of a schedule share a time and a day only where a day was copied
\* (OperatorScheduleSlotForm.clean, copy_schedule_day).
THEOREM OnlyCopiesShareADay == Spec => []OnlyCopiesDouble
BY BookAlways, InvDoubles, PTL

\* Whatever was edited since, no page of a date lists a booking of it twice, and
\* none leaves it out but for what OnceOrLeftOut names: hidden bookings, an
\* activity kept off the home page, and bookings without a slot on a calendar page
\* that has no row for them (get_daily_capacity_summary, daily_operations).
THEOREM PagesListOnceOrLeaveOut == Spec => []OnceOrLeftOut
BY BookAlways, InvPages, PTL

\* A second seed changes nothing, whatever the first one found
\* (seed_bookeo_products).
THEOREM SeedTwiceIsOnce == Spec => []SeedIdempotent
BY BookAlways, InvSeedTwice, PTL

\* An email or the reslot command that puts a live booking off its schedule
\* queues it (resolve_schedule_slot_details, reslot_bookings).
THEOREM OffScheduleSurfaced == Spec => OffScheduleIsQueued
<1>1. BookInv /\ [Next]_vars =>
        [\A b \in Bookings :
           ( /\ bookings'[b] # NoBooking /\ bookings'[b] # bookings[b]
             /\ bookings'[b].live /\ bookings'[b].date # None
             /\ bookings'[b].time # None
             /\ bookings'[b].slot # RowOf(b).slot
             /\ bookings'[b].slot \notin Running(bookings'[b].date) ) =>
             "time_missing" \in bookings'[b].open]_vars
  <2>. SUFFICES ASSUME BookInv, [Next]_vars PROVE \A b \in Bookings : QueuedIfOff(b)
    BY DEF QueuedIfOff
  <2>. QED BY QueuesStep
<1>. QED BY <1>1, BookAlways, PTL DEF Spec, OffScheduleIsQueued
=============================================================================
