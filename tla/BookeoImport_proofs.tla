------------------------- MODULE BookeoImport_proofs -------------------------
(***************************************************************************)
(* Proofs about BookeoImport, for any windows, page sizes, payloads and    *)
(* number of interruptions.  The argument for the checkpoint: a command    *)
(* that writes has imported every page before the one it is on, and of     *)
(* that one all but its queue; what it saves is no more than that; rows    *)
(* are never deleted.  So a resumed command starts with the same fact.     *)
(***************************************************************************)
EXTENDS BookeoImport, FiniteSetTheorems, TLAPS

USE ImportAssumption

-----------------------------------------------------------------------------
(* The command's states.                                                   *)

Days == {d \in Nat : d >= DateFrom}
Queues == UNION {[S -> Payloads] : S \in SUBSET Numbers}

Steps == [pc : {"window"}, dry : BOOLEAN, to : Dates, begin : Days]
Walks == [pc : {"list", "page"}, dry : BOOLEAN, to : Dates, begin : Dates,
          page : Nat, token : Tokens \cup {None}, queue : Queues,
          hand : Hands \cup {None}]
Saves == [pc : {"save"}, content : Files, next : Steps \cup Walks]

Known == {n \in Numbers : account[n] # None}

\* A listing Bookeo gave, and a page of it.
ListingOK(token, page) ==
  /\ token \in Tokens /\ page \in DOMAIN token
  /\ \A i \in DOMAIN token : token[i] \subseteq Known

\* A command in a window has imported the pages before its own, and what is
\* missing of its own is in its queue.
WalkOK(r) ==
  /\ r.begin <= r.to
  /\ r.token = None => r.pc = "list" /\ r.page = 1
  /\ r.token # None => ListingOK(r.token, r.page)
  /\ (r.token # None /\ ~r.dry) =>
       \A i \in DOMAIN r.token : i < r.page => r.token[i] \subseteq Present
  /\ r.pc = "list" => r.hand = None
  /\ (r.pc = "page" /\ ~r.dry) => r.token[r.page] \ DOMAIN r.queue \subseteq Present
  /\ DOMAIN r.queue \subseteq Known
  /\ r.hand # None => r.hand.number \in DOMAIN r.queue

FileOK(f) ==
  /\ SkippedIsImported(f.completed)
  /\ f.current # None =>
       /\ PassedIsImported(f.current)
       /\ ListingOK(f.current.token, f.current.next_page)

RunOK ==
  /\ run \in {Off} \cup Steps \cup Walks \cup Saves
  /\ run \in Walks => WalkOK(run) /\ file # Torn
  /\ run \in Saves => /\ FileOK(run.content)
                      /\ run.next \in Walks => run.next.pc = "list" /\ WalkOK(run.next)

ImportInv ==
  /\ TypeOK
  /\ RunOK
  /\ file # Torn => FileOK(file)

LEMMA RunShape ==
  ASSUME RunOK
  PROVE  /\ run.pc = "off" => run = Off
         /\ run.pc = "window" => run \in Steps
         /\ run.pc \in {"list", "page"} => run \in Walks /\ WalkOK(run) /\ file # Torn
         /\ run.pc = "save" => run \in Saves
BY DEF RunOK, Off, Steps, Walks, Saves

LEMMA WindowType ==
  ASSUME NEW b \in Dates, NEW e \in Dates, b <= e
  PROVE  /\ WindowAt(b, e) \in Windows
         /\ WindowAt(b, e)[2] + 1 \in Days
BY DEF WindowAt, Smaller, Windows, Dates, Days

\* A listing has at least one page, and lists what it was asked for.
LEMMA PagingType ==
  ASSUME NEW S \in SUBSET Numbers, NEW p \in Pagings(S)
  PROVE  /\ p \in Tokens /\ 1 \in DOMAIN p
         /\ \A i \in DOMAIN p : p[i] \subseteq S
<1>1. CASE S = {}
  <2>1. p = <<{}>>
    BY <1>1 DEF Pagings
  <2>2. p \in Seq(SUBSET Numbers) /\ DOMAIN p = 1..1 /\ p[1] = {}
    BY <2>1
  <2>. QED BY <2>2 DEF Tokens
<1>2. CASE S # {}
  <2>1. PICK k \in 1..Cardinality(S) : p \in [1..k -> SUBSET S]
    BY <1>2 DEF Pagings
  <2>2. Cardinality(S) \in Nat
    BY FS_Subset, FS_CardinalityType
  <2>3. k \in Nat /\ k >= 1
    BY <2>2
  <2>4. p \in [1..k -> SUBSET Numbers]
    BY <2>1
  <2>5. p \in Seq(SUBSET Numbers)
    BY <2>3, <2>4
  <2>. QED BY <2>1, <2>3, <2>5 DEF Tokens
<1>. QED BY <1>1, <1>2

\* What is known and what is imported only grows.
LEMMA Grows ==
  ASSUME Known \subseteq Known', Present \subseteq Present', UNCHANGED owed
  PROVE  /\ \A r : WalkOK(r) => WalkOK(r)'
         /\ \A f : FileOK(f) => FileOK(f)'
<1>1. ASSUME NEW t, NEW p, ListingOK(t, p) PROVE ListingOK(t, p)'
  BY <1>1 DEF ListingOK
<1>. QED BY <1>1 DEF WalkOK, FileOK, SkippedIsImported, PassedIsImported

\* The values an import leaves: a row, and what was edited by hand stays.
LEMMA ImportedRow ==
  ASSUME NEW r \in Rows \cup {None}, NEW value \in Values
  PROVE  /\ Imported(r, value) \in Rows
         /\ r # None => /\ Imported(r, value).manual = r.manual
                        /\ \A f \in r.manual : Imported(r, value).value[f] = r.value[f]
         /\ (r = None \/ "activity" \notin r.manual) =>
              Imported(r, value).value.activity = value.activity
<1>1. CASE r = None
  BY <1>1 DEF Imported, Rows, Values
<1>2. CASE r # None
  <2>. DEFINE M(f) == IF f \in r.manual THEN r.value[f] ELSE value[f]
              v == [date |-> M("date"), status |-> M("status"), activity |-> M("activity")]
  <2>1. r \in Rows
    BY <1>2
  <2>2. Imported(r, value) = [r EXCEPT !.value = v]
    BY <1>2 DEF Imported
  <2>3. M("date") \in Dates /\ M("status") \in Statuses /\ M("activity") \in BOOLEAN
    BY <2>1 DEF Rows, Values
  <2>4. v \in Values
    BY <2>3 DEF Values
  <2>5. \A f \in r.manual : v[f] = r.value[f]
    BY <2>1 DEF Rows, Fields
  <2>6. "activity" \notin r.manual => v.activity = value.activity
    OBVIOUS
  <2>. HIDE DEF v
  <2>. QED BY <1>2, <2>1, <2>2, <2>4, <2>5, <2>6 DEF Rows
<1>. QED BY <1>1, <1>2

\* An email leaves a row, the values it may not change stay, and so does an
\* activity.
LEMMA EmailedRow ==
  ASSUME NEW r \in Rows \cup {None}, NEW p \in Payloads, approved \in BOOLEAN
  PROVE  /\ Emailed(r, p) \in Rows
         /\ r # None => Emailed(r, p).manual = r.manual
         /\ (p.status = "cancelled" /\ "status" \notin Emailed(r, p).manual) =>
              Emailed(r, p).value.status = "cancelled"
<1>1. p.date \in Dates /\ p.status \in Statuses
  OBVIOUS
<1>2. CASE r = None
  BY <1>1, <1>2 DEF Emailed, Rows, Values
<1>3. CASE r # None
  <2>1. /\ r \in Rows /\ r.value \in Values /\ r.manual \in SUBSET Fields
        /\ r.value.date \in Dates /\ r.value.status \in Statuses
        /\ r.value.activity \in BOOLEAN
    BY <1>3 DEF Rows, Values
  <2>. PICK v : v = [r.value EXCEPT
         !.date = IF "date" \in r.manual THEN r.value.date ELSE p.date,
         !.status = IF "status" \in r.manual \/ r.value.status = "cancelled"
                    THEN r.value.status ELSE p.status,
         !.activity = approved \/ r.value.activity]
    OBVIOUS
  <2>2. v \in Values
    BY <1>1, <2>1 DEF Values
  <2>3. Emailed(r, p) = [r EXCEPT !.value = v]
    BY <1>3, <2>1 DEF Emailed, Rows, Values
  <2>4. Emailed(r, p) \in Rows /\ Emailed(r, p).manual = r.manual /\ Emailed(r, p).value = v
    BY <2>1, <2>2, <2>3 DEF Rows
  <2>5. (p.status = "cancelled" /\ "status" \notin r.manual) => v.status = "cancelled"
    BY <2>1 DEF Values
  <2>. QED BY <2>4, <2>5
<1>. QED BY <1>2, <1>3

-----------------------------------------------------------------------------
(* The checkpoint.                                                         *)

LEMMA ImportInit == Init => ImportInv
<1>. SUFFICES ASSUME Init PROVE ImportInv
  OBVIOUS
<1>1. TypeOK
  <2>1. file \in Files
    BY DEF Init, NoFile, Files
  <2>2. today \in Dates
    BY DEF Init, Dates
  <2>3. /\ events \in [Numbers -> Nat] /\ changes \in [Numbers -> Nat]
        /\ owed \in [Windows -> SUBSET Numbers]
    BY DEF Init
  <2>4. /\ account \in [Numbers -> Payloads \cup {None}]
        /\ row \in [Numbers -> Rows \cup {None}]
        /\ review = {} /\ closed = {} /\ approved = FALSE /\ run.pc = "off"
    BY DEF Init, Off
  <2>. QED BY <2>1, <2>2, <2>3, <2>4 DEF TypeOK
<1>2. RunOK
  BY DEF Init, RunOK, Off, Walks, Saves
<1>3. FileOK(NoFile)
  BY DEF NoFile, FileOK, SkippedIsImported
<1>. QED BY <1>1, <1>2, <1>3 DEF ImportInv, Init

\* A step of the command within a window leaves the rest as it is.
LEMMA WalkStep ==
  ASSUME ImportInv, file # Torn, run' \in Walks, WalkOK(run'),
         UNCHANGED <<bookingVars, worldVars, file, owed>>
  PROVE  ImportInv'
<1>. PICK r : r = run'
  OBVIOUS
<1>1. Known' = Known /\ Present' = Present
  BY DEF Known, Present, bookingVars, worldVars
<1>2. WalkOK(r)' /\ (file # Torn => FileOK(file)')
  BY <1>1, Grows DEF ImportInv
<1>3. run'.pc \in {"list", "page"}
  BY DEF Walks
<1>4. TypeOK'
  BY <1>3 DEF ImportInv, TypeOK, bookingVars, worldVars
<1>5. run' \notin Saves
  BY <1>3 DEF Saves
<1>6. RunOK'
  BY <1>2, <1>5 DEF RunOK
<1>. QED BY <1>2, <1>4, <1>6 DEF ImportInv

\* So does a step between windows, and the end of the command.
LEMMA WindowStep ==
  ASSUME ImportInv, run' \in {Off} \cup Steps,
         UNCHANGED <<bookingVars, worldVars, file, owed>>
  PROVE  ImportInv'
<1>1. Known' = Known /\ Present' = Present
  BY DEF Known, Present, bookingVars, worldVars
<1>2. file # Torn => FileOK(file)'
  BY <1>1, Grows DEF ImportInv
<1>3. run'.pc \in {"off", "window"} /\ run' \notin Walks /\ run' \notin Saves
  BY DEF Off, Steps, Walks, Saves
<1>4. TypeOK'
  BY <1>3 DEF ImportInv, TypeOK, bookingVars, worldVars
<1>5. RunOK'
  BY <1>3 DEF RunOK
<1>. QED BY <1>2, <1>4, <1>5 DEF ImportInv

\* And so does what others do, once it is well typed and nothing is deleted.
LEMMA OthersStep ==
  ASSUME ImportInv, TypeOK', Known \subseteq Known', Present \subseteq Present',
         UNCHANGED <<file, run, owed>>
  PROVE  ImportInv'
<1>1. /\ \A r : WalkOK(r) => WalkOK(r)'
      /\ \A f : FileOK(f) => FileOK(f)'
  BY Grows
<1>2. RunOK'
  BY <1>1 DEF ImportInv, RunOK
<1>. QED BY <1>1, <1>2 DEF ImportInv

\* The steps that look for the next window.
LEMMA BetweenWindows ==
  ASSUME ImportInv,
         \/ \E dry \in BOOLEAN : Start(dry)
         \/ CannotLoad \/ SkipWindow \/ RunDone \/ Interrupted
  PROVE  ImportInv'
<1>1. ASSUME NEW dry \in BOOLEAN, Start(dry) PROVE ImportInv'
  <2>1. run' \in Steps
    BY <1>1 DEF Start, Steps, Days, ImportInv, TypeOK
  <2>. QED BY <1>1, <2>1, WindowStep DEF Start
<1>2. CASE CannotLoad \/ RunDone \/ Interrupted
  BY <1>2, WindowStep DEF CannotLoad, RunDone, Interrupted
<1>3. CASE SkipWindow
  <2>1. run \in Steps /\ run.begin \in Days /\ run.to \in Dates /\ run.begin <= run.to
    BY <1>3, RunShape DEF SkipWindow, ImportInv, Steps
  <2>2. Window[2] + 1 \in Days
    BY <2>1, WindowType DEF Window, Days, Dates
  <2>3. run' \in Steps
    BY <1>3, <2>1, <2>2 DEF SkipWindow, NextWindow, Steps
  <2>. QED BY <1>3, <2>3, WindowStep DEF SkipWindow
<1>. QED BY <1>1, <1>2, <1>3

\* A window starts where the checkpoint says, or at its first page.
LEMMA OpenWindowKeeps ==
  ASSUME ImportInv, OpenWindow
  PROVE  ImportInv'
<1>1. run \in Steps /\ run.begin \in Dates /\ run.to \in Dates /\ run.begin <= run.to
  <2>1. run \in Steps /\ run.begin <= run.to
    BY RunShape DEF OpenWindow, ImportInv
  <2>. QED BY <2>1 DEF Steps, Days, Dates
<1>2. file \in Files /\ FileOK(file)
  BY DEF OpenWindow, ImportInv, TypeOK
<1>. DEFINE page == CurrentPage(Window)[1]
            token == CurrentPage(Window)[2]
<1>3. \/ page = 1 /\ token = None
      \/ /\ page \in Nat /\ token \in Tokens /\ ListingOK(token, page)
         /\ \A i \in DOMAIN token : i < page => token[i] \subseteq Present
  <2>1. CASE file.current # None
    <3>1. /\ file.current.next_page \in Nat /\ file.current.token \in Tokens
          /\ ListingOK(file.current.token, file.current.next_page)
          /\ PassedIsImported(file.current)
      BY <1>2, <2>1 DEF Files, Positions, FileOK
    <3>. QED BY <3>1 DEF CurrentPage, PassedIsImported
  <2>2. CASE file.current = None
    BY <2>2 DEF CurrentPage
  <2>. QED BY <2>1, <2>2
<1>. HIDE DEF page, token
<1>4. NoQueue \in Queues /\ DOMAIN NoQueue = {}
  <2>1. NoQueue \in [{} -> Payloads]
    BY DEF NoQueue
  <2>2. {} \in SUBSET Numbers
    OBVIOUS
  <2>. QED BY <2>1, <2>2 DEF Queues
<1>. DEFINE r == [pc |-> "list", dry |-> run.dry, to |-> run.to, begin |-> run.begin,
                  page |-> page, token |-> token, queue |-> NoQueue, hand |-> None]
<1>5. run' = r
  BY DEF OpenWindow, page, token
<1>6. run.dry \in BOOLEAN
  BY <1>1 DEF Steps
<1>7. r \in Walks
  BY <1>1, <1>3, <1>4, <1>6 DEF Walks
<1>8. WalkOK(r)
  BY <1>1, <1>3, <1>4 DEF WalkOK
<1>. HIDE DEF r
<1>9. WalkOK(run')
  BY <1>5, <1>8
<1>. QED BY <1>5, <1>7, <1>9, WalkStep DEF OpenWindow

\* A page is queued whole.
LEMMA ListPageKeeps ==
  ASSUME ImportInv, ListPage
  PROVE  ImportInv'
<1>1. run \in Walks /\ WalkOK(run) /\ run.pc = "list" /\ file # Torn
  BY RunShape DEF ListPage, ImportInv
<1>2. PICK token \in IF run.token = None THEN Pagings(DatedIn(Window)) ELSE {run.token} :
        run' = [run EXCEPT !.pc = "page", !.token = token,
                  !.queue = [n \in token[run.page] |-> account[n]]]
  BY DEF ListPage
<1>3. /\ token \in Tokens /\ ListingOK(token, run.page)
      /\ ~run.dry => \A i \in DOMAIN token : i < run.page => token[i] \subseteq Present
  <2>1. CASE run.token = None
    <3>1. DatedIn(Window) \subseteq Known /\ DatedIn(Window) \in SUBSET Numbers
      BY DEF DatedIn, Known
    <3>2. run.page = 1 /\ token \in Pagings(DatedIn(Window))
      BY <1>1, <1>2, <2>1 DEF WalkOK
    <3>3. token \in Tokens /\ 1 \in DOMAIN token /\ \A i \in DOMAIN token : token[i] \subseteq Known
      BY <3>1, <3>2, PagingType
    <3>4. \A i \in DOMAIN token : ~(i < 1)
      BY <3>3 DEF Tokens
    <3>. QED BY <3>2, <3>3, <3>4 DEF ListingOK
  <2>2. CASE run.token # None
    BY <1>1, <1>2, <2>2 DEF WalkOK, ListingOK
  <2>. QED BY <2>1, <2>2
<1>. DEFINE queue == [n \in token[run.page] |-> account[n]]
<1>4. token[run.page] \subseteq Known
  BY <1>3 DEF ListingOK
<1>5. queue \in Queues /\ DOMAIN queue = token[run.page]
  <2>1. \A n \in token[run.page] : account[n] \in Payloads
    BY <1>4 DEF Known, ImportInv, TypeOK
  <2>2. token[run.page] \in SUBSET Numbers
    BY <1>4 DEF Known
  <2>3. queue \in [token[run.page] -> Payloads]
    BY <2>1
  <2>. QED BY <2>2, <2>3 DEF Queues
<1>. HIDE DEF queue
<1>6. run' = [run EXCEPT !.pc = "page", !.token = token, !.queue = queue]
  BY <1>2 DEF queue
<1>7. run' \in Walks
  BY <1>1, <1>3, <1>5, <1>6 DEF Walks
<1>8. /\ run'.pc = "page" /\ run'.token = token /\ run'.queue = queue
      /\ run'.page = run.page /\ run'.dry = run.dry /\ run'.hand = run.hand
      /\ run'.begin = run.begin /\ run'.to = run.to
  BY <1>1, <1>6 DEF Walks
<1>9. token # None
  BY <1>3
<1>10. WalkOK(run')
  BY <1>1, <1>3, <1>4, <1>5, <1>8, <1>9 DEF WalkOK
<1>. QED BY <1>1, <1>7, <1>10, WalkStep DEF ListPage

\* A booking comes into hand with values of Bookeo.
LEMMA TakeKeeps ==
  ASSUME ImportInv, NEW n \in Numbers, Take(n)
  PROVE  ImportInv'
<1>1. /\ run \in Walks /\ WalkOK(run) /\ run.pc = "page" /\ file # Torn
      /\ n \in DOMAIN run.queue
  BY RunShape DEF Take, ImportInv
<1>2. PICK raw \in {run.queue[n], account[n]} :
        run' = [run EXCEPT !.hand = [number |-> n,
                  value |-> [date |-> raw.date, status |-> raw.status, activity |-> Mapped]]]
  BY DEF Take
<1>3. raw \in Payloads
  <2>1. run.queue[n] \in Payloads
    BY <1>1 DEF Walks, Queues
  <2>2. account[n] \in Payloads
    BY <1>1 DEF WalkOK, Known, ImportInv, TypeOK
  <2>. QED BY <2>1, <2>2
<1>. DEFINE hand == [number |-> n, value |-> [date |-> raw.date, status |-> raw.status,
                                              activity |-> Mapped]]
<1>4. hand \in Hands /\ hand.number = n
  BY <1>3 DEF Hands, Values, Mapped, ImportInv, TypeOK
<1>. HIDE DEF hand
<1>5. run' = [run EXCEPT !.hand = hand]
  BY <1>2 DEF hand
<1>6. run' \in Walks
  BY <1>1, <1>4, <1>5 DEF Walks
<1>7. WalkOK(run')
  BY <1>1, <1>4, <1>5 DEF WalkOK, Walks
<1>. QED BY <1>1, <1>6, <1>7, WalkStep DEF Take

\* What is handled leaves the queue.
LEMMA HandledOK ==
  ASSUME ImportInv, run.pc = "page", run.hand # None
  PROVE  /\ run \in Walks /\ WalkOK(run) /\ file # Torn /\ run.hand \in Hands
         /\ run.hand.number \in Numbers \cap Known /\ run.hand.value \in Values
         /\ Handled \in Walks /\ Handled.pc = "page" /\ Handled.hand = None
         /\ Handled.token = run.token /\ Handled.page = run.page /\ Handled.dry = run.dry
         /\ Handled.begin = run.begin /\ Handled.to = run.to
         /\ DOMAIN Handled.queue = DOMAIN run.queue \ {run.hand.number}
         /\ \A n \in DOMAIN Handled.queue : Handled.queue[n] = run.queue[n]
<1>1. run \in Walks /\ WalkOK(run) /\ file # Torn
  BY RunShape DEF ImportInv
<1>2. run.hand \in Hands /\ run.hand.number \in DOMAIN run.queue
  BY <1>1 DEF Walks, WalkOK
<1>3. PICK S \in SUBSET Numbers : run.queue \in [S -> Payloads]
  BY <1>1 DEF Walks, Queues
<1>. DEFINE queue == [n \in DOMAIN run.queue \ {run.hand.number} |-> run.queue[n]]
<1>4. queue \in [S \ {run.hand.number} -> Payloads]
  BY <1>3
<1>5. S \ {run.hand.number} \in SUBSET Numbers
  OBVIOUS
<1>6. /\ queue \in Queues /\ DOMAIN queue = DOMAIN run.queue \ {run.hand.number}
      /\ \A n \in DOMAIN queue : queue[n] = run.queue[n]
  BY <1>4, <1>5 DEF Queues
<1>. HIDE DEF queue
<1>7. Handled = [run EXCEPT !.hand = None, !.queue = queue]
  BY DEF Handled, queue
<1>8. Handled \in Walks
  BY <1>1, <1>6, <1>7 DEF Walks
<1>9. run.hand.number \in Numbers \cap Known /\ run.hand.value \in Values
  BY <1>1, <1>2 DEF Hands, WalkOK
<1>. QED BY <1>1, <1>2, <1>6, <1>7, <1>8, <1>9 DEF Walks

LEMMA ClassifyKeeps ==
  ASSUME ImportInv, ClassifyBooking
  PROVE  ImportInv'
<1>1. run' = Handled /\ run.dry /\ run.pc = "page" /\ run.hand # None
  BY DEF ClassifyBooking
<1>2. WalkOK(Handled)
  BY <1>1, HandledOK DEF WalkOK
<1>. QED BY <1>1, <1>2, HandledOK, WalkStep DEF ClassifyBooking

\* An imported booking is there, so it may leave the queue.
LEMMA ImportBookingKeeps ==
  ASSUME ImportInv, ImportBooking
  PROVE  ImportInv'
<1>. DEFINE n == run.hand.number
            new == Imported(row[n], run.hand.value)
<1>1. run' = Handled /\ ~run.dry /\ run.pc = "page" /\ run.hand # None
  BY DEF ImportBooking
<1>2. n \in Numbers /\ new \in Rows
  <2>1. n \in Numbers /\ run.hand.value \in Values
    BY <1>1, HandledOK
  <2>2. row[n] \in Rows \cup {None}
    BY <2>1 DEF ImportInv, TypeOK
  <2>. QED BY <2>1, <2>2, ImportedRow
<1>. HIDE DEF new
<1>3. /\ row' = [row EXCEPT ![n] = new]
      /\ events' = IF new = row[n] THEN events ELSE [events EXCEPT ![n] = @ + 1]
      /\ \/ UNCHANGED <<review, closed>>
         \/ review' = review \cup {n} /\ closed' = closed \ {n}
      /\ UNCHANGED <<account, approved, today, changes, file, owed>>
  BY DEF ImportBooking, ImportEvent, UnmappedReview, worldVars, new
<1>. HIDE DEF n
<1>4. TypeOK'
  <2>1. row' \in [Numbers -> Rows \cup {None}]
    BY <1>2, <1>3 DEF ImportInv, TypeOK
  <2>2. events' \in [Numbers -> Nat]
    <3>1. events \in [Numbers -> Nat] /\ events[n] + 1 \in Nat
      BY <1>2 DEF ImportInv, TypeOK
    <3>. QED BY <1>2, <1>3, <3>1
  <2>3. review' \subseteq Numbers /\ closed' \subseteq Numbers
    BY <1>2, <1>3 DEF ImportInv, TypeOK
  <2>4. run'.pc = "page"
    BY <1>1, HandledOK
  <2>. QED BY <1>3, <2>1, <2>2, <2>3, <2>4 DEF ImportInv, TypeOK
<1>5. Known' = Known /\ Present \cup {n} \subseteq Present'
  BY <1>2, <1>3 DEF Known, Present, ImportInv, TypeOK
<1>6. /\ \A r : WalkOK(r) => WalkOK(r)'
      /\ \A f : FileOK(f) => FileOK(f)'
  BY <1>3, <1>5, Grows
<1>. PICK old, h : old = run /\ h = Handled
  OBVIOUS
<1>7. /\ WalkOK(old)' /\ h \in Walks /\ h.pc = "page" /\ h.hand = None
      /\ h.token = old.token /\ h.page = old.page /\ h.dry = old.dry
      /\ h.begin = old.begin /\ h.to = old.to /\ old.pc = "page"
      /\ DOMAIN h.queue = DOMAIN old.queue \ {n}
  BY <1>1, <1>6, HandledOK DEF n
<1>8. WalkOK(h)'
  BY <1>5, <1>7 DEF WalkOK
<1>9. h \notin Saves
  BY <1>7 DEF Saves
<1>10. RunOK'
  BY <1>1, <1>3, <1>7, <1>8, <1>9, HandledOK DEF RunOK
<1>. QED BY <1>3, <1>4, <1>6, <1>10 DEF ImportInv

\* The window of a command is one of the windows.
LEMMA OwnWindow ==
  ASSUME run \in Walks, run.begin <= run.to
  PROVE  Window \in Windows /\ NextWindow \in Steps
<1>1. run.begin \in Dates /\ run.to \in Dates /\ run.dry \in BOOLEAN
  BY DEF Walks
<1>2. Window \in Windows /\ Window[2] + 1 \in Days
  BY <1>1, WindowType DEF Window
<1>. QED BY <1>1, <1>2 DEF NextWindow, Steps

\* A page that is done is imported, and the command goes on to the next.
LEMMA PageDoneOK ==
  ASSUME ImportInv, PageDone
  PROVE  /\ run \in Walks /\ WalkOK(run) /\ file # Torn /\ run.token \in Tokens
         /\ run.page \in DOMAIN run.token /\ run.page \in Nat
         /\ ListingOK(run.token, run.page)
         /\ ~run.dry => \A i \in DOMAIN run.token :
                          i < run.page + 1 => run.token[i] \subseteq Present
<1>1. /\ run \in Walks /\ WalkOK(run) /\ run.pc = "page" /\ file # Torn
      /\ DOMAIN run.queue = {}
  BY RunShape DEF PageDone, ImportInv
<1>2. ListingOK(run.token, run.page) /\ run.page \in Nat
  BY <1>1 DEF WalkOK, Walks
<1>3. ASSUME ~run.dry, NEW i \in DOMAIN run.token, i < run.page + 1
      PROVE  run.token[i] \subseteq Present
  <2>1. i \in Nat
    BY <1>2 DEF ListingOK, Tokens
  <2>2. CASE i < run.page
    BY <1>1, <1>3, <2>2 DEF WalkOK
  <2>3. CASE i = run.page
    BY <1>1, <1>3, <2>3 DEF WalkOK
  <2>. QED BY <1>2, <1>3, <2>1, <2>2, <2>3
<1>. QED BY <1>1, <1>2, <1>3 DEF ListingOK

\* The file is torn while it is written; what will be in it is right already.
LEMMA TruncateKeeps ==
  ASSUME ImportInv, NEW content \in Files, NEW next \in Steps \cup Walks,
         Truncate(content, next), FileOK(content)',
         next \in Walks => next.pc = "list" /\ WalkOK(next),
         Present' = Present, Known' = Known,
         UNCHANGED <<bookingVars, worldVars>>,
         owed' \in [Windows -> SUBSET Numbers]
  PROVE  ImportInv'
<1>1. run' = [pc |-> "save", content |-> content, next |-> next] /\ file' = Torn
  BY DEF Truncate
<1>2. run' \in Saves /\ run' \notin Walks /\ run'.content = content /\ run'.next = next
  BY <1>1 DEF Saves, Walks
<1>3. WalkOK(next) => WalkOK(next)'
  BY DEF WalkOK, ListingOK
<1>4. RunOK'
  BY <1>2, <1>3 DEF RunOK
<1>5. TypeOK'
  BY <1>1 DEF ImportInv, TypeOK, bookingVars, worldVars
<1>. QED BY <1>1, <1>4, <1>5 DEF ImportInv

LEMMA TurnPageKeeps ==
  ASSUME ImportInv, TurnPage
  PROVE  ImportInv'
<1>1. /\ run \in Walks /\ WalkOK(run) /\ file # Torn /\ run.token \in Tokens
      /\ run.page \in DOMAIN run.token /\ run.page \in Nat
      /\ ListingOK(run.token, run.page)
      /\ ~run.dry => \A i \in DOMAIN run.token :
                       i < run.page + 1 => run.token[i] \subseteq Present
  BY PageDoneOK DEF TurnPage
<1>2. run.page + 1 \in DOMAIN run.token /\ ListingOK(run.token, run.page + 1)
  BY <1>1 DEF TurnPage, LastPage, ListingOK, Tokens
<1>3. run.token # None /\ run.hand = None
  BY <1>1 DEF TurnPage, PageDone
<1>4. NoQueue \in Queues /\ DOMAIN NoQueue = {}
  <2>1. NoQueue \in [{} -> Payloads]
    BY DEF NoQueue
  <2>2. {} \in SUBSET Numbers
    OBVIOUS
  <2>. QED BY <2>1, <2>2 DEF Queues
<1>. PICK next : next = NextPage
  OBVIOUS
<1>5. next \in Walks
  <2>. PICK page : page = run.page + 1
    OBVIOUS
  <2>1. next = [run EXCEPT !.pc = "list", !.page = page, !.queue = NoQueue]
    BY DEF NextPage
  <2>2. page \in Nat
    BY <1>1
  <2>. QED BY <1>1, <1>4, <2>1, <2>2 DEF Walks
<1>6. /\ next.pc = "list" /\ next.page = run.page + 1 /\ next.queue = NoQueue
      /\ next.hand = None /\ next.token = run.token /\ next.dry = run.dry
      /\ next.begin = run.begin /\ next.to = run.to
  BY <1>1, <1>3 DEF NextPage, Walks
<1>7. WalkOK(next)
  BY <1>1, <1>2, <1>3, <1>4, <1>6 DEF WalkOK
<1>8. CASE run.dry
  BY <1>1, <1>5, <1>7, <1>8, WalkStep DEF TurnPage
<1>9. CASE ~run.dry
  <2>. PICK content : content = SavePage(Window, run.page + 1, run.token)
    OBVIOUS
  <2>1. Truncate(content, next) /\ UNCHANGED <<bookingVars, worldVars, owed>>
    BY <1>9 DEF TurnPage
  <2>2. Window \in Windows
    BY <1>1, OwnWindow DEF WalkOK
  <2>3. file \in Files /\ FileOK(file)
    BY <1>1 DEF ImportInv, TypeOK
  <2>. PICK position : position = [key |-> Window, next_page |-> run.page + 1,
                                   token |-> run.token]
    OBVIOUS
  <2>4. position \in Positions
    BY <1>1, <2>2 DEF Positions
  <2>5. content = [file EXCEPT !.current = position]
    BY DEF SavePage
  <2>6. content \in Files /\ content.current = position /\ content.completed = file.completed
    BY <2>3, <2>4, <2>5 DEF Files
  <2>7. FileOK(content)
    BY <1>1, <1>2, <1>9, <2>3, <2>6 DEF FileOK, PassedIsImported
  <2>8. Present' = Present /\ Known' = Known /\ owed' \in [Windows -> SUBSET Numbers]
    BY <2>1 DEF Present, Known, bookingVars, worldVars, ImportInv, TypeOK
  <2>9. FileOK(content)'
    BY <2>1, <2>7, <2>8, Grows
  <2>. QED BY <1>5, <1>6, <1>7, <2>1, <2>6, <2>8, <2>9, TruncateKeeps
<1>. QED BY <1>8, <1>9

LEMMA CloseWindowKeeps ==
  ASSUME ImportInv, CloseWindow
  PROVE  ImportInv'
<1>1. /\ run \in Walks /\ WalkOK(run) /\ file # Torn /\ run.token \in Tokens
      /\ run.page \in DOMAIN run.token /\ run.page \in Nat
      /\ ListingOK(run.token, run.page)
      /\ ~run.dry => \A i \in DOMAIN run.token :
                       i < run.page + 1 => run.token[i] \subseteq Present
  BY PageDoneOK DEF CloseWindow
<1>2. Window \in Windows /\ NextWindow \in Steps
  BY <1>1, OwnWindow DEF WalkOK
<1>3. CASE run.dry
  BY <1>2, <1>3, WindowStep DEF CloseWindow
<1>4. CASE ~run.dry
  <2>. DEFINE listed == UNION {run.token[i] : i \in DOMAIN run.token}
  <2>1. /\ Truncate(CompleteWindow(Window), NextWindow)
        /\ owed' = [owed EXCEPT ![Window] = listed]
        /\ UNCHANGED <<bookingVars, worldVars>>
    BY <1>4 DEF CloseWindow
  <2>2. \A i \in DOMAIN run.token : i < run.page + 1
    BY <1>1 DEF CloseWindow, LastPage, Tokens
  <2>3. listed \subseteq Present /\ listed \subseteq Numbers
    BY <1>1, <1>4, <2>2 DEF Present
  <2>. HIDE DEF listed
  <2>4. owed' \in [Windows -> SUBSET Numbers]
    BY <2>1, <2>3 DEF ImportInv, TypeOK
  <2>5. Present' = Present /\ Known' = Known
    BY <2>1 DEF Present, Known, bookingVars, worldVars
  <2>6. file \in Files /\ FileOK(file)
    BY <1>1 DEF ImportInv, TypeOK
  <2>. PICK content, next, w : /\ content = CompleteWindow(Window) /\ next = NextWindow
                              /\ w = Window
    OBVIOUS
  <2>7. /\ content \in Files /\ content.current = None
        /\ content.completed = file.completed \cup {w}
    BY <1>2, <2>6 DEF CompleteWindow, Files
  <2>8. \A v \in content.completed : owed'[v] \subseteq Present
    BY <1>2, <2>1, <2>3, <2>6, <2>7 DEF FileOK, SkippedIsImported, ImportInv, TypeOK, Files
  <2>9. FileOK(content)'
    BY <2>5, <2>7, <2>8 DEF FileOK, SkippedIsImported
  <2>10. next \in Steps /\ next \notin Walks
    BY <1>2 DEF Steps, Walks
  <2>. QED BY <2>1, <2>4, <2>5, <2>7, <2>9, <2>10, TruncateKeeps
<1>. QED BY <1>3, <1>4

LEMMA FileWrittenKeeps ==
  ASSUME ImportInv, FileWritten
  PROVE  ImportInv'
<1>1. /\ run \in Saves /\ FileOK(run.content)
      /\ run.next \in Walks => run.next.pc = "list" /\ WalkOK(run.next)
  BY RunShape DEF FileWritten, ImportInv, RunOK
<1>. PICK content, next : content = run.content /\ next = run.next
  OBVIOUS
<1>2. /\ file' = content /\ run' = next /\ content \in Files /\ content # Torn
      /\ next \in Steps \cup Walks
      /\ UNCHANGED <<bookingVars, worldVars, owed>>
  BY <1>1 DEF FileWritten, Saves
<1>3. Known' = Known /\ Present' = Present
  BY <1>2 DEF Known, Present, bookingVars, worldVars
<1>4. FileOK(content)' /\ (next \in Walks => WalkOK(next)')
  BY <1>1, <1>2, <1>3, Grows
<1>5. next.pc \in {"window", "list", "page"} /\ next \notin Saves
  BY <1>2 DEF Steps, Walks, Saves
<1>6. TypeOK'
  BY <1>2, <1>5 DEF ImportInv, TypeOK, bookingVars, worldVars
<1>7. RunOK'
  BY <1>2, <1>4, <1>5 DEF RunOK
<1>. QED BY <1>2, <1>4, <1>6, <1>7 DEF ImportInv

LEMMA OthersKeep ==
  ASSUME ImportInv, Others
  PROVE  ImportInv'
<1>1. ASSUME NEW n \in Numbers, BookeoChanges(n) PROVE ImportInv'
  <2>1. PICK p \in Payloads : account' = [account EXCEPT ![n] = p]
    BY <1>1 DEF BookeoChanges
  <2>2. account' \in [Numbers -> Payloads \cup {None}] /\ Known \subseteq Known'
    BY <2>1 DEF Known, ImportInv, TypeOK
  <2>3. changes' \in [Numbers -> Nat]
    BY <1>1 DEF BookeoChanges, Counted, ImportInv, TypeOK
  <2>4. TypeOK' /\ Present' = Present
    BY <1>1, <2>2, <2>3 DEF BookeoChanges, bookingVars, ImportInv, TypeOK, Present
  <2>. QED BY <1>1, <2>2, <2>4, OthersStep DEF BookeoChanges
<1>2. ASSUME NEW n \in Numbers, EmailArrives(n) PROVE ImportInv'
  <2>1. PICK p \in Payloads :
          /\ row' = [row EXCEPT ![n] = Emailed(row[n], p)]
          /\ review' \subseteq review \cup {n} /\ closed' \subseteq closed \cup {n}
    BY <1>2 DEF EmailArrives, UnmappedReview
  <2>2. row[n] \in Rows \cup {None} /\ approved \in BOOLEAN
    BY DEF ImportInv, TypeOK
  <2>3. Emailed(row[n], p) \in Rows
    BY <2>2, EmailedRow
  <2>4. row' \in [Numbers -> Rows \cup {None}] /\ Present \subseteq Present'
    BY <2>1, <2>3 DEF Present, ImportInv, TypeOK
  <2>5. changes' \in [Numbers -> Nat]
    BY <1>2 DEF EmailArrives, Counted, ImportInv, TypeOK
  <2>6. review' \subseteq Numbers /\ closed' \subseteq Numbers
    BY <2>1 DEF ImportInv, TypeOK
  <2>7. TypeOK' /\ Known' = Known
    BY <1>2, <2>4, <2>5, <2>6 DEF EmailArrives, ImportInv, TypeOK, Known
  <2>. QED BY <1>2, <2>4, <2>7, OthersStep DEF EmailArrives
<1>3. ASSUME NEW n \in Numbers, OperatorEdits(n) PROVE ImportInv'
  <2>1. PICK f \in Fields, v \in Values :
          row' = [row EXCEPT ![n].value[f] = v[f], ![n].manual = @ \cup {f}]
    BY <1>3 DEF OperatorEdits
  <2>2. row[n] \in Rows /\ row[n] # None
    BY <1>3 DEF OperatorEdits, ImportInv, TypeOK
  <2>. PICK r, w : r = row[n] /\ w = [r.value EXCEPT ![f] = v[f]]
    OBVIOUS
  <2>3. w \in Values
    BY <2>2 DEF Rows, Values, Fields
  <2>. PICK new : new = [r EXCEPT !.value = w, !.manual = @ \cup {f}]
    OBVIOUS
  <2>4. new \in Rows
    BY <2>2, <2>3 DEF Rows
  <2>5. row' = [row EXCEPT ![n] = new]
    BY <2>1, <2>2 DEF ImportInv, TypeOK, Rows
  <2>6. row' \in [Numbers -> Rows \cup {None}] /\ Present \subseteq Present'
    BY <2>4, <2>5 DEF Present, ImportInv, TypeOK
  <2>7. changes' \in [Numbers -> Nat]
    BY <1>3 DEF OperatorEdits, Counted, ImportInv, TypeOK
  <2>8. TypeOK' /\ Known' = Known
    BY <1>3, <2>6, <2>7 DEF OperatorEdits, ImportInv, TypeOK, Known
  <2>. QED BY <1>3, <2>6, <2>8, OthersStep DEF OperatorEdits
<1>4. ASSUME NEW n \in Numbers, OperatorClosesReview(n) PROVE ImportInv'
  <2>1. TypeOK' /\ Known' = Known /\ Present' = Present
    BY <1>4 DEF OperatorClosesReview, worldVars, ImportInv, TypeOK, Known, Present
  <2>. QED BY <1>4, <2>1, OthersStep DEF OperatorClosesReview
<1>5. CASE AliasApproved
  <2>1. TypeOK' /\ Known' = Known /\ Present' = Present
    BY <1>5 DEF AliasApproved, bookingVars, ImportInv, TypeOK, Known, Present
  <2>. QED BY <1>5, <2>1, OthersStep DEF AliasApproved
<1>6. CASE NextDay
  <2>1. today' \in Dates
    BY <1>6 DEF NextDay, ImportInv, TypeOK, Dates
  <2>2. TypeOK' /\ Known' = Known /\ Present' = Present
    BY <1>6, <2>1 DEF NextDay, bookingVars, ImportInv, TypeOK, Known, Present
  <2>. QED BY <1>6, <2>2, OthersStep DEF NextDay
<1>. QED BY <1>1, <1>2, <1>3, <1>4, <1>5, <1>6 DEF Others

LEMMA ImportStep ==
  ASSUME ImportInv, [Next]_vars
  PROVE  ImportInv'
<1>1. CASE UNCHANGED vars
  <2>1. Known' = Known /\ Present' = Present /\ TypeOK'
    BY <1>1 DEF vars, Known, Present, ImportInv, TypeOK
  <2>. QED BY <1>1, <2>1, OthersStep DEF vars
<1>2. CASE Importing
  BY <1>2, BetweenWindows, OpenWindowKeeps, ListPageKeeps, TakeKeeps, ImportBookingKeeps,
     ClassifyKeeps, TurnPageKeeps, CloseWindowKeeps, FileWrittenKeeps DEF Importing
<1>3. CASE (\E dry \in BOOLEAN : Start(dry)) \/ Interrupted
  BY <1>3, BetweenWindows
<1>4. CASE Others
  BY <1>4, OthersKeep
<1>. QED BY <1>1, <1>2, <1>3, <1>4 DEF Next

LEMMA ImportAlways == Spec => []ImportInv
BY ImportInit, ImportStep, PTL DEF Spec

\* The state is well typed, whatever is interrupted.
THEOREM TypeCorrect == Spec => []TypeOK
<1>1. ImportInv => TypeOK
  BY DEF ImportInv
<1>. QED BY <1>1, ImportAlways, PTL

\* No run leaves a checkpoint (ImportCheckpoint's current page and completed
\* windows) ahead of the bookings in the database, through any interruptions.
THEOREM CheckpointIsSafe == Spec => []CheckpointNeverAhead
<1>1. ImportInv => CheckpointNeverAhead
  BY DEF ImportInv, FileOK, CheckpointNeverAhead
<1>. QED BY <1>1, ImportAlways, PTL

-----------------------------------------------------------------------------
(* What the import may not lose.                                           *)

\* Only an imported booking's row is written by the command.
LEMMA CommandRows ==
  ASSUME (\E dry \in BOOLEAN : Start(dry)) \/ Importing \/ Interrupted, ~ImportBooking
  PROVE  UNCHANGED <<row, review, closed>>
BY DEF Start, Importing, Interrupted, CannotLoad, SkipWindow, OpenWindow, RunDone,
       ListPage, Take, ClassifyBooking, TurnPage, CloseWindow, FileWritten, bookingVars

\* The import does not change what an operator set (_update_booking skips the
\* fields in manual_override_fields).
THEOREM ManualKept == Spec => ManualValuesSurvive
<1>1. ASSUME ImportInv, (\E dry \in BOOLEAN : Start(dry)) \/ Importing \/ Interrupted,
             NEW n \in Present, NEW f \in row[n].manual
      PROVE  row'[n] # None /\ row'[n].value[f] = row[n].value[f]
  <2>1. n \in Numbers /\ row[n] \in Rows /\ row[n] # None /\ row \in [Numbers -> Rows \cup {None}]
    BY <1>1 DEF Present, ImportInv, TypeOK
  <2>2. CASE ~ImportBooking
    BY <1>1, <2>1, <2>2, CommandRows
  <2>3. CASE ImportBooking
    <3>. DEFINE m == run.hand.number
                new == Imported(row[m], run.hand.value)
    <3>1. m \in Numbers /\ run.hand.value \in Values
      BY <1>1, <2>3, HandledOK DEF ImportBooking
    <3>2. row' = [row EXCEPT ![m] = new]
      BY <2>3 DEF ImportBooking
    <3>3. CASE m # n
      BY <2>1, <3>2, <3>3
    <3>4. CASE m = n
      <4>1. new \in Rows /\ new.value[f] = row[n].value[f]
        BY <1>1, <2>1, <3>1, <3>4, ImportedRow
      <4>. QED BY <2>1, <3>1, <3>2, <3>4, <4>1
    <3>. QED BY <3>3, <3>4
  <2>. QED BY <2>2, <2>3
<1>2. ASSUME ImportInv
      PROVE  (\E dry \in BOOLEAN : Start(dry)) \/ Importing \/ Interrupted =>
               \A n \in Present : \A f \in row[n].manual :
                 row'[n] # None /\ row'[n].value[f] = row[n].value[f]
  BY <1>1, <1>2
<1>. QED BY <1>2, ImportAlways, PTL DEF Spec, ManualValuesSurvive

\* A number's part of UnmappedIsQueued.
Queued(r, listed) ==
  ( /\ ~r.value.activity /\ r.value.status # "cancelled"
    /\ r.manual \cap {"activity", "status"} = {} ) => listed

LEMMA QueuedStep ==
  ASSUME ImportInv, UnmappedIsQueued, [Next]_vars
  PROVE  UnmappedIsQueued'
<1>. SUFFICES ASSUME NEW n \in Numbers, row'[n] # None
              PROVE  Queued(row'[n], n \in review' \cup closed')
  BY DEF UnmappedIsQueued, Queued, Present
<1>1. row[n] # None => Queued(row[n], n \in review \cup closed)
  BY DEF UnmappedIsQueued, Queued, Present
<1>2. row \in [Numbers -> Rows \cup {None}] /\ approved \in BOOLEAN
  BY DEF ImportInv, TypeOK
<1>3. CASE UNCHANGED <<row, review, closed>>
  BY <1>1, <1>3
<1>4. CASE ImportBooking
  <2>. DEFINE m == run.hand.number
              value == run.hand.value
              new == Imported(row[m], value)
  <2>1. m \in Numbers /\ value \in Values
    BY <1>4, HandledOK DEF ImportBooking
  <2>2. /\ row' = [row EXCEPT ![m] = new]
        /\ value.activity => UNCHANGED <<review, closed>>
        /\ ~value.activity => review' = review \cup {m} /\ closed' = closed \ {m}
    BY <1>4 DEF ImportBooking, UnmappedReview
  <2>3. CASE m # n
    BY <1>1, <1>2, <2>2, <2>3
  <2>4. CASE m = n /\ ~value.activity
    BY <2>2, <2>4 DEF Queued
  <2>5. CASE m = n /\ value.activity
    <3>1. row'[n] = new
      BY <1>2, <2>1, <2>2, <2>5
    <3>2. "activity" \notin new.manual => new.value.activity
      BY <1>2, <2>1, <2>5, ImportedRow DEF Imported
    <3>. QED BY <3>1, <3>2 DEF Queued
  <2>. QED BY <2>3, <2>4, <2>5
<1>5. ASSUME NEW m \in Numbers, EmailArrives(m)
      PROVE  Queued(row'[n], n \in review' \cup closed')
  <2>1. PICK p \in Payloads :
          /\ row' = [row EXCEPT ![m] = Emailed(row[m], p)]
          /\ \/ /\ Emailed(row[m], p).value.activity
                /\ review' = review \ {m} /\ closed' = closed \cup (review \cap {m})
             \/ review' = review \cup {m} /\ closed' = closed \ {m}
             \/ /\ \/ Emailed(row[m], p).value.status = "cancelled"
                   \/ p.status = "cancelled"
                /\ UNCHANGED <<review, closed>>
    BY <1>5 DEF EmailArrives, UnmappedReview
  <2>2. CASE m # n
    BY <1>1, <1>2, <2>1, <2>2
  <2>3. CASE m = n
    <3>. PICK new : new = Emailed(row[m], p)
      OBVIOUS
    <3>1. row'[n] = new
      BY <1>2, <2>1, <2>3
    <3>2. (p.status = "cancelled" /\ "status" \notin new.manual) => new.value.status = "cancelled"
      BY <1>2, EmailedRow
    <3>. QED BY <2>1, <2>3, <3>1, <3>2 DEF Queued
  <2>. QED BY <2>2, <2>3
<1>6. ASSUME NEW m \in Numbers, OperatorEdits(m)
      PROVE  Queued(row'[n], n \in review' \cup closed')
  <2>1. PICK f \in Fields, v \in Values :
          row' = [row EXCEPT ![m].value[f] = v[f], ![m].manual = @ \cup {f}]
    BY <1>6 DEF OperatorEdits
  <2>2. row[m] \in Rows /\ row[m] # None /\ UNCHANGED <<review, closed>>
    BY <1>2, <1>6 DEF OperatorEdits
  <2>3. CASE m # n
    BY <1>1, <1>2, <2>1, <2>2, <2>3
  <2>4. CASE m = n
    <3>. PICK r, new : r = row[m] /\ new = row'[n]
      OBVIOUS
    <3>1. new = [r EXCEPT !.value[f] = v[f], !.manual = @ \cup {f}] /\ r \in Rows
      BY <1>2, <2>1, <2>2, <2>4
    <3>2. new.manual = r.manual \cup {f} /\ new.value = [r.value EXCEPT ![f] = v[f]]
      BY <3>1 DEF Rows
    <3>3. CASE f \in {"activity", "status"}
      BY <3>2, <3>3 DEF Queued
    <3>4. CASE f = "date"
      <4>1. new.value.activity = r.value.activity /\ new.value.status = r.value.status
        BY <3>1, <3>2, <3>4 DEF Rows, Values
      <4>2. Queued(r, n \in review \cup closed)
        BY <1>1, <2>2, <2>4
      <4>. QED BY <2>2, <3>2, <4>1, <4>2 DEF Queued
    <3>. QED BY <3>3, <3>4 DEF Fields
  <2>. QED BY <2>3, <2>4
<1>7. ASSUME NEW m \in Numbers, OperatorClosesReview(m)
      PROVE  Queued(row'[n], n \in review' \cup closed')
  BY <1>1, <1>7 DEF OperatorClosesReview
<1>8. CASE \E m \in Numbers : BookeoChanges(m)
  BY <1>1, <1>8 DEF BookeoChanges, bookingVars
<1>9. CASE AliasApproved \/ NextDay \/ UNCHANGED vars
  BY <1>1, <1>9 DEF AliasApproved, NextDay, bookingVars, vars
<1>. QED BY <1>3, <1>4, <1>5, <1>6, <1>7, <1>8, <1>9, CommandRows DEF Next, Others

\* No live booking stays unmapped without a review item, unless an operator set
\* its activity or its status (_create_unmapped_review).
THEOREM NothingUnmappedIsLost == Spec => []UnmappedIsQueued
<1>1. Init => UnmappedIsQueued
  BY DEF Init, UnmappedIsQueued, Present
<1>. QED BY <1>1, QueuedStep, ImportAlways, PTL DEF Spec

-----------------------------------------------------------------------------
(* An import event stands for a change.  A change of a booking may still owe *)
(* events: one when the row differs from the value the command holds of it,  *)
(* one more when that value is not Bookeo's any more.  No step of the        *)
(* command, the repetition of a page included, adds to what is owed.         *)

Free(r) == IF r = None THEN Fields ELSE Fields \ r.manual
Differs(r, v) == r = None \/ \E f \in Free(r) : v[f] # r.value[f]
Apart(r, v, w) == \E f \in Free(r) : v[f] # w[f]
One(p) == IF p THEN 1 ELSE 0

\* What is owed for row `r` when the command holds `h`, or nothing, and Bookeo
\* says `now`, or does not know the booking.
DueOf(r, held, h, known, now) ==
  IF held THEN One(Differs(r, h)) + One(Apart(r, h, now))
  ELSE One(known /\ Differs(r, now))

Valued(p) == [date |-> p.date, status |-> p.status, activity |-> approved]

Held(n) == run.pc = "page" /\ ~run.dry /\ n \in DOMAIN run.queue
Holding(n) ==
  IF run.hand # None /\ run.hand.number = n THEN run.hand.value
  ELSE Valued(run.queue[n])

Due(n) ==
  DueOf(row[n], Held(n), Holding(n), account[n] # None, Valued(account[n]))

EventsOf(n) == events[n] + Due(n) <= changes[n] + One(approved)
EventsInv == \A n \in Numbers : EventsOf(n)

LEMMA DueBounds ==
  ASSUME NEW r, NEW held \in BOOLEAN, NEW h, NEW known \in BOOLEAN, NEW now
  PROVE  /\ DueOf(r, held, h, known, now) \in {0, 1, 2}
         /\ ~held => DueOf(r, held, h, known, now) \in {0, 1}
BY DEF DueOf, One

\* A value that is dropped, replaced by Bookeo's or taken from Bookeo owes no more.
LEMMA DueOfRun ==
  ASSUME NEW r, NEW h, NEW g, NEW known \in BOOLEAN, NEW now
  PROVE  /\ DueOf(r, FALSE, g, known, now) <= DueOf(r, TRUE, h, known, now)
         /\ DueOf(r, TRUE, now, known, now) <= DueOf(r, TRUE, h, known, now)
         /\ known => DueOf(r, TRUE, now, known, now) <= DueOf(r, FALSE, h, known, now)
         /\ ~known => DueOf(r, FALSE, g, known, now) = 0
<1>1. Differs(r, now) => Differs(r, h) \/ Apart(r, h, now)
  BY DEF Differs, Apart
<1>2. ~Apart(r, now, now)
  BY DEF Apart
<1>. QED BY <1>1, <1>2 DEF DueOf, One

\* A change of the row, or of what Bookeo says, owes at most one event more.
LEMMA DueOfChange ==
  ASSUME NEW r, NEW s, NEW held \in BOOLEAN, NEW h, NEW g,
         NEW known \in BOOLEAN, NEW knew \in BOOLEAN, NEW now, NEW was,
         \/ Free(s) \subseteq Free(r) /\ h = g /\ now = was
         \/ s = r /\ h = g
         \/ s = r /\ (Apart(r, h, now) => Apart(r, g, was))
  PROVE  DueOf(s, held, h, known, now) <= DueOf(r, held, g, knew, was) + 1
<1>1. CASE held
  <2>1. CASE Free(s) \subseteq Free(r) /\ h = g /\ now = was
    <3>1. Apart(s, h, now) => Apart(r, g, was)
      BY <2>1 DEF Apart
    <3>. QED BY <1>1, <3>1 DEF DueOf, One
  <2>2. CASE s = r /\ h = g
    BY <1>1, <2>2 DEF DueOf, One
  <2>3. CASE s = r /\ (Apart(r, h, now) => Apart(r, g, was))
    BY <1>1, <2>3 DEF DueOf, One
  <2>. QED BY <2>1, <2>2, <2>3
<1>2. CASE ~held
  BY <1>2 DEF DueOf, One
<1>. QED BY <1>1, <1>2

\* An import settles what its own value owes, with an event if the row differs.
LEMMA DueOfImport ==
  ASSUME NEW r \in Rows \cup {None}, NEW h \in Values, NEW g, NEW now, NEW known \in BOOLEAN
  PROVE  /\ Imported(r, h) # r =>
              DueOf(Imported(r, h), FALSE, g, known, now) + 1 <= DueOf(r, TRUE, h, known, now)
         /\ Imported(r, h) = r =>
              DueOf(r, FALSE, g, known, now) <= DueOf(r, TRUE, h, known, now)
<1>. PICK s : s = Imported(r, h)
  OBVIOUS
<1>1. s # r => Differs(r, h)
  <2>1. CASE r = None
    BY <2>1 DEF Differs
  <2>2. CASE r # None /\ ~Differs(r, h)
    <3>1. r \in Rows /\ \A f \in Fields \ r.manual : h[f] = r.value[f]
      BY <2>2 DEF Differs, Free
    <3>2. [date |-> IF "date" \in r.manual THEN r.value["date"] ELSE h["date"],
           status |-> IF "status" \in r.manual THEN r.value["status"] ELSE h["status"],
           activity |-> IF "activity" \in r.manual THEN r.value["activity"]
                        ELSE h["activity"]] = r.value
      BY <3>1 DEF Rows, Values, Fields
    <3>3. s = [r EXCEPT !.value = r.value]
      BY <2>2, <3>2 DEF Imported
    <3>. QED BY <3>1, <3>3 DEF Rows
  <2>. QED BY <2>1, <2>2
<1>2. Free(s) = Free(r) /\ s # None /\ \A f \in Free(r) : s.value[f] = h[f]
  <2>1. CASE r = None
    <3>1. s = [value |-> h, manual |-> {}] /\ s \in Rows
      BY <2>1, ImportedRow DEF Imported
    <3>. QED BY <2>1, <3>1 DEF Free
  <2>2. CASE r # None
    <3>1. s \in Rows /\ s.manual = r.manual /\ s # None
      BY <2>2, ImportedRow
    <3>2. s.value = [date |-> IF "date" \in r.manual THEN r.value["date"] ELSE h["date"],
                     status |-> IF "status" \in r.manual THEN r.value["status"] ELSE h["status"],
                     activity |-> IF "activity" \in r.manual THEN r.value["activity"]
                                  ELSE h["activity"]]
      BY <2>2 DEF Imported, Rows
    <3>. QED BY <2>2, <3>1, <3>2 DEF Free, Fields
  <2>. QED BY <2>1, <2>2
<1>3. Differs(s, now) => Apart(r, h, now)
  BY <1>2 DEF Differs, Apart
<1>4. s = r => (Differs(r, now) => Differs(r, h) \/ Apart(r, h, now))
  BY DEF Differs, Apart
<1>. QED BY <1>1, <1>3, <1>4 DEF DueOf, One

\* What the command does to its queue and hand, as far as one number goes.
HoldsNoMore(n) ==
  \/ ~Held(n)'
  \/ Held(n) /\ Held(n)' /\ Holding(n)' \in {Holding(n), Valued(account[n])}
  \/ ~Held(n) /\ Held(n)' /\ account[n] # None /\ Holding(n)' = Valued(account[n])

LEMMA RunEvents ==
  ASSUME ImportInv, NEW n \in Numbers, EventsOf(n), HoldsNoMore(n),
         row'[n] = row[n], events'[n] = events[n], UNCHANGED worldVars
  PROVE  EventsOf(n)'
<1>. DEFINE r == row[n]  k == account[n] # None  w == Valued(account[n])
            h == Holding(n)  g == Holding(n)'
<1>1. Valued(account[n])' = w /\ (account[n] # None)' = k
  BY DEF worldVars, Valued
<1>2. Due(n) = DueOf(r, Held(n), h, k, w) /\ Due(n)' = DueOf(r, Held(n)', g, k, w)
  BY <1>1 DEF Due
<1>3. Held(n) \in BOOLEAN /\ Held(n)' \in BOOLEAN /\ k \in BOOLEAN
  BY DEF Held
<1>. HIDE DEF r, k, w, h, g
<1>4. Due(n)' <= Due(n)
  <2>1. CASE ~Held(n)' /\ Held(n)
    <3>1. Held(n)' = FALSE /\ Held(n) = TRUE
      BY <1>3, <2>1
    <3>2. DueOf(r, FALSE, g, k, w) <= DueOf(r, TRUE, h, k, w)
      BY <1>3, DueOfRun, Zenon
    <3>. QED BY <1>2, <3>1, <3>2
  <2>2. CASE ~Held(n)' /\ ~Held(n)
    BY <1>2, <2>2 DEF DueOf, One
  <2>3. CASE Held(n)' /\ Held(n)
    <3>1. g \in {h, w}
      BY <2>3 DEF HoldsNoMore, g, h, w
    <3>. QED BY <1>2, <1>3, <2>3, <3>1, DueOfRun DEF DueOf, One
  <2>4. CASE Held(n)' /\ ~Held(n)
    <3>1. k /\ g = w
      BY <2>4 DEF HoldsNoMore, g, k, w
    <3>. QED BY <1>2, <1>3, <2>4, <3>1, DueOfRun DEF DueOf, One
  <2>. QED BY <2>1, <2>2, <2>3, <2>4
<1>5. Due(n) \in Int /\ Due(n)' \in Int
  BY <1>2, <1>3, DueBounds
<1>6. events[n] \in Nat /\ changes[n] \in Nat
  BY DEF ImportInv, TypeOK
<1>7. changes'[n] = changes[n] /\ approved' = approved
  BY DEF worldVars
<1>. QED BY <1>4, <1>5, <1>6, <1>7 DEF EventsOf, One

\* A change of the row or of what Bookeo says, or an approved alias.
LEMMA ChangeEvents ==
  ASSUME ImportInv, NEW n \in Numbers, EventsOf(n), events'[n] = events[n],
         changes'[n] + One(approved') >= changes[n] + One(approved) + 1,
         changes'[n] \in Nat, Held(n)' = Held(n),
         \/ /\ Free(row'[n]) \subseteq Free(row[n])
            /\ Holding(n)' = Holding(n) /\ Valued(account[n])' = Valued(account[n])
         \/ row'[n] = row[n] /\ Holding(n)' = Holding(n)
         \/ /\ row'[n] = row[n]
            /\ Apart(row[n], Holding(n)', Valued(account[n])') =>
                 Apart(row[n], Holding(n), Valued(account[n]))
  PROVE  EventsOf(n)'
<1>. DEFINE r == row[n]  s == row'[n]  p == Held(n)
            k == account[n] # None  l == (account[n] # None)'
            w == Valued(account[n])  v == Valued(account[n])'
            h == Holding(n)  g == Holding(n)'
<1>1. Due(n) = DueOf(r, p, h, k, w) /\ Due(n)' = DueOf(s, p, g, l, v)
  BY DEF Due
<1>2. p \in BOOLEAN /\ k \in BOOLEAN /\ l \in BOOLEAN
  BY DEF Held
<1>3. \/ Free(s) \subseteq Free(r) /\ g = h /\ v = w
      \/ s = r /\ g = h
      \/ s = r /\ (Apart(r, g, v) => Apart(r, h, w))
  OBVIOUS
<1>. HIDE DEF r, s, p, k, l, w, v, h, g
<1>4. Due(n)' <= Due(n) + 1
  <2>1. DueOf(s, p, g, l, v) <= DueOf(r, p, h, k, w) + 1
    BY <1>2, <1>3, DueOfChange, Zenon
  <2>. QED BY <1>1, <2>1
<1>5. Due(n) \in Int /\ Due(n)' \in Int
  BY <1>1, <1>2, DueBounds
<1>6. events[n] \in Nat /\ changes[n] \in Nat
  BY DEF ImportInv, TypeOK
<1>. QED BY <1>4, <1>5, <1>6 DEF EventsOf, One

LEMMA ListPageRun ==
  ASSUME ListPage
  PROVE  \E token : run' = [run EXCEPT !.pc = "page", !.token = token,
                              !.queue = [n \in token[run.page] |-> account[n]]]
<1>1. PICK token \in IF run.token = None THEN Pagings(DatedIn(Window)) ELSE {run.token} :
        run' = [run EXCEPT !.pc = "page", !.token = token,
                  !.queue = [n \in token[run.page] |-> account[n]]]
  BY DEF ListPage
<1>. QED BY <1>1

LEMMA EventsStep ==
  ASSUME ImportInv, EventsInv, [Next]_vars
  PROVE  EventsInv'
<1>. SUFFICES ASSUME NEW n \in Numbers PROVE EventsOf(n)'
  BY DEF EventsInv
<1>1. EventsOf(n)
  BY DEF EventsInv
<1>2. /\ row \in [Numbers -> Rows \cup {None}] /\ events \in [Numbers -> Nat]
      /\ changes \in [Numbers -> Nat] /\ approved \in BOOLEAN
      /\ account \in [Numbers -> Payloads \cup {None}]
  BY DEF ImportInv, TypeOK
\* The command.
<1>3. CASE (\E dry \in BOOLEAN : Start(dry)) \/ CannotLoad \/ SkipWindow \/ OpenWindow
           \/ RunDone \/ TurnPage \/ CloseWindow \/ FileWritten \/ Interrupted
  <2>1. UNCHANGED <<bookingVars, worldVars>>
    BY <1>3 DEF Start, CannotLoad, SkipWindow, OpenWindow, RunDone, TurnPage, CloseWindow,
                FileWritten, Interrupted
  <2>2. run'.pc # "page"
    <3>1. CASE FileWritten
      <4>1. run \in Saves /\ run' = run.next
        BY <3>1, RunShape DEF FileWritten, ImportInv
      <4>. QED BY <4>1, RunShape DEF ImportInv, RunOK, Saves, Steps, Walks
    <3>2. CASE TurnPage \/ CloseWindow
      <4>1. run \in Walks
        BY <3>2, RunShape DEF TurnPage, CloseWindow, PageDone, ImportInv
      <4>2. NextPage.pc = "list" /\ NextWindow.pc = "window"
        BY <4>1 DEF NextPage, NextWindow, Walks
      <4>3. run' \in {NextPage, NextWindow} \/ run'.pc = "save"
        BY <3>2 DEF TurnPage, CloseWindow, Truncate
      <4>. QED BY <4>2, <4>3
    <3>. QED BY <1>3, <3>1, <3>2 DEF Start, CannotLoad, SkipWindow, OpenWindow, RunDone,
                                     Interrupted, Off, NextWindow
  <2>3. ~Held(n)'
    BY <2>2 DEF Held
  <2>. QED BY <1>1, <2>1, <2>3, RunEvents DEF bookingVars, HoldsNoMore
<1>4. CASE ListPage
  <2>1. run \in Walks /\ WalkOK(run)
    BY <1>4, RunShape DEF ListPage, ImportInv
  <2>2. PICK token : run' = [run EXCEPT !.pc = "page", !.token = token,
                               !.queue = [m \in token[run.page] |-> account[m]]]
    BY <1>4, ListPageRun
  <2>3. run.hand = None /\ run'.hand = run.hand
    BY <1>4, <2>1, <2>2 DEF ListPage, WalkOK, Walks
  <2>4. /\ \A m \in DOMAIN run'.queue : run'.queue[m] = account[m]
        /\ DOMAIN run'.queue \subseteq Known'
    <3>1. run'.pc = "page" /\ run'.queue = [m \in token[run.page] |-> account[m]]
      BY <2>1, <2>2 DEF Walks
    <3>2. ImportInv'
      BY <1>4, ListPageKeeps
    <3>3. DOMAIN run'.queue \subseteq Known'
      BY <3>1, <3>2 DEF ImportInv, RunOK, Off, Steps, Saves, WalkOK
    <3>. QED BY <3>1, <3>3
  <2>5. UNCHANGED <<bookingVars, worldVars>>
    BY <1>4 DEF ListPage
  <2>6. Held(n)' => account[n] # None /\ Holding(n)' = Valued(account[n])
    BY <2>2, <2>3, <2>4, <2>5 DEF Held, Holding, Valued, Known, worldVars
  <2>7. ~Held(n)
    BY <1>4 DEF ListPage, Held
  <2>. QED BY <1>1, <2>5, <2>6, <2>7, RunEvents DEF bookingVars, HoldsNoMore
<1>5. ASSUME NEW m \in Numbers, Take(m) PROVE EventsOf(n)'
  <2>1. run \in Walks /\ WalkOK(run)
    BY <1>5, RunShape DEF Take, ImportInv
  <2>2. PICK raw \in {run.queue[m], account[m]} :
          run' = [run EXCEPT !.hand = [number |-> m,
                    value |-> [date |-> raw.date, status |-> raw.status,
                               activity |-> approved]]]
    BY <1>5 DEF Take, Mapped
  <2>3. UNCHANGED <<bookingVars, worldVars>>
    BY <1>5 DEF Take
  <2>4. Held(n)' = Held(n)
    BY <2>1, <2>2 DEF Held, Walks
  <2>5. [number |-> m, value |-> [date |-> raw.date, status |-> raw.status,
                                  activity |-> approved]] \in Hands
    <3>1. m \in Known /\ run.queue \in Queues /\ m \in DOMAIN run.queue
      BY <1>5, <2>1 DEF Take, WalkOK, Walks
    <3>2. raw \in Payloads
      BY <1>2, <3>1 DEF Queues, Known
    <3>. QED BY <1>2, <3>2 DEF Hands, Values
  <2>6. Holding(n)' \in {Holding(n), Valued(account[n])}
    <3>1. run.hand = None /\ Holding(n) = Valued(run.queue[n])
      BY <1>5 DEF Take, Holding
    <3>2. /\ run'.hand # None /\ run'.hand.number = m /\ run'.queue = run.queue
          /\ run'.hand.value = Valued(raw)
      BY <2>1, <2>2, <2>5 DEF Walks, Valued
    <3>3. CASE m = n
      BY <2>2, <3>1, <3>2, <3>3 DEF Holding
    <3>4. CASE m # n
      BY <2>3, <3>1, <3>2, <3>4 DEF Holding, Valued, worldVars
    <3>. QED BY <3>3, <3>4
  <2>. QED BY <1>1, <2>3, <2>4, <2>6, RunEvents DEF bookingVars, HoldsNoMore
<1>6. CASE ImportBooking \/ ClassifyBooking
  <2>1. /\ run \in Walks /\ WalkOK(run) /\ run.pc = "page" /\ run.hand # None
    BY <1>6, RunShape DEF ImportBooking, ClassifyBooking, ImportInv
  <2>. DEFINE m == run.hand.number
              new == Imported(row[m], run.hand.value)
  <2>2. m \in Numbers /\ run.hand.value \in Values /\ m \in DOMAIN run.queue
    BY <2>1 DEF Walks, WalkOK, Hands
  <2>3. /\ run'.hand = None /\ run'.pc = "page" /\ run'.dry = run.dry
        /\ DOMAIN run'.queue = DOMAIN run.queue \ {m}
        /\ \A x \in DOMAIN run'.queue : run'.queue[x] = run.queue[x]
    <3>1. run' = Handled
      BY <1>6 DEF ImportBooking, ClassifyBooking
    <3>. QED BY <2>1, <3>1, HandledOK
  <2>4. UNCHANGED worldVars
    BY <1>6 DEF ImportBooking, ClassifyBooking
  <2>5. CASE ClassifyBooking
    <3>1. ~Held(n)' /\ UNCHANGED bookingVars
      BY <2>3, <2>5 DEF ClassifyBooking, Held
    <3>. QED BY <1>1, <2>4, <3>1, RunEvents DEF bookingVars, HoldsNoMore
  <2>6. CASE ImportBooking /\ m # n
    <3>1. row'[n] = row[n] /\ events'[n] = events[n]
      BY <1>2, <2>2, <2>6 DEF ImportBooking, ImportEvent
    <3>2. Held(n)' = Held(n)
      BY <2>1, <2>3, <2>6 DEF Held
    <3>3. Held(n) => Holding(n)' = Holding(n)
      BY <2>1, <2>3, <2>4, <2>6 DEF Held, Holding, Valued, worldVars
    <3>. QED BY <1>1, <2>4, <3>1, <3>2, <3>3, RunEvents DEF HoldsNoMore
  <2>7. CASE ImportBooking /\ m = n
    <3>. DEFINE r == row[n]  h == run.hand.value  k == account[n] # None
                w == Valued(account[n])  g == Holding(n)'
    <3>1. Held(n) /\ ~Held(n)' /\ Holding(n) = h
      BY <2>1, <2>2, <2>3, <2>7 DEF ImportBooking, Held, Holding
    <3>2. row'[n] = Imported(r, h) /\ r \in Rows \cup {None}
      BY <1>2, <2>2, <2>7 DEF ImportBooking
    <3>3. events'[n] = IF Imported(r, h) = r THEN events[n] ELSE events[n] + 1
      BY <1>2, <2>2, <2>7 DEF ImportBooking, ImportEvent
    <3>4. Valued(account[n])' = w /\ (account[n] # None)' = k /\ k \in BOOLEAN
      BY <2>4 DEF worldVars, Valued
    <3>5. Held(n) = TRUE /\ Held(n)' = FALSE
      BY <3>1 DEF Held
    <3>6. Due(n) = DueOf(r, TRUE, h, k, w) /\ Due(n)' = DueOf(row'[n], FALSE, g, k, w)
      BY <3>1, <3>4, <3>5 DEF Due
    <3>7. h \in Values
      BY <2>2
    <3>. HIDE DEF r, h, k, w, g
    <3>8. Due(n) \in {0, 1, 2} /\ Due(n)' \in {0, 1, 2}
      <4>1. DueOf(r, TRUE, h, k, w) \in {0, 1, 2} /\ DueOf(row'[n], FALSE, g, k, w) \in {0, 1, 2}
        BY <3>4, DueBounds
      <4>. QED BY <3>6, <4>1
    <3>9. Due(n)' + (events'[n] - events[n]) <= Due(n)
      <4>1. /\ Imported(r, h) # r =>
                 DueOf(Imported(r, h), FALSE, g, k, w) + 1 <= DueOf(r, TRUE, h, k, w)
            /\ Imported(r, h) = r => DueOf(r, FALSE, g, k, w) <= DueOf(r, TRUE, h, k, w)
        BY <3>2, <3>4, <3>7, DueOfImport
      <4>2. Due(n) \in Int /\ Due(n)' \in Int /\ events[n] \in Int
        BY <1>2, <3>8
      <4>3. CASE Imported(r, h) = r
        <5>1. Due(n)' = DueOf(r, FALSE, g, k, w) /\ events'[n] = events[n]
          BY <3>2, <3>3, <3>6, <4>3, Zenon
        <5>2. Due(n)' <= Due(n)
          BY <3>6, <4>1, <4>3, <5>1, Zenon
        <5>. PICK a, b, e : a = Due(n) /\ b = Due(n)' /\ e = events[n]
          OBVIOUS
        <5>3. a \in Int /\ b \in Int /\ e \in Int /\ b <= a => b + (e - e) <= a
          OBVIOUS
        <5>. QED BY <4>2, <5>1, <5>2, <5>3, Zenon
      <4>4. CASE Imported(r, h) # r
        <5>1. Due(n)' = DueOf(Imported(r, h), FALSE, g, k, w) /\ events'[n] = events[n] + 1
          BY <3>2, <3>3, <3>6, <4>4, Zenon
        <5>2. Due(n)' + 1 <= Due(n)
          BY <3>6, <4>1, <4>4, <5>1, Zenon
        <5>. PICK a, b, e : a = Due(n) /\ b = Due(n)' /\ e = events[n]
          OBVIOUS
        <5>3. a \in Int /\ b \in Int /\ e \in Int /\ b + 1 <= a => b + ((e + 1) - e) <= a
          OBVIOUS
        <5>. QED BY <4>2, <5>1, <5>2, <5>3, Zenon
      <4>. QED BY <4>3, <4>4
    <3>10. changes'[n] = changes[n] /\ approved' = approved
      BY <2>4 DEF worldVars
    <3>. QED BY <1>1, <1>2, <3>3, <3>8, <3>9, <3>10 DEF EventsOf, One
  <2>. QED BY <1>6, <2>5, <2>6, <2>7
\* Everybody else.
<1>7. ASSUME NEW m \in Numbers, BookeoChanges(m) \/ EmailArrives(m) \/ OperatorEdits(m)
      PROVE  EventsOf(n)'
  <2>1. /\ changes' = [changes EXCEPT ![m] = @ + 1]
        /\ UNCHANGED <<events, approved, run>>
    BY <1>7 DEF BookeoChanges, EmailArrives, OperatorEdits, Counted, bookingVars
  <2>2. Held(n)' = Held(n) /\ Holding(n)' = Holding(n) /\ changes'[n] \in Nat
    BY <1>2, <2>1 DEF Held, Holding, Valued
  <2>3. CASE m # n
    <3>1. row'[n] = row[n] /\ account'[n] = account[n] /\ changes'[n] = changes[n]
      BY <1>2, <1>7, <2>1, <2>3 DEF BookeoChanges, EmailArrives, OperatorEdits, bookingVars
    <3>. QED BY <1>1, <2>1, <2>2, <3>1 DEF EventsOf, Due, Valued
  <2>4. CASE m = n
    <3>1. changes'[n] + One(approved') >= changes[n] + One(approved) + 1
      BY <1>2, <2>1, <2>4 DEF One
    <3>2. CASE BookeoChanges(m)
      BY <1>1, <2>1, <2>2, <3>1, <3>2, ChangeEvents DEF BookeoChanges, bookingVars
    <3>3. CASE EmailArrives(m) \/ OperatorEdits(m)
      <4>1. Free(row'[n]) \subseteq Free(row[n])
        <5>1. CASE row[n] = None
          BY <5>1 DEF Free
        <5>2. CASE row[n] # None /\ EmailArrives(m)
          <6>1. PICK p \in Payloads : row' = [row EXCEPT ![n] = Emailed(row[n], p)]
            BY <2>4, <5>2 DEF EmailArrives
          <6>2. row'[n] \in Rows /\ row'[n].manual = row[n].manual
            BY <1>2, <5>2, <6>1, EmailedRow
          <6>. QED BY <5>2, <6>2 DEF Free
        <5>3. CASE row[n] # None /\ OperatorEdits(m)
          <6>1. PICK f \in Fields, v \in Values :
                  row' = [row EXCEPT ![n].value[f] = v[f], ![n].manual = @ \cup {f}]
            BY <2>4, <5>3 DEF OperatorEdits
          <6>. PICK r, new : r = row[n] /\ new = row'[n]
            OBVIOUS
          <6>2. new = [r EXCEPT !.value[f] = v[f], !.manual = @ \cup {f}] /\ r \in Rows
            BY <1>2, <5>3, <6>1
          <6>. PICK w : w = [r.value EXCEPT ![f] = v[f]]
            OBVIOUS
          <6>3. w \in Values /\ new = [r EXCEPT !.value = w, !.manual = @ \cup {f}]
            BY <6>2 DEF Rows, Values, Fields
          <6>4. new.manual = r.manual \cup {f}
            BY <6>2, <6>3 DEF Rows
          <6>5. new = [value |-> w, manual |-> r.manual \cup {f}]
            BY <6>2, <6>3 DEF Rows
          <6>6. new \in Rows
            <7>1. r.manual \cup {f} \in SUBSET Fields
              BY <6>2 DEF Rows
            <7>. QED BY <6>3, <6>5, <7>1 DEF Rows
          <6>. QED BY <1>2, <5>3, <6>4, <6>6 DEF Free
        <5>. QED BY <3>3, <5>1, <5>2, <5>3
      <4>2. account' = account
        BY <3>3 DEF EmailArrives, OperatorEdits
      <4>3. Valued(account[n])' = Valued(account[n])
        BY <2>1, <4>2 DEF Valued
      <4>. QED BY <1>1, <2>1, <2>2, <3>1, <4>1, <4>3, ChangeEvents
    <3>. QED BY <1>7, <3>2, <3>3
  <2>. QED BY <2>3, <2>4
<1>8. CASE AliasApproved
  <2>1. UNCHANGED <<bookingVars, account, changes, run>> /\ ~approved /\ approved' = TRUE
    BY <1>8 DEF AliasApproved
  <2>2. Held(n)' = Held(n) /\ row'[n] = row[n] /\ events'[n] = events[n] /\ changes'[n] \in Nat
    BY <1>2, <2>1 DEF Held, bookingVars
  <2>3. changes'[n] + One(approved') >= changes[n] + One(approved) + 1
    BY <1>2, <2>1 DEF One
  <2>4. CASE run.hand # None /\ run.hand.number = n
    <3>1. Holding(n)' = Holding(n)
      BY <2>1, <2>4 DEF Holding
    <3>. QED BY <1>1, <2>2, <2>3, <3>1, ChangeEvents
  <2>5. CASE ~(run.hand # None /\ run.hand.number = n)
    <3>1. /\ Holding(n) = [date |-> run.queue[n].date, status |-> run.queue[n].status,
                             activity |-> FALSE]
          /\ Holding(n)' = [date |-> run.queue[n].date, status |-> run.queue[n].status,
                              activity |-> TRUE]
          /\ Valued(account[n]) = [date |-> account[n].date, status |-> account[n].status,
                                    activity |-> FALSE]
          /\ Valued(account[n])' = [date |-> account[n].date, status |-> account[n].status,
                                     activity |-> TRUE]
      BY <1>2, <2>1, <2>5 DEF Holding, Valued
    <3>2. Apart(row[n], Holding(n)', Valued(account[n])') =>
            Apart(row[n], Holding(n), Valued(account[n]))
      <4>1. ASSUME NEW f \in Fields, Holding(n)'[f] # Valued(account[n])'[f]
            PROVE  Holding(n)[f] # Valued(account[n])[f]
        <5>1. CASE f = "date"
          BY <3>1, <4>1, <5>1
        <5>2. CASE f = "status"
          BY <3>1, <4>1, <5>2
        <5>3. CASE f = "activity"
          BY <3>1, <4>1, <5>3
        <5>. QED BY <5>1, <5>2, <5>3 DEF Fields
      <4>2. Free(row[n]) \subseteq Fields
        BY DEF Free
      <4>. QED BY <2>2, <4>1, <4>2 DEF Apart
    <3>. QED BY <1>1, <2>2, <2>3, <3>2, ChangeEvents
  <2>. QED BY <2>4, <2>5
<1>9. CASE (\E m \in Numbers : OperatorClosesReview(m)) \/ NextDay \/ UNCHANGED vars
  <2>1. UNCHANGED <<row, events, account, approved, changes, run>>
    BY <1>9 DEF OperatorClosesReview, NextDay, bookingVars, worldVars, vars
  <2>. QED BY <1>1, <2>1 DEF EventsOf, Due, Held, Holding, Valued
<1>. QED BY <1>3, <1>4, <1>5, <1>6, <1>7, <1>8, <1>9 DEF Next, Importing, Others

\* However often a run is interrupted and a page is read again, a booking has no
\* more import events than there were changes to it (_create_import_event).
THEOREM NoEventRepeated == Spec => []NoDuplicateEvents
<1>1. Init => EventsInv
  BY DEF Init, EventsInv, EventsOf, Due, DueOf, Held, Off, One
<1>2. ImportInv /\ EventsInv => NoDuplicateEvents
  <2>. SUFFICES ASSUME ImportInv, NEW n \in Numbers, EventsOf(n)
                PROVE  events[n] <= changes[n] + (IF approved THEN 1 ELSE 0)
    BY DEF EventsInv, NoDuplicateEvents
  <2>1. Due(n) \in {0, 1, 2}
    <3>1. Held(n) \in BOOLEAN
      BY DEF Held
    <3>. QED BY <3>1, DueBounds DEF Due
  <2>. QED BY <2>1 DEF EventsOf, One, ImportInv, TypeOK
<1>. QED BY <1>1, <1>2, EventsStep, ImportAlways, PTL DEF Spec

=============================================================================
