------------------------- MODULE InvoiceLedgerProofs -------------------------
(***************************************************************************)
(* The invoice ledger for any number of invoices, owners, requests and slots, *)
(* and for every environment: each operation and fault may occur or not.      *)
(***************************************************************************)
EXTENDS InvoiceLedger, FiniteSetTheorems, WellFoundedInduction, TLAPS

-----------------------------------------------------------------------------
(***************************************************************************)
(* The operators on one row.                                                *)
(***************************************************************************)

\* A stored row is not the absent one.
LEMMA RowsArePresent == NoRow \notin Row
BY DEF NoRow, Row

\* Of the rows that match, there is an earliest.
LEMMA EarliestIsMember ==
  ASSUME NEW S, S \subseteq Inv, S # {}
  PROVE  Earliest(S) \in S
<1>1. S \subseteq Nat
  BY LedgerAssumption DEF Inv
<1>2. PICK x \in S : \A y \in S : ~ (<<y, x>> \in OpToRel(<, Nat))
  BY <1>1, NatLessThanWellFounded, WFMin
<1>3. \A y \in Nat : y < x => <<y, x>> \in OpToRel(<, Nat)
  BY <1>1, Zenon DEF OpToRel
<1>4. \A y \in S : x <= y
  <2>1. \A y \in S : ~(y < x)
    BY <1>1, <1>2, <1>3, Zenon
  <2> QED
    BY <1>1, <2>1
<1> QED
  BY <1>4 DEF Earliest

\* UPDATE writes the columns that differ from what was read.
LEMMA FlushedRow ==
  ASSUME NEW read \in Row, NEW new \in Row, NEW current \in Row
  PROVE  /\ Flush(read, new, current) \in Row
         /\ Flush(read, new, current).status =
               IF new.status # read.status THEN new.status ELSE current.status
         /\ Flush(read, new, current).method =
               IF new.method # read.method THEN new.method ELSE current.method
         /\ Flush(read, new, current).num =
               IF new.num # read.num THEN new.num ELSE current.num
         /\ Flush(read, new, current).dup =
               IF new.dup # read.dup THEN new.dup ELSE current.dup
<1>1. /\ DOMAIN current = {"status", "method", "vat", "num", "dup"}
  BY DEF Row
<1>2. Flush(read, new, current) =
        [status |-> IF new.status # read.status THEN new.status ELSE current.status,
         method |-> IF new.method # read.method THEN new.method ELSE current.method,
         vat |-> IF new.vat # read.vat THEN new.vat ELSE current.vat,
         num |-> IF new.num # read.num THEN new.num ELSE current.num,
         dup |-> IF new.dup # read.dup THEN new.dup ELSE current.dup]
  BY <1>1 DEF Flush
<1> HIDE DEF Flush
<1> QED
  BY <1>2 DEF Row

\* What the sources can conclude leaves the relation to other rows alone.
LEMMA VerdictRows ==
  ASSUME NEW x \in Row, NEW p \in Numbers, NEW v \in Verdicts(x, p)
  PROVE  /\ v \in Row /\ v.dup = x.dup
         /\ v.status \in {"verified", "consistent", "review"}
         /\ v.status = "consistent" => v.method = "dual"
<1>1. PICK status \in {"verified", "consistent", "review"}, method \in Method,
           n \in Numbers \cup {NoNumber} :
        /\ v = Concluded(x, status, method, n)
        /\ status = "consistent" => method = "dual"
  <2>1. x.num \in Numbers \cup {NoNumber} /\ x.method \in Method
    BY DEF Row
  <2>2. \/ \E n \in {x.num, p} \ {NoNumber} : v = Concluded(x, "verified", "provider", n)
        \/ \E n \in {p, NoNumber} : v = Concluded(x, "consistent", "dual", n)
        \/ \E n \in {p, NoNumber} : v = Concluded(x, "review", "dual", n)
        \/ \E n \in {p, NoNumber} : v = Concluded(x, "review", "single", n)
        \/ \E m \in {"", x.method} : v = Concluded(x, "review", m, x.num)
    BY DEF Verdicts
  <2> QED
    BY <2>1, <2>2 DEF Method
<1>2. (x.vat \/ status # "review") \in BOOLEAN
  BY DEF Row
<1> QED
  BY <1>1, <1>2 DEF Concluded, Row, Status

\* What a failed run commits: a row that is "failed", with the relation it read
\* or none.
LEMMA FailureRows ==
  ASSUME NEW x \in Row, NEW p \in Numbers, NEW v \in Failures(x, p)
  PROVE  v \in Row /\ v.status = "failed" /\ v.dup \in {x.dup, None}
<1>1. CASE v = [x EXCEPT !.status = "failed"]
  BY <1>1 DEF Row, Status
<1>2. CASE v # [x EXCEPT !.status = "failed"]
  <2>1. PICK w \in Verdicts(x, p), d \in {x.dup, None} : v = FailedWith(w, d)
    BY <1>2 DEF Failures
  <2>2. w \in Row /\ d \in Inv \cup {None}
    <3>1. w \in Row
      BY VerdictRows
    <3> QED
      BY <3>1 DEF Row
  <2> QED
    BY <2>1, <2>2 DEF Row, Status, FailedWith
<1> QED
  BY <1>1, <1>2

\* The search for a duplicate decides the relation, and the status only with it.
LEMMA DuplicateRows ==
  ASSUME NEW i \in Inv, NEW v \in Row
  PROVE  /\ WithDuplicate(i, v) \in Row
         /\ WithDuplicate(i, v).num = v.num /\ WithDuplicate(i, v).method = v.method
         /\ \/ WithDuplicate(i, v).dup = None /\ WithDuplicate(i, v).status = v.status
            \/ /\ WithDuplicate(i, v).dup \in Twins(i, v.num)
               /\ WithDuplicate(i, v).status = "duplicate"
<1>1. Twins(i, v.num) \subseteq Inv
  BY DEF Twins, Present
<1>2. CASE Twins(i, v.num) = {}
  BY <1>2 DEF WithDuplicate, Row
<1>3. CASE Twins(i, v.num) # {}
  <2> DEFINE e == Earliest(Twins(i, v.num))
  <2>1. e \in Twins(i, v.num) /\ e \in Inv
    BY <1>1, <1>3, EarliestIsMember
  <2> HIDE DEF e
  <2>2. WithDuplicate(i, v) = [v EXCEPT !.dup = e, !.status = "duplicate"]
    BY <1>3 DEF WithDuplicate, e
  <2> QED
    BY <2>1, <2>2 DEF Row, Status
<1> QED
  BY <1>2, <1>3

\* What the deletion of its original leaves is a row.
LEMMA ReleasedRow ==
  ASSUME NEW x \in Row
  PROVE  /\ Released(x) \in Row /\ Released(x).dup = None
         /\ Released(x).status \in {"verified", "review"}
         /\ Released(x).num = x.num /\ Released(x).method = x.method
BY DEF Released, Row, Status

-----------------------------------------------------------------------------
(***************************************************************************)
(* First layer: types, and that every id in use has been given out.          *)
(***************************************************************************)

QueueInv ==
    /\ \A i \in Present : i <= created
    /\ \A r \in Requests : \A n \in DOMAIN tasks[r] : tasks[r][n] <= created
    /\ \A r \in Requests : snap[r] # NoRow => tasks[r] # <<>> /\ snap[r].status = "processing"

LedgerInv == TypeOK /\ QueueInv

\* The table changes and no row comes back.
NewestOnly ==
    /\ row' \in [Inv -> Row \cup {NoRow}]
    /\ created <= created'
    /\ \A i \in Present' \ Present : created < i /\ i <= created'

\* A row that is stored.
LEMMA PresentRow ==
  ASSUME TypeOK, NEW i \in Present
  PROVE  i \in Inv /\ row[i] \in Row
BY DEF TypeOK, Present

\* A stored row is written.
LEMMA WrittenRow ==
  ASSUME TypeOK, NEW i \in Present, NEW a \in Row, row' = [row EXCEPT ![i] = a]
  PROVE  /\ row' \in [Inv -> Row \cup {NoRow}] /\ Present' = Present
         /\ row'[i] = a /\ \A j \in Inv \ {i} : row'[j] = row[j]
<1>1. i \in Inv
  BY DEF Present
<1>2. /\ row' \in [Inv -> Row \cup {NoRow}]
      /\ row'[i] = a /\ \A j \in Inv \ {i} : row'[j] = row[j]
  BY <1>1 DEF TypeOK
<1> QED
  BY <1>1, <1>2, RowsArePresent DEF Present

\* Rows are released and removed.
LEMMA RemovedRows ==
  ASSUME TypeOK, NEW D, NEW R, R \subseteq Present,
         row' = [c \in Inv |-> IF c \in D THEN NoRow ELSE IF c \in R THEN Released(row[c])
                               ELSE row[c]]
  PROVE  /\ row' \in [Inv -> Row \cup {NoRow}] /\ Present' = Present \ D
         /\ \A c \in Present \ D : row'[c] = IF c \in R THEN Released(row[c]) ELSE row[c]
<1>1. \A c \in Present : c \in Inv /\ row[c] \in Row /\ Released(row[c]) \in Row
  BY PresentRow, ReleasedRow
<1> QED
  BY <1>1, RowsArePresent DEF TypeOK, Present

\* The task at the head of a queue, and the queue behind it.
LEMMA QueueHead ==
  ASSUME TypeOK, NEW r \in Requests, tasks[r] # <<>>
  PROVE  /\ Head(tasks[r]) \in Inv /\ Tail(tasks[r]) \in Seq(Inv)
         /\ 1 \in DOMAIN tasks[r] /\ Head(tasks[r]) = tasks[r][1]
         /\ \A n \in DOMAIN Tail(tasks[r]) : /\ n \in Nat /\ n + 1 \in DOMAIN tasks[r]
                                             /\ Tail(tasks[r])[n] = tasks[r][n + 1]
BY DEF TypeOK

\* A queue is replaced.
LEMMA ReplacedQueue ==
  ASSUME TypeOK, NEW r \in Requests, NEW s \in Seq(Inv), tasks' = [tasks EXCEPT ![r] = s]
  PROVE  /\ tasks' \in [Requests -> Seq(Inv)]
         /\ tasks'[r] = s /\ \A q \in Requests \ {r} : tasks'[q] = tasks[q]
BY DEF TypeOK

\* A task starts or ends.
LEMMA ReplacedSnap ==
  ASSUME TypeOK, NEW r \in Requests, NEW x \in Row \cup {NoRow}, snap' = [snap EXCEPT ![r] = x]
  PROVE  /\ snap' \in [Requests -> Row \cup {NoRow}]
         /\ snap'[r] = x /\ \A q \in Requests \ {r} : snap'[q] = snap[q]
BY DEF TypeOK

\* The invariant when a step leaves the queues, ids and running tasks alone.
LEMMA RowsOnly ==
  ASSUME LedgerInv, row' \in [Inv -> Row \cup {NoRow}], Present' \subseteq Present,
         UNCHANGED <<created, tasks, snap, env>>,
         file' \subseteq Inv, unlinking' \subseteq Inv,
         batch' \in [active : BOOLEAN, todo : Seq(Inv), marked : Inv \cup {None}]
  PROVE  LedgerInv' /\ NewestOnly
<1>1. created \in Nat
  BY LedgerAssumption DEF LedgerInv, TypeOK
<1> QED
  BY <1>1 DEF LedgerInv, TypeOK, QueueInv, NewestOnly

\* The invariant when a task of request r starts, ends or is dropped.
LEMMA TaskOnly ==
  ASSUME LedgerInv, row' \in [Inv -> Row \cup {NoRow}], Present' \subseteq Present,
         NEW r \in Requests, NEW s \in Seq(Inv), NEW x \in Row \cup {NoRow},
         \A n \in DOMAIN s : \E m \in DOMAIN tasks[r] : s[n] = tasks[r][m],
         x # NoRow => s # <<>> /\ x.status = "processing",
         tasks' = [tasks EXCEPT ![r] = s], snap' = [snap EXCEPT ![r] = x],
         UNCHANGED <<created, file, unlinking, batch, env>>
  PROVE  LedgerInv' /\ NewestOnly
<1>1. /\ created \in Nat /\ TypeOK
      /\ tasks' \in [Requests -> Seq(Inv)]
      /\ tasks'[r] = s /\ \A q \in Requests \ {r} : tasks'[q] = tasks[q]
      /\ snap' \in [Requests -> Row \cup {NoRow}]
      /\ snap'[r] = x /\ \A q \in Requests \ {r} : snap'[q] = snap[q]
  BY LedgerAssumption, ReplacedQueue, ReplacedSnap DEF LedgerInv, TypeOK
<1>2. \A q \in Requests : \A n \in DOMAIN tasks'[q] : tasks'[q][n] <= created
  BY <1>1 DEF LedgerInv, QueueInv
<1>3. \A q \in Requests : snap'[q] # NoRow => tasks'[q] # <<>> /\ snap'[q].status = "processing"
  BY <1>1 DEF LedgerInv, QueueInv
<1> QED
  BY <1>1, <1>2, <1>3 DEF LedgerInv, TypeOK, QueueInv, NewestOnly

\* An empty table.
LEMMA InitLedgerInv == Init => LedgerInv
<1> SUFFICES ASSUME Init PROVE LedgerInv
  OBVIOUS
<1>1. TypeOK
  BY LedgerAssumption DEF Init, TypeOK, NoBatch
<1>2. QueueInv
  BY DEF Init, QueueInv, Present
<1> QED
  BY <1>1, <1>2 DEF LedgerInv

\* No handler, task or restart brings a removed row back or invents an id.
LEMMA LedgerInvStep ==
  ASSUME LedgerInv, [Next]_vars
  PROVE  LedgerInv' /\ NewestOnly
<1>1. /\ TypeOK /\ QueueInv /\ created \in Nat /\ N \in Nat
      /\ created \in 0..N /\ Inv \subseteq Nat
      /\ \A i \in Present : i \in Inv /\ row[i] \in Row
      /\ \A i \in Inv : Printed[i] \in Numbers
      /\ env.size \in 0..N
  BY LedgerAssumption, PresentRow DEF LedgerInv, TypeOK, Inv, Numbers
<1>2. /\ file \subseteq Inv /\ unlinking \subseteq Inv
      /\ batch \in [active : BOOLEAN, todo : Seq(Inv), marked : Inv \cup {None}]
      /\ NoBatch \in [active : BOOLEAN, todo : Seq(Inv), marked : Inv \cup {None}]
      /\ row \in [Inv -> Row \cup {NoRow}]
  BY <1>1 DEF TypeOK, NoBatch
<1>3. ASSUME NEW r \in Requests, NEW k \in 1..N, Upload(r, k) PROVE LedgerInv' /\ NewestOnly
  <2> DEFINE new == created + 1 .. created + k
             s == [n \in 1..k |-> created + n]
  <2>1. /\ new \subseteq Inv /\ created' = created + k /\ created' \in 0..N
        /\ \A i \in new : created < i /\ i <= created'
        /\ created <= created'
    BY <1>1, <1>3 DEF Upload, Inv
  <2>2. /\ s \in Seq(Inv) /\ \A n \in DOMAIN s : s[n] <= created'
    BY <1>1, <2>1, <1>3 DEF Upload, Inv
  <2>3. /\ tasks' = [tasks EXCEPT ![r] = s] /\ tasks[r] = <<>>
        /\ row' = [i \in Inv |-> IF i \in new THEN NewRow ELSE row[i]]
        /\ file' = file \cup new /\ UNCHANGED <<unlinking, snap, batch, env>>
    BY <1>3 DEF Upload, CanSubmit, Idle
  <2> HIDE DEF s, new
  <2>4. NewRow \in Row
    BY DEF NewRow, Row, Status, Method
  <2>5. /\ row' \in [Inv -> Row \cup {NoRow}]
        /\ \A i \in Present' : i \in Present \/ i \in new
    BY <1>2, <2>3, <2>4 DEF Present
  <2>6. /\ tasks' \in [Requests -> Seq(Inv)]
        /\ tasks'[r] = s /\ \A q \in Requests \ {r} : tasks'[q] = tasks[q]
    BY <1>1, <2>2, <2>3, ReplacedQueue
  <2>7. /\ \A i \in Present' : i <= created'
        /\ \A q \in Requests : \A n \in DOMAIN tasks'[q] : tasks'[q][n] <= created'
        /\ \A q \in Requests : snap[q] # NoRow => tasks'[q] # <<>> /\ snap[q].status = "processing"
    <3>1. \A i \in Present' : i <= created'
      <4> SUFFICES ASSUME NEW i \in Present' PROVE i <= created'
        OBVIOUS
      <4>1. CASE i \in Present
        <5>1. i \in Nat /\ i <= created
          BY <1>1, <4>1 DEF QueueInv
        <5>2. created <= created' /\ created' \in Nat
          BY <1>1, <2>1
        <5> QED
          BY <1>1, <5>1, <5>2
      <4>2. CASE i \in new
        BY <2>1, <4>2
      <4> QED
        BY <2>5, <4>1, <4>2
    <3>2. \A q \in Requests : \A n \in DOMAIN tasks'[q] : tasks'[q][n] <= created'
      <4> SUFFICES ASSUME NEW q \in Requests, NEW n \in DOMAIN tasks'[q]
                   PROVE  tasks'[q][n] <= created'
        OBVIOUS
      <4>1. CASE q = r
        BY <2>2, <2>6, <4>1
      <4>2. CASE q # r
        <5>1. tasks'[q] = tasks[q] /\ tasks[q] \in Seq(Inv)
          BY <1>1, <2>6, <4>2 DEF TypeOK
        <5>2. tasks[q][n] \in Nat
          <6>1. tasks[q][n] \in Inv
            BY <5>1
          <6> QED
            BY <1>1, <6>1
        <5>3. tasks[q][n] <= created
          BY <1>1, <5>1 DEF QueueInv
        <5> QED
          BY <1>1, <2>1, <5>1, <5>2, <5>3
      <4> QED
        BY <4>1, <4>2
    <3> QED
      BY <1>1, <2>3, <2>6, <3>1, <3>2 DEF QueueInv
  <2>8. QueueInv'
    BY <2>3, <2>7 DEF QueueInv
  <2>9. TypeOK'
    BY <1>1, <1>2, <2>1, <2>3, <2>5, <2>6 DEF TypeOK
  <2> QED
    BY <2>1, <2>5, <2>8, <2>9 DEF LedgerInv, NewestOnly
<1>4. ASSUME NEW r \in Requests, NEW i \in Inv, Reprocess(r, i) PROVE LedgerInv' /\ NewestOnly
  <2> DEFINE a == [row[i] EXCEPT !.status = "pending"]
  <2>1. a \in Row /\ i \in Present /\ row' = [row EXCEPT ![i] = a] /\ i <= created
    BY <1>1, <1>4 DEF Reprocess, Row, Status, QueueInv
  <2> HIDE DEF a
  <2>2. row' \in [Inv -> Row \cup {NoRow}] /\ Present' = Present
    BY <1>1, <2>1, WrittenRow
  <2>3. /\ tasks' = [tasks EXCEPT ![r] = <<i>>] /\ <<i>> \in Seq(Inv) /\ tasks[r] = <<>>
        /\ UNCHANGED <<created, file, unlinking, snap, batch, env>>
    BY <1>4 DEF Reprocess, CanSubmit, Idle
  <2>4. /\ tasks' \in [Requests -> Seq(Inv)]
        /\ tasks'[r] = <<i>> /\ \A q \in Requests \ {r} : tasks'[q] = tasks[q]
    BY <1>1, <2>3, ReplacedQueue
  <2>5. QueueInv'
    BY <1>1, <2>1, <2>2, <2>3, <2>4 DEF QueueInv
  <2> QED
    BY <1>1, <1>2, <2>2, <2>3, <2>4, <2>5 DEF LedgerInv, TypeOK, NewestOnly
<1>5. ASSUME NEW i \in Inv, NEW n \in Numbers \cup {NoNumber}, SaveInvoice(i, n)
      PROVE  LedgerInv' /\ NewestOnly
  <2> DEFINE a == [row[i] EXCEPT !.num = n, !.status = "reviewed", !.vat = TRUE]
  <2>1. i \in Present /\ row' = [row EXCEPT ![i] = a]
    BY <1>1, <1>2, <1>5 DEF SaveInvoice
  <2>2. a \in Row
    <3>1. row[i] \in Row /\ n \in Numbers \cup {NoNumber}
      BY <1>1, <2>1
    <3> QED
      BY <3>1 DEF Row, Status
  <2> HIDE DEF a
  <2>3. row' \in [Inv -> Row \cup {NoRow}] /\ Present' = Present
    BY <1>1, <2>1, <2>2, WrittenRow
  <2> QED
    BY <1>2, <1>5, <2>3, RowsOnly DEF SaveInvoice
<1>6. ASSUME NEW i \in Inv, DeleteInvoice(i) PROVE LedgerInv' /\ NewestOnly
  <2>1. row' = [c \in Inv |-> IF c \in {i} THEN NoRow
                              ELSE IF c \in Children({i}) THEN Released(row[c]) ELSE row[c]]
    BY <1>6 DEF DeleteInvoice
  <2>2. row' \in [Inv -> Row \cup {NoRow}] /\ Present' = Present \ {i}
    BY <1>1, <2>1, RemovedRows DEF Children
  <2> QED
    BY <1>2, <1>6, <2>2, RowsOnly DEF DeleteInvoice
<1>7. ASSUME NEW i \in Inv, Unlink(i) PROVE LedgerInv' /\ NewestOnly
  <2>1. Present' = Present
    BY <1>7 DEF Unlink, Present
  <2> QED
    BY <1>2, <1>7, <2>1, RowsOnly DEF Unlink
<1>8. ASSUME NEW S \in SUBSET Present, NEW s \in Orders(S), BatchStart(s)
      PROVE  LedgerInv' /\ NewestOnly
  <2> DEFINE selected == {s[n] : n \in DOMAIN s}
             R == Children(selected) \ selected
             D == {}
  <2>1. row' = [c \in Inv |-> IF c \in D THEN NoRow
                              ELSE IF c \in R THEN Released(row[c]) ELSE row[c]]
    BY <1>8 DEF BatchStart
  <2>2. R \subseteq Present
    BY DEF Children
  <2> HIDE DEF R, selected, D
  <2>3. row' \in [Inv -> Row \cup {NoRow}] /\ Present' = Present \ D
    BY <1>1, <2>1, <2>2, RemovedRows
  <2>4. s \in Seq(Inv) /\ s # <<>>
    <3>1. s \in [1..Cardinality(S) -> Inv] /\ s # <<>>
      BY <1>1, <1>8 DEF Orders, BatchStart
    <3>2. CASE Cardinality(S) \in Nat
      BY <3>1, <3>2
    <3>3. Cardinality(S) \in Nat
      <4>1. IsFiniteSet(Inv)
        BY <1>1, FS_Interval DEF Inv
      <4>2. IsFiniteSet(S)
        BY <1>1, <4>1, FS_Subset
      <4> QED
        BY <4>2, FS_CardinalityType
    <3> QED
      BY <3>2, <3>3
  <2>5. Head(s) \in Inv /\ Tail(s) \in Seq(Inv)
    BY <2>4
  <2> QED
    BY <1>2, <1>8, <2>3, <2>5, RowsOnly DEF BatchStart
<1>9. ASSUME BatchNext \/ BatchEnd PROVE LedgerInv' /\ NewestOnly
  <2> DEFINE D == {batch.marked}
             R == {}
  <2>1. row' = [c \in Inv |-> IF c \in D THEN NoRow
                              ELSE IF c \in R THEN Released(row[c]) ELSE row[c]]
    BY <1>2, <1>9 DEF BatchNext, BatchEnd
  <2> HIDE DEF D, R
  <2>2. R \subseteq Present
    BY DEF R
  <2>3. row' \in [Inv -> Row \cup {NoRow}] /\ Present' = Present \ D
    BY <1>1, <2>1, <2>2, RemovedRows
  <2>4. batch' \in [active : BOOLEAN, todo : Seq(Inv), marked : Inv \cup {None}] /\ file' \subseteq Inv
    <3>1. CASE BatchNext
      <4>1. batch.todo \in Seq(Inv) /\ batch.todo # <<>>
        BY <1>2, <3>1 DEF BatchNext
      <4>2. Head(batch.todo) \in Inv /\ Tail(batch.todo) \in Seq(Inv)
        BY <4>1
      <4> QED
        BY <1>2, <3>1, <4>2 DEF BatchNext
    <3>2. CASE BatchEnd
      BY <1>2, <3>2 DEF BatchEnd
    <3> QED
      BY <1>9, <3>1, <3>2
  <2> QED
    BY <1>2, <1>9, <2>3, <2>4, RowsOnly DEF BatchNext, BatchEnd
<1>10. ASSUME BatchFails PROVE LedgerInv' /\ NewestOnly
  <2>1. Present' = Present
    BY <1>10 DEF BatchFails, Present
  <2> QED
    BY <1>2, <1>10, <2>1, RowsOnly DEF BatchFails
\* A task that was taken from its queue.
<1>11. ASSUME NEW r \in Requests, tasks[r] # <<>>
       PROVE  /\ Head(tasks[r]) \in Inv /\ Tail(tasks[r]) \in Seq(Inv)
              /\ \A n \in DOMAIN Tail(tasks[r]) :
                    \E m \in DOMAIN tasks[r] : Tail(tasks[r])[n] = tasks[r][m]
  BY <1>1, <1>11, QueueHead
<1>12. ASSUME NEW r \in Requests, SkipMissing(r) PROVE LedgerInv' /\ NewestOnly
  <2>1. Present' = Present /\ tasks[r] # <<>> /\ tasks' = [tasks EXCEPT ![r] = Tail(tasks[r])]
    BY <1>12 DEF SkipMissing, Present, Idle, Done
  <2>2. snap' = [snap EXCEPT ![r] = NoRow] /\ UNCHANGED <<row, created, file, unlinking, batch, env>>
    BY <1>1, <1>12 DEF SkipMissing, TypeOK
  <2> QED
    BY <1>2, <1>11, <2>1, <2>2, TaskOnly
<1>13. ASSUME NEW r \in Requests, BeginProcessing(r) PROVE LedgerInv' /\ NewestOnly
  <2> DEFINE i == Head(tasks[r])
             a == [row[i] EXCEPT !.status = "processing"]
  <2>1. /\ i \in Present /\ tasks[r] # <<>> /\ row' = [row EXCEPT ![i] = a]
        /\ snap' = [snap EXCEPT ![r] = a] /\ tasks' = [tasks EXCEPT ![r] = tasks[r]]
        /\ UNCHANGED <<created, file, unlinking, batch, env>>
    BY <1>1, <1>13 DEF BeginProcessing, Idle, TypeOK
  <2>2. a \in Row /\ a.status = "processing"
    BY <1>1, <2>1 DEF Row, Status
  <2> HIDE DEF a, i
  <2>3. row' \in [Inv -> Row \cup {NoRow}] /\ Present' = Present
    BY <1>1, <2>1, <2>2, WrittenRow
  <2>4. tasks[r] \in Seq(Inv)
    BY <1>1 DEF TypeOK
  <2> QED
    BY <2>1, <2>2, <2>3, <2>4, TaskOnly
<1>14. ASSUME NEW r \in Requests, QueueBusy(r) PROVE LedgerInv' /\ NewestOnly
  <2> DEFINE i == Head(tasks[r])
             a == [row[i] EXCEPT !.status = "pending"]
  <2>1. /\ i \in Present /\ tasks[r] # <<>> /\ row' = [row EXCEPT ![i] = a]
        /\ snap' = [snap EXCEPT ![r] = NoRow] /\ tasks' = [tasks EXCEPT ![r] = Tail(tasks[r])]
        /\ UNCHANGED <<created, file, unlinking, batch, env>>
    BY <1>1, <1>14 DEF QueueBusy, Idle, TypeOK, Done
  <2>2. a \in Row
    BY <1>1, <2>1 DEF Row, Status
  <2> HIDE DEF a, i
  <2>3. row' \in [Inv -> Row \cup {NoRow}] /\ Present' = Present
    BY <1>1, <2>1, <2>2, WrittenRow
  <2> QED
    BY <1>11, <2>1, <2>3, TaskOnly
<1>15. ASSUME NEW r \in Requests, FinishProcessing(r) \/ FailProcessing(r)
       PROVE  LedgerInv' /\ NewestOnly
  <2> DEFINE i == Head(tasks[r])
  <2>1. snap[r] # NoRow /\ snap[r] \in Row /\ tasks[r] # <<>> /\ i \in Present
    BY <1>1, <1>15 DEF FinishProcessing, FailProcessing, TypeOK, QueueInv
  <2>2. PICK new \in Row : WriteBack(r, new)
    <3>1. CASE FailProcessing(r)
      <4>1. PICK v \in Failures(snap[r], Printed[i]) : WriteBack(r, v)
        BY <3>1 DEF FailProcessing
      <4>2. i \in Inv /\ Printed[i] \in Numbers
        BY <2>1 DEF Present, Numbers
      <4>3. v \in Row
        BY <2>1, <4>1, <4>2, FailureRows
      <4> QED
        BY <4>1, <4>3
    <3>2. CASE FinishProcessing(r)
      <4>1. PICK v \in Verdicts(snap[r], Printed[i]) : WriteBack(r, WithDuplicate(i, v))
        BY <3>2 DEF FinishProcessing
      <4>2. WithDuplicate(i, v) \in Row
        BY <1>1, <2>1, <4>1, VerdictRows, DuplicateRows
      <4> QED
        BY <4>1, <4>2
    <3> QED
      BY <1>15, <3>1, <3>2
  <2>3. /\ row' = [row EXCEPT ![i] = Flush(snap[r], new, row[i])]
        /\ snap' = [snap EXCEPT ![r] = NoRow] /\ tasks' = [tasks EXCEPT ![r] = Tail(tasks[r])]
        /\ UNCHANGED <<created, file, unlinking, batch, env>>
    BY <2>2 DEF WriteBack, Done
  <2>4. Flush(snap[r], new, row[i]) \in Row
    BY <1>1, <2>1, <2>2, FlushedRow
  <2>5. row' \in [Inv -> Row \cup {NoRow}] /\ Present' = Present
    BY <1>1, <2>1, <2>3, <2>4, WrittenRow
  <2> QED
    BY <1>11, <2>1, <2>3, <2>5, TaskOnly
<1>16. ASSUME NEW r \in Requests, AbortRequest(r) \/ DatabaseFails(r)
       PROVE  LedgerInv' /\ NewestOnly
  <2>1. /\ Present' = Present /\ snap' = [snap EXCEPT ![r] = NoRow]
        /\ tasks' = [tasks EXCEPT ![r] = <<>>] /\ UNCHANGED <<row, created, file, unlinking, batch, env>>
    BY <1>16 DEF AbortRequest, DatabaseFails, Present
  <2>2. <<>> \in Seq(Inv) /\ DOMAIN <<>> = {}
    OBVIOUS
  <2> QED
    BY <1>2, <2>1, <2>2, TaskOnly
<1>17. ASSUME Restart PROVE LedgerInv' /\ NewestOnly
  <2>1. /\ Present' = Present /\ tasks' = [r \in Requests |-> <<>>]
        /\ snap' = [r \in Requests |-> NoRow] /\ batch' = NoBatch /\ unlinking' = {}
        /\ UNCHANGED <<row, created, file, env>>
    BY <1>17 DEF Restart, Present
  <2>2. tasks' \in [Requests -> Seq(Inv)] /\ snap' \in [Requests -> Row \cup {NoRow}]
    BY <2>1
  <2>3. QueueInv'
    BY <1>1, <2>1 DEF QueueInv
  <2> QED
    BY <1>1, <1>2, <2>1, <2>2, <2>3 DEF LedgerInv, TypeOK, NewestOnly
<1>18. CASE UNCHANGED vars
  BY <1>1, <1>18 DEF vars, LedgerInv, TypeOK, QueueInv, NewestOnly, Present
<1> QED
  BY <1>3, <1>4, <1>5, <1>6, <1>7, <1>8, <1>9, <1>10, <1>12, <1>13, <1>14, <1>15, <1>16,
     <1>17, <1>18 DEF Next, Process, Batch

\* The layer holds at every step.
LEMMA LedgerInvariant == Spec => []LedgerInv
<1>1. LedgerInv /\ [Next]_vars => LedgerInv'
  BY LedgerInvStep
<1> QED
  BY InitLedgerInv, <1>1, PTL DEF Spec

\* Every table, queue and batch is well formed at every step.
THEOREM LedgerTypes == Spec => []TypeOK
<1>1. LedgerInv => TypeOK
  BY DEF LedgerInv
<1> QED
  BY <1>1, LedgerInvariant, PTL

\* A row that is gone is not written back by a task that read it before.
THEOREM NoResurrectionTheorem == Spec => NoResurrection
<1>1. ASSUME LedgerInv, [Next]_vars
      PROVE  [\A i \in 1..created : i \notin Present => row'[i] = NoRow]_vars
  <2> SUFFICES ASSUME NEW i \in 1..created, i \notin Present PROVE row'[i] = NoRow
    OBVIOUS
  <2>1. NewestOnly /\ i \in Inv /\ created \in Nat
    BY <1>1, LedgerInvStep, LedgerAssumption DEF LedgerInv, TypeOK, Inv
  <2> QED
    BY <2>1 DEF NewestOnly, Present
<1> QED
  BY <1>1, LedgerInvariant, PTL DEF Spec, NoResurrection

-----------------------------------------------------------------------------
(***************************************************************************)
(* The handlers, as the other layers see them.                              *)
(***************************************************************************)

\* The environment is chosen once.
LEMMA EnvironmentStays == [Next]_vars => env' = env
BY DEF Next, Upload, Reprocess, SaveInvoice, DeleteInvoice, Unlink, BatchStart, Batch,
       BatchNext, BatchEnd, BatchFails, Process, SkipMissing, BeginProcessing, QueueBusy,
       FinishProcessing, FailProcessing, WriteBack, AbortRequest, DatabaseFails, Restart,
       vars

\* A task that ends and finds its row writes a verdict or a failure over it.
LEMMA ConcludedTask ==
  ASSUME LedgerInv, NEW r \in Requests, FinishProcessing(r) \/ FailProcessing(r)
  PROVE  LET i == Head(tasks[r]) IN
         /\ snap[r] \in Row /\ tasks[r] # <<>> /\ i \in Present
         /\ Present' = Present /\ row'[i] \in Row /\ \A j \in Inv \ {i} : row'[j] = row[j]
         /\ tasks' = [tasks EXCEPT ![r] = Tail(tasks[r])] /\ snap' = [snap EXCEPT ![r] = NoRow]
         /\ \E new \in Row :
              /\ row'[i].status = new.status
              /\ row'[i].method = IF new.method # snap[r].method THEN new.method ELSE row[i].method
              /\ row'[i].num = IF new.num # snap[r].num THEN new.num ELSE row[i].num
              /\ row'[i].dup = IF new.dup # snap[r].dup THEN new.dup ELSE row[i].dup
              /\ \/ new.status = "failed" /\ new.dup \in {snap[r].dup, None}
                 \/ /\ new.status \in {"verified", "consistent", "review"} /\ new.dup = None
                    /\ new.status = "consistent" => new.method = "dual"
                 \/ new.status = "duplicate" /\ new.dup \in Twins(i, new.num)
<1> DEFINE i == Head(tasks[r])
<1>1. /\ TypeOK /\ snap[r] \in Row /\ tasks[r] # <<>> /\ i \in Present /\ i \in Inv
      /\ row[i] \in Row /\ Printed[i] \in Numbers /\ snap[r].status = "processing"
  BY PresentRow DEF FinishProcessing, FailProcessing, LedgerInv, TypeOK, QueueInv, Numbers
<1>2. PICK new \in Row :
        /\ WriteBack(r, new)
        /\ \/ new.status = "failed" /\ new.dup \in {snap[r].dup, None}
           \/ /\ new.status \in {"verified", "consistent", "review"} /\ new.dup = None
              /\ new.status = "consistent" => new.method = "dual"
           \/ new.status = "duplicate" /\ new.dup \in Twins(i, new.num)
  <2>1. CASE FailProcessing(r)
    <3>1. PICK v \in Failures(snap[r], Printed[i]) : WriteBack(r, v)
      BY <2>1 DEF FailProcessing
    <3>2. v \in Row /\ v.status = "failed" /\ v.dup \in {snap[r].dup, None}
      BY <1>1, <3>1, FailureRows
    <3> QED
      BY <3>1, <3>2
  <2>2. CASE FinishProcessing(r)
    <3>1. PICK v \in Verdicts(snap[r], Printed[i]) : WriteBack(r, WithDuplicate(i, v))
      BY <2>2 DEF FinishProcessing
    <3>2. /\ v \in Row /\ v.status \in {"verified", "consistent", "review"}
          /\ v.status = "consistent" => v.method = "dual"
      BY <1>1, <3>1, VerdictRows
    <3> DEFINE new == WithDuplicate(i, v)
    <3>3. /\ new \in Row /\ new.num = v.num /\ new.method = v.method
          /\ \/ new.dup = None /\ new.status = v.status
             \/ new.dup \in Twins(i, v.num) /\ new.status = "duplicate"
      BY <1>1, <3>2, DuplicateRows
    <3>4. WriteBack(r, new)
      BY <3>1
    <3> HIDE DEF new, i
    <3> QED
      BY <3>2, <3>3, <3>4
  <2> QED
    BY <2>1, <2>2
<1>3. /\ row' = [row EXCEPT ![i] = Flush(snap[r], new, row[i])]
      /\ snap' = [snap EXCEPT ![r] = NoRow] /\ tasks' = [tasks EXCEPT ![r] = Tail(tasks[r])]
  BY <1>2 DEF WriteBack, Done
<1>4. Flush(snap[r], new, row[i]) \in Row
  BY <1>1, <1>2, FlushedRow
<1>5. /\ Present' = Present /\ row'[i] = Flush(snap[r], new, row[i])
      /\ \A j \in Inv \ {i} : row'[j] = row[j]
  BY <1>1, <1>3, <1>4, WrittenRow
<1>6. /\ row'[i].method = IF new.method # snap[r].method THEN new.method ELSE row[i].method
      /\ row'[i].num = IF new.num # snap[r].num THEN new.num ELSE row[i].num
      /\ row'[i].dup = IF new.dup # snap[r].dup THEN new.dup ELSE row[i].dup
      /\ row'[i].status = new.status
  BY <1>1, <1>2, <1>5, FlushedRow
<1> HIDE DEF i
<1>7. \E n \in Row :
              /\ row'[i].status = n.status
              /\ row'[i].method = IF n.method # snap[r].method THEN n.method ELSE row[i].method
              /\ row'[i].num = IF n.num # snap[r].num THEN n.num ELSE row[i].num
              /\ row'[i].dup = IF n.dup # snap[r].dup THEN n.dup ELSE row[i].dup
              /\ \/ n.status = "failed" /\ n.dup \in {snap[r].dup, None}
                 \/ /\ n.status \in {"verified", "consistent", "review"} /\ n.dup = None
                    /\ n.status = "consistent" => n.method = "dual"
                 \/ n.status = "duplicate" /\ n.dup \in Twins(i, n.num)
  BY <1>2, <1>6
<1> QED
  BY <1>1, <1>3, <1>4, <1>5, <1>7, Zenon DEF i

\* A deletion takes one row, or releases rows; the others stay as they are.
LEMMA Deletion ==
  ASSUME LedgerInv,
         \/ \E i \in Inv : DeleteInvoice(i)
         \/ \E S \in SUBSET Present : \E s \in Orders(S) : BatchStart(s)
         \/ BatchNext \/ BatchEnd
  PROVE  /\ Present' \subseteq Present /\ UNCHANGED <<tasks, snap, created>>
         /\ \A c \in Present' : row'[c] = row[c] \/ row'[c] = Released(row[c])
         /\ \A c, d \in Inv : /\ c \in Present' /\ row[c].dup = d
                              /\ d \in Present /\ d \notin Present'
                              => row'[c] = Released(row[c])
         /\ \A c \in Present' : row'[c] # row[c] => "batch" \in env.ops \/ row[c].dup \notin Present'
<1>1. TypeOK /\ \A c \in Present : c \in Inv
  BY DEF LedgerInv, Present
<1>2. ASSUME NEW i \in Inv, DeleteInvoice(i)
      PROVE  /\ Present' = Present \ {i} /\ UNCHANGED <<tasks, snap, created>>
             /\ \A c \in Present' : row'[c] = IF c \in Children({i}) THEN Released(row[c]) ELSE row[c]
  <2> DEFINE D == {i}
  <2>1. /\ row' = [c \in Inv |-> IF c \in D THEN NoRow
                              ELSE IF c \in Children({i}) THEN Released(row[c]) ELSE row[c]]
        /\ UNCHANGED <<tasks, snap, created>> /\ Children({i}) \subseteq Present
    BY <1>2 DEF DeleteInvoice, Children
  <2> HIDE DEF D
  <2>2. /\ Present' = Present \ D
        /\ \A c \in Present \ D : row'[c] = IF c \in Children({i}) THEN Released(row[c]) ELSE row[c]
    BY <1>1, <2>1, RemovedRows
  <2> QED
    BY <2>1, <2>2 DEF D
<1>3. ASSUME NEW S \in SUBSET Present, NEW s \in Orders(S), BatchStart(s)
      PROVE  /\ Present' = Present /\ UNCHANGED <<tasks, snap, created>> /\ "batch" \in env.ops
             /\ \A c \in Present' : row'[c] = row[c] \/ row'[c] = Released(row[c])
  <2> DEFINE D == {}
             selected == {s[n] : n \in DOMAIN s}
             R == Children(selected) \ selected
  <2>1. /\ row' = [c \in Inv |-> IF c \in D THEN NoRow
                              ELSE IF c \in R THEN Released(row[c]) ELSE row[c]]
        /\ UNCHANGED <<tasks, snap, created>> /\ R \subseteq Present /\ "batch" \in env.ops
    BY <1>3 DEF BatchStart, Children, Occurs
  <2> HIDE DEF D, R
  <2>2. /\ Present' = Present \ D
        /\ \A c \in Present \ D : row'[c] = IF c \in R THEN Released(row[c]) ELSE row[c]
    BY <1>1, <2>1, RemovedRows
  <2> QED
    BY <2>1, <2>2 DEF D
<1>4. ASSUME BatchNext \/ BatchEnd
      PROVE  /\ Present' = Present \ {batch.marked} /\ UNCHANGED <<tasks, snap, created>>
             /\ \A c \in Present' : row'[c] = row[c] /\ row[c].dup # batch.marked
  <2>1. /\ row' = [row EXCEPT ![batch.marked] = NoRow] /\ ~Referenced(batch.marked)
        /\ UNCHANGED <<tasks, snap, created>>
    BY <1>4 DEF BatchNext, BatchEnd
  <2>2. \A c \in Inv : row'[c] = IF c = batch.marked THEN NoRow ELSE row[c]
    BY <1>1, <2>1 DEF TypeOK
  <2> QED
    BY <2>1, <2>2 DEF Present, Referenced
<1> QED
  BY <1>1, <1>2, <1>3, <1>4 DEF Children

\* A handler or a task that begins or gives up writes one stored row, and not
\* what the verification found.
LEMMA TouchedRow ==
  ASSUME LedgerInv, NEW i \in Inv,
         \/ \E r \in Requests : Reprocess(r, i)
         \/ \E n \in Numbers \cup {NoNumber} : SaveInvoice(i, n)
         \/ \E r \in Requests : (BeginProcessing(r) \/ QueueBusy(r)) /\ Head(tasks[r]) = i
  PROVE  /\ i \in Present /\ Present' = Present /\ created' = created
         /\ row'[i] \in Row /\ \A j \in Inv \ {i} : row'[j] = row[j]
         /\ row'[i].dup = row[i].dup /\ row'[i].method = row[i].method
         /\ row'[i].status \in {"pending", "reviewed", "processing"}
         /\ row'[i].num # row[i].num => "save" \in env.ops
         /\ row'[i].status = "processing" =>
               \E r \in Requests : BeginProcessing(r) /\ Head(tasks[r]) = i
<1>1. TypeOK /\ i \in Present /\ row[i] \in Row /\ created' = created
  BY PresentRow DEF Reprocess, SaveInvoice, BeginProcessing, QueueBusy, LedgerInv
<1>2. CASE \E n \in Numbers \cup {NoNumber} : SaveInvoice(i, n)
  <2>1. PICK n \in Numbers \cup {NoNumber} : SaveInvoice(i, n)
    BY <1>2
  <2> DEFINE a == [row[i] EXCEPT !.num = n, !.status = "reviewed", !.vat = TRUE]
  <2>2. row' = [row EXCEPT ![i] = a] /\ "save" \in env.ops
    BY <1>1, <2>1 DEF SaveInvoice, Occurs, TypeOK
  <2>3. a \in Row /\ a.dup = row[i].dup /\ a.method = row[i].method /\ a.status = "reviewed"
    BY <1>1, <2>1 DEF Row, Status
  <2> HIDE DEF a
  <2> QED
    BY <1>1, <2>2, <2>3, WrittenRow
<1>3. ASSUME NEW status \in {"pending", "processing"},
             row' = [row EXCEPT ![i] = [row[i] EXCEPT !.status = status]]
      PROVE  /\ Present' = Present
             /\ row'[i] \in Row /\ \A j \in Inv \ {i} : row'[j] = row[j]
             /\ row'[i].dup = row[i].dup /\ row'[i].method = row[i].method
             /\ row'[i].status = status /\ row'[i].num = row[i].num
  <2> DEFINE a == [row[i] EXCEPT !.status = status]
  <2>1. /\ a \in Row /\ a.dup = row[i].dup /\ a.method = row[i].method
        /\ a.status = status /\ a.num = row[i].num
    BY <1>1 DEF Row, Status
  <2>2. row' = [row EXCEPT ![i] = a]
    BY <1>3
  <2> HIDE DEF a
  <2> QED
    BY <1>1, <2>1, <2>2, WrittenRow
<1>4. CASE \E r \in Requests : Reprocess(r, i)
  <2>1. row' = [row EXCEPT ![i] = [row[i] EXCEPT !.status = "pending"]]
    BY <1>1, <1>4 DEF Reprocess, TypeOK
  <2> QED
    BY <1>1, <1>3, <2>1
<1>5. CASE \E r \in Requests : QueueBusy(r) /\ Head(tasks[r]) = i
  <2>1. row' = [row EXCEPT ![i] = [row[i] EXCEPT !.status = "pending"]]
    BY <1>1, <1>5 DEF QueueBusy, TypeOK
  <2> QED
    BY <1>1, <1>3, <2>1
<1>6. CASE \E r \in Requests : BeginProcessing(r) /\ Head(tasks[r]) = i
  <2>1. row' = [row EXCEPT ![i] = [row[i] EXCEPT !.status = "processing"]]
    BY <1>1, <1>6 DEF BeginProcessing
  <2> QED
    BY <1>1, <1>3, <1>6, <2>1
<1> QED
  BY <1>2, <1>4, <1>5, <1>6

\* An upload adds rows and leaves the others.
LEMMA UploadedRows ==
  ASSUME LedgerInv, NEW r \in Requests, NEW k \in 1..N, Upload(r, k)
  PROVE  /\ \A c \in Present : c \in Present' /\ row'[c] = row[c]
         /\ \A c \in Present' \ Present : row'[c] = NewRow
         /\ \A n \in DOMAIN tasks'[r] : n \in Nat /\ tasks'[r][n] = created + n /\ created < tasks'[r][n]
         /\ tasks[r] = <<>> /\ snap[r] = NoRow /\ \A q \in Requests \ {r} : tasks'[q] = tasks[q]
<1>1. /\ TypeOK /\ created \in Nat /\ N \in Nat
      /\ \A c \in Present : c \in Inv /\ row[c] \in Row /\ c \in Nat /\ c <= created
  BY LedgerAssumption, PresentRow DEF LedgerInv, TypeOK, Inv, QueueInv
<1> DEFINE new == created + 1 .. created + k
           s == [n \in 1..k |-> created + n]
<1>2. /\ row' = [i \in Inv |-> IF i \in new THEN NewRow ELSE row[i]]
      /\ tasks' = [tasks EXCEPT ![r] = s] /\ tasks[r] = <<>>
  BY DEF Upload, CanSubmit, Idle
<1>3. /\ \A i \in new : created < i
      /\ \A n \in DOMAIN s : n \in Nat /\ s[n] = created + n /\ created < s[n]
  BY <1>1
<1> HIDE DEF new, s
<1>4. tasks'[r] = s /\ \A q \in Requests \ {r} : tasks'[q] = tasks[q]
  BY <1>1, <1>2 DEF TypeOK
<1>5. \A c \in Present : row'[c] = row[c] /\ row[c] # NoRow
  BY <1>1, <1>2, <1>3 DEF Present
<1>6. \A c \in Present' \ Present : row'[c] = NewRow
  BY <1>2 DEF Present
<1>7. snap[r] = NoRow
  BY <1>2 DEF LedgerInv, QueueInv
<1> QED
  BY <1>1, <1>2, <1>3, <1>4, <1>5, <1>6, <1>7 DEF Present

\* Every step is of one of these kinds.
LEMMA StepKinds ==
  ASSUME LedgerInv, [Next]_vars
  PROVE  \/ \E r \in Requests, k \in 1..N : Upload(r, k)
         \/ \E i \in Inv : \/ \E r \in Requests : Reprocess(r, i)
                           \/ \E n \in Numbers \cup {NoNumber} : SaveInvoice(i, n)
                           \/ \E r \in Requests : /\ BeginProcessing(r) \/ QueueBusy(r)
                                                  /\ Head(tasks[r]) = i
         \/ \/ \E i \in Inv : DeleteInvoice(i)
            \/ \E S \in SUBSET Present : \E s \in Orders(S) : BatchStart(s)
            \/ BatchNext \/ BatchEnd
         \/ \E r \in Requests : FinishProcessing(r) \/ FailProcessing(r)
         \/ row' = row /\ Present' = Present
<1>1. ASSUME NEW r \in Requests, BeginProcessing(r) \/ QueueBusy(r)
      PROVE  \E i \in Inv : Head(tasks[r]) = i
  BY <1>1 DEF BeginProcessing, QueueBusy, Present
<1>2. ASSUME \/ \E i \in Inv : Unlink(i)
             \/ BatchFails \/ Restart \/ UNCHANGED vars
             \/ \E r \in Requests : SkipMissing(r) \/ AbortRequest(r) \/ DatabaseFails(r)
      PROVE  row' = row /\ Present' = Present
  BY <1>2 DEF Unlink, BatchFails, Restart, vars, SkipMissing, AbortRequest, DatabaseFails,
              Present
<1> QED
  BY <1>1, <1>2 DEF Next, Process, Batch

\* A row that a step adds is an uploaded one.
LEMMA RowsThatAppear ==
  ASSUME LedgerInv, [Next]_vars, NEW i \in Present', i \notin Present
  PROVE  row'[i] = NewRow
<1>1. \A r \in Requests, k \in 1..N : Upload(r, k) => row'[i] = NewRow
  BY UploadedRows, Zenon
<1>2. ASSUME NEW j \in Inv,
             \/ \E r \in Requests : Reprocess(r, j)
             \/ \E n \in Numbers \cup {NoNumber} : SaveInvoice(j, n)
             \/ \E r \in Requests : (BeginProcessing(r) \/ QueueBusy(r)) /\ Head(tasks[r]) = j
      PROVE  FALSE
  BY <1>2, TouchedRow, Zenon
<1>3. ASSUME \/ \E j \in Inv : DeleteInvoice(j)
             \/ \E S \in SUBSET Present : \E s \in Orders(S) : BatchStart(s)
             \/ BatchNext \/ BatchEnd
      PROVE  FALSE
  BY <1>3, Deletion
<1>4. \A r \in Requests : ~FinishProcessing(r) /\ ~FailProcessing(r)
  BY ConcludedTask
<1> QED
  BY <1>1, <1>2, <1>3, <1>4, StepKinds, Zenon

-----------------------------------------------------------------------------
(***************************************************************************)
(* Duplicates.                                                             *)
(***************************************************************************)

\* duplicate_of names another stored row of the owner.
HasOriginal ==
    \A i \in Present : row[i].dup # None =>
        row[i].dup \in Present \ {i} /\ Owner[row[i].dup] = Owner[i]

\* Whatever is written, released or deleted, the relation points to stored rows.
LEMMA HasOriginalStep ==
  ASSUME LedgerInv, HasOriginal, [Next]_vars
  PROVE  HasOriginal'
<1>1. /\ TypeOK /\ \A i \in Present : i \in Inv /\ row[i] \in Row
      /\ None \notin Inv
  BY LedgerAssumption, PresentRow DEF LedgerInv, None, Inv
<1>2. ASSUME NEW r \in Requests, NEW k \in 1..N, Upload(r, k) PROVE HasOriginal'
  <2>1. /\ \A c \in Present : c \in Present' /\ row'[c] = row[c]
        /\ \A c \in Present' \ Present : row'[c].dup = None
    <3>1. /\ \A c \in Present : c \in Present' /\ row'[c] = row[c]
          /\ \A c \in Present' \ Present : row'[c] = NewRow
      BY <1>2, UploadedRows, Zenon
    <3>2. NewRow.dup = None
      BY DEF NewRow
    <3> QED
      BY <3>1, <3>2
  <2> SUFFICES ASSUME NEW c \in Present', row'[c].dup # None
               PROVE  row'[c].dup \in Present' \ {c} /\ Owner[row'[c].dup] = Owner[c]
    BY DEF HasOriginal
  <2>2. c \in Present /\ row'[c] = row[c]
    BY <2>1
  <2> QED
    BY <2>1, <2>2 DEF HasOriginal
<1>3. ASSUME NEW i \in Inv,
             \/ \E r \in Requests : Reprocess(r, i)
             \/ \E n \in Numbers \cup {NoNumber} : SaveInvoice(i, n)
             \/ \E r \in Requests : (BeginProcessing(r) \/ QueueBusy(r)) /\ Head(tasks[r]) = i
      PROVE  HasOriginal'
  <2>1. Present' = Present /\ \A c \in Present : row'[c].dup = row[c].dup
    BY <1>1, <1>3, TouchedRow
  <2> QED
    BY <2>1 DEF HasOriginal
<1>4. ASSUME \/ \E i \in Inv : DeleteInvoice(i)
             \/ \E S \in SUBSET Present : \E s \in Orders(S) : BatchStart(s)
             \/ BatchNext \/ BatchEnd
      PROVE  HasOriginal'
  <2> SUFFICES ASSUME NEW c \in Present', row'[c].dup # None
               PROVE  row'[c].dup \in Present' \ {c} /\ Owner[row'[c].dup] = Owner[c]
    BY DEF HasOriginal
  <2>1. c \in Present /\ c \in Inv /\ row[c] \in Row /\ (row'[c] = row[c] \/ row'[c] = Released(row[c]))
    BY <1>1, <1>4, Deletion
  <2>2. row'[c] = row[c]
    BY <2>1, ReleasedRow
  <2>3. row[c].dup \in Present /\ row[c].dup \in Inv /\ row[c].dup # c /\ Owner[row[c].dup] = Owner[c]
    BY <1>1, <2>1, <2>2 DEF HasOriginal
  <2>4. row[c].dup \in Present'
    <3> SUFFICES ASSUME row[c].dup \notin Present' PROVE FALSE
      OBVIOUS
    <3>1. row'[c] = Released(row[c])
      BY <1>4, <2>1, <2>3, Deletion
    <3> QED
      BY <2>1, <3>1, ReleasedRow
  <2> QED
    BY <2>2, <2>3, <2>4
<1>5. ASSUME NEW r \in Requests, FinishProcessing(r) \/ FailProcessing(r) PROVE HasOriginal'
  <2> DEFINE i == Head(tasks[r])
  <2>1. /\ i \in Present /\ Present' = Present /\ \A j \in Inv \ {i} : row'[j] = row[j]
        /\ row'[i].dup \in {row[i].dup, None} \/ \E n : row'[i].dup \in Twins(i, n)
    BY <1>5, ConcludedTask
  <2>2. \A n : \A j \in Twins(i, n) : j \in Present \ {i} /\ Owner[j] = Owner[i]
    BY DEF Twins
  <2> HIDE DEF i
  <2> QED
    BY <1>1, <2>1, <2>2 DEF HasOriginal
<1>6. ASSUME row' = row, Present' = Present PROVE HasOriginal'
  BY <1>6 DEF HasOriginal
<1> QED
  BY <1>2, <1>3, <1>4, <1>5, <1>6, StepKinds

-----------------------------------------------------------------------------
(***************************************************************************)
(* Who works on which row.                                                  *)
(***************************************************************************)

\* What a step may do to the queues.
LEMMA QueueKinds ==
  ASSUME LedgerInv, [Next]_vars
  PROVE  \/ \E r \in Requests, k \in 1..N : Upload(r, k)
         \/ \E r \in Requests, i \in Inv : Reprocess(r, i)
         \/ \E r \in Requests : tasks[r] # <<>> /\ tasks' = [tasks EXCEPT ![r] = Tail(tasks[r])]
         \/ \E r \in Requests : tasks' = [tasks EXCEPT ![r] = <<>>]
         \/ tasks' = [r \in Requests |-> <<>>]
         \/ tasks' = tasks
<1>1. ASSUME NEW r \in Requests,
             SkipMissing(r) \/ QueueBusy(r) \/ FinishProcessing(r) \/ FailProcessing(r)
      PROVE  tasks[r] # <<>> /\ tasks' = [tasks EXCEPT ![r] = Tail(tasks[r])]
  <2>1. CASE FinishProcessing(r) \/ FailProcessing(r)
    BY <2>1, ConcludedTask
  <2>2. CASE SkipMissing(r) \/ QueueBusy(r)
    BY <2>2 DEF SkipMissing, QueueBusy, Done, Idle
  <2> QED
    BY <1>1, <2>1, <2>2
<1>2. ASSUME NEW r \in Requests, AbortRequest(r) \/ DatabaseFails(r)
      PROVE  tasks' = [tasks EXCEPT ![r] = <<>>]
  BY <1>2 DEF AbortRequest, DatabaseFails
<1>3. Restart => tasks' = [r \in Requests |-> <<>>]
  BY DEF Restart
<1>4. ASSUME \/ \E i \in Inv, n \in Numbers \cup {NoNumber} : SaveInvoice(i, n)
             \/ \E i \in Inv : DeleteInvoice(i) \/ Unlink(i)
             \/ \E S \in SUBSET Present : \E s \in Orders(S) : BatchStart(s)
             \/ BatchNext \/ BatchEnd \/ BatchFails \/ UNCHANGED vars
             \/ \E r \in Requests : BeginProcessing(r)
      PROVE  tasks' = tasks
  BY <1>4 DEF SaveInvoice, DeleteInvoice, Unlink, BatchStart, BatchNext, BatchEnd, BatchFails,
              vars, BeginProcessing
<1> QED
  BY <1>1, <1>2, <1>3, <1>4 DEF Next, Process, Batch

\* A task that runs after a step ran before it, or the step has begun it.
LEMMA WorkerKinds ==
  ASSUME LedgerInv, [Next]_vars, NEW r \in Requests, snap'[r] # NoRow
  PROVE  \/ snap'[r] = snap[r] /\ tasks'[r] = tasks[r]
         \/ /\ BeginProcessing(r) /\ snap[r] = NoRow /\ tasks'[r] = tasks[r]
            /\ Head(tasks[r]) \in Present /\ snap'[r] = row'[Head(tasks[r])]
<1>1. TypeOK /\ (snap[r] # NoRow => tasks[r] # <<>>)
  BY DEF LedgerInv, QueueInv
<1>2. ASSUME NEW q \in Requests, BeginProcessing(q)
      PROVE  \/ snap'[r] = snap[r] /\ tasks'[r] = tasks[r]
             \/ /\ q = r /\ snap[r] = NoRow /\ tasks'[r] = tasks[r]
                /\ Head(tasks[r]) \in Present /\ snap'[r] = row'[Head(tasks[r])]
  BY <1>1, <1>2 DEF BeginProcessing, TypeOK, Present
<1>3. ASSUME NEW q \in Requests, tasks' = [tasks EXCEPT ![q] = Tail(tasks[q])] \/
                                 tasks' = [tasks EXCEPT ![q] = <<>>],
             snap' = [snap EXCEPT ![q] = NoRow] \/ (snap' = snap /\ snap[q] = NoRow)
      PROVE  snap'[r] = snap[r] /\ tasks'[r] = tasks[r]
  BY <1>1, <1>3 DEF TypeOK
<1>4. ASSUME NEW q \in Requests,
             SkipMissing(q) \/ QueueBusy(q) \/ AbortRequest(q) \/ DatabaseFails(q)
      PROVE  snap'[r] = snap[r] /\ tasks'[r] = tasks[r]
  <2>1. /\ tasks' = [tasks EXCEPT ![q] = Tail(tasks[q])] \/ tasks' = [tasks EXCEPT ![q] = <<>>]
        /\ snap' = [snap EXCEPT ![q] = NoRow] \/ (snap' = snap /\ snap[q] = NoRow)
    BY <1>4 DEF SkipMissing, QueueBusy, AbortRequest, DatabaseFails, Done
  <2> QED
    BY <1>3, <2>1
<1>5. ASSUME NEW q \in Requests, FinishProcessing(q) \/ FailProcessing(q)
      PROVE  snap'[r] = snap[r] /\ tasks'[r] = tasks[r]
  BY <1>3, <1>5, ConcludedTask
<1>6. ASSUME NEW q \in Requests, \/ \E k \in 1..N : Upload(q, k)
                                 \/ \E i \in Inv : Reprocess(q, i)
      PROVE  snap'[r] = snap[r] /\ tasks'[r] = tasks[r]
  <2>1. snap' = snap /\ tasks[q] = <<>> /\ \E s : tasks' = [tasks EXCEPT ![q] = s]
    BY <1>6 DEF Upload, Reprocess, CanSubmit, Idle
  <2> QED
    BY <1>1, <2>1 DEF TypeOK
<1>7. ~Restart
  BY DEF Restart
<1>8. ASSUME \/ \E i \in Inv, n \in Numbers \cup {NoNumber} : SaveInvoice(i, n)
             \/ \E i \in Inv : DeleteInvoice(i) \/ Unlink(i)
             \/ \E S \in SUBSET Present : \E s \in Orders(S) : BatchStart(s)
             \/ BatchNext \/ BatchEnd \/ BatchFails \/ UNCHANGED vars
      PROVE  snap' = snap /\ tasks' = tasks
  BY <1>8 DEF SaveInvoice, DeleteInvoice, Unlink, BatchStart, BatchNext, BatchEnd, BatchFails,
              vars
<1> QED
  BY <1>2, <1>4, <1>5, <1>6, <1>7, <1>8 DEF Next, Process, Batch

\* Requests that do not overlap leave one response with tasks.
OneRequest ==
    Without({"parallel"}) =>
        \A q, r \in Requests : tasks[q] # <<>> /\ tasks[r] # <<>> => q = r

\* A row has one task, unless requests overlap and ask for it again.
OneTask ==
    ~({"parallel", "reprocess"} \subseteq env.ops) =>
        \A q, r \in Requests : \A m \in DOMAIN tasks[q], n \in DOMAIN tasks[r] :
            tasks[q][m] = tasks[r][n] => q = r /\ m = n

\* A response is submitted when no other is pending.
LEMMA OneRequestStep ==
  ASSUME LedgerInv, OneRequest, [Next]_vars
  PROVE  OneRequest'
<1> SUFFICES ASSUME Without({"parallel"}), NEW q \in Requests, NEW r \in Requests,
                    tasks'[q] # <<>>, tasks'[r] # <<>>
             PROVE  q = r
  <2>1. Without({"parallel"})' <=> Without({"parallel"})
    BY EnvironmentStays DEF Without
  <2> QED
    BY <2>1 DEF OneRequest
<1>1. TypeOK /\ ~Occurs("parallel") /\ \A p, s \in Requests : tasks[p] # <<>> /\ tasks[s] # <<>> => p = s
  BY DEF LedgerInv, Without, Occurs, OneRequest
<1>2. ASSUME NEW p \in Requests, \/ \E k \in 1..N : Upload(p, k)
                                 \/ \E i \in Inv : Reprocess(p, i)
      PROVE  q = r
  <2>1. (\A s \in Requests : tasks[s] = <<>>) /\ \E s : tasks' = [tasks EXCEPT ![p] = s]
    BY <1>1, <1>2 DEF Upload, Reprocess, CanSubmit, Idle
  <2> QED
    BY <1>1, <2>1 DEF TypeOK
<1>3. ASSUME NEW p \in Requests,
             \/ tasks[p] # <<>> /\ tasks' = [tasks EXCEPT ![p] = Tail(tasks[p])]
             \/ tasks' = [tasks EXCEPT ![p] = <<>>]
      PROVE  q = r
  BY <1>1, <1>3 DEF TypeOK
<1>4. tasks' = [s \in Requests |-> <<>>] => q = r
  OBVIOUS
<1>5. tasks' = tasks => q = r
  BY <1>1
<1> QED
  BY <1>2, <1>3, <1>4, <1>5, QueueKinds

\* New tasks are for new rows, or for a row without a task.
LEMMA OneTaskStep ==
  ASSUME LedgerInv, OneTask, [Next]_vars
  PROVE  OneTask'
<1> SUFFICES ASSUME ~({"parallel", "reprocess"} \subseteq env.ops),
                    NEW q \in Requests, NEW r \in Requests,
                    NEW m \in DOMAIN tasks'[q], NEW n \in DOMAIN tasks'[r],
                    tasks'[q][m] = tasks'[r][n]
             PROVE  q = r /\ m = n
  BY EnvironmentStays DEF OneTask
<1>1. /\ TypeOK /\ created \in Nat
      /\ \A p, s \in Requests : \A j \in DOMAIN tasks[p], k \in DOMAIN tasks[s] :
            tasks[p][j] = tasks[s][k] => p = s /\ j = k
      /\ \A p \in Requests : \A j \in DOMAIN tasks[p] : tasks[p][j] \in Nat /\ tasks[p][j] <= created
  <2>1. TypeOK /\ created \in Nat /\ Inv \subseteq Nat
    BY LedgerAssumption DEF LedgerInv, TypeOK, Inv
  <2>2. \A p \in Requests : \A j \in DOMAIN tasks[p] : tasks[p][j] \in Nat
    <3> SUFFICES ASSUME NEW p \in Requests, NEW j \in DOMAIN tasks[p] PROVE tasks[p][j] \in Inv
      BY <2>1
    <3> QED
      BY <2>1 DEF TypeOK
  <2> QED
    BY <2>1, <2>2 DEF LedgerInv, QueueInv, OneTask
<1>2. ASSUME NEW p \in Requests, NEW k \in 1..N, Upload(p, k) PROVE q = r /\ m = n
  <2>1. /\ \A j \in DOMAIN tasks'[p] : j \in Nat /\ tasks'[p][j] = created + j /\ created < tasks'[p][j]
        /\ \A s \in Requests \ {p} : tasks'[s] = tasks[s]
    BY <1>2, UploadedRows
  <2>2. CASE q = p /\ r = p
    <3>1. m \in Nat /\ n \in Nat /\ created + m = created + n
      BY <2>1, <2>2
    <3> QED
      BY <1>1, <2>2, <3>1
  <2>3. CASE q # p /\ r # p
    BY <1>1, <2>1, <2>3
  <2>4. CASE q = p /\ r # p
    <3>1. tasks'[q][m] = created + m /\ m \in Nat /\ created < created + m
      BY <2>1, <2>4
    <3>2. tasks'[r][n] \in Nat /\ tasks'[r][n] <= created
      BY <1>1, <2>1, <2>4
    <3> QED
      BY <1>1, <3>1, <3>2
  <2>5. CASE q # p /\ r = p
    <3>1. tasks'[r][n] = created + n /\ n \in Nat /\ created < created + n
      BY <2>1, <2>5
    <3>2. tasks'[q][m] \in Nat /\ tasks'[q][m] <= created
      BY <1>1, <2>1, <2>5
    <3> QED
      BY <1>1, <3>1, <3>2
  <2> QED
    BY <2>2, <2>3, <2>4, <2>5
<1>3. ASSUME NEW p \in Requests, NEW i \in Inv, Reprocess(p, i) PROVE q = r /\ m = n
  <2>1. (\A s \in Requests : tasks[s] = <<>>) /\ tasks' = [tasks EXCEPT ![p] = <<i>>]
    BY <1>3 DEF Reprocess, CanSubmit, Occurs, Idle
  <2>2. \A s \in Requests : tasks'[s] = IF s = p THEN <<i>> ELSE <<>>
    BY <1>1, <2>1 DEF TypeOK
  <2> QED
    BY <2>2
<1>4. ASSUME NEW p \in Requests, tasks[p] # <<>>, tasks' = [tasks EXCEPT ![p] = Tail(tasks[p])]
      PROVE  q = r /\ m = n
  <2>1. /\ \A s \in Requests : tasks'[s] = IF s = p THEN Tail(tasks[p]) ELSE tasks[s]
        /\ \A j \in DOMAIN Tail(tasks[p]) : /\ j \in Nat /\ j + 1 \in DOMAIN tasks[p]
                                            /\ Tail(tasks[p])[j] = tasks[p][j + 1]
    BY <1>1, <1>4, QueueHead DEF TypeOK
  <2> DEFINE at(s, j) == IF s = p THEN j + 1 ELSE j
  <2>2. at(q, m) \in DOMAIN tasks[q] /\ tasks'[q][m] = tasks[q][at(q, m)] /\ (q = p => m \in Nat)
    BY <2>1
  <2>3. at(r, n) \in DOMAIN tasks[r] /\ tasks'[r][n] = tasks[r][at(r, n)] /\ (r = p => n \in Nat)
    BY <2>1
  <2>4. q = r /\ at(q, m) = at(r, n)
    <3>1. tasks[q][at(q, m)] = tasks[r][at(r, n)]
      BY <2>2, <2>3
    <3> HIDE DEF at
    <3> QED
      BY <1>1, <2>2, <2>3, <3>1
  <2> QED
    BY <2>2, <2>3, <2>4
<1>5. ASSUME NEW p \in Requests, tasks' = [tasks EXCEPT ![p] = <<>>] PROVE q = r /\ m = n
  <2>1. \A s \in Requests : tasks'[s] = IF s = p THEN <<>> ELSE tasks[s]
    BY <1>1, <1>5 DEF TypeOK
  <2> QED
    BY <1>1, <2>1
<1>6. tasks' = [s \in Requests |-> <<>>] => q = r /\ m = n
  OBVIOUS
<1>7. tasks' = tasks => q = r /\ m = n
  BY <1>1
<1> QED
  BY <1>2, <1>3, <1>4, <1>5, <1>6, <1>7, QueueKinds

\* A task that runs goes on until it writes its row, finds it gone, or the
\* database or the process fails.
LEMMA WorkerStays ==
  ASSUME LedgerInv, [Next]_vars, NEW r \in Requests, snap[r] # NoRow,
         "restart" \notin env.ops, "fault" \notin env.ops
  PROVE  \/ snap'[r] = snap[r] /\ tasks'[r] = tasks[r]
         \/ FinishProcessing(r) \/ FailProcessing(r)
         \/ AbortRequest(r) /\ Head(tasks[r]) \notin Present
<1>1. TypeOK /\ tasks[r] # <<>>
  BY DEF LedgerInv, QueueInv
<1>2. ASSUME NEW q \in Requests, q # r \/ snap[q] = NoRow,
             \/ SkipMissing(q) \/ QueueBusy(q) \/ AbortRequest(q)
             \/ FinishProcessing(q) \/ FailProcessing(q)
      PROVE  snap'[r] = snap[r] /\ tasks'[r] = tasks[r]
  <2>1. /\ q # r
        /\ \E s : tasks' = [tasks EXCEPT ![q] = s]
        /\ \E x : snap' = [snap EXCEPT ![q] = x]
    <3>1. CASE SkipMissing(q) \/ QueueBusy(q) \/ AbortRequest(q)
      <4>1. snap' = snap => snap' = [snap EXCEPT ![q] = snap[q]]
        BY <1>1 DEF TypeOK
      <4> QED
        BY <1>2, <3>1, <4>1 DEF SkipMissing, QueueBusy, AbortRequest, Done
    <3>2. CASE FinishProcessing(q) \/ FailProcessing(q)
      <4>1. q # r
        BY <1>2, <3>2 DEF FinishProcessing, FailProcessing
      <4>2. /\ tasks' = [tasks EXCEPT ![q] = Tail(tasks[q])]
            /\ snap' = [snap EXCEPT ![q] = NoRow]
        BY <3>2, ConcludedTask
      <4> QED
        BY <4>1, <4>2
    <3> QED
      BY <1>2, <3>1, <3>2
  <2> QED
    BY <1>1, <2>1 DEF TypeOK
<1>3. ~SkipMissing(r) /\ ~QueueBusy(r)
  BY DEF SkipMissing, QueueBusy
<1>4. ASSUME NEW q \in Requests, BeginProcessing(q)
      PROVE  snap'[r] = snap[r] /\ tasks'[r] = tasks[r]
  BY <1>1, <1>4 DEF BeginProcessing, TypeOK
<1>5. ASSUME NEW q \in Requests, \/ \E k \in 1..N : Upload(q, k)
                                 \/ \E i \in Inv : Reprocess(q, i)
      PROVE  snap'[r] = snap[r] /\ tasks'[r] = tasks[r]
  <2>1. snap' = snap /\ tasks[q] = <<>> /\ \E s : tasks' = [tasks EXCEPT ![q] = s]
    BY <1>5 DEF Upload, Reprocess, CanSubmit, Idle
  <2> QED
    BY <1>1, <2>1 DEF TypeOK
<1>6. ~Restart /\ \A q \in Requests : ~DatabaseFails(q)
  BY DEF Restart, DatabaseFails, Occurs
<1>7. ASSUME \/ \E i \in Inv, n \in Numbers \cup {NoNumber} : SaveInvoice(i, n)
             \/ \E i \in Inv : DeleteInvoice(i) \/ Unlink(i)
             \/ \E S \in SUBSET Present : \E s \in Orders(S) : BatchStart(s)
             \/ BatchNext \/ BatchEnd \/ BatchFails \/ UNCHANGED vars
      PROVE  snap' = snap /\ tasks' = tasks
  BY <1>7 DEF SaveInvoice, DeleteInvoice, Unlink, BatchStart, BatchNext, BatchEnd, BatchFails,
              vars
<1>8. AbortRequest(r) => Head(tasks[r]) \notin Present
  BY DEF AbortRequest
<1> QED
  BY <1>2, <1>3, <1>4, <1>5, <1>6, <1>7, <1>8 DEF Next, Process, Batch

-----------------------------------------------------------------------------
(***************************************************************************)
(* "processing" is a task at work.                                          *)
(***************************************************************************)

\* A row becomes "processing" with a task, and the task leaves it otherwise.
LEMMA WorkerStep ==
  ASSUME LedgerInv, ProcessingHasWorker, [Next]_vars
  PROVE  ProcessingHasWorker'
<1>1. env' = env
  BY EnvironmentStays
<1> SUFFICES ASSUME "restart" \notin env.ops, "fault" \notin env.ops, NEW i \in Present', row'[i].status = "processing"
             PROVE  \E r \in Requests : snap'[r] # NoRow /\ Head(tasks'[r]) = i
  <2>1. Without({"restart", "fault"})' => "restart" \notin env.ops /\ "fault" \notin env.ops
    BY <1>1 DEF Without
  <2> QED
    BY <2>1, Zenon DEF ProcessingHasWorker, Working
<1>2. /\ TypeOK /\ \A j \in Present : j \in Inv /\ row[j] \in Row
      /\ \A j \in Present : row[j].status = "processing" =>
            \E r \in Requests : snap[r] # NoRow /\ Head(tasks[r]) = j
  BY PresentRow DEF LedgerInv, ProcessingHasWorker, Without, Working
<1>3. CASE /\ i \in Present /\ row[i].status = "processing"
           /\ ~\E r \in Requests : /\ FinishProcessing(r) \/ FailProcessing(r)
                                   /\ Head(tasks[r]) = i
  <2>1. PICK r \in Requests : snap[r] # NoRow /\ Head(tasks[r]) = i
    BY <1>2, <1>3
  <2>2. snap'[r] = snap[r] /\ tasks'[r] = tasks[r]
    BY <1>3, <2>1, WorkerStays
  <2> QED
    BY <2>1, <2>2
<1>4. ASSUME NEW r \in Requests, FinishProcessing(r) \/ FailProcessing(r), Head(tasks[r]) = i
      PROVE  FALSE
  BY <1>4, ConcludedTask
<1>5. CASE i \notin Present
  <2>1. NewRow.status = "pending"
    BY DEF NewRow
  <2> QED
    BY <1>5, <2>1, RowsThatAppear
<1>6. CASE i \in Present /\ row[i].status # "processing"
  <2>1. row'[i] # row[i]
    BY <1>6
  <2>2. ASSUME NEW r \in Requests, NEW k \in 1..N, Upload(r, k) PROVE FALSE
    BY <1>6, <2>1, <2>2, UploadedRows, Zenon
  <2>3. ASSUME NEW j \in Inv,
               \/ \E r \in Requests : Reprocess(r, j)
               \/ \E n \in Numbers \cup {NoNumber} : SaveInvoice(j, n)
               \/ \E r \in Requests : (BeginProcessing(r) \/ QueueBusy(r)) /\ Head(tasks[r]) = j
        PROVE  \E r \in Requests : snap'[r] # NoRow /\ Head(tasks'[r]) = i
    <3>1. j = i
      BY <1>2, <1>6, <2>1, <2>3, TouchedRow, Zenon
    <3>2. PICK r \in Requests : BeginProcessing(r) /\ Head(tasks[r]) = i
      BY <2>3, <3>1, TouchedRow, Zenon
    <3>3. snap'[r] = [row[i] EXCEPT !.status = "processing"] /\ tasks' = tasks /\ row[i] \in Row
      BY <1>2, <1>6, <3>2 DEF BeginProcessing, TypeOK
    <3>4. snap'[r] # NoRow
      BY <3>3 DEF Row, NoRow
    <3> QED
      BY <3>2, <3>3, <3>4
  <2>4. ASSUME \/ \E j \in Inv : DeleteInvoice(j)
               \/ \E S \in SUBSET Present : \E s \in Orders(S) : BatchStart(s)
               \/ BatchNext \/ BatchEnd
        PROVE  FALSE
    <3>1. row'[i] = Released(row[i])
      BY <2>1, <2>4, Deletion
    <3> QED
      BY <1>2, <1>6, <3>1, ReleasedRow
  <2>5. ASSUME NEW r \in Requests, FinishProcessing(r) \/ FailProcessing(r) PROVE FALSE
    BY <1>2, <1>4, <1>6, <2>1, <2>5, ConcludedTask
  <2> QED
    BY <2>1, <2>2, <2>3, <2>4, <2>5, StepKinds, Zenon
<1> QED
  BY <1>3, <1>4, <1>5, <1>6

\* Without restarts and database errors a row is "processing" only while a task
\* works on it (docs/ARCHITECTURE.md:70).
THEOREM WorkerTheorem == Spec => []ProcessingHasWorker
<1>1. Init => ProcessingHasWorker
  BY DEF Init, ProcessingHasWorker, Present
<1> QED
  BY <1>1, LedgerInvariant, WorkerStep, PTL DEF Spec

-----------------------------------------------------------------------------
(***************************************************************************)
(* A status and its evidence.                                               *)
(***************************************************************************)

\* "consistent" was concluded by OCR and LLM, and the task at work on a row has
\* read the method the row still has.
DualInv ==
    Without({"parallel"}) =>
        /\ \A i \in Present : row[i].status = "consistent" => row[i].method = "dual"
        /\ \A r \in Requests : snap[r] # NoRow /\ Head(tasks[r]) \in Present =>
              row[Head(tasks[r])].method = snap[r].method

\* "duplicate" names the row it duplicates, and the task at work on a row has
\* read the relation the row still has, or its original has gone meanwhile.
RelationInv ==
    Without({"batch"}) /\ ~({"parallel", "reprocess"} \subseteq env.ops) =>
        /\ \A i \in Present : row[i].status = "duplicate" => row[i].dup # None
        /\ \A r \in Requests : snap[r] # NoRow =>
              /\ snap[r].dup <= created
              /\ Head(tasks[r]) \in Present =>
                    \/ row[Head(tasks[r])].dup = snap[r].dup
                    \/ row[Head(tasks[r])].dup = None /\ snap[r].dup \notin Present

EvidenceInv == OneRequest /\ OneTask /\ HasOriginal /\ DualInv /\ RelationInv

\* A running task's row was given out before this step.
LEMMA RunningRows ==
  ASSUME LedgerInv, [Next]_vars, NEW r \in Requests, snap[r] # NoRow,
         Head(tasks[r]) \in Present'
  PROVE  Head(tasks[r]) \in Present
<1>1. TypeOK /\ tasks[r] # <<>> /\ created \in Nat /\ Inv \subseteq Nat
  BY LedgerAssumption DEF LedgerInv, TypeOK, QueueInv, Inv
<1>2. Head(tasks[r]) <= created /\ Head(tasks[r]) \in Nat
  BY <1>1, QueueHead DEF LedgerInv, QueueInv
<1> QED
  BY <1>1, <1>2, LedgerInvStep DEF NewestOnly

\* What a step leaves in a row that it does not conclude.
LEMMA OtherRows ==
  ASSUME LedgerInv, [Next]_vars, NEW i \in Present, i \in Present',
         ~\E r \in Requests : (FinishProcessing(r) \/ FailProcessing(r)) /\ Head(tasks[r]) = i
  PROVE  /\ row'[i].method = row[i].method
         /\ row'[i].status \in {row[i].status, "pending", "reviewed", "processing",
                                "verified", "review"}
         /\ \/ row'[i].dup = row[i].dup
            \/ row'[i].dup = None /\ ("batch" \in env.ops \/ row[i].dup \notin Present')
         /\ row'[i].num # row[i].num => "save" \in env.ops
         /\ row'[i].status = "duplicate" => row'[i] = row[i]
<1>1. TypeOK /\ i \in Inv /\ row[i] \in Row
  BY PresentRow DEF LedgerInv
<1>2. ASSUME NEW r \in Requests, NEW k \in 1..N, Upload(r, k) PROVE row'[i] = row[i]
  BY <1>2, UploadedRows, Zenon
<1>3. ASSUME NEW j \in Inv,
             \/ \E r \in Requests : Reprocess(r, j)
             \/ \E n \in Numbers \cup {NoNumber} : SaveInvoice(j, n)
             \/ \E r \in Requests : (BeginProcessing(r) \/ QueueBusy(r)) /\ Head(tasks[r]) = j
      PROVE  \/ row'[i] = row[i]
             \/ /\ row'[i].method = row[i].method /\ row'[i].dup = row[i].dup
                /\ row'[i].num # row[i].num => "save" \in env.ops
                /\ row'[i].status \in {"pending", "reviewed", "processing"}
  BY <1>1, <1>3, TouchedRow, Zenon
<1>4. ASSUME \/ \E j \in Inv : DeleteInvoice(j)
             \/ \E S \in SUBSET Present : \E s \in Orders(S) : BatchStart(s)
             \/ BatchNext \/ BatchEnd
      PROVE  \/ row'[i] = row[i]
             \/ /\ row'[i].method = row[i].method /\ row'[i].dup = None
                /\ row'[i].num = row[i].num
                /\ "batch" \in env.ops \/ row[i].dup \notin Present'
                /\ row'[i].status \in {"verified", "review"}
  BY <1>1, <1>4, Deletion, ReleasedRow
<1>5. ASSUME NEW r \in Requests, FinishProcessing(r) \/ FailProcessing(r) PROVE row'[i] = row[i]
  <2>1. i # Head(tasks[r])
    BY <1>5
  <2>2. \A j \in Inv \ {Head(tasks[r])} : row'[j] = row[j]
    BY <1>5, ConcludedTask
  <2> QED
    BY <1>1, <2>1, <2>2
<1> QED
  BY <1>2, <1>3, <1>4, <1>5, StepKinds

\* Every task that is at work after the step has read what its row holds.
LEMMA DualStep ==
  ASSUME LedgerInv, EvidenceInv, [Next]_vars
  PROVE  DualInv'
<1>1. env' = env
  BY EnvironmentStays
<1> SUFFICES ASSUME "parallel" \notin env.ops
             PROVE  /\ \A i \in Present' : row'[i].status = "consistent" => row'[i].method = "dual"
                    /\ \A r \in Requests : snap'[r] # NoRow /\ Head(tasks'[r]) \in Present' =>
                          row'[Head(tasks'[r])].method = snap'[r].method
  <2>1. Without({"parallel"})' => "parallel" \notin env.ops
    BY <1>1 DEF Without
  <2> QED
    BY <2>1, Zenon DEF DualInv
<1>2. /\ TypeOK
      /\ \A q, r \in Requests : tasks[q] # <<>> /\ tasks[r] # <<>> => q = r
      /\ \A i \in Present : row[i].status = "consistent" => row[i].method = "dual"
      /\ \A r \in Requests : snap[r] # NoRow /\ Head(tasks[r]) \in Present =>
            row[Head(tasks[r])].method = snap[r].method
      /\ \A r \in Requests : snap[r] # NoRow => tasks[r] # <<>>
  BY DEF LedgerInv, QueueInv, EvidenceInv, OneRequest, DualInv, Without
<1>3. ASSUME NEW i \in Present', row'[i].status = "consistent" PROVE row'[i].method = "dual"
  <2>1. CASE i \notin Present
    <3>1. NewRow.status = "pending"
      BY DEF NewRow
    <3>2. row'[i] = NewRow
      BY <1>3, <2>1, RowsThatAppear
    <3> QED
      BY <1>3, <3>1, <3>2
  <2>2. ASSUME NEW r \in Requests, FinishProcessing(r) \/ FailProcessing(r), Head(tasks[r]) = i
        PROVE  row'[i].method = "dual"
    <3>1. snap[r] # NoRow
      BY <2>2 DEF FinishProcessing, FailProcessing
    <3>2. i \in Present /\ row[i].method = snap[r].method
      BY <1>2, <2>2, <3>1, ConcludedTask
    <3>3. PICK new \in Row :
            /\ row'[i].status = new.status
            /\ row'[i].method = IF new.method # snap[r].method THEN new.method ELSE row[i].method
            /\ new.status \in {"failed", "duplicate"} \/ (new.status = "consistent" => new.method = "dual")
      BY <2>2, ConcludedTask
    <3> QED
      BY <1>3, <3>2, <3>3
  <2>3. CASE /\ i \in Present
             /\ ~\E r \in Requests : /\ FinishProcessing(r) \/ FailProcessing(r)
                                     /\ Head(tasks[r]) = i
    BY <1>2, <1>3, <2>3, OtherRows
  <2> QED
    BY <2>1, <2>2, <2>3
<1>4. ASSUME NEW r \in Requests, snap'[r] # NoRow, Head(tasks'[r]) \in Present'
      PROVE  row'[Head(tasks'[r])].method = snap'[r].method
  <2>1. CASE snap'[r] = snap[r] /\ tasks'[r] = tasks[r]
    <3> DEFINE i == Head(tasks[r])
    <3>1. i \in Present /\ row[i].method = snap[r].method /\ tasks[r] # <<>>
      BY <1>2, <1>4, <2>1, RunningRows
    <3>2. ASSUME NEW q \in Requests, FinishProcessing(q) \/ FailProcessing(q) PROVE FALSE
      <4>1. tasks[q] # <<>> /\ snap' = [snap EXCEPT ![q] = NoRow]
        BY <3>2, ConcludedTask
      <4>2. q = r
        BY <1>2, <3>1, <4>1
      <4> QED
        BY <1>2, <1>4, <4>1, <4>2 DEF TypeOK
    <3> HIDE DEF i
    <3>3. row'[i].method = row[i].method
      BY <1>4, <2>1, <3>1, <3>2, OtherRows DEF i
    <3> QED
      BY <2>1, <3>1, <3>3 DEF i
  <2>2. CASE tasks'[r] = tasks[r] /\ snap'[r] = row'[Head(tasks[r])]
    BY <2>2
  <2> QED
    BY <1>4, <2>1, <2>2, WorkerKinds
<1> QED
  BY <1>3, <1>4

\* A duplicate that a task reports is one at that moment, and in the row.
LEMMA RelationStep ==
  ASSUME LedgerInv, EvidenceInv, [Next]_vars
  PROVE  RelationInv'
<1>1. env' = env
  BY EnvironmentStays
<1> SUFFICES ASSUME "batch" \notin env.ops, ~({"parallel", "reprocess"} \subseteq env.ops)
             PROVE  /\ \A i \in Present' : row'[i].status = "duplicate" => row'[i].dup # None
                    /\ \A r \in Requests : snap'[r] # NoRow =>
                          /\ snap'[r].dup <= created'
                          /\ Head(tasks'[r]) \in Present' =>
                                \/ row'[Head(tasks'[r])].dup = snap'[r].dup
                                \/ /\ row'[Head(tasks'[r])].dup = None
                                   /\ snap'[r].dup \notin Present'
  <2>1. Without({"batch"})' => "batch" \notin env.ops
    BY <1>1 DEF Without
  <2> QED
    BY <1>1, <2>1, Zenon DEF RelationInv
<1>2. /\ TypeOK /\ NewestOnly /\ created \in Nat /\ created' \in Nat /\ None \notin Inv
      /\ Inv \subseteq Nat
      /\ \A i \in Present : i \in Inv /\ i <= created
      /\ \A r \in Requests : snap[r] # NoRow => tasks[r] # <<>> /\ snap[r] \in Row
  BY LedgerInvStep, LedgerAssumption, PresentRow
     DEF LedgerInv, TypeOK, QueueInv, NewestOnly, None, Inv
<1>3. /\ \A q, r \in Requests : \A m \in DOMAIN tasks[q], n \in DOMAIN tasks[r] :
            tasks[q][m] = tasks[r][n] => q = r /\ m = n
      /\ HasOriginal
      /\ \A i \in Present : row[i].status = "duplicate" => row[i].dup # None
      /\ \A r \in Requests : snap[r] # NoRow =>
            /\ snap[r].dup <= created
            /\ Head(tasks[r]) \in Present =>
                  \/ row[Head(tasks[r])].dup = snap[r].dup
                  \/ row[Head(tasks[r])].dup = None /\ snap[r].dup \notin Present
  BY DEF EvidenceInv, OneTask, RelationInv, Without
\* Two tasks that are taken up have different rows.
<1>4. ASSUME NEW q \in Requests, NEW r \in Requests, tasks[q] # <<>>, tasks[r] # <<>>,
             Head(tasks[q]) = Head(tasks[r])
      PROVE  q = r
  <2>1. /\ 1 \in DOMAIN tasks[q] /\ Head(tasks[q]) = tasks[q][1]
        /\ 1 \in DOMAIN tasks[r] /\ Head(tasks[r]) = tasks[r][1]
    BY <1>2, <1>4, QueueHead
  <2> QED
    BY <1>3, <1>4, <2>1
<1>5. ASSUME NEW i \in Present', row'[i].status = "duplicate" PROVE row'[i].dup # None
  <2>1. CASE i \notin Present
    <3>1. NewRow.status = "pending"
      BY DEF NewRow
    <3>2. row'[i] = NewRow
      BY <1>5, <2>1, RowsThatAppear
    <3> QED
      BY <1>5, <3>1, <3>2
  <2>2. ASSUME NEW r \in Requests, FinishProcessing(r) \/ FailProcessing(r), Head(tasks[r]) = i
        PROVE  row'[i].dup # None
    <3>1. snap[r] # NoRow
      BY <2>2 DEF FinishProcessing, FailProcessing
    <3>2. i \in Present
      BY <2>2, ConcludedTask
    <3>3. PICK new \in Row :
            /\ row'[i].status = new.status
            /\ row'[i].dup = IF new.dup # snap[r].dup THEN new.dup ELSE row[i].dup
            /\ new.status # "duplicate" \/ new.dup \in Twins(i, new.num)
      BY <2>2, ConcludedTask
    <3>4. new.dup \in Present /\ new.dup # None
      BY <1>2, <1>5, <3>3 DEF Twins
    <3> QED
      BY <1>3, <2>2, <3>1, <3>2, <3>3, <3>4
  <2>3. CASE /\ i \in Present
             /\ ~\E r \in Requests : /\ FinishProcessing(r) \/ FailProcessing(r)
                                     /\ Head(tasks[r]) = i
    BY <1>3, <1>5, <2>3, OtherRows
  <2> QED
    BY <2>1, <2>2, <2>3
\* What is gone stays gone.
<1>6. ASSUME NEW d, d \in Inv \cup {None}, d <= created, d \notin Present PROVE d \notin Present'
  <2>1. CASE d = None
    BY <1>2, <2>1 DEF Present
  <2>2. CASE d # None
    <3>1. d \in Nat
      BY <1>2, <1>6, <2>2
    <3> QED
      BY <1>2, <1>6, <3>1 DEF NewestOnly
  <2> QED
    BY <2>1, <2>2
<1>7. ASSUME NEW r \in Requests, snap'[r] # NoRow
      PROVE  /\ snap'[r].dup <= created'
             /\ Head(tasks'[r]) \in Present' =>
                   \/ row'[Head(tasks'[r])].dup = snap'[r].dup
                   \/ row'[Head(tasks'[r])].dup = None /\ snap'[r].dup \notin Present'
  <2>1. CASE snap'[r] = snap[r] /\ tasks'[r] = tasks[r]
    <3> DEFINE i == Head(tasks[r])
               d == snap[r].dup
    <3>1. d \in Inv \cup {None} /\ d <= created /\ tasks[r] # <<>>
      BY <1>2, <1>3, <1>7, <2>1 DEF Row
    <3>2. d <= created'
      <4>1. created <= created'
        BY <1>2 DEF NewestOnly
      <4> HIDE DEF d
      <4>2. d \in Nat
        <5>1. Inv \cup {None} \subseteq Nat
          BY <1>2 DEF None
        <5> QED
          BY <3>1, <5>1
      <4> QED
        BY <1>2, <3>1, <4>1, <4>2
    <3>3. ASSUME i \in Present' PROVE row'[i].dup = d \/ (row'[i].dup = None /\ d \notin Present')
      <4>1. i \in Present /\ (row[i].dup = d \/ (row[i].dup = None /\ d \notin Present))
        BY <1>3, <1>7, <2>1, <3>3, RunningRows
      <4>2. ASSUME NEW q \in Requests, FinishProcessing(q) \/ FailProcessing(q),
                   Head(tasks[q]) = i
            PROVE  FALSE
        <5>1. tasks[q] # <<>> /\ snap' = [snap EXCEPT ![q] = NoRow]
          BY <4>2, ConcludedTask
        <5>2. q = r
          BY <1>4, <3>1, <4>2, <5>1
        <5> QED
          BY <1>2, <1>7, <5>1, <5>2 DEF TypeOK
      <4> HIDE DEF i, d
      <4>3. row'[i].dup = row[i].dup \/ (row'[i].dup = None /\ row[i].dup \notin Present')
        BY <3>3, <4>1, <4>2, OtherRows
      <4>4. d \notin Present => d \notin Present'
        BY <1>6, <3>1
      <4> QED
        BY <4>1, <4>3, <4>4
    <3> QED
      BY <2>1, <3>2, <3>3
  <2>2. CASE /\ BeginProcessing(r) /\ tasks'[r] = tasks[r]
             /\ Head(tasks[r]) \in Present /\ snap'[r] = row'[Head(tasks[r])]
    <3> DEFINE i == Head(tasks[r])
    <3>1. i \in Inv /\ row'[i].dup = row[i].dup /\ row[i] \in Row /\ created' = created
      BY <1>2, <2>2, TouchedRow, PresentRow
    <3>2. row[i].dup <= created
      <4>1. row[i].dup = None \/ row[i].dup \in Present
        BY <1>3, <2>2 DEF HasOriginal
      <4> QED
        BY <1>2, <4>1 DEF None
    <3> HIDE DEF i
    <3> QED
      BY <2>2, <3>1, <3>2 DEF i
  <2> QED
    BY <1>7, <2>1, <2>2, WorkerKinds
<1> QED
  BY <1>5, <1>7

\* Nothing runs in an empty ledger.
LEMMA InitEvidence == Init => EvidenceInv
<1> SUFFICES ASSUME Init PROVE EvidenceInv
  OBVIOUS
<1>1. /\ Present = {} /\ \A r \in Requests : tasks[r] = <<>> /\ snap[r] = NoRow
  BY DEF Init, Present
<1> QED
  BY <1>1 DEF EvidenceInv, OneRequest, OneTask, HasOriginal, DualInv, RelationInv

\* The layer holds at every step.
LEMMA EvidenceInvariant == Spec => []EvidenceInv
<1>1. LedgerInv /\ EvidenceInv /\ [Next]_vars => EvidenceInv'
  <2> SUFFICES ASSUME LedgerInv, EvidenceInv, [Next]_vars PROVE EvidenceInv'
    OBVIOUS
  <2>1. OneRequest /\ OneTask /\ HasOriginal
    BY DEF EvidenceInv
  <2> QED
    BY <2>1, OneRequestStep, OneTaskStep, HasOriginalStep, DualStep, RelationStep
       DEF EvidenceInv
<1> QED
  BY InitEvidence, <1>1, LedgerInvariant, PTL DEF Spec

\* A row shown as a duplicate names its original, and "consistent" comes from OCR
\* and LLM together (docs/ARCHITECTURE.md:7, :72), in every order of deletions,
\* edits, reprocessing and restarts that the property admits.
THEOREM EvidenceTheorem == Spec => []StatusHasItsEvidence
<1>1. EvidenceInv => StatusHasItsEvidence
  BY DEF EvidenceInv, DualInv, RelationInv, StatusHasItsEvidence
<1> QED
  BY <1>1, EvidenceInvariant, PTL
-----------------------------------------------------------------------------
(***************************************************************************)
(* Among the copies of one number, one is the original.                      *)
(***************************************************************************)

\* Where a row is verified once and not edited: a row that waits for its task or
\* is at work has nothing yet that another row could match, and the task has
\* read that; a duplicate has its original's number; and the relation does not
\* turn in a circle, because only a finished row is ever named as an original.
UnverifiedRows ==
    /\ \A r \in Requests : \A n \in DOMAIN tasks[r] : tasks[r][n] \in Present =>
          row[tasks[r][n]].num = NoNumber /\ row[tasks[r][n]].dup = None
    /\ \A r \in Requests : snap[r] # NoRow => snap[r].num = NoNumber /\ snap[r].dup = None

SharedNumber ==
    \A i \in Present : row[i].dup # None =>
        row[i].num # NoNumber /\ row[row[i].dup].num = row[i].num

NoCircle == \A S \in SUBSET Present : S # {} => \E i \in S : row[i].dup \notin S

GroundsInv ==
    Without({"reprocess", "save", "batch"}) => UnverifiedRows /\ SharedNumber /\ NoCircle

\* Without reprocessing a queue only gets tasks for rows that did not exist.
LEMMA QueuedBefore ==
  ASSUME LedgerInv, [Next]_vars, "reprocess" \notin env.ops,
         NEW r \in Requests, NEW n \in DOMAIN tasks'[r]
  PROVE  \/ \E m \in DOMAIN tasks[r] : tasks[r][m] = tasks'[r][n]
         \/ tasks'[r][n] \notin Present
<1>1. /\ TypeOK /\ created \in Nat
      /\ \A i \in Present : i \in Nat /\ i <= created
  BY LedgerAssumption DEF LedgerInv, TypeOK, QueueInv, Present, Inv
<1>2. ASSUME NEW p \in Requests, NEW k \in 1..N, Upload(p, k)
      PROVE  \/ \E m \in DOMAIN tasks[r] : tasks[r][m] = tasks'[r][n]
             \/ tasks'[r][n] \notin Present
  <2>1. /\ \A j \in DOMAIN tasks'[p] : j \in Nat /\ tasks'[p][j] = created + j /\ created < tasks'[p][j]
        /\ \A s \in Requests \ {p} : tasks'[s] = tasks[s]
    BY <1>2, UploadedRows
  <2>2. CASE r = p
    <3>1. n \in Nat /\ tasks'[r][n] = created + n /\ created < tasks'[r][n]
      BY <2>1, <2>2
    <3> QED
      BY <1>1, <3>1
  <2>3. CASE r # p
    BY <2>1, <2>3
  <2> QED
    BY <2>2, <2>3
<1>3. \A p \in Requests, i \in Inv : ~Reprocess(p, i)
  BY DEF Reprocess, Occurs
<1>4. ASSUME NEW p \in Requests, tasks[p] # <<>>, tasks' = [tasks EXCEPT ![p] = Tail(tasks[p])]
      PROVE  \E m \in DOMAIN tasks[r] : tasks[r][m] = tasks'[r][n]
  <2>1. /\ \A s \in Requests : tasks'[s] = IF s = p THEN Tail(tasks[p]) ELSE tasks[s]
        /\ \A j \in DOMAIN Tail(tasks[p]) : /\ j \in Nat /\ j + 1 \in DOMAIN tasks[p]
                                            /\ Tail(tasks[p])[j] = tasks[p][j + 1]
    BY <1>1, <1>4, QueueHead DEF TypeOK
  <2> QED
    BY <2>1
<1>5. ASSUME NEW p \in Requests, tasks' = [tasks EXCEPT ![p] = <<>>]
      PROVE  \E m \in DOMAIN tasks[r] : tasks[r][m] = tasks'[r][n]
  <2>1. \A s \in Requests : tasks'[s] = IF s = p THEN <<>> ELSE tasks[s]
    BY <1>1, <1>5 DEF TypeOK
  <2> QED
    BY <2>1
<1>6. tasks' # [s \in Requests |-> <<>>]
  OBVIOUS
<1> QED
  BY <1>2, <1>3, <1>4, <1>5, <1>6, QueueKinds

\* The number of a row and the row it names stay, but for a relation that is cut,
\* when no task concludes it.
LEMMA UnconcludedRows ==
  ASSUME LedgerInv, [Next]_vars, "save" \notin env.ops, NEW i \in Present',
         ~\E r \in Requests : (FinishProcessing(r) \/ FailProcessing(r)) /\ Head(tasks[r]) = i
  PROVE  IF i \in Present THEN row'[i].num = row[i].num /\ row'[i].dup \in {row[i].dup, None}
                          ELSE row'[i].num = NoNumber /\ row'[i].dup = None
<1>1. CASE i \in Present
  BY <1>1, OtherRows
<1>2. CASE i \notin Present
  <2>1. row'[i] = NewRow
    BY <1>2, RowsThatAppear
  <2>2. NewRow.num = NoNumber /\ NewRow.dup = None
    BY DEF NewRow
  <2> QED
    BY <1>2, <2>1, <2>2
<1> QED
  BY <1>1, <1>2
\* What is queued or at work is still unverified after a step.
LEMMA UnverifiedStep ==
  ASSUME LedgerInv, OneTask, UnverifiedRows, [Next]_vars,
         "reprocess" \notin env.ops, "save" \notin env.ops
  PROVE  UnverifiedRows'
<1>1. /\ TypeOK
      /\ \A q, r \in Requests : \A m \in DOMAIN tasks[q], n \in DOMAIN tasks[r] :
            tasks[q][m] = tasks[r][n] => q = r /\ m = n
      /\ \A r \in Requests : \A n \in DOMAIN tasks[r] : tasks[r][n] \in Present =>
            row[tasks[r][n]].num = NoNumber /\ row[tasks[r][n]].dup = None
      /\ \A r \in Requests : snap[r] # NoRow =>
            tasks[r] # <<>> /\ snap[r].num = NoNumber /\ snap[r].dup = None
  BY DEF LedgerInv, QueueInv, OneTask, UnverifiedRows
<1>2. ASSUME NEW r \in Requests, NEW n \in DOMAIN tasks'[r], tasks'[r][n] \in Present'
      PROVE  row'[tasks'[r][n]].num = NoNumber /\ row'[tasks'[r][n]].dup = None
  <2> DEFINE i == tasks'[r][n]
  <2>1. /\ \/ \E m \in DOMAIN tasks[r] : tasks[r][m] = i
           \/ i \notin Present
        /\ i \in Present'
    BY <1>2, QueuedBefore
  <2>2. i \in Present => row[i].num = NoNumber /\ row[i].dup = None
    BY <1>1, <2>1
  <2>3. ASSUME NEW q \in Requests, FinishProcessing(q) \/ FailProcessing(q), Head(tasks[q]) = i
        PROVE  FALSE
    <3>1. /\ tasks[q] # <<>> /\ i \in Present
          /\ tasks' = [tasks EXCEPT ![q] = Tail(tasks[q])]
      BY <2>3, ConcludedTask
    <3>2. /\ \A s \in Requests : tasks'[s] = IF s = q THEN Tail(tasks[q]) ELSE tasks[s]
          /\ 1 \in DOMAIN tasks[q] /\ i = tasks[q][1]
          /\ \A j \in DOMAIN Tail(tasks[q]) : /\ j \in Nat /\ j + 1 \in DOMAIN tasks[q]
                                              /\ Tail(tasks[q])[j] = tasks[q][j + 1]
      BY <1>1, <2>3, <3>1, QueueHead DEF TypeOK
    <3>3. CASE r = q
      <4>1. n \in Nat /\ n + 1 \in DOMAIN tasks[q] /\ tasks[q][n + 1] = tasks[q][1]
        BY <1>2, <3>2, <3>3
      <4>2. n + 1 = 1 /\ n \in DOMAIN tasks'[r]
        BY <1>1, <3>2, <4>1
      <4>3. tasks[q] \in Seq(Inv)
        BY <1>1 DEF TypeOK
      <4>4. 0 \notin DOMAIN Tail(tasks[q])
        BY <3>1, <4>3
      <4> QED
        BY <3>2, <3>3, <4>1, <4>2, <4>4
    <3>4. CASE r # q
      <4>1. n \in DOMAIN tasks[r] /\ tasks[r][n] = tasks[q][1]
        BY <3>2, <3>4
      <4> QED
        BY <1>1, <3>2, <3>4, <4>1
    <3> QED
      BY <3>3, <3>4
  <2> HIDE DEF i
  <2>4. IF i \in Present THEN row'[i].num = row[i].num /\ row'[i].dup \in {row[i].dup, None}
                         ELSE row'[i].num = NoNumber /\ row'[i].dup = None
    BY <2>1, <2>3, UnconcludedRows
  <2>5. row'[i].num = NoNumber /\ row'[i].dup = None
    BY <2>2, <2>4
  <2> QED
    BY <2>5 DEF i
<1>3. ASSUME NEW r \in Requests, snap'[r] # NoRow
      PROVE  snap'[r].num = NoNumber /\ snap'[r].dup = None
  <2>1. CASE snap'[r] = snap[r]
    BY <1>1, <1>3, <2>1
  <2>2. CASE /\ BeginProcessing(r) /\ tasks'[r] = tasks[r]
             /\ Head(tasks[r]) \in Present /\ snap'[r] = row'[Head(tasks[r])]
    <3>1. Head(tasks[r]) = tasks[r][1] /\ 1 \in DOMAIN tasks[r] /\ Head(tasks[r]) \in Inv
      BY <1>1, <2>2, QueueHead DEF BeginProcessing, Idle
    <3>2. /\ Head(tasks[r]) \in Present' /\ row'[Head(tasks[r])].dup = row[Head(tasks[r])].dup
          /\ row'[Head(tasks[r])].num = row[Head(tasks[r])].num
      BY <2>2, <3>1, TouchedRow
    <3> QED
      BY <1>1, <2>2, <3>1, <3>2
  <2> QED
    BY <1>3, <2>1, <2>2, WorkerKinds
<1> QED
  BY <1>2, <1>3 DEF UnverifiedRows
\* A task names an original that is finished, and no row names the task's own.
LEMMA NamedRows ==
  ASSUME LedgerInv, UnverifiedRows, SharedNumber, HasOriginal,
         NEW r \in Requests, FinishProcessing(r) \/ FailProcessing(r)
  PROVE  LET i == Head(tasks[r]) IN
         /\ i \in Present /\ Present' = Present /\ \A j \in Present \ {i} : row'[j] = row[j]
         /\ \A c \in Present : row[c].dup # i
         /\ row'[i].dup # None => /\ row'[i].num # NoNumber
                                  /\ row'[i].dup \in Present \ {i}
                                  /\ row[row'[i].dup].num = row'[i].num
<1> DEFINE i == Head(tasks[r])
<1>1. /\ TypeOK /\ i \in Present /\ Present' = Present
      /\ \A j \in Inv \ {i} : row'[j] = row[j]
      /\ tasks[r] # <<>> /\ None \notin Present
  BY LedgerAssumption, ConcludedTask DEF LedgerInv, Present, None, Inv
<1>2. /\ row[i].num = NoNumber /\ row[i].dup = None
      /\ snap[r].num = NoNumber /\ snap[r].dup = None
  <2>1. 1 \in DOMAIN tasks[r] /\ i = tasks[r][1]
    BY <1>1, QueueHead
  <2>2. snap[r] # NoRow
    BY DEF FinishProcessing, FailProcessing
  <2> QED
    BY <1>1, <2>1, <2>2 DEF UnverifiedRows
<1>3. PICK new \in Row :
        /\ row'[i].num = IF new.num # snap[r].num THEN new.num ELSE row[i].num
        /\ row'[i].dup = IF new.dup # snap[r].dup THEN new.dup ELSE row[i].dup
        /\ new.dup \in {None, snap[r].dup} \/ new.dup \in Twins(i, new.num)
  BY ConcludedTask
<1>4. row'[i].num = new.num /\ row'[i].dup = new.dup
  BY <1>2, <1>3
<1>5. new.dup # None => /\ new.num # NoNumber /\ new.dup \in Present \ {i}
                        /\ row[new.dup].num = new.num
  BY <1>2, <1>3 DEF Twins
<1>6. \A c \in Present : row[c].dup # i
  <2> SUFFICES ASSUME NEW c \in Present, row[c].dup = i PROVE FALSE
    OBVIOUS
  <2>1. row[c].dup # None
    BY <1>1
  <2> QED
    BY <1>2, <2>1 DEF SharedNumber
<1> HIDE DEF i
<1> QED
  BY <1>1, <1>4, <1>5, <1>6 DEF i, Present

\* A duplicate and its original keep the same number.
LEMMA SharedNumberStep ==
  ASSUME LedgerInv, UnverifiedRows, SharedNumber, HasOriginal, [Next]_vars, "save" \notin env.ops
  PROVE  SharedNumber'
<1> SUFFICES ASSUME NEW c \in Present', row'[c].dup # None
             PROVE  row'[c].num # NoNumber /\ row'[row'[c].dup].num = row'[c].num
  BY DEF SharedNumber
<1>1. row'[c].dup \in Present'
  BY HasOriginalStep DEF HasOriginal
<1>2. ASSUME NEW r \in Requests, FinishProcessing(r) \/ FailProcessing(r)
      PROVE  row'[c].num # NoNumber /\ row'[row'[c].dup].num = row'[c].num
  <2> DEFINE i == Head(tasks[r])
  <2>1. /\ i \in Present /\ Present' = Present /\ \A j \in Present \ {i} : row'[j] = row[j]
        /\ \A j \in Present : row[j].dup # i
        /\ row'[i].dup # None => /\ row'[i].num # NoNumber
                                 /\ row'[i].dup \in Present \ {i}
                                 /\ row[row'[i].dup].num = row'[i].num
    BY <1>2, NamedRows
  <2> HIDE DEF i
  <2>2. CASE c = i
    BY <2>1, <2>2
  <2>3. CASE c # i
    <3>1. row'[c] = row[c] /\ row[c].dup # i /\ row'[row[c].dup] = row[row[c].dup]
      BY <1>1, <2>1, <2>3
    <3> QED
      BY <2>1, <3>1 DEF SharedNumber
  <2> QED
    BY <2>2, <2>3
<1>3. CASE ~\E r \in Requests : FinishProcessing(r) \/ FailProcessing(r)
  <2>1. c \in Present /\ row'[c].dup = row[c].dup /\ row'[c].num = row[c].num
    BY <1>3, UnconcludedRows
  <2>2. row[c].dup \in Present /\ row[c].num # NoNumber /\ row[row[c].dup].num = row[c].num
    BY <2>1 DEF HasOriginal, SharedNumber
  <2>3. row'[row[c].dup].num = row[row[c].dup].num
    <3>1. row[c].dup \in Present'
      BY <1>1, <2>1
    <3> QED
      BY <1>3, <2>2, <3>1, UnconcludedRows
  <2> QED
    BY <2>1, <2>2, <2>3
<1> QED
  BY <1>2, <1>3

\* No step closes a circle of duplicates.
LEMMA NoCircleStep ==
  ASSUME LedgerInv, UnverifiedRows, SharedNumber, HasOriginal, NoCircle, [Next]_vars,
         "save" \notin env.ops
  PROVE  NoCircle'
<1> SUFFICES ASSUME NEW S \in SUBSET Present', S # {}
             PROVE  \E c \in S : row'[c].dup \notin S
  BY DEF NoCircle
<1>1. None \notin S
  BY LedgerAssumption DEF Present, None, Inv
<1>2. ASSUME NEW r \in Requests, FinishProcessing(r) \/ FailProcessing(r)
      PROVE  \E c \in S : row'[c].dup \notin S
  <2> DEFINE i == Head(tasks[r])
  <2>1. /\ Present' = Present /\ \A j \in Present \ {i} : row'[j] = row[j]
        /\ \A j \in Present : row[j].dup # i
        /\ row'[i].dup # None => row'[i].dup \in Present \ {i}
    BY <1>2, NamedRows
  <2> HIDE DEF i
  <2>2. CASE S \ {i} = {}
    BY <1>1, <2>1, <2>2
  <2>3. CASE S \ {i} # {}
    <3>1. PICK c \in S \ {i} : row[c].dup \notin S \ {i}
      <4>1. S \ {i} \in SUBSET Present
        BY <2>1
      <4> QED
        BY <2>3, <4>1 DEF NoCircle
    <3>2. row'[c].dup = row[c].dup /\ row[c].dup # i
      BY <2>1
    <3> QED
      BY <3>1, <3>2
  <2> QED
    BY <2>2, <2>3
<1>3. CASE ~\E r \in Requests : FinishProcessing(r) \/ FailProcessing(r)
  <2>1. \A c \in S : row'[c].dup = None \/ (c \in Present /\ row'[c].dup = row[c].dup)
    BY <1>3, UnconcludedRows
  <2>2. CASE \E c \in S : row'[c].dup = None
    BY <1>1, <2>2
  <2>3. CASE \A c \in S : c \in Present /\ row'[c].dup = row[c].dup
    <3>1. S \in SUBSET Present
      BY <2>3
    <3>2. PICK c \in S : row[c].dup \notin S
      BY <3>1 DEF NoCircle
    <3> QED
      BY <2>3, <3>2
  <2> QED
    BY <2>1, <2>2, <2>3
<1> QED
  BY <1>2, <1>3

\* The layer holds at every step.
LEMMA GroundsInvariant == Spec => []GroundsInv
<1>1. Init => GroundsInv
  <2> SUFFICES ASSUME Init PROVE GroundsInv
    OBVIOUS
  <2>1. /\ Present = {} /\ \A r \in Requests : tasks[r] = <<>> /\ snap[r] = NoRow
    BY DEF Init, Present
  <2> QED
    BY <2>1 DEF GroundsInv, UnverifiedRows, SharedNumber, NoCircle
<1>2. LedgerInv /\ EvidenceInv /\ GroundsInv /\ [Next]_vars => GroundsInv'
  <2> SUFFICES ASSUME LedgerInv, EvidenceInv, GroundsInv, [Next]_vars,
                      Without({"reprocess", "save", "batch"})'
               PROVE  UnverifiedRows' /\ SharedNumber' /\ NoCircle'
    BY DEF GroundsInv
  <2>1. /\ Without({"reprocess", "save", "batch"})
        /\ "reprocess" \notin env.ops /\ "save" \notin env.ops
    BY EnvironmentStays DEF Without
  <2>2. OneTask /\ HasOriginal /\ UnverifiedRows /\ SharedNumber /\ NoCircle
    BY <2>1 DEF EvidenceInv, GroundsInv
  <2> QED
    BY <2>1, <2>2, UnverifiedStep, SharedNumberStep, NoCircleStep
<1> QED
  BY <1>1, <1>2, LedgerInvariant, EvidenceInvariant, PTL DEF Spec

\* duplicate_of names another stored invoice of the same owner, always; and where
\* rows are verified once and not edited or deleted in batches, of the rows that
\* carry one number some row is not flagged (docs/ARCHITECTURE.md:9,
\* verifier.py:845, main.py:1688), whatever runs in parallel, is deleted or is
\* cut short by an exception, a database error or a restart.
THEOREM OriginalTheorem == Spec => []DuplicatesHaveOriginal
<1>1. LedgerInv /\ EvidenceInv /\ GroundsInv => DuplicatesHaveOriginal
  <2> SUFFICES ASSUME LedgerInv, EvidenceInv, GroundsInv PROVE DuplicatesHaveOriginal
    OBVIOUS
  <2>1. HasOriginal
    BY DEF EvidenceInv
  <2>2. ASSUME Without({"reprocess", "save", "batch"}),
               NEW i \in Present, row[i].status = "duplicate"
        PROVE  \E j \in Present : /\ Owner[j] = Owner[i] /\ row[j].num = row[i].num
                                  /\ row[j].status # "duplicate"
    <3> DEFINE D == {j \in Present : /\ Owner[j] = Owner[i] /\ row[j].num = row[i].num
                                     /\ row[j].status = "duplicate"}
    <3>1. SharedNumber /\ NoCircle /\ \A j \in Present : row[j].status = "duplicate" => row[j].dup # None
      BY <2>2 DEF GroundsInv, EvidenceInv, RelationInv, Without
    <3>2. PICK j \in D : row[j].dup \notin D
      <4>1. D \in SUBSET Present /\ D # {}
        BY <2>2
      <4> HIDE DEF D
      <4> QED
        BY <3>1, <4>1 DEF NoCircle
    <3>3. j \in Present /\ row[j].dup # None /\ Owner[j] = Owner[i] /\ row[j].num = row[i].num
      BY <3>1, <3>2
    <3>4. /\ row[j].dup \in Present /\ Owner[row[j].dup] = Owner[i]
          /\ row[row[j].dup].num = row[i].num
      BY <2>1, <3>1, <3>3 DEF HasOriginal, SharedNumber
    <3> QED
      BY <3>2, <3>4
  <2> QED
    BY <2>1, <2>2 DEF DuplicatesHaveOriginal, HasOriginal
<1> QED
  BY <1>1, LedgerInvariant, EvidenceInvariant, GroundsInvariant, PTL
=============================================================================
