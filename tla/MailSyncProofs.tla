--------------------------- MODULE MailSyncProofs ---------------------------
(***************************************************************************)
(* Mail collection for any number of syncs, messages and documents, with every *)
(* crash, lost connection, failed fetch and deletion that the module has.      *)
(***************************************************************************)
EXTENDS MailSync, FiniteSetTheorems, WellFoundedInduction, TLAPS

-----------------------------------------------------------------------------
(***************************************************************************)
(* Operators.                                                               *)
(***************************************************************************)

\* The result of a row that shows its number.
Shown == {"review", "verified"}

SyncRec(c) == [pc : PC, from : 0..N, max : 0..N, queue : SUBSET Uid,
               uid : 0..N, mine : 0..c, old : 0..c]

\* A stored row is not the absent one.
LEMMA RowsArePresent == NoRow \notin Row
BY DEF NoRow, Row

\* A set of numbers that is not empty has its least.
LEMMA LeastMember ==
  ASSUME NEW S, S \subseteq Nat, S # {}
  PROVE  \E x \in S : \A y \in S : x <= y
<1>1. PICK x \in S : \A y \in S : ~ (<<y, x>> \in OpToRel(<, Nat))
  BY NatLessThanWellFounded, WFMin
<1>2. \A y \in Nat : y < x => <<y, x>> \in OpToRel(<, Nat)
  BY <1>1, Zenon DEF OpToRel
<1>3. \A y \in S : ~(y < x)
  BY <1>1, <1>2, Zenon
<1> QED
  BY <1>3

\* The next message is one of the queue.
LEMMA UpcomingMember ==
  ASSUME NEW S, S \subseteq Nat, S # {}
  PROVE  Min(S) \in S
BY LeastMember DEF Min

\* More room for the ids keeps a sync well-typed.
LEMMA SyncRoom ==
  ASSUME NEW c \in Nat, NEW d \in Nat, c <= d
  PROVE  SyncRec(c) \subseteq SyncRec(d)
BY DEF SyncRec

\* One thread moves.
LEMMA MovedSync ==
  ASSUME TypeOK, NEW s \in Syncs, NEW new \in SyncRec(created'), created' \in Nat,
         created <= created', sync' = [sync EXCEPT ![s] = new]
  PROVE  /\ sync' \in [Syncs -> SyncRec(created')]
         /\ sync'[s] = new /\ \A t \in Syncs \ {s} : sync'[t] = sync[t]
<1>1. sync \in [Syncs -> SyncRec(created')]
  BY SyncRoom DEF TypeOK, SyncRec
<1> QED
  BY <1>1

-----------------------------------------------------------------------------
(***************************************************************************)
(* First layer: types, the rows and who works on them.                       *)
(***************************************************************************)

\* Ids are given out once; duplicate_of names a stored row that shows the same
\* number; what the filters let pass shows its number.
RowInv ==
    /\ \A d \in Present : row[d].id \in 1..created
    /\ \A d, e \in Present : row[d].id = row[e].id => d = e
    /\ \A d \in Present : row[d].dup # NoDocument => row[d].dup \in Twins(d)
    /\ \A d \in Present : row[d].kept => row[d].result \in Shown

\* A row that waits for its verification has no result; a row is created by one
\* sync; a search starts with the cursor it has read and nothing else; from
\* then on a message is in hand.
AtHand == {"ingest", "process", "filter", "replace", "record"}

SyncInv ==
    /\ \A s \in Syncs : At(s, "process") /\ InTable(s) => row[Doc(s)].result = "raw"
    /\ \A s, t \in Syncs : sync[s].mine # 0 /\ sync[s].mine = sync[t].mine => s = t
    /\ \A s \in Syncs : At(s, "search") =>
          sync[s].queue = {} /\ sync[s].uid = 0 /\ sync[s].max = sync[s].from
    /\ \A s \in Syncs : sync[s].pc \in AtHand => sync[s].uid \in Uid

MailInv == TypeOK /\ RowInv /\ SyncInv

\* A row is found to duplicate the oldest row that shows its number.
LEMMA OriginalIsTwin ==
  ASSUME MailInv, NEW d \in Documents
  PROVE  IF Twins(d) = {} THEN Original(d) = NoDocument ELSE Original(d) \in Twins(d)
<1>1. CASE Twins(d) = {}
  BY <1>1 DEF Original
<1>2. CASE Twins(d) # {}
  <2> DEFINE Ids == {row[e].id : e \in Twins(d)}
  <2>1. \A e \in Twins(d) : row[e].id \in Nat
    BY DEF MailInv, RowInv, TypeOK, Twins
  <2>2. PICK x \in Ids : \A y \in Ids : x <= y
    <3>1. Ids \subseteq Nat /\ Ids # {}
      BY <1>2, <2>1
    <3> HIDE DEF Ids
    <3> QED
      BY <3>1, LeastMember
  <2>3. \E e \in Twins(d) : \A f \in Twins(d) : row[e].id <= row[f].id
    BY <2>2
  <2> HIDE DEF Ids
  <2> QED
    BY <1>2, <2>3 DEF Original
<1> QED
  BY <1>1, <1>2

\* What a deletion leaves.
LEMMA WithoutRows ==
  ASSUME TypeOK, NEW x \in Present, row' = Without(x)
  PROVE  /\ row' \in [Documents -> Row \cup {NoRow}] /\ Present' = Present \ {x}
         /\ \A d \in Present \ {x} :
               /\ row'[d].id = row[d].id /\ row'[d].result = row[d].result
               /\ row'[d].kept = row[d].kept
               /\ row'[d].dup = IF row[d].dup = x THEN NoDocument ELSE row[d].dup
<1>1. \A d \in Present : d \in Documents /\ row[d] \in Row
  BY DEF TypeOK, Present
<1>2. \A d \in Documents : row'[d] = IF d = x THEN NoRow
                         ELSE IF d \in Present /\ row[d].dup = x
                              THEN [row[d] EXCEPT !.dup = NoDocument]
                         ELSE row[d]
  BY DEF Without
<1>3. \A d \in Present : [row[d] EXCEPT !.dup = NoDocument] \in Row
  BY <1>1 DEF Row
<1>4. row' \in [Documents -> Row \cup {NoRow}]
  <2>1. \A d \in Documents : row'[d] \in Row \cup {NoRow}
    BY <1>2, <1>3 DEF TypeOK
  <2> QED
    BY <2>1 DEF Without
<1>5. Present' = Present \ {x}
  BY <1>1, <1>2, <1>3, RowsArePresent DEF Present
<1>6. ASSUME NEW d \in Present \ {x}
      PROVE  /\ row'[d].id = row[d].id /\ row'[d].result = row[d].result
             /\ row'[d].kept = row[d].kept
             /\ row'[d].dup = IF row[d].dup = x THEN NoDocument ELSE row[d].dup
  <2>1. row'[d] = IF row[d].dup = x THEN [row[d] EXCEPT !.dup = NoDocument] ELSE row[d]
    BY <1>1, <1>2
  <2> QED
    BY <1>1, <2>1 DEF Row
<1> QED
  BY <1>4, <1>5, <1>6

\* A row is stored or changed.
LEMMA WrittenRow ==
  ASSUME TypeOK, NEW d \in Documents, NEW a \in Row, row' = [row EXCEPT ![d] = a]
  PROVE  /\ row' \in [Documents -> Row \cup {NoRow}] /\ Present' = Present \cup {d}
         /\ row'[d] = a /\ \A e \in Documents \ {d} : row'[e] = row[e]
<1>1. /\ row' \in [Documents -> Row \cup {NoRow}]
      /\ row'[d] = a /\ \A e \in Documents \ {d} : row'[e] = row[e]
  BY DEF TypeOK
<1> QED
  BY <1>1, RowsArePresent DEF Present

-----------------------------------------------------------------------------
(***************************************************************************)
(* What a step does to the thread that takes it.                             *)
(***************************************************************************)

\* The locals of s with what a step changes in them.
Local(s, pc, max, queue, uid, mine, old) ==
    [pc |-> pc, from |-> sync[s].from, max |-> max, queue |-> queue, uid |-> uid,
     mine |-> mine, old |-> old]

\* They are what they were set to.
LEMMA LocalFields ==
  ASSUME NEW s, NEW pc, NEW max, NEW queue, NEW uid, NEW mine, NEW old
  PROVE  LET new == Local(s, pc, max, queue, uid, mine, old) IN
         /\ new.pc = pc /\ new.from = sync[s].from /\ new.max = max /\ new.queue = queue
         /\ new.uid = uid /\ new.mine = mine /\ new.old = old
BY DEF Local

Resting == {Idle, [Idle EXCEPT !.pc = "later"]}

\* What is found is in the mailbox, and what has not been searched yet is found.
LEMMA FoundMessages ==
  ASSUME TypeOK, NEW s \in Syncs
  PROVE  /\ Found(s) \subseteq Uid /\ IsFiniteSet(Found(s)) /\ Newest(Found(s)) \subseteq Found(s)
         /\ Cardinality(Found(s)) <= Limit => Newest(Found(s)) = Found(s)
<1>1. arrived \in Nat /\ N \in Nat /\ arrived <= N /\ Limit \in Nat \ {0}
  BY MailAssumption DEF TypeOK
<1>2. Found(s) \subseteq 1..arrived /\ 1..arrived \subseteq Uid
  BY <1>1 DEF Found, Uid
<1>3. IsFiniteSet(Found(s))
  BY <1>1, <1>2, FS_Interval, FS_Subset
<1>4. ASSUME Cardinality(Found(s)) <= Limit, NEW u \in Found(s)
      PROVE  Cardinality({v \in Found(s) : v > u}) < Limit
  <2> DEFINE S == {v \in Found(s) : v > u}
  <2>1. S \subseteq Found(s) /\ u \notin S /\ S # Found(s)
    BY <1>1, <1>2
  <2>2. /\ IsFiniteSet(S) /\ Cardinality(S) \in Nat /\ Cardinality(Found(s)) \in Nat
        /\ Cardinality(S) < Cardinality(Found(s))
    BY <1>3, <2>1, FS_Subset, FS_CardinalityType
  <2> HIDE DEF S
  <2> QED
    BY <1>1, <1>4, <2>2 DEF S
<1> QED
  BY <1>2, <1>3, <1>4 DEF Newest

\* A thread's locals are what their fields say.
LEMMA FieldsOf ==
  ASSUME NEW c \in Nat, NEW x \in SyncRec(c)
  PROVE  x = [pc |-> x.pc, from |-> x.from, max |-> x.max, queue |-> x.queue,
              uid |-> x.uid, mine |-> x.mine, old |-> x.old]
BY DEF SyncRec

\* The locals of a thread are in range.
LEMMA ThreadTyped ==
  ASSUME TypeOK, NEW s \in Syncs
  PROVE  /\ sync[s] \in SyncRec(created) /\ created \in Nat /\ 0 \in 0..created
         /\ sync[s].uid \in 0..N /\ sync[s].max \in 0..N /\ sync[s].queue \subseteq Uid
         /\ N \in Nat /\ 0 \in 0..N /\ Uid \subseteq Nat /\ Uid \subseteq 0..N
BY MailAssumption DEF TypeOK, SyncRec, Uid

\* Thread s moves, the others stay.
Becomes(s, new) ==
    /\ sync' \in [Syncs -> SyncRec(created')]
    /\ sync'[s] = new
    /\ \A t \in Syncs \ {s} : sync'[t] = sync[t]

\* A typed record is assigned.
LEMMA Assigned ==
  ASSUME TypeOK, NEW s \in Syncs, NEW new \in SyncRec(created'), created' \in Nat,
         created <= created', sync' = [sync EXCEPT ![s] = new]
  PROVE  Becomes(s, new)
BY MovedSync DEF Becomes

\* A step that stores nothing new assigns the locals whose fields are these.
LEMMA Replaced ==
  ASSUME TypeOK, NEW s \in Syncs, NEW y \in SyncRec(created), created' = created,
         sync' = [sync EXCEPT ![s] = y]
  PROVE  Becomes(s, y)
<1>1. created \in Nat /\ created <= created
  BY ThreadTyped
<1> QED
  BY <1>1, Assigned

\* The thread that searches.
LEMMA SearchMove ==
  ASSUME TypeOK, NEW s \in Syncs, Search(s)
  PROVE  Becomes(s, Local(s, "next", sync[s].max, Newest(Found(s)),
                          sync[s].uid, sync[s].mine, sync[s].old))
<1> DEFINE q == Newest(Found(s))
           y == [sync[s] EXCEPT !.pc = "next", !.queue = q]
<1>1. sync' = [sync EXCEPT ![s].pc = "next", ![s].queue = q] /\ created' = created
  BY DEF Search, Ledger
<1>2. q \in SUBSET Uid
  BY FoundMessages
<1>3. sync' = [sync EXCEPT ![s] = y]
  BY <1>1 DEF TypeOK
<1> HIDE DEF q
<1>4. /\ y \in SyncRec(created) /\ y.pc = "next" /\ y.from = sync[s].from
      /\ y.max = sync[s].max /\ y.queue = q /\ y.uid = sync[s].uid
      /\ y.mine = sync[s].mine /\ y.old = sync[s].old
  BY <1>2, ThreadTyped DEF SyncRec, PC
<1> HIDE DEF y
<1>5. Becomes(s, y)
  BY <1>1, <1>3, <1>4, Replaced
<1> QED
  BY <1>4, <1>5, FieldsOf, ThreadTyped DEF Local, q

\* The thread that goes on to the next message.
LEMMA AdvanceMove ==
  ASSUME TypeOK, NEW s \in Syncs, NEW label \in PC, sync[s].queue # {}, Advance(s, label),
         created' = created
  PROVE  /\ Upcoming(s) \in sync[s].queue
         /\ Becomes(s, Local(s, label,
                             IF Upcoming(s) > sync[s].max THEN Upcoming(s) ELSE sync[s].max,
                             sync[s].queue \ {Upcoming(s)},
                             IF label = "next" THEN 0 ELSE Upcoming(s),
                             sync[s].mine, sync[s].old))
<1> DEFINE u == Upcoming(s)
           m == IF u > sync[s].max THEN u ELSE sync[s].max
           v == IF label = "next" THEN 0 ELSE u
           q == sync[s].queue \ {u}
           y == [sync[s] EXCEPT !.pc = label, !.queue = q, !.uid = v, !.max = m]
<1>1. u \in sync[s].queue
  BY ThreadTyped, UpcomingMember DEF Upcoming
<1>2. m \in 0..N /\ v \in 0..N /\ q \in SUBSET Uid
  BY <1>1, ThreadTyped
<1>3. sync' = [sync EXCEPT ![s].pc = label, ![s].queue = q, ![s].uid = v, ![s].max = m]
  BY DEF Advance
<1> HIDE DEF q, v, m, u
<1>4. sync' = [sync EXCEPT ![s] = y]
  BY <1>3 DEF TypeOK
<1>5. /\ y \in SyncRec(created) /\ y.pc = label /\ y.from = sync[s].from
      /\ y.max = m /\ y.queue = q /\ y.uid = v
      /\ y.mine = sync[s].mine /\ y.old = sync[s].old
  BY <1>2, ThreadTyped DEF SyncRec, PC
<1> HIDE DEF y
<1>6. Becomes(s, y)
  BY <1>4, <1>5, Replaced
<1>7. Becomes(s, Local(s, label, m, q, v, sync[s].mine, sync[s].old))
  BY <1>5, <1>6, FieldsOf, ThreadTyped DEF Local
<1> QED
  BY <1>1, <1>7 DEF q, v, m, u

\* The thread that is done with a document.
LEMMA ToRecordMove ==
  ASSUME TypeOK, NEW s \in Syncs, ToRecord(s), created' = created
  PROVE  Becomes(s, Local(s, "record", sync[s].max, sync[s].queue, sync[s].uid, 0, 0))
<1> DEFINE y == [sync[s] EXCEPT !.pc = "record", !.mine = 0, !.old = 0]
<1>1. sync' = [sync EXCEPT ![s] = y]
  BY DEF ToRecord
<1>2. /\ y \in SyncRec(created) /\ y.pc = "record" /\ y.from = sync[s].from
      /\ y.max = sync[s].max /\ y.queue = sync[s].queue /\ y.uid = sync[s].uid
      /\ y.mine = 0 /\ y.old = 0
  BY ThreadTyped DEF SyncRec, PC
<1> HIDE DEF y
<1>3. Becomes(s, y)
  BY <1>1, <1>2, Replaced
<1> QED
  BY <1>2, <1>3, FieldsOf, ThreadTyped DEF Local

\* The thread that has stored a new document.
LEMMA IngestMove ==
  ASSUME TypeOK, NEW s \in Syncs, Ingest(s), Doc(s) \in Documents \ Present
  PROVE  /\ Becomes(s, Local(s, "process", sync[s].max, sync[s].queue, sync[s].uid,
                             created + 1, sync[s].old))
         /\ created' = created + 1
<1> DEFINE m == created + 1
           y == [sync[s] EXCEPT !.pc = "process", !.mine = m]
<1>1. sync' = [sync EXCEPT ![s].pc = "process", ![s].mine = m] /\ created' = m
  BY DEF Ingest
<1>2. m \in Nat /\ created <= m /\ m \in 0..m
  BY ThreadTyped
<1> HIDE DEF m
<1>3. sync' = [sync EXCEPT ![s] = y]
  BY <1>1 DEF TypeOK
<1>4. sync[s] \in SyncRec(m)
  BY <1>2, ThreadTyped, SyncRoom
<1>5. /\ y \in SyncRec(m) /\ y.pc = "process" /\ y.from = sync[s].from
      /\ y.max = sync[s].max /\ y.queue = sync[s].queue /\ y.uid = sync[s].uid
      /\ y.mine = m /\ y.old = sync[s].old
  BY <1>2, <1>4 DEF SyncRec, PC
<1> HIDE DEF y
<1> QED
  BY <1>1, <1>2, <1>3, <1>5, FieldsOf, Assigned DEF Local, m

\* The thread whose document is verified.
LEMMA ProcessMove ==
  ASSUME TypeOK, NEW s \in Syncs, Process(s)
  PROVE  Becomes(s, Local(s, "filter", sync[s].max, sync[s].queue, sync[s].uid,
                          sync[s].mine, sync[s].old))
<1> DEFINE y == [sync[s] EXCEPT !.pc = "filter"]
<1>1. sync' = [sync EXCEPT ![s].pc = "filter"] /\ created' = created
  BY DEF Process, Goto
<1>2. sync' = [sync EXCEPT ![s] = y]
  BY <1>1
<1>3. /\ y \in SyncRec(created) /\ y.pc = "filter" /\ y.from = sync[s].from
      /\ y.max = sync[s].max /\ y.queue = sync[s].queue /\ y.uid = sync[s].uid
      /\ y.mine = sync[s].mine /\ y.old = sync[s].old
  BY ThreadTyped DEF SyncRec, PC
<1> HIDE DEF y
<1>4. Becomes(s, y)
  BY <1>1, <1>2, <1>3, Replaced
<1> QED
  BY <1>3, <1>4, FieldsOf, ThreadTyped DEF Local

\* The thread that has recorded its message.
LEMMA RecordMove ==
  ASSUME TypeOK, NEW s \in Syncs, Record(s)
  PROVE  Becomes(s, Local(s, "next", sync[s].max, sync[s].queue, 0,
                          sync[s].mine, sync[s].old))
<1> DEFINE y == [sync[s] EXCEPT !.pc = "next", !.uid = 0]
<1>1. sync' = [sync EXCEPT ![s].pc = "next", ![s].uid = 0] /\ created' = created
  BY DEF Record, Ledger
<1>2. sync' = [sync EXCEPT ![s] = y]
  BY <1>1 DEF TypeOK
<1>3. /\ y \in SyncRec(created) /\ y.pc = "next" /\ y.from = sync[s].from
      /\ y.max = sync[s].max /\ y.queue = sync[s].queue /\ y.uid = 0
      /\ y.mine = sync[s].mine /\ y.old = sync[s].old
  BY ThreadTyped DEF SyncRec, PC
<1> HIDE DEF y
<1>4. Becomes(s, y)
  BY <1>1, <1>2, <1>3, Replaced
<1> QED
  BY <1>3, <1>4, FieldsOf, ThreadTyped DEF Local

\* The thread that begins.
LEMMA StartMove ==
  ASSUME TypeOK, NEW s \in Syncs, Start(s)
  PROVE  Becomes(s, [pc |-> "search", from |-> lastUid, max |-> lastUid, queue |-> {},
                     uid |-> 0, mine |-> 0, old |-> 0])
<1> DEFINE y == [pc |-> "search", from |-> lastUid, max |-> lastUid, queue |-> {},
                 uid |-> 0, mine |-> 0, old |-> 0]
<1>1. sync' = [sync EXCEPT ![s] = y] /\ created' = created
  <2> DEFINE z == [Idle EXCEPT !.pc = "search", !.from = lastUid, !.max = lastUid]
  <2>1. Idle \in SyncRec(created) /\ lastUid \in 0..N
    BY ThreadTyped DEF Idle, SyncRec, PC, TypeOK
  <2>2. /\ z \in SyncRec(created) /\ z.pc = "search" /\ z.from = lastUid /\ z.max = lastUid
        /\ z.queue = Idle.queue /\ z.uid = Idle.uid /\ z.mine = Idle.mine /\ z.old = Idle.old
    BY <2>1 DEF SyncRec, PC
  <2>3. sync' = [sync EXCEPT ![s] = z] /\ created' = created
    BY DEF Start, Ledger
  <2> HIDE DEF z
  <2> QED
    BY <2>2, <2>3, FieldsOf, ThreadTyped DEF Idle
<1>2. y \in SyncRec(created)
  BY ThreadTyped DEF SyncRec, PC, TypeOK
<1> HIDE DEF y
<1> QED
  BY <1>1, <1>2, Replaced DEF y

\* The thread that ends, or goes on to the other mailbox.
LEMMA RestMove ==
  ASSUME TypeOK, NEW s \in Syncs, Stop(s) \/ GoOn(s), created' = created
  PROVE  \E r \in Resting : Becomes(s, r)
<1>1. PICK r \in Resting : sync' = [sync EXCEPT ![s] = r]
  BY DEF Stop, GoOn, Resting
<1>2. r \in SyncRec(created)
  BY ThreadTyped DEF Resting, Idle, SyncRec, PC
<1> QED
  BY <1>1, <1>2, Replaced

\* The thread that releases a document remembers the original.
LEMMA ReleaseMove ==
  ASSUME MailInv, NEW s \in Syncs, Release(s)
  PROVE  Becomes(s, Local(s, "replace", sync[s].max, sync[s].queue, sync[s].uid,
                          sync[s].mine, row[row[Doc(s)].dup].id))
<1> DEFINE o == row[row[Doc(s)].dup].id
           y == [sync[s] EXCEPT !.pc = "replace", !.old = o]
<1>1. sync' = [sync EXCEPT ![s].pc = "replace", ![s].old = o] /\ created' = created
  BY DEF Release
<1>2. o \in 0..created
  <2>1. Doc(s) \in Present /\ row[Doc(s)].dup # NoDocument
    BY MailAssumption DEF Release, InTable
  <2>2. row[Doc(s)].dup \in Present
    BY <2>1 DEF MailInv, RowInv, Twins
  <2>3. created \in Nat /\ row[row[Doc(s)].dup].id \in 1..created
    BY <2>2 DEF MailInv, RowInv, TypeOK
  <2> QED
    BY <2>3
<1> HIDE DEF o
<1>3. sync' = [sync EXCEPT ![s] = y]
  BY <1>1 DEF MailInv, TypeOK
<1>4. /\ y \in SyncRec(created) /\ y.pc = "replace" /\ y.from = sync[s].from
      /\ y.max = sync[s].max /\ y.queue = sync[s].queue /\ y.uid = sync[s].uid
      /\ y.mine = sync[s].mine /\ y.old = o
  BY <1>2, ThreadTyped DEF MailInv, SyncRec, PC
<1> HIDE DEF y
<1>5. Becomes(s, y)
  BY <1>1, <1>3, <1>4, Replaced DEF MailInv
<1> QED
  BY <1>4, <1>5, FieldsOf, ThreadTyped DEF Local, MailInv, o

-----------------------------------------------------------------------------
(***************************************************************************)
(* The kinds of steps, and what they do to the rows.                         *)
(***************************************************************************)

\* The filters let the document in hand pass, as the only or the better copy.
Passes(s) == Keep(s) \/ Release(s)

\* A step that leaves the rows alone: by what it does to the threads.
RowsStay ==
    /\ row' = row /\ created' = created
    /\ \/ \E s \in Syncs : \/ Start(s) \/ Search(s) \/ Record(s)
                           \/ Stop(s) \/ GoOn(s) \/ (ToRecord(s) /\ sync[s].pc \in AtHand)
                           \/ \E label \in {"next", "ingest"} :
                                 sync[s].queue # {} /\ Advance(s, label)
                           \/ Process(s) /\ ~InTable(s)
       \/ Crash
       \/ sync' = sync

\* A step that deletes a row: with the filters of a sync, or by the user.
RowGoes ==
    /\ created' = created
    /\ \/ \E s \in Syncs : /\ DiscardFiltered(s) \/ Replace(s)
                           /\ ToRecord(s) /\ sync[s].pc \in AtHand
       \/ sync' = sync
    /\ \E x \in Present : row' = Without(x)

\* Every step is of one of these kinds.
LEMMA StepKinds ==
  ASSUME [Next]_vars
  PROVE  \/ RowsStay
         \/ RowGoes
         \/ \E s \in Syncs : Ingest(s) /\ Doc(s) \in Documents \ Present
         \/ \E s \in Syncs : Process(s) /\ InTable(s)
         \/ \E s \in Syncs : Passes(s)
<1>1. ASSUME Scan \/ \E s \in Syncs : CollectNow(s) PROVE RowsStay
  <2>1. CASE \E s \in Syncs : Start(s)
    BY <2>1 DEF RowsStay, Start, Ledger
  <2>2. CASE ~\E s \in Syncs : Start(s)
    BY <1>1, <2>2, MailAssumption DEF RowsStay, Scan, CollectNow, Ledger
  <2> QED
    BY <2>1, <2>2
<1>2. ASSUME NEW s \in Syncs,
             \/ ConnectFails(s) \/ FilterStale(s) \/ RecordCollides(s) \/ Finish(s)
             \/ MailboxGone(s) \/ CollectLater(s)
      PROVE  RowsStay
  BY <1>2 DEF RowsStay, ConnectFails, FilterStale, RecordCollides, Finish, MailboxGone,
              CollectLater, Ledger
<1>3. ASSUME NEW s \in Syncs, Search(s) \/ Record(s) PROVE RowsStay
  BY <1>3 DEF RowsStay, Search, Record, Ledger
<1>4. ASSUME NEW s \in Syncs, Skip(s) \/ Fetch(s) \/ FetchFails(s) PROVE RowsStay
  BY <1>4 DEF RowsStay, Skip, Fetch, FetchFails, NextIsNew, Ledger
<1>5. ASSUME NEW s \in Syncs,
             \/ IngestRefused(s) \/ FilterGone(s) \/ ImportFails(s)
             \/ (Ingest(s) /\ Doc(s) \notin Documents \ Present)
      PROVE  RowsStay
  BY <1>5 DEF RowsStay, IngestRefused, FilterGone, ImportFails, Ingest, Ledger, At, AtHand
<1>6. ASSUME NEW s \in Syncs, Process(s) /\ ~InTable(s) PROVE RowsStay
  BY <1>6 DEF RowsStay, Process
<1>7. ASSUME NEW s \in Syncs, DiscardFiltered(s) PROVE RowGoes
  BY <1>7 DEF RowGoes, DiscardFiltered, InTable, At, AtHand
<1>8. ASSUME NEW s \in Syncs, Replace(s) PROVE RowsStay \/ RowGoes
  <2>1. CASE \E d \in Present : row[d].id = sync[s].old
    <3> DEFINE x == CHOOSE d \in Present : row[d].id = sync[s].old
    <3>1. x \in Present /\ row' = Without(x)
      BY <1>8, <2>1 DEF Replace
    <3> QED
      BY <1>8, <3>1 DEF RowGoes, Replace, At, AtHand
  <2>2. CASE ~\E d \in Present : row[d].id = sync[s].old
    BY <1>8, <2>2 DEF RowsStay, Replace, At, AtHand
  <2> QED
    BY <2>1, <2>2
<1>9. ASSUME NEW d \in Documents, UserDelete(d) PROVE RowGoes
  BY <1>9 DEF RowGoes, UserDelete
<1>10. ASSUME Deliver \/ DeliverLater \/ Toggle \/ Drop \/ Crash \/ UNCHANGED vars PROVE RowsStay
  BY <1>10 DEF RowsStay, Deliver, DeliverLater, Toggle, Drop, Crash, vars, Ledger
<1> QED
  BY <1>1, <1>2, <1>3, <1>4, <1>5, <1>6, <1>7, <1>8, <1>9, <1>10 DEF Next, Step, Passes

\* A new document: its id is the next one and it has no result.
LEMMA NewDocument ==
  ASSUME TypeOK, NEW s \in Syncs, Ingest(s), Doc(s) \in Documents \ Present
  PROVE  /\ row' \in [Documents -> Row \cup {NoRow}] /\ Present' = Present \cup {Doc(s)}
         /\ row'[Doc(s)] = [id |-> created + 1, result |-> "raw", dup |-> NoDocument,
                            kept |-> FALSE]
         /\ \A d \in Present : row'[d] = row[d] /\ d # Doc(s)
<1> DEFINE a == [id |-> created + 1, result |-> "raw", dup |-> NoDocument, kept |-> FALSE]
           d == Doc(s)
<1>1. a \in Row /\ row' = [row EXCEPT ![d] = a]
  BY ThreadTyped DEF Ingest, Row
<1> HIDE DEF a, d
<1>2. d \in Documents /\ d \notin Present
  BY DEF d
<1>3. /\ row' \in [Documents -> Row \cup {NoRow}] /\ Present' = Present \cup {d}
      /\ row'[d] = a /\ \A e \in Documents \ {d} : row'[e] = row[e]
  BY <1>1, <1>2, WrittenRow
<1>4. Present \subseteq Documents
  BY DEF Present
<1> QED
  BY <1>2, <1>3, <1>4 DEF a, d

\* A verification changes the row of the document in hand.
LEMMA ProcessedRow ==
  ASSUME MailInv, NEW s \in Syncs, Process(s), InTable(s)
  PROVE  /\ row' \in [Documents -> Row \cup {NoRow}] /\ Present' = Present /\ created' = created
         /\ Doc(s) \in Present /\ row[Doc(s)].result = "raw" /\ ~row[Doc(s)].kept
         /\ \A d \in Present \ {Doc(s)} : row'[d] = row[d]
         /\ row'[Doc(s)].id = row[Doc(s)].id /\ ~row'[Doc(s)].kept
         /\ row'[Doc(s)].result \in {"blank", "review", "verified"}
         /\ IF row'[Doc(s)].result = "blank" \/ Twins(Doc(s)) = {}
            THEN row'[Doc(s)].dup = NoDocument
            ELSE row'[Doc(s)].dup \in Twins(Doc(s))
         /\ proved' = IF row'[Doc(s)].result = "verified" THEN proved \cup {Number[Doc(s)]}
                      ELSE proved
<1> DEFINE d == Doc(s)
<1>1. /\ d \in Present /\ d \in Documents /\ row[d] \in Row /\ row[d].result = "raw"
      /\ ~row[d].kept /\ At(s, "process")
  <2>1. At(s, "process") /\ d \in Present
    BY DEF Process, InTable
  <2>2. row[d].result = "raw"
    BY <2>1 DEF MailInv, SyncInv
  <2> QED
    BY <2>1, <2>2 DEF MailInv, TypeOK, RowInv, Present, Shown
<1>2. PICK r \in {"blank", "review", "verified"} :
        /\ row' = [row EXCEPT ![d] =
                    [row[d] EXCEPT !.result = r,
                                   !.dup = IF r = "blank" THEN NoDocument ELSE Original(d)]]
        /\ proved' = IF r = "verified" THEN proved \cup {Number[d]} ELSE proved
  BY <1>1 DEF Process, MailInv, TypeOK
<1> DEFINE o == IF r = "blank" THEN NoDocument ELSE Original(d)
           a == [row[d] EXCEPT !.result = r, !.dup = o]
<1>3. IF r = "blank" \/ Twins(d) = {} THEN o = NoDocument ELSE o \in Twins(d)
  BY <1>1, OriginalIsTwin
<1>4. Twins(d) \subseteq Documents /\ o \in Documents \cup {NoDocument}
  BY <1>3 DEF Twins, Present
<1>5. row' = [row EXCEPT ![d] = a] /\ created' = created
  BY <1>2 DEF Process
<1> HIDE DEF o, d
<1>6. a \in Row /\ a.id = row[d].id /\ a.kept = row[d].kept /\ a.result = r /\ a.dup = o
  BY <1>1, <1>4 DEF Row
<1> HIDE DEF a
<1>7. /\ row' \in [Documents -> Row \cup {NoRow}] /\ Present' = Present \cup {d}
      /\ row'[d] = a /\ \A e \in Documents \ {d} : row'[e] = row[e]
  BY <1>1, <1>5, <1>6, WrittenRow DEF MailInv
<1>8. Present \subseteq Documents
  BY DEF Present
<1> QED
  BY <1>1, <1>2, <1>3, <1>5, <1>6, <1>7, <1>8 DEF d

\* A document passes: as the only copy, or as a PDF that is released from the
\* copy it is going to replace.
LEMMA PassedRow ==
  ASSUME MailInv, NEW s \in Syncs, Passes(s)
  PROVE  /\ row' \in [Documents -> Row \cup {NoRow}] /\ Present' = Present /\ created' = created
         /\ Doc(s) \in Present /\ At(s, "filter") /\ InTable(s)
         /\ \A d \in Present \ {Doc(s)} : row'[d] = row[d]
         /\ row'[Doc(s)].id = row[Doc(s)].id /\ row'[Doc(s)].kept
         /\ row'[Doc(s)].result = row[Doc(s)].result /\ row[Doc(s)].result \in Shown
         /\ row'[Doc(s)].dup = NoDocument
         /\ proved' = proved
<1> DEFINE d == Doc(s)
           a == [row[d] EXCEPT !.dup = NoDocument, !.kept = TRUE]
<1>1. /\ d \in Present /\ At(s, "filter") /\ InTable(s) /\ row[d].result \in Shown
      /\ created' = created /\ proved' = proved
  BY DEF Passes, Keep, Release, InTable, Shown, History
<1>2. d \in Documents /\ row[d] \in Row
  BY <1>1 DEF MailInv, TypeOK, Present
<1> HIDE DEF d
<1>3. /\ a \in Row /\ a.id = row[d].id /\ a.result = row[d].result
      /\ a.dup = NoDocument /\ a.kept = TRUE
  BY <1>2 DEF Row
<1>4. \/ row' = [row EXCEPT ![d] = a]
      \/ /\ row[d].dup = NoDocument
         /\ row' = [row EXCEPT ![d] = [row[d] EXCEPT !.kept = TRUE]]
  <2>1. CASE Release(s)
    BY <2>1 DEF Release, d
  <2>2. CASE Keep(s)
    BY <1>2, <2>2 DEF Keep, d
  <2> QED
    BY <2>1, <2>2 DEF Passes
<1> HIDE DEF a
<1>5. \E b \in Row : /\ row' = [row EXCEPT ![d] = b] /\ b.id = row[d].id
                     /\ b.result = row[d].result /\ b.dup = NoDocument /\ b.kept = TRUE
  <2>1. CASE row' = [row EXCEPT ![d] = a]
    BY <1>3, <2>1
  <2>2. CASE /\ row[d].dup = NoDocument
             /\ row' = [row EXCEPT ![d] = [row[d] EXCEPT !.kept = TRUE]]
    <3> DEFINE b == [row[d] EXCEPT !.kept = TRUE]
    <3>1. /\ b \in Row /\ b.id = row[d].id /\ b.result = row[d].result
          /\ b.dup = NoDocument /\ b.kept = TRUE
      BY <1>2, <2>2 DEF Row
    <3>2. row' = [row EXCEPT ![d] = b]
      BY <2>2
    <3> HIDE DEF b
    <3> QED
      BY <3>1, <3>2
  <2> QED
    BY <1>4, <2>1, <2>2
<1>6. PICK b \in Row : /\ row' = [row EXCEPT ![d] = b] /\ b.id = row[d].id
                       /\ b.result = row[d].result /\ b.dup = NoDocument /\ b.kept = TRUE
  BY <1>5
<1>7. /\ row' \in [Documents -> Row \cup {NoRow}] /\ Present' = Present \cup {d}
      /\ row'[d] = b /\ \A e \in Documents \ {d} : row'[e] = row[e]
  BY <1>2, <1>6, WrittenRow DEF MailInv
<1>8. Present \subseteq Documents
  BY DEF Present
<1> QED
  BY <1>1, <1>6, <1>7, <1>8 DEF d

\* What a step leaves of the locals of a thread.
LEMMA ThreadKinds ==
  ASSUME MailInv, [Next]_vars
  PROVE  /\ sync' \in [Syncs -> SyncRec(created')]
         /\ \/ \A t \in Syncs : sync'[t] = Idle
            \/ \E s \in Syncs : \A t \in Syncs \ {s} : sync'[t] = sync[t]
         /\ \A t \in Syncs :
               \/ sync'[t] = sync[t]
               \/ /\ sync'[t].mine \in {0, sync[t].mine} /\ sync'[t].pc # "process"
                  /\ sync'[t].pc = "search" => /\ sync'[t].queue = {} /\ sync'[t].uid = 0
                                               /\ sync'[t].max = sync'[t].from
                  /\ sync'[t].pc \in AtHand => \/ sync'[t].uid \in Uid
                                               \/ /\ sync[t].pc \in AtHand
                                                  /\ sync'[t].uid = sync[t].uid
               \/ /\ Ingest(t) /\ Doc(t) \in Documents \ Present
                  /\ sync'[t].pc = "process" /\ sync'[t].mine = created + 1
                  /\ sync'[t].uid = sync[t].uid
<1>1. TypeOK /\ sync \in [Syncs -> SyncRec(created)]
  BY DEF MailInv, TypeOK, SyncRec
<1> DEFINE Quiet(new, old) ==
              /\ new.mine \in {0, old.mine} /\ new.pc # "process"
              /\ new.pc = "search" => new.queue = {} /\ new.uid = 0 /\ new.max = new.from
              /\ new.pc \in AtHand => \/ new.uid \in Uid
                                       \/ (old.pc \in AtHand /\ new.uid = old.uid)
<1>2. ASSUME NEW s \in Syncs, NEW new, Becomes(s, new), Quiet(new, sync[s])
      PROVE  /\ sync' \in [Syncs -> SyncRec(created')]
             /\ \E q \in Syncs : \A t \in Syncs \ {q} : sync'[t] = sync[t]
             /\ \A t \in Syncs : sync'[t] = sync[t] \/ Quiet(sync'[t], sync[t])
  BY <1>2 DEF Becomes
<1>3. \A r \in Resting : \A s \in Syncs : Quiet(r, sync[s])
  BY DEF Resting, Idle, AtHand
<1>4. ASSUME NEW s \in Syncs, created' = created,
             \/ Start(s) \/ Search(s) \/ Record(s) \/ Stop(s) \/ GoOn(s)
             \/ ToRecord(s) /\ sync[s].pc \in AtHand
             \/ \E label \in {"next", "ingest"} : sync[s].queue # {} /\ Advance(s, label)
             \/ Process(s) \/ Release(s)
      PROVE  \E new : Becomes(s, new) /\ Quiet(new, sync[s])
  <2>1. CASE Start(s)
    BY <1>1, <2>1, StartMove DEF AtHand
  <2>2. CASE Search(s)
    BY <1>1, <2>2, SearchMove, LocalFields DEF AtHand
  <2>3. CASE Record(s)
    BY <1>1, <2>3, RecordMove, LocalFields DEF AtHand
  <2>4. CASE Stop(s) \/ GoOn(s)
    BY <1>1, <1>3, <1>4, <2>4, RestMove, Zenon
  <2>5. CASE ToRecord(s) /\ sync[s].pc \in AtHand
    BY <1>1, <1>4, <2>5, ToRecordMove, LocalFields
  <2>6. CASE \E label \in {"next", "ingest"} : sync[s].queue # {} /\ Advance(s, label)
    <3>1. PICK label \in {"next", "ingest"} : sync[s].queue # {} /\ Advance(s, label)
      BY <2>6
    <3>2. PICK new : /\ Becomes(s, new) /\ new.mine = sync[s].mine /\ new.pc = label
                     /\ label # "next" => new.uid \in Uid
      <4>1. label \in PC
        BY DEF PC
      <4> DEFINE uid == IF label = "next" THEN 0 ELSE Upcoming(s)
      <4>2. /\ \E max, queue :
                   Becomes(s, Local(s, label, max, queue, uid, sync[s].mine, sync[s].old))
            /\ Upcoming(s) \in sync[s].queue
        BY <1>1, <1>4, <3>1, <4>1, AdvanceMove, Zenon
      <4>3. label # "next" => uid \in Uid
        BY <1>1, <4>2, ThreadTyped
      <4> HIDE DEF uid
      <4> QED
        BY <4>2, <4>3, LocalFields
    <3>3. Quiet(new, sync[s])
      <4>1. /\ new.pc # "search" /\ new.pc # "process"
            /\ new.pc \in AtHand => label # "next"
        BY <3>2 DEF AtHand
      <4> QED
        BY <3>2, <4>1
    <3> QED
      BY <3>2, <3>3
  <2>7. CASE Process(s)
    <3>1. PICK new : /\ Becomes(s, new) /\ new.mine = sync[s].mine /\ new.pc = "filter"
                     /\ new.uid = sync[s].uid
      BY <1>1, <2>7, ProcessMove, LocalFields
    <3>2. sync[s].pc \in AtHand
      BY <2>7 DEF Process, At, AtHand
    <3> QED
      BY <3>1, <3>2
  <2>8. CASE Release(s)
    <3>1. PICK new : /\ Becomes(s, new) /\ new.mine = sync[s].mine /\ new.pc = "replace"
                     /\ new.uid = sync[s].uid
      BY <2>8, ReleaseMove, LocalFields
    <3>2. sync[s].pc \in AtHand
      BY <2>8 DEF Release, At, AtHand
    <3> QED
      BY <3>1, <3>2
  <2> QED
    BY <1>4, <2>1, <2>2, <2>3, <2>4, <2>5, <2>6, <2>7, <2>8
<1>5. ASSUME NEW s \in Syncs, created' = created,
             \/ Start(s) \/ Search(s) \/ Record(s) \/ Stop(s) \/ GoOn(s)
             \/ ToRecord(s) /\ sync[s].pc \in AtHand
             \/ \E label \in {"next", "ingest"} : sync[s].queue # {} /\ Advance(s, label)
             \/ Process(s) \/ Release(s)
      PROVE  /\ sync' \in [Syncs -> SyncRec(created')]
             /\ \E q \in Syncs : \A t \in Syncs \ {q} : sync'[t] = sync[t]
             /\ \A t \in Syncs : sync'[t] = sync[t] \/ Quiet(sync'[t], sync[t])
  <2>1. PICK new : Becomes(s, new) /\ Quiet(new, sync[s])
    BY <1>4, <1>5
  <2> QED
    BY <1>2, <2>1, Zenon
<1>6. CASE RowsStay
  <2>1. CASE Crash
    <3>1. sync' = [s \in Syncs |-> Idle] /\ created' = created
      BY <2>1 DEF Crash, Ledger
    <3>2. Idle \in SyncRec(created) /\ Idle.mine = 0 /\ Idle.pc = "idle"
      <4>1. created \in Nat /\ N \in Nat
        BY <1>1, MailAssumption DEF TypeOK
      <4> QED
        BY <4>1 DEF Idle, SyncRec, PC
    <3>3. \A t \in Syncs : Quiet(Idle, sync[t])
      BY <1>3 DEF Resting
    <3> QED
      BY <1>6, <3>1, <3>2, <3>3
  <2>2. CASE sync' = sync
    BY <1>1, <1>6, <2>2, MailAssumption DEF RowsStay
  <2> QED
    BY <1>5, <1>6, <2>1, <2>2 DEF RowsStay
<1>7. CASE RowGoes
  <2>1. CASE sync' = sync
    BY <1>1, <1>7, <2>1, MailAssumption DEF RowGoes
  <2> QED
    BY <1>5, <1>7, <2>1 DEF RowGoes
<1>8. CASE \E s \in Syncs : Ingest(s) /\ Doc(s) \in Documents \ Present
  <2>1. PICK s \in Syncs : Ingest(s) /\ Doc(s) \in Documents \ Present
    BY <1>8
  <2>2. PICK new : /\ Becomes(s, new) /\ new.pc = "process" /\ new.mine = created + 1
                   /\ new.uid = sync[s].uid
    BY <1>1, <2>1, IngestMove, LocalFields
  <2> QED
    BY <2>1, <2>2 DEF Becomes
<1>9. CASE \E s \in Syncs : Process(s) /\ InTable(s)
  <2>1. \A s \in Syncs : Process(s) => created' = created
    BY DEF Process
  <2> QED
    BY <1>5, <1>9, <2>1
<1>10. CASE \E s \in Syncs : Passes(s)
  <2>1. \A s \in Syncs : Passes(s) => /\ created' = created
                                          /\ \/ Release(s)
                                             \/ ToRecord(s) /\ sync[s].pc \in AtHand
    BY DEF Passes, Keep, Release, At, AtHand
  <2> QED
    BY <1>5, <1>10, <2>1
<1> QED
  BY <1>6, <1>7, <1>8, <1>9, <1>10, StepKinds

\* The table stays what the first layer says.
LEMMA RowStep ==
  ASSUME MailInv, [Next]_vars
  PROVE  /\ row' \in [Documents -> Row \cup {NoRow}] /\ RowInv' /\ created' \in Nat
         /\ created <= created'
<1>1. /\ TypeOK /\ created \in Nat /\ row \in [Documents -> Row \cup {NoRow}]
      /\ \A d \in Present : d \in Documents /\ row[d] \in Row /\ row[d].id \in 1..created
      /\ \A d, e \in Present : row[d].id = row[e].id => d = e
      /\ \A d \in Present : row[d].dup # NoDocument => row[d].dup \in Twins(d)
      /\ \A d \in Present : row[d].kept => row[d].result \in Shown
  BY DEF MailInv, TypeOK, RowInv, Present
<1>2. CASE RowsStay
  BY <1>1, <1>2 DEF RowsStay, RowInv, Present, Twins
<1>3. CASE RowGoes
  <2>1. PICK x \in Present : row' = Without(x)
    BY <1>3 DEF RowGoes
  <2>2. /\ created' = created /\ row' \in [Documents -> Row \cup {NoRow}]
        /\ Present' = Present \ {x}
        /\ \A d \in Present \ {x} :
               /\ row'[d].id = row[d].id /\ row'[d].result = row[d].result
               /\ row'[d].kept = row[d].kept
               /\ row'[d].dup = IF row[d].dup = x THEN NoDocument ELSE row[d].dup
    BY <1>1, <1>3, <2>1, WithoutRows DEF RowGoes
  <2> QED
    BY <1>1, <2>2 DEF RowInv, Twins
<1>4. ASSUME NEW s \in Syncs, Ingest(s), Doc(s) \in Documents \ Present
      PROVE  /\ row' \in [Documents -> Row \cup {NoRow}] /\ RowInv' /\ created' = created + 1
  <2> DEFINE d == Doc(s)
  <2>1. /\ row' \in [Documents -> Row \cup {NoRow}] /\ Present' = Present \cup {d}
        /\ row'[d].id = created + 1 /\ row'[d].dup = NoDocument /\ row'[d].kept = FALSE
        /\ \A e \in Present : row'[e] = row[e] /\ e # d
        /\ created' = created + 1
    BY <1>1, <1>4, NewDocument, IngestMove
  <2> HIDE DEF d
  <2> QED
    BY <1>1, <2>1 DEF RowInv, Twins
<1>5. ASSUME NEW s \in Syncs, Process(s), InTable(s)
      PROVE  /\ row' \in [Documents -> Row \cup {NoRow}] /\ RowInv' /\ created' = created
  <2> DEFINE d == Doc(s)
  <2>1. /\ row' \in [Documents -> Row \cup {NoRow}] /\ Present' = Present /\ created' = created
        /\ d \in Present /\ row[d].result = "raw"
        /\ \A e \in Present \ {d} : row'[e] = row[e]
        /\ row'[d].id = row[d].id /\ ~row'[d].kept
        /\ row'[d].dup = NoDocument \/ row'[d].dup \in Twins(d)
    BY <1>5, ProcessedRow
  <2> HIDE DEF d
  <2>2. \A e \in Present : row[e].dup # d
    <3> SUFFICES ASSUME NEW e \in Present, row[e].dup = d PROVE FALSE
      OBVIOUS
    <3>1. d \in Twins(e)
      BY <1>1, <2>1, MailAssumption
    <3> QED
      BY <2>1, <3>1 DEF Twins
  <2>3. \A e \in Present : Twins(e) \ {d} \subseteq Twins(e)'
    BY <2>1 DEF Twins
  <2>4. d \notin Twins(d)
    BY DEF Twins
  <2>5. \A e \in Present' : row'[e].dup # NoDocument => row'[e].dup \in Twins(e)'
    BY <1>1, <2>1, <2>2, <2>3, <2>4
  <2> QED
    BY <1>1, <2>1, <2>5 DEF RowInv
<1>6. ASSUME NEW s \in Syncs, Passes(s)
      PROVE  /\ row' \in [Documents -> Row \cup {NoRow}] /\ RowInv' /\ created' = created
  <2> DEFINE d == Doc(s)
  <2>1. /\ row' \in [Documents -> Row \cup {NoRow}] /\ Present' = Present /\ created' = created
        /\ d \in Present
        /\ \A e \in Present \ {d} : row'[e] = row[e]
        /\ row'[d].id = row[d].id /\ row'[d].kept
        /\ row'[d].result = row[d].result /\ row[d].result \in Shown
        /\ row'[d].dup = NoDocument
    BY <1>6, PassedRow
  <2> HIDE DEF d
  <2>2. \A e \in Present : Twins(e) \subseteq Twins(e)'
    BY <2>1 DEF Twins
  <2>3. \A e \in Present' : row'[e].dup # NoDocument => row'[e].dup \in Twins(e)'
    BY <1>1, <2>1, <2>2
  <2> QED
    BY <1>1, <2>1, <2>3 DEF RowInv
<1> QED
  BY <1>1, <1>2, <1>3, <1>4, <1>5, <1>6, StepKinds DEF RowsStay, RowGoes

\* What a step leaves of the row of a thread's document.
LEMMA HeldRows ==
  ASSUME MailInv, [Next]_vars, NEW t \in Syncs, sync'[t].uid = sync[t].uid,
         sync'[t].mine = sync[t].mine, InTable(t)', created' = created \/ sync'[t].mine <= created
  PROVE  InTable(t)
<1>1. /\ TypeOK /\ created \in Nat /\ sync[t].mine \in 0..created
      /\ \A d \in Present : row[d].id \in 1..created
      /\ Doc(t)' = Doc(t) /\ Doc(t) \in Present' /\ row'[Doc(t)].id = sync[t].mine
  BY DEF MailInv, TypeOK, RowInv, InTable, Doc
<1>2. CASE RowsStay
  BY <1>1, <1>2 DEF RowsStay, InTable, Present
<1>3. CASE RowGoes
  <2>1. PICK x \in Present : row' = Without(x)
    BY <1>3 DEF RowGoes
  <2> QED
    BY <1>1, <2>1, WithoutRows DEF InTable
<1>4. ASSUME NEW s \in Syncs, Ingest(s), Doc(s) \in Documents \ Present
      PROVE  Doc(t) \in Present /\ row[Doc(t)].id = sync[t].mine
  <2>1. /\ Present' = Present \cup {Doc(s)} /\ row'[Doc(s)].id = created + 1
        /\ \A d \in Present : row'[d] = row[d]
    BY <1>1, <1>4, NewDocument
  <2>2. Doc(t) # Doc(s)
    BY <1>1, <2>1
  <2> QED
    BY <1>1, <2>1, <2>2
<1>5. ASSUME NEW s \in Syncs, (Process(s) /\ InTable(s)) \/ Passes(s)
      PROVE  Doc(t) \in Present /\ row[Doc(t)].id = sync[t].mine
  <2>1. /\ Present' = Present /\ \A d \in Present : row'[d].id = row[d].id
    <3>1. CASE Process(s) /\ InTable(s)
      BY <3>1, ProcessedRow
    <3>2. CASE Passes(s)
      BY <3>2, PassedRow
    <3> QED
      BY <1>5, <3>1, <3>2
  <2> QED
    BY <1>1, <2>1
<1> QED
  BY <1>1, <1>2, <1>3, <1>4, <1>5, StepKinds DEF InTable

\* The threads keep what the first layer says.
LEMMA SyncStep ==
  ASSUME MailInv, [Next]_vars
  PROVE  SyncInv'
<1>1. /\ TypeOK /\ created \in Nat /\ \A t \in Syncs : sync[t].mine \in 0..created
      /\ \A d \in Present : row[d].id \in 1..created
  BY DEF MailInv, TypeOK, RowInv
<1>2. ASSUME NEW t \in Syncs, sync'[t].pc = "process", InTable(t)'
      PROVE  row'[Doc(t)'].result = "raw"
  <2>1. CASE sync'[t] = sync[t]
    <3>1. InTable(t) /\ Doc(t)' = Doc(t)
      BY <1>1, <1>2, <2>1, HeldRows DEF Doc
    <3>2. /\ row[Doc(t)].result = "raw" /\ Doc(t) \in Present /\ row[Doc(t)].id = sync[t].mine
          /\ Doc(t) \in Present'
      BY <1>2, <2>1, <3>1 DEF MailInv, SyncInv, At, InTable
    <3>3. CASE RowsStay
      BY <3>1, <3>2, <3>3 DEF RowsStay
    <3>4. CASE RowGoes
      <4>1. PICK x \in Present : row' = Without(x)
        BY <3>4 DEF RowGoes
      <4> QED
        BY <1>1, <3>1, <3>2, <4>1, WithoutRows
    <3>5. ASSUME NEW s \in Syncs, Ingest(s), Doc(s) \in Documents \ Present
          PROVE  row'[Doc(t)].result = "raw"
      BY <1>1, <3>2, <3>5, NewDocument
    <3>6. ASSUME NEW s \in Syncs, Process(s), InTable(s) PROVE row'[Doc(t)].result = "raw"
      <4>1. CASE Doc(t) = Doc(s)
        <5>1. sync[s].mine = sync[t].mine /\ sync[t].mine # 0
          BY <1>1, <3>2, <3>6, <4>1 DEF InTable
        <5>2. s = t
          BY <5>1 DEF MailInv, SyncInv
        <5>3. sync'[t].pc = "filter"
          BY <1>1, <3>6, <5>2, ProcessMove, LocalFields DEF Becomes
        <5> QED
          BY <1>2, <5>3
      <4>2. CASE Doc(t) # Doc(s)
        BY <3>2, <3>6, <4>2, ProcessedRow
      <4> QED
        BY <4>1, <4>2
    <3>7. ASSUME NEW s \in Syncs, Passes(s) PROVE row'[Doc(t)].result = "raw"
      BY <3>2, <3>7, PassedRow
    <3> QED
      BY <3>1, <3>3, <3>4, <3>5, <3>6, <3>7, StepKinds
  <2>2. CASE Ingest(t) /\ Doc(t) \in Documents \ Present /\ sync'[t].uid = sync[t].uid
    <3>1. row'[Doc(t)].result = "raw" /\ Doc(t)' = Doc(t)
      BY <1>1, <2>2, NewDocument DEF Doc
    <3> QED
      BY <3>1
  <2> QED
    BY <1>2, <2>1, <2>2, ThreadKinds
<1>3. ASSUME NEW s \in Syncs, NEW t \in Syncs, sync'[s].mine # 0,
             sync'[s].mine = sync'[t].mine
      PROVE  s = t
  <2>1. \A q \in Syncs : sync'[q].mine \in {0, sync[q].mine, created + 1}
    BY ThreadKinds
  <2>2. \A q, p \in Syncs : q # p => sync'[q] = sync[q] \/ sync'[p] = sync[p] \/ sync'[q] = Idle
    BY ThreadKinds
  <2>3. Idle.mine = 0
    BY DEF Idle
  <2>4. sync[s].mine # 0 /\ sync[s].mine = sync[t].mine => s = t
    BY DEF MailInv, SyncInv
  <2> QED
    BY <1>1, <1>3, <2>1, <2>2, <2>3, <2>4
<1>4. ASSUME NEW t \in Syncs, sync'[t].pc = "search"
      PROVE  sync'[t].queue = {} /\ sync'[t].uid = 0 /\ sync'[t].max = sync'[t].from
  <2>1. CASE sync'[t] = sync[t]
    BY <1>4, <2>1 DEF MailInv, SyncInv, At
  <2> QED
    BY <1>4, <2>1, ThreadKinds
<1>5. ASSUME NEW t \in Syncs, sync'[t].pc \in AtHand PROVE sync'[t].uid \in Uid
  <2>1. \/ sync'[t] = sync[t]
        \/ sync'[t].uid \in Uid
        \/ (sync[t].pc \in AtHand /\ sync'[t].uid = sync[t].uid)
    BY <1>5, ThreadKinds DEF Ingest, At, AtHand
  <2> QED
    BY <1>5, <2>1 DEF MailInv, SyncInv
<1> QED
  BY <1>2, <1>3, <1>4, <1>5 DEF SyncInv, At

\* Cursor, records, mailbox and histories stay in range.
LEMMA MailTypesStep ==
  ASSUME MailInv, [Next]_vars
  PROVE  /\ arrived' \in 0..N /\ lastUid' \in 0..N /\ records' \subseteq Uid
         /\ box' \in {"on", "off", "gone"} /\ later' \in BOOLEAN
         /\ proved' \subseteq {Number[d] : d \in Documents}
         /\ faults' \subseteq Troubles \cup {"overflow", "overlap"}
<1>1. /\ arrived \in 0..N /\ lastUid \in 0..N /\ records \subseteq Uid
      /\ box \in {"on", "off", "gone"} /\ later \in BOOLEAN
      /\ proved \subseteq {Number[d] : d \in Documents}
      /\ faults \subseteq Troubles \cup {"overflow", "overlap"}
      /\ N \in Nat
  BY MailAssumption DEF MailInv, TypeOK
<1> DEFINE InRange ==
             /\ arrived' \in 0..N /\ lastUid' \in 0..N /\ records' \subseteq Uid
             /\ box' \in {"on", "off", "gone"} /\ later' \in BOOLEAN
             /\ proved' \subseteq {Number[d] : d \in Documents}
             /\ faults' \subseteq Troubles \cup {"overflow", "overlap"}
<1>2. ASSUME UNCHANGED <<arrived, lastUid, records, box, later, proved>>,
             faults' = faults \/ \E f \in Troubles \cup {"overflow", "overlap"} : Mark(f)
      PROVE  InRange
  BY <1>1, <1>2 DEF Mark
<1>3. ASSUME Scan \/ \E s \in Syncs : CollectNow(s) PROVE InRange
  BY <1>2, <1>3 DEF Scan, CollectNow, Start, Mail, History
<1>4. ASSUME NEW s \in Syncs,
             \/ ConnectFails(s) \/ FilterStale(s) \/ RecordCollides(s) \/ MailboxGone(s)
             \/ Search(s) \/ Skip(s) \/ Fetch(s) \/ FetchFails(s) \/ ImportFails(s)
      PROVE  InRange
  BY <1>2, <1>4 DEF ImportFails, ConnectFails, FilterStale, RecordCollides, MailboxGone,
                    Search, Skip, Fetch, FetchFails, Mail, History, Troubles
<1>5. ASSUME NEW s \in Syncs,
             \/ Ingest(s) \/ IngestRefused(s) \/ Keep(s) \/ DiscardFiltered(s) \/ Release(s)
             \/ Replace(s) \/ FilterGone(s)
      PROVE  InRange
  BY <1>2, <1>5 DEF Ingest, IngestRefused, Keep, DiscardFiltered, Release, Replace,
                    FilterGone, Mail, History
<1>6. ASSUME NEW s \in Syncs, Process(s) PROVE InRange
  <2>1. /\ UNCHANGED <<arrived, lastUid, records, box, later, faults>>
        /\ proved' \in {proved, proved \cup {Number[Doc(s)]}}
        /\ proved' = proved \/ Doc(s) \in Documents
    BY <1>6 DEF Process, InTable, Present, Mail
  <2> QED
    BY <1>1, <2>1
<1>7. ASSUME NEW s \in Syncs, Record(s) PROVE InRange
  <2>1. sync[s].uid \in Uid
    BY <1>7 DEF Record, At, MailInv, SyncInv, AtHand
  <2> QED
    BY <1>1, <1>7, <2>1 DEF Record, History
<1>8. ASSUME NEW s \in Syncs, Finish(s) \/ CollectLater(s) PROVE InRange
  <2>1. sync[s].max \in 0..N
    BY ThreadTyped DEF MailInv
  <2> QED
    BY <1>1, <1>8, <2>1 DEF Finish, CollectLater, History
<1>9. ASSUME \/ Deliver \/ DeliverLater \/ \E d \in Documents : UserDelete(d)
             \/ Toggle \/ Drop \/ Crash
      PROVE  InRange
  <2>1. faults' = faults \/ \E f \in Troubles : Mark(f)
    BY <1>9 DEF Deliver, DeliverLater, UserDelete, Toggle, Drop, Crash, History, Troubles
  <2>2. /\ arrived' = arrived \/ (arrived' = arrived + 1 /\ arrived < N)
        /\ lastUid' \in {lastUid, 0} /\ records' \in {records, {}}
        /\ box' \in {"on", "off", "gone"} /\ later' \in BOOLEAN /\ proved' = proved
    BY <1>1, <1>9 DEF Deliver, DeliverLater, UserDelete, Toggle, Drop, Crash, Mail, History
  <2>3. faults' \subseteq Troubles \cup {"overflow", "overlap"}
    BY <1>1, <2>1 DEF Mark
  <2>7. 0 \in 0..N /\ \A n \in 0..N : n + 1 \in Nat
    BY MailAssumption
  <2>4. arrived' \in 0..N
    BY <1>1, <2>2, <2>7
  <2>5. lastUid' \in 0..N
    BY <1>1, <2>2, <2>7
  <2>6. records' \subseteq Uid
    BY <1>1, <2>2
  <2> QED
    BY <1>1, <2>2, <2>3, <2>4, <2>5, <2>6
<1>10. UNCHANGED vars => InRange
  BY <1>1 DEF vars
<1> HIDE DEF InRange
<1>11. InRange
  BY <1>3, <1>4, <1>5, <1>6, <1>7, <1>8, <1>9, <1>10 DEF Next, Step
<1> QED
  BY <1>11 DEF InRange

\* The first layer holds at every step.
LEMMA MailInvStep ==
  ASSUME MailInv, [Next]_vars
  PROVE  MailInv'
<1>1. /\ row' \in [Documents -> Row \cup {NoRow}] /\ RowInv' /\ created' \in Nat
      /\ sync' \in [Syncs -> SyncRec(created')]
  BY RowStep, ThreadKinds
<1> QED
  BY <1>1, SyncStep, MailTypesStep DEF MailInv, TypeOK, SyncRec

\* So the first layer holds in every state.
LEMMA MailInvariant == Spec => []MailInv
<1>1. Init => MailInv
  <2> SUFFICES ASSUME Init PROVE MailInv
    OBVIOUS
  <2>1. Present = {} /\ N \in Nat /\ \A s \in Syncs : sync[s] = Idle
    BY MailAssumption DEF Init, Present
  <2>2. TypeOK
    <3>1. Idle \in [pc : PC, from : 0..N, max : 0..N, queue : SUBSET Uid, uid : 0..N,
                    mine : 0..created, old : 0..created]
      BY <2>1 DEF Init, Idle, PC
    <3>2. sync = [s \in Syncs |-> Idle]
      BY DEF Init
    <3>3. sync \in [Syncs -> [pc : PC, from : 0..N, max : 0..N, queue : SUBSET Uid, uid : 0..N,
                               mine : 0..created, old : 0..created]]
      BY <3>1, <3>2
    <3>4. /\ arrived \in 0..N /\ lastUid \in 0..N /\ created \in Nat /\ records \subseteq Uid
          /\ row \in [Documents -> Row \cup {NoRow}]
      BY <2>1 DEF Init
    <3>5. /\ proved \subseteq {Number[d] : d \in Documents} /\ later \in BOOLEAN
          /\ box \in {"on", "off", "gone"} /\ faults \subseteq Troubles \cup {"overflow", "overlap"}
      BY DEF Init
    <3> QED
      BY <3>3, <3>4, <3>5 DEF TypeOK
  <2> QED
    BY <2>1, <2>2 DEF MailInv, RowInv, SyncInv, At, InTable, Idle, AtHand
<1>2. MailInv /\ [Next]_vars => MailInv'
  BY MailInvStep
<1> QED
  BY <1>1, <1>2, PTL DEF Spec

\* Every variable stays in its type, whatever the mailbox, the user and the
\* network do.
THEOREM MailTypes == Spec => []TypeOK
BY MailInvariant, PTL DEF MailInv

-----------------------------------------------------------------------------
(***************************************************************************)
(* What a step leaves behind.                                                *)
(***************************************************************************)

\* A thread that takes a step leaves the locals of the others alone.
LEMMA OthersStay ==
  ASSUME TypeOK, NEW s \in Syncs, Step(s) \/ Start(s) \/ GoOn(s), NEW t \in Syncs \ {s}
  PROVE  sync'[t] = sync[t]
<1>1. CASE Start(s) \/ GoOn(s)
  BY <1>1 DEF Start, GoOn, Stop, TypeOK
<1>2. ASSUME \/ ConnectFails(s) \/ Search(s) \/ Skip(s) \/ Fetch(s) \/ FetchFails(s)
             \/ Ingest(s) \/ IngestRefused(s) \/ Process(s)
      PROVE  sync'[t] = sync[t]
  BY <1>2 DEF ConnectFails, Search, Skip, Fetch, FetchFails, NextIsNew, Advance, Ingest,
              IngestRefused, Process, Goto, ToRecord, GoOn, Stop, TypeOK
<1>3. ASSUME \/ Keep(s) \/ DiscardFiltered(s) \/ Release(s) \/ Replace(s)
             \/ FilterGone(s) \/ FilterStale(s) \/ ImportFails(s)
             \/ Record(s) \/ RecordCollides(s) \/ Finish(s) \/ MailboxGone(s) \/ CollectLater(s)
      PROVE  sync'[t] = sync[t]
  BY <1>3 DEF Keep, DiscardFiltered, Release, Replace, FilterGone, FilterStale,
              ImportFails, Record, RecordCollides, Finish, MailboxGone, CollectLater,
              ToRecord, GoOn, Stop, TypeOK
<1> QED
  BY <1>1, <1>2, <1>3 DEF Step

\* Who moves a thread: itself, or the crash.
LEMMA WhoMoves ==
  ASSUME TypeOK, [Next]_vars, NEW t \in Syncs, sync'[t] # sync[t]
  PROVE  \/ Step(t)
         \/ Start(t) /\ box # "gone"
         \/ At(t, "idle") /\ GoOn(t) /\ UNCHANGED <<Mail, Ledger, History>>
         \/ Crash
<1>1. CASE Scan
  BY <1>1, OthersStay, MailAssumption DEF Scan
<1>2. CASE \E s \in Syncs \ {Scheduler} : CollectNow(s)
  BY <1>2, OthersStay DEF CollectNow
<1>3. CASE \E s \in Syncs : Step(s)
  BY <1>3, OthersStay
<1>4. ASSUME \/ Deliver \/ DeliverLater \/ \E d \in Documents : UserDelete(d)
             \/ Toggle \/ Drop \/ UNCHANGED vars
      PROVE  FALSE
  BY <1>4 DEF Deliver, DeliverLater, UserDelete, Toggle, Drop, vars
<1> QED
  BY <1>1, <1>2, <1>3, <1>4 DEF Next

\* What got in the way stays on the record.
LEMMA FaultsGrow ==
  ASSUME [Next]_vars
  PROVE  faults \subseteq faults'
<1>1. ASSUME Scan \/ \E s \in Syncs : CollectNow(s) PROVE faults \subseteq faults'
  BY <1>1 DEF Scan, CollectNow, Start, History, Mark
<1>2. ASSUME NEW s \in Syncs, Step(s) PROVE faults \subseteq faults'
  <2>1. ASSUME \/ ConnectFails(s) \/ Search(s) \/ Skip(s) \/ Fetch(s) \/ FetchFails(s)
               \/ Ingest(s) \/ IngestRefused(s) \/ Process(s)
        PROVE  faults \subseteq faults'
    BY <2>1 DEF ConnectFails, Search, Skip, Fetch, FetchFails, NextIsNew, Ingest,
                IngestRefused, Process, History, Mark
  <2>2. ASSUME \/ Keep(s) \/ DiscardFiltered(s) \/ Release(s) \/ Replace(s)
               \/ FilterGone(s) \/ FilterStale(s) \/ ImportFails(s)
               \/ Record(s) \/ RecordCollides(s) \/ Finish(s) \/ MailboxGone(s)
               \/ CollectLater(s)
        PROVE  faults \subseteq faults'
    BY <2>2 DEF Keep, DiscardFiltered, Release, Replace, FilterGone, FilterStale,
                ImportFails, Record, RecordCollides, Finish, MailboxGone, CollectLater,
                History, Mark
  <2> QED
    BY <1>2, <2>1, <2>2 DEF Step
<1>3. ASSUME \/ Deliver \/ DeliverLater \/ \E d \in Documents : UserDelete(d)
             \/ Toggle \/ Drop \/ Crash \/ UNCHANGED vars
      PROVE  faults \subseteq faults'
  BY <1>3 DEF Deliver, DeliverLater, UserDelete, Toggle, Drop, Crash, vars, History, Mark
<1> QED
  BY <1>1, <1>2, <1>3 DEF Next

\* A row that survives a step keeps its id, and what the filters have let pass
\* stays passed; a row that appears is the document in hand.
LEMMA RowStays ==
  ASSUME MailInv, [Next]_vars, NEW d \in Present'
  PROVE  \/ /\ d \in Present /\ row'[d].id = row[d].id
            /\ row[d].kept => row'[d].kept
         \/ /\ d \notin Present /\ row'[d].id = created + 1
            /\ \E s \in Syncs : Ingest(s) /\ Doc(s) = d /\ Doc(s) \in Documents \ Present
<1>1. TypeOK
  BY DEF MailInv
<1>2. CASE RowsStay
  BY <1>2 DEF RowsStay, Present
<1>3. CASE RowGoes
  BY <1>1, <1>3, WithoutRows DEF RowGoes
<1>4. ASSUME NEW s \in Syncs, Ingest(s), Doc(s) \in Documents \ Present
      PROVE  \/ d \in Present /\ row'[d] = row[d]
             \/ d \notin Present /\ row'[d].id = created + 1 /\ Doc(s) = d
  BY <1>1, <1>4, NewDocument
<1>5. ASSUME NEW s \in Syncs, Process(s), InTable(s)
      PROVE  d \in Present /\ row'[d].id = row[d].id /\ (row[d].kept => row'[d].kept)
  BY <1>5, ProcessedRow
<1>6. ASSUME NEW s \in Syncs, Passes(s)
      PROVE  d \in Present /\ row'[d].id = row[d].id /\ (row[d].kept => row'[d].kept)
  BY <1>6, PassedRow
<1> QED
  BY <1>2, <1>3, <1>4, <1>5, <1>6, StepKinds

\* A thread at work on its own row: it stays, the verification ends, or the
\* filters decide.
LEMMA HandStep ==
  ASSUME MailInv, [Next]_vars, faults' \cap {"crash", "import"} = {}, NEW t \in Syncs,
         sync[t].pc \in {"process", "filter"}, InTable(t)
  PROVE  \/ sync'[t] = sync[t]
         \/ /\ Process(t) /\ sync'[t].pc = "filter"
            /\ sync'[t].uid = sync[t].uid /\ sync'[t].mine = sync[t].mine
         \/ Passes(t)
         \/ DiscardFiltered(t)
<1>1. TypeOK
  BY DEF MailInv
<1>2. CASE sync'[t] # sync[t]
  <2>1. ~Crash
    BY DEF Crash, Mark
  <2>2. Step(t)
    BY <1>1, <1>2, <2>1, WhoMoves DEF Start, At
  <2>3. Process(t) \/ Passes(t) \/ DiscardFiltered(t)
    BY <2>2 DEF Mark, Step, Passes, At, ConnectFails, Search, Skip, Fetch, FetchFails,
                NextIsNew, Ingest, IngestRefused, Replace, FilterGone, FilterStale,
                ImportFails, Record, RecordCollides, Finish, MailboxGone, CollectLater
  <2>4. Process(t) => /\ sync'[t].pc = "filter" /\ sync'[t].uid = sync[t].uid
                      /\ sync'[t].mine = sync[t].mine
    BY <1>1, ProcessMove, LocalFields DEF Becomes
  <2> QED
    BY <2>3, <2>4
<1> QED
  BY <1>2

\* Unless the process crashed or an import ended with an exception, every stored
\* document has passed the filters or is on its way to them, for any number of
\* overlapping syncs and whatever is deleted meanwhile.
THEOREM UnfilteredTheorem == Spec => []NothingUnfiltered
<1>1. Init => NothingUnfiltered
  BY DEF Init, NothingUnfiltered, Present
<1>2. MailInv /\ NothingUnfiltered /\ [Next]_vars => NothingUnfiltered'
  <2> SUFFICES ASSUME MailInv, NothingUnfiltered, [Next]_vars,
                      faults' \cap {"crash", "import"} = {}, NEW d \in Present', ~row'[d].kept
               PROVE  InHand(d)'
    BY DEF NothingUnfiltered
  <2>1. TypeOK /\ faults \cap {"crash", "import"} = {}
    BY FaultsGrow DEF MailInv
  <2>2. CASE d \notin Present
    <3>1. PICK s \in Syncs : Ingest(s) /\ Doc(s) = d /\ Doc(s) \in Documents \ Present
      BY <2>2, RowStays
    <3>2. row'[d].id = created + 1
      BY <2>2, RowStays
    <3>3. sync'[s].pc = "process" /\ sync'[s].uid = sync[s].uid /\ sync'[s].mine = created + 1
      BY <2>1, <3>1, IngestMove, LocalFields DEF Becomes
    <3> QED
      BY <3>1, <3>2, <3>3 DEF InHand, InTable, Doc
  <2>3. CASE d \in Present
    <3>1. row'[d].id = row[d].id /\ ~row[d].kept
      BY <2>3, RowStays
    <3>2. PICK t \in Syncs : /\ sync[t].pc \in {"process", "filter"}
                             /\ Doc(t) = d /\ InTable(t)
      BY <2>1, <2>3, <3>1 DEF NothingUnfiltered, InHand
    <3>3. ~Passes(t)
      BY <3>2, PassedRow
    <3>4. ~DiscardFiltered(t)
      BY <2>1, <2>3, <3>2, WithoutRows DEF DiscardFiltered
    <3>5. /\ sync'[t].pc \in {"process", "filter"} /\ sync'[t].uid = sync[t].uid
          /\ sync'[t].mine = sync[t].mine
      BY <3>2, <3>3, <3>4, HandStep
    <3> QED
      BY <3>1, <3>2, <3>5 DEF InHand, InTable, Doc
  <2> QED
    BY <2>2, <2>3
<1> QED
  BY <1>1, <1>2, MailInvariant, PTL DEF Spec

-----------------------------------------------------------------------------
(***************************************************************************)
(* The cursor.                                                               *)
(***************************************************************************)

\* Every message up to those a sync has counted is recorded, waits in its queue
\* or is in its hand.
Covered(s) ==
    \A v \in {sync[s].from, sync[s].max} \cup sync[s].queue :
        1..v \subseteq records \cup sync[s].queue \cup {sync[s].uid}

Lost == faults \cap {"fetch", "overflow"} # {}

\* The cursor a sync is going to save is the greatest UID it has taken, so the
\* invariant has to speak of the syncs at work, not of the saved cursor alone.
CursorInv ==
    /\ box = "gone" => lastUid = 0
    /\ \A s \in Syncs : At(s, "next") => sync[s].uid = 0
    /\ box # "gone" /\ ~Lost => 1..lastUid \subseteq records /\ \A s \in Syncs : Covered(s)

\* Which steps change the cursor, the records and the mailbox.
LEMMA MailboxStep ==
  ASSUME [Next]_vars
  PROVE  \/ Drop
         \/ /\ box' = "gone" <=> box = "gone"
            /\ records \subseteq records'
            /\ lastUid' = lastUid \/ \E s \in Syncs : Finish(s)
<1> DEFINE Goal == /\ box' = "gone" <=> box = "gone"
                   /\ records \subseteq records'
                   /\ lastUid' = lastUid \/ \E s \in Syncs : Finish(s)
<1>1. ASSUME Scan \/ \E s \in Syncs : CollectNow(s) PROVE Goal
  BY <1>1 DEF Scan, CollectNow, Start, Mail
<1>2. ASSUME NEW s \in Syncs, Step(s) PROVE Goal
  <2>1. ASSUME \/ ConnectFails(s) \/ Search(s) \/ Skip(s) \/ Fetch(s) \/ FetchFails(s)
               \/ Ingest(s) \/ IngestRefused(s) \/ Process(s)
        PROVE  Goal
    BY <2>1 DEF ConnectFails, Search, Skip, Fetch, FetchFails, NextIsNew, Ingest,
                IngestRefused, Process, Mail
  <2>2. ASSUME \/ Keep(s) \/ DiscardFiltered(s) \/ Release(s) \/ Replace(s)
               \/ FilterGone(s) \/ FilterStale(s) \/ ImportFails(s)
               \/ RecordCollides(s) \/ MailboxGone(s)
        PROVE  Goal
    BY <2>2 DEF Keep, DiscardFiltered, Release, Replace, FilterGone, FilterStale,
                ImportFails, RecordCollides, MailboxGone, Mail
  <2>3. ASSUME Record(s) \/ Finish(s) \/ CollectLater(s) PROVE Goal
    BY <2>3 DEF Record, Finish, CollectLater
  <2> QED
    BY <1>2, <2>1, <2>2, <2>3 DEF Step
<1>3. ASSUME \/ Deliver \/ DeliverLater \/ \E d \in Documents : UserDelete(d)
             \/ Toggle \/ Crash \/ UNCHANGED vars
      PROVE  Goal
  BY <1>3 DEF Deliver, DeliverLater, UserDelete, Toggle, Crash, vars, Mail
<1> QED
  BY <1>1, <1>2, <1>3 DEF Next

\* A sync at work on a document keeps its place in the mailbox.
LEMMA PlaceKept ==
  ASSUME MailInv, NEW s \in Syncs,
         \/ Ingest(s) \/ IngestRefused(s) \/ Process(s) \/ Keep(s) \/ DiscardFiltered(s)
         \/ Release(s) \/ Replace(s) \/ FilterGone(s) \/ ImportFails(s)
  PROVE  /\ sync'[s].from = sync[s].from /\ sync'[s].max = sync[s].max
         /\ sync'[s].queue = sync[s].queue /\ sync'[s].uid = sync[s].uid
         /\ sync'[s].pc # "next"
<1>1. TypeOK
  BY DEF MailInv
<1>2. ASSUME ToRecord(s), created' = created
      PROVE  /\ sync'[s].from = sync[s].from /\ sync'[s].max = sync[s].max
             /\ sync'[s].queue = sync[s].queue /\ sync'[s].uid = sync[s].uid
             /\ sync'[s].pc # "next"
  BY <1>1, <1>2, ToRecordMove, LocalFields DEF Becomes
<1>3. CASE Process(s)
  BY <1>1, <1>3, ProcessMove, LocalFields DEF Becomes
<1>4. CASE Release(s)
  BY <1>4, ReleaseMove, LocalFields DEF Becomes
<1>5. CASE Ingest(s) /\ Doc(s) \in Documents \ Present
  BY <1>1, <1>5, IngestMove, LocalFields DEF Becomes
<1>6. CASE Ingest(s) /\ Doc(s) \notin Documents \ Present
  BY <1>2, <1>6 DEF Ingest
<1>7. CASE \/ IngestRefused(s) \/ Keep(s) \/ DiscardFiltered(s) \/ Replace(s)
           \/ FilterGone(s) \/ ImportFails(s)
  BY <1>2, <1>7 DEF IngestRefused, Keep, DiscardFiltered, Replace, FilterGone, ImportFails,
              Ledger
<1> QED
  BY <1>3, <1>4, <1>5, <1>6, <1>7

\* A thread at rest counts no message.
LEMMA RestCovered ==
  ASSUME NEW s \in Syncs, sync[s] \in Resting
  PROVE  Covered(s) /\ sync[s].pc # "next"
<1>1. sync[s].from = 0 /\ sync[s].max = 0 /\ sync[s].queue = {} /\ sync[s].pc # "next"
  BY DEF Resting, Idle
<1>2. 1..0 = {}
  OBVIOUS
<1> QED
  BY <1>1, <1>2 DEF Covered

\* A thread ends: it is at rest.
LEMMA Rests ==
  ASSUME MailInv, NEW s \in Syncs,
         \/ ConnectFails(s) \/ FilterStale(s) \/ RecordCollides(s) \/ Finish(s)
         \/ MailboxGone(s) \/ CollectLater(s)
         \/ (GoOn(s) /\ UNCHANGED <<Mail, Ledger, History>>)
  PROVE  sync'[s] \in Resting
<1>1. (Stop(s) \/ GoOn(s)) /\ created' = created
  BY DEF ConnectFails, FilterStale, RecordCollides, Finish, MailboxGone, CollectLater,
         Ledger
<1> QED
  BY <1>1, RestMove DEF Becomes, MailInv

\* The thread that takes a step keeps its messages covered.
LEMMA CoverStep ==
  ASSUME MailInv, CursorInv, [Next]_vars, box # "gone", box' # "gone", ~Lost', NEW s \in Syncs
  PROVE  Covered(s)'
<1>1. /\ TypeOK /\ ~Lost /\ Covered(s) /\ 1..lastUid \subseteq records
      /\ At(s, "next") => sync[s].uid = 0
  BY FaultsGrow DEF MailInv, CursorInv, Lost
<1>2. records \subseteq records'
  BY MailboxStep DEF Drop
<1>3. ASSUME sync'[s].from = sync[s].from, sync'[s].max = sync[s].max,
             sync'[s].queue = sync[s].queue, sync'[s].uid = sync[s].uid
      PROVE  Covered(s)'
  BY <1>1, <1>2, <1>3 DEF Covered
<1>4. CASE Start(s)
  <2>1. /\ sync'[s].from = lastUid /\ sync'[s].max = lastUid /\ sync'[s].queue = {}
    BY <1>1, <1>4, StartMove DEF Becomes
  <2> QED
    BY <1>1, <1>2, <2>1 DEF Covered
<1>5. CASE Search(s)
  <2>1. /\ sync[s].queue = {} /\ sync[s].uid = 0 /\ sync[s].max = sync[s].from
        /\ sync[s].from \in 0..N /\ arrived \in 0..N /\ N \in Nat
    BY <1>5, MailAssumption DEF MailInv, SyncInv, TypeOK, Search
  <2>2. Cardinality(Found(s)) <= Limit
    <3>1. ~(Cardinality(Found(s)) > Limit)
      BY <1>5 DEF Search, Mark, Lost
    <3>2. Cardinality(Found(s)) \in Nat /\ Limit \in Nat
      BY <1>1, FoundMessages, FS_CardinalityType, MailAssumption
    <3> QED
      BY <3>1, <3>2
  <2>3. /\ sync'[s].from = sync[s].from /\ sync'[s].max = sync[s].from
        /\ sync'[s].queue = Found(s) /\ sync'[s].uid = 0
    BY <1>1, <1>5, <2>1, <2>2, SearchMove, LocalFields, FoundMessages DEF Becomes
  <2>4. 1..sync[s].from \subseteq records
    <3>1. 1..sync[s].from \subseteq records \cup {0}
      BY <1>1, <2>1 DEF Covered
    <3> QED
      BY <2>1, <3>1
  <2>5. ASSUME NEW v \in Found(s), NEW u \in 1..v PROVE u \in records \cup Found(s)
    <3>1. v \in 1..arrived /\ u \in 1..arrived
      BY <2>1, <2>5 DEF Found
    <3>2. CASE u > sync[s].from
      BY <3>1, <3>2 DEF Found
    <3>3. CASE ~(u > sync[s].from)
      BY <2>1, <2>4, <3>1, <3>3
    <3> QED
      BY <3>2, <3>3
  <2> QED
    BY <1>2, <2>3, <2>4, <2>5 DEF Covered
<1>6. ASSUME NEW label \in {"next", "ingest"}, At(s, "next"), sync[s].queue # {},
             Advance(s, label), created' = created,
             label = "next" => Upcoming(s) \in records
      PROVE  Covered(s)'
  <2> DEFINE u == Upcoming(s)
  <2>1. label \in PC
    BY DEF PC
  <2>2. /\ u \in sync[s].queue /\ sync'[s].from = sync[s].from
        /\ sync'[s].max = IF u > sync[s].max THEN u ELSE sync[s].max
        /\ sync'[s].queue = sync[s].queue \ {u}
        /\ sync'[s].uid = IF label = "next" THEN 0 ELSE u
    <3> DEFINE m == IF u > sync[s].max THEN u ELSE sync[s].max
               w == IF label = "next" THEN 0 ELSE u
               q == sync[s].queue \ {u}
    <3>1. /\ u \in sync[s].queue
          /\ Becomes(s, Local(s, label, m, q, w, sync[s].mine, sync[s].old))
      BY <1>1, <1>6, <2>1, AdvanceMove
    <3> HIDE DEF m, w, q
    <3>2. /\ sync'[s].from = sync[s].from /\ sync'[s].max = m
          /\ sync'[s].queue = q /\ sync'[s].uid = w
      BY <3>1, LocalFields DEF Becomes
    <3> QED
      BY <3>1, <3>2 DEF m, w, q
  <2>3. \A v \in {sync[s].from, sync[s].max} \cup sync[s].queue :
            1..v \subseteq records \cup sync[s].queue
    <3>1. \A v \in {sync[s].from, sync[s].max} \cup sync[s].queue :
              1..v \subseteq records \cup sync[s].queue \cup {0} /\ v \in 0..N
      BY <1>1, <1>6, ThreadTyped DEF Covered, SyncRec
    <3> QED
      BY <3>1, MailAssumption
  <2> HIDE DEF u
  <2>4. u \in records \cup {sync'[s].uid}
    BY <1>6, <2>2 DEF u
  <2> QED
    BY <1>2, <2>2, <2>3, <2>4 DEF Covered
<1>7. CASE Skip(s) \/ Fetch(s)
  BY <1>6, <1>7 DEF Skip, Fetch, NextIsNew, Ledger
<1>8. ~FetchFails(s)
  BY DEF FetchFails, Mark, Lost
<1>9. CASE Record(s)
  <2>1. /\ sync'[s].from = sync[s].from /\ sync'[s].max = sync[s].max
        /\ sync'[s].queue = sync[s].queue
    BY <1>1, <1>9, RecordMove, LocalFields DEF Becomes
  <2>2. records' = records \cup {sync[s].uid}
    BY <1>9 DEF Record
  <2> QED
    BY <1>1, <2>1, <2>2 DEF Covered
<1>10. CASE sync'[s] \in Resting
  BY <1>10, RestCovered DEF Covered, Resting, Idle
<1>11. CASE \/ Ingest(s) \/ IngestRefused(s) \/ Process(s) \/ Keep(s) \/ DiscardFiltered(s)
            \/ Release(s) \/ Replace(s) \/ FilterGone(s) \/ ImportFails(s)
  BY <1>3, <1>11, PlaceKept
<1>12. CASE sync'[s] # sync[s]
  <2>1. CASE Crash
    BY <1>1, <1>10, <2>1 DEF Crash, Resting, TypeOK
  <2>2. CASE Step(s)
    BY <1>5, <1>7, <1>8, <1>9, <1>10, <1>11, <2>2, Rests DEF Step
  <2>3. CASE GoOn(s) /\ UNCHANGED <<Mail, Ledger, History>>
    BY <1>10, <2>3, Rests
  <2> QED
    BY <1>1, <1>4, <1>12, <2>1, <2>2, <2>3, WhoMoves
<1> QED
  BY <1>3, <1>12

\* A sync that looks for its next message has none in hand.
LEMMA HandsFree ==
  ASSUME MailInv, CursorInv, [Next]_vars, NEW s \in Syncs, sync'[s].pc = "next"
  PROVE  sync'[s].uid = 0
<1>1. At(s, "next") => sync[s].uid = 0
  BY DEF CursorInv
<1>2. TypeOK
  BY DEF MailInv
<1>3. CASE Search(s)
  <2>1. sync[s].uid = 0
    BY <1>3 DEF MailInv, SyncInv, Search
  <2> QED
    BY <1>2, <1>3, <2>1, SearchMove, LocalFields DEF Becomes
<1>4. CASE Record(s)
  BY <1>2, <1>4, RecordMove, LocalFields DEF Becomes
<1>5. ASSUME NEW label \in {"next", "ingest"}, sync[s].queue # {}, Advance(s, label),
             created' = created
      PROVE  sync'[s].uid = 0
  <2> DEFINE m == IF Upcoming(s) > sync[s].max THEN Upcoming(s) ELSE sync[s].max
             w == IF label = "next" THEN 0 ELSE Upcoming(s)
             q == sync[s].queue \ {Upcoming(s)}
  <2>1. Becomes(s, Local(s, label, m, q, w, sync[s].mine, sync[s].old))
    BY <1>2, <1>5, AdvanceMove DEF PC
  <2> HIDE DEF m, w, q
  <2>2. sync'[s].pc = label /\ sync'[s].uid = w
    BY <2>1, LocalFields DEF Becomes
  <2> QED
    BY <2>2 DEF w
<1>6. CASE Skip(s) \/ Fetch(s) \/ FetchFails(s)
  BY <1>5, <1>6 DEF Skip, Fetch, FetchFails, NextIsNew, Ledger
<1>7. sync'[s] \notin Resting
  BY DEF Resting, Idle
<1>8. CASE sync'[s] # sync[s]
  <2>1. ~Crash
    BY <1>2, <1>7 DEF Crash, Resting, TypeOK
  <2>2. ~Start(s)
    BY <1>2, StartMove DEF Becomes
  <2>3. CASE Step(s)
    BY <1>3, <1>4, <1>6, <1>7, <2>3, Rests, PlaceKept DEF Step
  <2>4. CASE GoOn(s) /\ UNCHANGED <<Mail, Ledger, History>>
    BY <1>7, <2>4, Rests
  <2> QED
    BY <1>2, <1>8, <2>1, <2>2, <2>3, <2>4, WhoMoves
<1> QED
  BY <1>1, <1>8 DEF At

\* The cursor does not pass a message that was never recorded, for any number
\* of syncs that overlap, crash, collide on uq_mailbox_uid or lose their mailbox;
\* only a failed fetch and a search beyond the limit lose mail.
THEOREM CursorTheorem == Spec => []CursorCovered
<1>1. Init => CursorInv
  <2> SUFFICES ASSUME Init PROVE CursorInv
    OBVIOUS
  <2>1. \A s \in Syncs : sync[s] = Idle /\ sync[s] \in Resting
    BY DEF Init, Resting
  <2>2. lastUid = 0 /\ 1..0 = {} /\ box = "on"
    BY DEF Init
  <2> QED
    BY <2>1, <2>2, RestCovered DEF CursorInv, At
<1>2. MailInv /\ CursorInv /\ [Next]_vars => CursorInv'
  <2> SUFFICES ASSUME MailInv, CursorInv, [Next]_vars PROVE CursorInv'
    OBVIOUS
  <2>1. \A s \in Syncs : At(s, "next")' => sync'[s].uid = 0
    BY HandsFree DEF At
  <2>2. CASE Drop
    BY <2>1, <2>2 DEF Drop, CursorInv
  <2>3. CASE ~Drop
    <3>1. /\ box' = "gone" <=> box = "gone"
          /\ records \subseteq records'
          /\ lastUid' = lastUid \/ \E s \in Syncs : Finish(s)
      BY <2>3, MailboxStep
    <3>2. box' = "gone" => lastUid' = 0
      BY <3>1 DEF CursorInv, Finish
    <3>3. ASSUME box' # "gone", ~Lost'
          PROVE  1..lastUid' \subseteq records' /\ \A s \in Syncs : Covered(s)'
      <4>1. box # "gone" /\ ~Lost /\ 1..lastUid \subseteq records
        BY <3>1, <3>3, FaultsGrow DEF CursorInv, Lost
      <4>2. ASSUME NEW s \in Syncs, Finish(s) PROVE 1..sync[s].max \subseteq records
        <5>1. /\ sync[s].queue = {} /\ sync[s].uid = 0 /\ Covered(s)
              /\ sync[s].max \in 0..N
          BY <4>1, <4>2, ThreadTyped DEF CursorInv, Finish, MailInv
        <5>2. 1..sync[s].max \subseteq records \cup {0}
          BY <5>1 DEF Covered
        <5> QED
          BY <5>1, <5>2, MailAssumption
      <4>3. 1..lastUid' \subseteq records'
        BY <3>1, <4>1, <4>2 DEF Finish
      <4> QED
        BY <3>1, <3>3, <4>3, CoverStep
    <3> QED
      BY <2>1, <3>2, <3>3 DEF CursorInv
  <2> QED
    BY <2>2, <2>3
<1>3. MailInv /\ CursorInv => CursorCovered
  <2>1. ASSUME box = "gone", CursorInv PROVE 1..lastUid \subseteq records
    <3>1. lastUid = 0 /\ 1..0 = {}
      BY <2>1 DEF CursorInv
    <3> QED
      BY <3>1
  <2> QED
    BY <2>1 DEF CursorInv, CursorCovered, Lost
<1> QED
  BY <1>1, <1>2, <1>3, MailInvariant, PTL DEF Spec

-----------------------------------------------------------------------------
(***************************************************************************)
(* One sync at a time.                                                       *)
(***************************************************************************)

\* At work on the mailbox; "later" is work on the other one.
Working == PC \ {"idle", "later"}

\* Until two syncs have overlapped, at most one is at work on the mailbox.
SoleSync ==
    "overlap" \notin faults => \A s, t \in Syncs :
        sync[s].pc \in Working /\ sync[t].pc \in Working => s = t

\* What a step does to the rows, and who does it.
LEMMA WhoWrites ==
  ASSUME [Next]_vars
  PROVE  \/ row' = row /\ proved' = proved
         \/ \E x \in Present : row' = Without(x) /\ proved' = proved /\ "delete" \in faults'
         \/ \E s \in Syncs : \/ Ingest(s) /\ Doc(s) \in Documents \ Present
                             \/ Process(s) /\ InTable(s)
                             \/ Passes(s) \/ DiscardFiltered(s) \/ Replace(s)
<1> DEFINE Same == row' = row /\ proved' = proved
<1>1. ASSUME Scan \/ \E s \in Syncs : CollectNow(s) PROVE Same
  BY <1>1 DEF Scan, CollectNow, Start, Ledger, History
<1>2. ASSUME NEW s \in Syncs, Step(s)
      PROVE  \/ Same
             \/ Ingest(s) /\ Doc(s) \in Documents \ Present
             \/ Process(s) /\ InTable(s)
             \/ Passes(s) \/ DiscardFiltered(s) \/ Replace(s)
  <2>1. ASSUME \/ ConnectFails(s) \/ Search(s) \/ Skip(s) \/ Fetch(s) \/ FetchFails(s)
               \/ (Ingest(s) /\ Doc(s) \notin Documents \ Present) \/ IngestRefused(s)
               \/ (Process(s) /\ ~InTable(s))
               \/ FilterGone(s) \/ FilterStale(s) \/ ImportFails(s)
        PROVE  Same
    BY <2>1 DEF ConnectFails, Search, Skip, Fetch, FetchFails, NextIsNew, Ingest,
                IngestRefused, Process, FilterGone, FilterStale, ImportFails, Ledger,
                History
  <2>2. ASSUME Record(s) \/ RecordCollides(s) \/ Finish(s) \/ MailboxGone(s) \/ CollectLater(s)
        PROVE  Same
    BY <2>2 DEF Record, RecordCollides, Finish, MailboxGone, CollectLater, Ledger, History
  <2> QED
    BY <1>2, <2>1, <2>2 DEF Step, Passes
<1>3. ASSUME Deliver \/ DeliverLater \/ Toggle \/ Drop \/ Crash \/ UNCHANGED vars PROVE Same
  BY <1>3 DEF Deliver, DeliverLater, Toggle, Drop, Crash, vars, Ledger, History
<1>4. ASSUME NEW x \in Documents, UserDelete(x)
      PROVE  x \in Present /\ row' = Without(x) /\ proved' = proved /\ "delete" \in faults'
  BY <1>4 DEF UserDelete, Mark
<1> QED
  BY <1>1, <1>2, <1>3, <1>4 DEF Next

\* A thread that is at work after a step was at work before, or has begun.
LEMMA WorkGoesOn ==
  ASSUME MailInv, [Next]_vars, NEW s \in Syncs, sync'[s].pc \in Working
  PROVE  sync[s].pc \in Working \/ Start(s)
<1>1. TypeOK /\ sync'[s] \notin Resting
  BY DEF MailInv, Resting, Idle, Working
<1>2. ~Crash
  BY <1>1 DEF Crash, Resting, TypeOK
<1>3. ~(GoOn(s) /\ UNCHANGED <<Mail, Ledger, History>>)
  BY <1>1, Rests
<1>4. CASE Step(s)
  <2>1. ~At(s, "idle")
    BY <1>4 DEF Step, At, ConnectFails, Search, Skip, Fetch, FetchFails, NextIsNew,
                Ingest, IngestRefused, Process, Keep, DiscardFiltered, Release, Replace,
                FilterGone, FilterStale, ImportFails, Record, RecordCollides, Finish,
                MailboxGone, CollectLater
  <2>2. CASE At(s, "later")
    <3>1. CollectLater(s)
      BY <1>4, <2>2 DEF Step, At, ConnectFails, Search, Skip, Fetch, FetchFails,
                        NextIsNew, Ingest, IngestRefused, Process, Keep, DiscardFiltered,
                        Release, Replace, FilterGone, FilterStale, ImportFails, Record,
                        RecordCollides, Finish, MailboxGone
    <3> QED
      BY <1>1, <3>1, Rests
  <2>3. sync[s].pc \in PC
    BY ThreadTyped DEF MailInv, SyncRec
  <2> QED
    BY <2>1, <2>2, <2>3 DEF Working, At
<1> QED
  BY <1>1, <1>2, <1>3, <1>4, WhoMoves

\* A sync that begins while another is not idle marks the overlap.
LEMMA SoleStep ==
  ASSUME MailInv, SoleSync, [Next]_vars
  PROVE  SoleSync'
<1> SUFFICES ASSUME "overlap" \notin faults', NEW s \in Syncs, NEW t \in Syncs, s # t,
                    sync'[s].pc \in Working, sync'[t].pc \in Working
             PROVE  FALSE
  BY DEF SoleSync
<1>1. "overlap" \notin faults
  BY FaultsGrow
<1>2. ASSUME NEW p \in Syncs, NEW q \in Syncs, p # q, Start(p), sync'[q].pc \in Working
      PROVE  FALSE
  <2>1. sync'[q] = sync[q]
    BY <1>2, OthersStay DEF MailInv
  <2>2. ~At(q, "idle")
    BY <1>2, <2>1 DEF At, Working
  <2> QED
    BY <1>2, <2>2 DEF Start, Mark
<1> QED
  BY <1>1, <1>2, WorkGoesOn DEF SoleSync

\* Who works on a document while nothing overlaps: no other thread.
LEMMA Alone ==
  ASSUME SoleSync, "overlap" \notin faults, NEW s \in Syncs, NEW t \in Syncs,
         sync[s].pc \in Working,
         \/ Ingest(t) \/ Process(t) \/ Passes(t) \/ DiscardFiltered(t) \/ Replace(t)
  PROVE  s = t
<1>1. sync[t].pc \in Working
  BY DEF Ingest, Process, Passes, Keep, Release, DiscardFiltered, Replace, At, Working, PC
<1> QED
  BY <1>1 DEF SoleSync

\* How a thread comes to the filters and to the replacement, and leaves them.
LEMMA FilterMoves ==
  ASSUME MailInv, [Next]_vars, NEW s \in Syncs, sync'[s] # sync[s]
  PROVE  /\ sync'[s].pc = "filter" => Process(s)
         /\ sync'[s].pc = "replace" => Release(s)
         /\ At(s, "filter") /\ InTable(s) =>
               Passes(s) \/ DiscardFiltered(s) \/ ImportFails(s) \/ Crash
         /\ At(s, "replace") => Replace(s) \/ ImportFails(s) \/ Crash
<1>1. TypeOK
  BY DEF MailInv
<1>2. ASSUME sync'[s] \in Resting PROVE sync'[s].pc \notin {"filter", "replace"}
  BY <1>2 DEF Resting, Idle
<1>3. CASE Crash
  BY <1>1, <1>2, <1>3 DEF Crash, Resting, TypeOK
<1>4. CASE Start(s)
  BY <1>1, <1>4, StartMove DEF Becomes, Start, At
<1>5. CASE At(s, "idle") /\ GoOn(s) /\ UNCHANGED <<Mail, Ledger, History>>
  BY <1>2, <1>5, Rests DEF At
<1>6. CASE Step(s)
  <2>1. At(s, "filter") /\ InTable(s) => Passes(s) \/ DiscardFiltered(s) \/ ImportFails(s)
    BY <1>6 DEF Step, Passes, At, ConnectFails, Search, Skip, Fetch, FetchFails,
                NextIsNew, Ingest, IngestRefused, Process, Replace, FilterGone,
                FilterStale, ImportFails, Record, RecordCollides, Finish, MailboxGone,
                CollectLater
  <2>2. At(s, "replace") => Replace(s) \/ ImportFails(s)
    BY <1>6 DEF Step, At, ConnectFails, Search, Skip, Fetch, FetchFails, NextIsNew,
                Ingest, IngestRefused, Process, Keep, DiscardFiltered, Release,
                FilterGone, FilterStale, ImportFails, Record, RecordCollides, Finish,
                MailboxGone, CollectLater
  <2>3. ASSUME Search(s) \/ Record(s) PROVE sync'[s].pc = "next"
    BY <1>1, <2>3, SearchMove, RecordMove, LocalFields DEF Becomes
  <2>4. ASSUME NEW label \in {"next", "ingest"}, sync[s].queue # {}, Advance(s, label),
               created' = created
        PROVE  sync'[s].pc = label
    <3> DEFINE m == IF Upcoming(s) > sync[s].max THEN Upcoming(s) ELSE sync[s].max
               w == IF label = "next" THEN 0 ELSE Upcoming(s)
               q == sync[s].queue \ {Upcoming(s)}
    <3>1. Becomes(s, Local(s, label, m, q, w, sync[s].mine, sync[s].old))
      BY <1>1, <2>4, AdvanceMove DEF PC
    <3> HIDE DEF m, w, q
    <3> QED
      BY <3>1, LocalFields DEF Becomes
  <2>5. ASSUME Skip(s) \/ Fetch(s) \/ FetchFails(s) PROVE sync'[s].pc \in {"next", "ingest"}
    BY <2>4, <2>5 DEF Skip, Fetch, FetchFails, NextIsNew, Ledger
  <2>6. ASSUME ToRecord(s), created' = created PROVE sync'[s].pc = "record"
    BY <1>1, <2>6, ToRecordMove, LocalFields DEF Becomes
  <2>7. ASSUME \/ Ingest(s) \/ IngestRefused(s) \/ Keep(s) \/ DiscardFiltered(s) \/ Replace(s)
               \/ FilterGone(s) \/ ImportFails(s)
        PROVE  sync'[s].pc \in {"process", "record"}
    <3>1. CASE Ingest(s) /\ Doc(s) \in Documents \ Present
      BY <1>1, <3>1, IngestMove, LocalFields DEF Becomes
    <3>2. CASE Ingest(s) /\ Doc(s) \notin Documents \ Present
      BY <2>6, <3>2 DEF Ingest
    <3> QED
      BY <2>6, <2>7, <3>1, <3>2 DEF IngestRefused, Keep, DiscardFiltered, Replace,
                                    FilterGone, ImportFails, Ledger
  <2>8. Process(s) => sync'[s].pc = "filter"
    BY <1>1, ProcessMove, LocalFields DEF Becomes
  <2>9. Release(s) => sync'[s].pc = "replace"
    BY ReleaseMove, LocalFields DEF Becomes
  <2>10. /\ sync'[s].pc = "filter" => Process(s)
         /\ sync'[s].pc = "replace" => Release(s)
    BY <1>2, <1>6, <2>3, <2>5, <2>7, <2>8, <2>9, Rests DEF Step
  <2> QED
    BY <2>1, <2>2, <2>10
<1> QED
  BY <1>1, <1>3, <1>4, <1>5, <1>6, WhoMoves

-----------------------------------------------------------------------------
(***************************************************************************)
(* Copies of one invoice.                                                    *)
(***************************************************************************)

\* What the filters know about the document in hand: the copy it duplicates is
\* the only other row that shows its number.
TheOriginal ==
    \A s \in Syncs : At(s, "filter") /\ InTable(s) /\ row[Doc(s)].result \in Shown =>
        \A e \in Twins(Doc(s)) : row[Doc(s)].dup = e

\* What a replacement is about to remove: every other copy that has passed.
TheReplaced ==
    \A s \in Syncs : At(s, "replace") =>
        \A e \in Present \ {Doc(s)} :
            row[e].kept /\ Number[e] = Number[Doc(s)] => row[e].id = sync[s].old

\* Two copies that passed the filters, while nobody is about to remove one.
NoTwoCopies ==
    \A d, e \in Present :
        /\ row[d].kept /\ row[e].kept /\ Number[d] = Number[e] /\ d # e
        => \E s \in Syncs : At(s, "replace") /\ Doc(s) \in {d, e}

CopyInv ==
    faults \cap {"crash", "import", "overlap"} = {} => TheOriginal /\ TheReplaced /\ NoTwoCopies

\* While the one sync is at work on a document that it has not passed yet, no
\* two copies exist, and the rows of other documents have all passed.
LEMMA OnlyOriginals ==
  ASSUME MailInv, SoleSync, NothingUnfiltered, CopyInv,
         faults \cap {"crash", "import", "overlap"} = {},
         NEW s \in Syncs, sync[s].pc \in {"process", "filter"}
  PROVE  /\ \A d, e \in Present : row[d].kept /\ row[e].kept /\ Number[d] = Number[e] => d = e
         /\ \A d \in Present \ {Doc(s)} : row[d].kept
<1>1. \A t \in Syncs : sync[t].pc \in Working => t = s
  BY DEF SoleSync, Working, PC
<1>2. \A t \in Syncs : ~At(t, "replace")
  BY <1>1 DEF At, Working, PC
<1>3. \A t \in Syncs : sync[t].pc \in {"process", "filter"} => t = s
  BY <1>1 DEF Working, PC
<1> QED
  BY <1>2, <1>3 DEF CopyInv, NoTwoCopies, NothingUnfiltered, InHand

\* A verification finds at most one original.
LEMMA OriginalStep ==
  ASSUME MailInv, SoleSync, NothingUnfiltered, CopyInv, [Next]_vars,
         faults' \cap {"crash", "import", "overlap"} = {}
  PROVE  TheOriginal'
<1>1. /\ TypeOK /\ faults \cap {"crash", "import", "overlap"} = {} /\ ~Crash
      /\ TheOriginal /\ \A d \in Present : d \in Documents
  BY FaultsGrow DEF MailInv, CopyInv, Crash, Mark, Present
<1> SUFFICES ASSUME NEW s \in Syncs, sync'[s].pc = "filter", InTable(s)',
                    row'[Doc(s)'].result \in Shown, NEW e \in Twins(Doc(s))'
             PROVE  row'[Doc(s)'].dup = e
  BY DEF TheOriginal, At
<1>2. CASE sync'[s] = sync[s]
  <2>1. Doc(s)' = Doc(s) /\ At(s, "filter") /\ sync[s].pc \in Working
    BY <1>2 DEF Doc, At, Working, PC
  <2>2. InTable(s)
    <3>1. sync'[s].mine <= created
      BY <1>1, <1>2, ThreadTyped DEF SyncRec
    <3> QED
      BY <1>2, <3>1, HeldRows
  <2>3. ASSUME NEW t \in Syncs,
               Ingest(t) \/ Process(t) \/ Passes(t) \/ DiscardFiltered(t) \/ Replace(t)
        PROVE  FALSE
    <3>1. t = s
      BY <1>1, <2>1, <2>3, Alone
    <3>2. Passes(s) \/ DiscardFiltered(s)
      BY <2>1, <2>3, <3>1 DEF Ingest, Process, Replace, At
    <3>3. sync'[s].pc \in {"record", "replace"}
      <4>1. CASE Release(s)
        BY <4>1, ReleaseMove, LocalFields DEF Becomes
      <4>2. CASE Keep(s) \/ DiscardFiltered(s)
        <5>1. ToRecord(s) /\ created' = created
          BY <4>2 DEF Keep, DiscardFiltered
        <5> QED
          BY <1>1, <5>1, ToRecordMove, LocalFields DEF Becomes
      <4> QED
        BY <3>2, <4>1, <4>2 DEF Passes
    <3> QED
      BY <3>3
  <2>4. row' = row \/ \E x \in Present : row' = Without(x)
    BY <2>3, WhoWrites
  <2>5. CASE row' = row
    BY <1>1, <2>1, <2>2, <2>5 DEF TheOriginal, Twins, Present
  <2>6. ASSUME NEW x \in Present, row' = Without(x) PROVE row'[Doc(s)].dup = e
    <3>1. /\ Present' = Present \ {x} /\ Doc(s) \in Present \ {x}
          /\ \A d \in Present \ {x} :
               /\ row'[d].result = row[d].result
               /\ row'[d].dup = IF row[d].dup = x THEN NoDocument ELSE row[d].dup
      BY <1>1, <2>1, <2>6, WithoutRows DEF InTable
    <3>2. e \in Twins(Doc(s)) /\ e # x
      BY <2>1, <3>1 DEF Twins
    <3>3. row[Doc(s)].result \in Shown
      BY <2>1, <3>1
    <3> QED
      BY <1>1, <2>1, <2>2, <3>1, <3>2, <3>3 DEF TheOriginal
  <2> QED
    BY <2>1, <2>4, <2>5, <2>6
<1>3. CASE sync'[s] # sync[s]
  <2> DEFINE d == Doc(s)
  <2>1. Process(s) /\ sync[s].pc = "process"
    BY <1>3, FilterMoves DEF Process, At
  <2>2. sync'[s].uid = sync[s].uid /\ sync'[s].mine = sync[s].mine /\ Doc(s)' = d
    BY <1>1, <2>1, ProcessMove, LocalFields DEF Becomes, Doc
  <2>3. InTable(s)
    <3>1. sync'[s].mine <= created
      BY <1>1, <2>2, ThreadTyped DEF SyncRec
    <3> QED
      BY <2>2, <3>1, HeldRows
  <2> HIDE DEF d
  <2>4. /\ Present' = Present /\ \A f \in Present \ {d} : row'[f] = row[f]
        /\ IF row'[d].result = "blank" \/ Twins(d) = {}
           THEN row'[d].dup = NoDocument ELSE row'[d].dup \in Twins(d)
    BY <2>1, <2>3, ProcessedRow DEF d
  <2>5. \A f, g \in Twins(d) : f = g
    <3>1. /\ \A f, g \in Present : row[f].kept /\ row[g].kept /\ Number[f] = Number[g] => f = g
          /\ \A f \in Present \ {d} : row[f].kept
      BY <1>1, <2>1, OnlyOriginals DEF d
    <3> QED
      BY <3>1 DEF Twins
  <2>6. e \in Twins(d)
    BY <2>2, <2>4 DEF Twins
  <2>7. row'[d].result # "blank"
    BY <2>2 DEF Shown
  <2> QED
    BY <2>2, <2>4, <2>5, <2>6, <2>7
<1> QED
  BY <1>2, <1>3

\* Nothing is stored or let pass while a replacement is under way.
LEMMA ReplacedStep ==
  ASSUME MailInv, SoleSync, CopyInv, [Next]_vars,
         faults' \cap {"crash", "import", "overlap"} = {}
  PROVE  TheReplaced'
<1>1. /\ TypeOK /\ faults \cap {"crash", "import", "overlap"} = {} /\ ~Crash
      /\ TheOriginal /\ TheReplaced /\ \A d \in Present : d \in Documents
  BY FaultsGrow DEF MailInv, CopyInv, Crash, Mark, Present
<1> SUFFICES ASSUME NEW s \in Syncs, sync'[s].pc = "replace", NEW e \in Present' \ {Doc(s)'},
                    row'[e].kept, Number[e] = Number[Doc(s)']
             PROVE  row'[e].id = sync'[s].old
  BY DEF TheReplaced, At
<1>2. CASE sync'[s] = sync[s]
  <2>1. Doc(s)' = Doc(s) /\ At(s, "replace") /\ sync[s].pc \in Working
    BY <1>2 DEF Doc, At, Working, PC
  <2>2. ASSUME NEW t \in Syncs,
               Ingest(t) \/ Process(t) \/ Passes(t) \/ DiscardFiltered(t) \/ Replace(t)
        PROVE  FALSE
    <3>1. t = s
      BY <1>1, <2>1, <2>2, Alone
    <3>2. Replace(s)
      BY <2>1, <2>2, <3>1 DEF Ingest, Process, Passes, Keep, Release, DiscardFiltered, At
    <3>3. ToRecord(s) /\ created' = created
      BY <3>2 DEF Replace
    <3> QED
      BY <1>1, <3>3, ToRecordMove, LocalFields DEF Becomes
  <2>3. row' = row \/ \E x \in Present : row' = Without(x)
    BY <2>2, WhoWrites
  <2>4. e \in Present /\ row'[e].id = row[e].id /\ row'[e].kept = row[e].kept
    BY <1>1, <2>3, WithoutRows DEF Present
  <2> QED
    BY <1>1, <1>2, <2>1, <2>4 DEF TheReplaced
<1>3. CASE sync'[s] # sync[s]
  <2> DEFINE d == Doc(s)
  <2>1. Release(s)
    BY <1>3, FilterMoves
  <2>2. Doc(s)' = d /\ sync'[s].old = row[row[d].dup].id
    BY <1>1, <2>1, ReleaseMove, LocalFields DEF Becomes, Doc
  <2>3. /\ Present' = Present /\ \A f \in Present \ {d} : row'[f] = row[f]
        /\ At(s, "filter") /\ InTable(s) /\ row[d].result \in Shown
    BY <2>1, PassedRow DEF Passes
  <2>4. e \in Twins(d)
    BY <1>1, <2>2, <2>3 DEF Twins, Shown, MailInv, RowInv
  <2>5. row[d].dup = e
    BY <1>1, <2>3, <2>4 DEF TheOriginal
  <2> HIDE DEF d
  <2> QED
    BY <2>2, <2>3, <2>5
<1> QED
  BY <1>2, <1>3

\* No step leaves two copies that nobody is about to reduce to one.
LEMMA CopiesStep ==
  ASSUME MailInv, SoleSync, NothingUnfiltered, CopyInv, [Next]_vars,
         faults' \cap {"crash", "import", "overlap"} = {}
  PROVE  NoTwoCopies'
<1>1. /\ TypeOK /\ faults \cap {"crash", "import", "overlap"} = {} /\ ~Crash
      /\ TheOriginal /\ TheReplaced /\ NoTwoCopies /\ \A d \in Present : d \in Documents
  BY FaultsGrow DEF MailInv, CopyInv, Crash, Mark, Present
<1> SUFFICES ASSUME NEW d \in Present', NEW e \in Present', row'[d].kept, row'[e].kept,
                    Number[d] = Number[e], d # e
             PROVE  \E s \in Syncs : At(s, "replace")' /\ Doc(s)' \in {d, e}
  BY DEF NoTwoCopies
\* Neither of them is new or being verified.
<1>2. ASSUME NEW f \in Present', row'[f].kept
      PROVE  /\ f \in Present /\ row'[f].id = row[f].id
             /\ row[f].kept \/ \E s \in Syncs : Passes(s) /\ Doc(s) = f
  <2>1. CASE row' = row \/ \E x \in Present : row' = Without(x)
    BY <1>1, <1>2, <2>1, WithoutRows DEF Present
  <2>2. ASSUME NEW s \in Syncs, Ingest(s), Doc(s) \in Documents \ Present
        PROVE  f \in Present /\ row'[f] = row[f]
    BY <1>1, <1>2, <2>2, NewDocument
  <2>3. ASSUME NEW s \in Syncs, Process(s), InTable(s)
        PROVE  f \in Present /\ row'[f] = row[f]
    BY <1>2, <2>3, ProcessedRow
  <2>4. ASSUME NEW s \in Syncs, Passes(s)
        PROVE  f \in Present /\ row'[f].id = row[f].id /\ (row'[f] = row[f] \/ Doc(s) = f)
    BY <1>2, <2>4, PassedRow
  <2>5. ASSUME NEW s \in Syncs, DiscardFiltered(s) \/ Replace(s)
        PROVE  row' = row \/ \E x \in Present : row' = Without(x)
    BY <2>5, Zenon DEF DiscardFiltered, Replace, InTable
  <2> QED
    BY <1>2, <2>1, <2>2, <2>3, <2>4, <2>5, WhoWrites
<1>3. CASE \E s \in Syncs : Passes(s)
  <2>1. PICK s \in Syncs : Passes(s)
    BY <1>3
  <2>2. /\ At(s, "filter") /\ InTable(s) /\ row[Doc(s)].result \in Shown /\ sync[s].pc \in Working
        /\ \A f \in Present \ {Doc(s)} : row'[f] = row[f]
    BY <2>1, PassedRow DEF At, Working, PC
  <2>3. \A f, g \in Present : row[f].kept /\ row[g].kept /\ Number[f] = Number[g] => f = g
    BY <1>1, <2>2, OnlyOriginals DEF At
  \* So one of the two is the document that passes, and the other its twin.
  <2>4. PICK f \in Present : /\ f # Doc(s) /\ row[f].kept /\ Number[f] = Number[Doc(s)]
                             /\ Doc(s) \in {d, e}
    BY <1>2, <2>2, <2>3
  <2>5. f \in Twins(Doc(s))
    BY <2>4 DEF MailInv, RowInv, Twins, Shown
  <2>6. row[Doc(s)].dup = f /\ f \in Documents
    BY <1>1, <2>2, <2>5 DEF TheOriginal
  <2>7. Release(s)
    BY <2>1, <2>6, MailAssumption DEF Passes, Keep
  <2>8. sync'[s].pc = "replace" /\ Doc(s)' = Doc(s)
    BY <1>1, <2>7, ReleaseMove, LocalFields DEF Becomes, Doc
  <2> QED
    BY <2>4, <2>8 DEF At
<1>4. CASE ~\E s \in Syncs : Passes(s)
  <2>1. /\ d \in Present /\ row[d].kept /\ row'[d].id = row[d].id
        /\ e \in Present /\ row[e].kept /\ row'[e].id = row[e].id
    BY <1>2, <1>4
  <2>2. PICK s \in Syncs : At(s, "replace") /\ Doc(s) \in {d, e}
    BY <1>1, <2>1 DEF NoTwoCopies
  <2>3. CASE sync'[s] = sync[s]
    BY <2>2, <2>3 DEF At, Doc
  <2>4. CASE sync'[s] # sync[s]
    <3>1. Replace(s)
      BY <1>1, <2>2, <2>4, FilterMoves DEF ImportFails, Mark
    <3>2. PICK f \in {d, e} : f # Doc(s) /\ row[f].id = sync[s].old
      BY <1>1, <2>1, <2>2 DEF TheReplaced
    <3> DEFINE x == CHOOSE g \in Present : row[g].id = sync[s].old
    <3>3. x \in Present /\ row[x].id = sync[s].old /\ row' = Without(x)
      BY <2>1, <3>1, <3>2 DEF Replace
    <3>4. x = f
      BY <2>1, <3>2, <3>3 DEF MailInv, RowInv
    <3> HIDE DEF x
    <3> QED
      BY <1>1, <3>3, <3>4, WithoutRows
  <2> QED
    BY <2>3, <2>4
<1> QED
  BY <1>3, <1>4

\* Unless the process crashed, an import ended with an exception or two syncs
\* overlapped, no two documents that passed the filters show one number, except
\* for the moment in which a PDF replaces the other copy.
THEOREM CopiesTheorem == Spec => []OneCopy
<1>1. Init => SoleSync /\ CopyInv
  BY DEF Init, SoleSync, CopyInv, TheOriginal, TheReplaced, NoTwoCopies, Idle, Working,
         At, Present
<1>2. MailInv /\ NothingUnfiltered /\ SoleSync /\ CopyInv /\ [Next]_vars => (SoleSync /\ CopyInv)'
  BY SoleStep, OriginalStep, ReplacedStep, CopiesStep DEF CopyInv
<1>3. CopyInv => OneCopy
  BY DEF CopyInv, NoTwoCopies, OneCopy
<1> QED
  BY <1>1, <1>2, <1>3, MailInvariant, UnfilteredTheorem, PTL DEF Spec

-----------------------------------------------------------------------------
(***************************************************************************)
(* Confirmed invoices.                                                       *)
(***************************************************************************)

\* A number the provider has confirmed is shown by a stored document; a document
\* that waits for a review alone is not one of them; and what a replacement is
\* about to remove is another copy of the document in hand.
StillShown == \A n \in proved : \E d \in Present : Number[d] = n /\ row[d].result \in Shown

AloneInReview ==
    \A s \in Syncs : /\ At(s, "filter") /\ InTable(s)
                     /\ row[Doc(s)].result = "review" /\ row[Doc(s)].dup = NoDocument
                     => Number[Doc(s)] \notin proved

BetterCopy ==
    \A s \in Syncs : At(s, "replace") =>
        /\ Doc(s) \in Present /\ row[Doc(s)].result \in Shown
        /\ \A x \in Present : row[x].id = sync[s].old =>
              x # Doc(s) /\ Number[x] = Number[Doc(s)]

ProvedInv ==
    faults \cap {"overlap", "delete"} = {} => StillShown /\ AloneInReview /\ BetterCopy

\* While nothing is deleted by the user, the rows change by the hand of the one
\* sync at work.
LEMMA RowsByHand ==
  ASSUME MailInv, SoleSync, [Next]_vars, faults' \cap {"overlap", "delete"} = {},
         NEW s \in Syncs, sync[s].pc \in {"filter", "replace"}, sync'[s] = sync[s]
  PROVE  row' = row /\ proved' = proved
<1>1. TypeOK /\ faults \cap {"overlap", "delete"} = {} /\ sync[s].pc \in Working
  BY FaultsGrow DEF MailInv, Working, PC
<1>2. ASSUME NEW t \in Syncs,
             Ingest(t) \/ Process(t) \/ Passes(t) \/ DiscardFiltered(t) \/ Replace(t)
      PROVE  FALSE
  <2>1. t = s
    BY <1>1, <1>2, Alone
  <2>2. Passes(s) \/ DiscardFiltered(s) \/ Replace(s)
    BY <1>2, <2>1 DEF Ingest, Process, At
  <2>3. CASE Release(s)
    <3>1. sync'[s].pc = "replace"
      BY <2>3, ReleaseMove, LocalFields DEF Becomes
    <3> QED
      BY <2>3, <3>1 DEF Release, At
  <2>4. CASE Keep(s) \/ DiscardFiltered(s) \/ Replace(s)
    <3>1. ToRecord(s) /\ created' = created
      BY <2>4 DEF Keep, DiscardFiltered, Replace
    <3>2. sync'[s].pc = "record"
      BY <1>1, <3>1, ToRecordMove, LocalFields DEF Becomes
    <3> QED
      BY <3>2
  <2> QED
    BY <2>2, <2>3, <2>4 DEF Passes
<1> QED
  BY <1>2, WhoWrites

\* A confirmed number keeps a row that shows it.
LEMMA ShownStep ==
  ASSUME MailInv, ProvedInv, [Next]_vars, faults' \cap {"overlap", "delete"} = {}
  PROVE  StillShown'
<1>1. /\ TypeOK /\ StillShown /\ AloneInReview /\ BetterCopy
      /\ \A d \in Present : d \in Documents
      /\ \A d \in Present : row[d].dup # NoDocument => row[d].dup \in Twins(d)
  BY FaultsGrow DEF MailInv, RowInv, ProvedInv, Present
<1> SUFFICES ASSUME NEW n \in proved'
             PROVE  \E d \in Present' : Number[d] = n /\ row'[d].result \in Shown
  BY DEF StillShown
<1>2. CASE row' = row /\ proved' = proved
  BY <1>1, <1>2 DEF StillShown, Present
<1>3. ASSUME NEW s \in Syncs, Ingest(s), Doc(s) \in Documents \ Present
      PROVE  \E d \in Present' : Number[d] = n /\ row'[d].result \in Shown
  <2>1. n \in proved
    BY <1>3 DEF Ingest, History
  <2> QED
    BY <1>1, <1>3, <2>1, NewDocument DEF StillShown
<1>4. ASSUME NEW s \in Syncs, Process(s), InTable(s)
      PROVE  \E d \in Present' : Number[d] = n /\ row'[d].result \in Shown
  <2>1. CASE n \in proved
    <3>1. PICK d \in Present : Number[d] = n /\ row[d].result \in Shown
      BY <1>1, <2>1 DEF StillShown
    <3>2. d # Doc(s)
      BY <1>4, <3>1, ProcessedRow DEF Shown
    <3> QED
      BY <1>4, <3>1, <3>2, ProcessedRow
  <2>2. CASE n \notin proved
    <3>1. n = Number[Doc(s)] /\ row'[Doc(s)].result = "verified" /\ Doc(s) \in Present'
      BY <1>4, <2>2, ProcessedRow
    <3> QED
      BY <3>1 DEF Shown
  <2> QED
    BY <2>1, <2>2
<1>5. ASSUME NEW s \in Syncs, Passes(s)
      PROVE  \E d \in Present' : Number[d] = n /\ row'[d].result \in Shown
  <2>1. /\ n \in proved /\ Present' = Present
        /\ \A d \in Present : row'[d].result = row[d].result
    BY <1>5, PassedRow
  <2> QED
    BY <1>1, <2>1 DEF StillShown
\* A deletion by the filters leaves another document that shows the number.
<1>6. ASSUME NEW x \in Present, row' = Without(x), n \in proved,
             \E d \in Present \ {x} : Number[d] = n /\ row[d].result \in Shown
      PROVE  \E d \in Present' : Number[d] = n /\ row'[d].result \in Shown
  BY <1>1, <1>6, WithoutRows
<1>7. ASSUME NEW s \in Syncs, DiscardFiltered(s)
      PROVE  \E d \in Present' : Number[d] = n /\ row'[d].result \in Shown
  <2>1. /\ At(s, "filter") /\ InTable(s) /\ Filtered(Doc(s)) /\ Doc(s) \in Present
        /\ row' = Without(Doc(s)) /\ n \in proved
    BY <1>7 DEF DiscardFiltered, InTable, History
  <2>2. PICK d \in Present : Number[d] = n /\ row[d].result \in Shown
    BY <1>1, <2>1 DEF StillShown
  <2>3. CASE d = Doc(s)
    <3>1. row[d].dup # NoDocument
      BY <1>1, <2>1, <2>2, <2>3 DEF Filtered, AloneInReview, Shown
    <3>2. row[d].dup \in Twins(d)
      BY <1>1, <3>1
    <3> QED
      BY <1>6, <2>1, <2>2, <2>3, <3>2 DEF Twins, Shown
  <2>4. CASE d # Doc(s)
    BY <1>6, <2>1, <2>2, <2>4
  <2> QED
    BY <2>3, <2>4
<1>8. ASSUME NEW s \in Syncs, Replace(s)
      PROVE  \E d \in Present' : Number[d] = n /\ row'[d].result \in Shown
  <2>1. At(s, "replace") /\ proved' = proved
    BY <1>8 DEF Replace, History
  <2>2. PICK d \in Present : Number[d] = n /\ row[d].result \in Shown
    BY <1>1, <2>1 DEF StillShown
  <2>3. CASE \E x \in Present : row[x].id = sync[s].old
    <3> DEFINE x == CHOOSE y \in Present : row[y].id = sync[s].old
    <3>1. x \in Present /\ row[x].id = sync[s].old /\ row' = Without(x)
      BY <1>8, <2>3 DEF Replace
    <3> HIDE DEF x
    <3>2. /\ Doc(s) \in Present /\ row[Doc(s)].result \in Shown
          /\ x # Doc(s) /\ Number[x] = Number[Doc(s)]
      BY <1>1, <2>1, <3>1 DEF BetterCopy
    <3> QED
      BY <1>6, <2>1, <2>2, <3>1, <3>2
  <2>4. CASE ~\E x \in Present : row[x].id = sync[s].old
    BY <1>2, <1>8, <2>1, <2>4 DEF Replace
  <2> QED
    BY <2>3, <2>4
<1> QED
  BY <1>2, <1>3, <1>4, <1>5, <1>7, <1>8, WhoWrites

\* What the filter finds in review, and not as a copy, has no confirmed number.
LEMMA ReviewStep ==
  ASSUME MailInv, SoleSync, ProvedInv, [Next]_vars, faults' \cap {"overlap", "delete"} = {}
  PROVE  AloneInReview'
<1>1. /\ TypeOK /\ StillShown /\ AloneInReview
  BY FaultsGrow DEF MailInv, ProvedInv
<1> SUFFICES ASSUME NEW s \in Syncs, sync'[s].pc = "filter", InTable(s)',
                    row'[Doc(s)'].result = "review", row'[Doc(s)'].dup = NoDocument
             PROVE  Number[Doc(s)'] \notin proved'
  BY DEF AloneInReview, At
<1>2. CASE sync'[s] = sync[s]
  <2>1. Doc(s)' = Doc(s) /\ At(s, "filter") /\ row' = row /\ proved' = proved
    BY <1>2, RowsByHand DEF Doc, At
  <2>2. InTable(s)
    BY <1>2, <2>1 DEF InTable, Present
  <2> QED
    BY <1>1, <2>1, <2>2 DEF AloneInReview
<1>3. CASE sync'[s] # sync[s]
  <2> DEFINE d == Doc(s)
  <2>1. Process(s)
    BY <1>3, FilterMoves
  <2>2. sync'[s].uid = sync[s].uid /\ sync'[s].mine = sync[s].mine /\ Doc(s)' = d
    BY <1>1, <2>1, ProcessMove, LocalFields DEF Becomes, Doc
  <2>3. InTable(s)
    <3>1. sync'[s].mine <= created
      BY <1>1, <2>2, ThreadTyped DEF SyncRec
    <3> QED
      BY <2>2, <3>1, HeldRows
  <2>4. /\ row[d].result = "raw" /\ proved' = proved
        /\ Twins(d) = {} \/ row'[d].dup \in Twins(d)
    BY <2>1, <2>2, <2>3, ProcessedRow
  <2>5. Twins(d) = {}
    BY <2>2, <2>4, MailAssumption DEF Twins, Present
  <2> HIDE DEF d
  <2>6. \A e \in Present : Number[e] = Number[d] => row[e].result \notin Shown
    BY <2>4, <2>5 DEF Twins, Shown
  <2> QED
    BY <1>1, <2>2, <2>4, <2>6 DEF StillShown
<1> QED
  BY <1>2, <1>3

\* A copy that is about to be replaced has a better one in the table.
LEMMA BetterStep ==
  ASSUME MailInv, SoleSync, ProvedInv, [Next]_vars, faults' \cap {"overlap", "delete"} = {}
  PROVE  BetterCopy'
<1>1. /\ TypeOK /\ BetterCopy
  BY FaultsGrow DEF MailInv, ProvedInv
<1> SUFFICES ASSUME NEW s \in Syncs, sync'[s].pc = "replace"
             PROVE  /\ Doc(s)' \in Present' /\ row'[Doc(s)'].result \in Shown
                    /\ \A x \in Present' : row'[x].id = sync'[s].old =>
                          x # Doc(s)' /\ Number[x] = Number[Doc(s)']
  BY DEF BetterCopy, At
<1>2. CASE sync'[s] = sync[s]
  <2>1. Doc(s)' = Doc(s) /\ At(s, "replace") /\ row' = row
    BY <1>2, RowsByHand DEF Doc, At
  <2> QED
    BY <1>1, <1>2, <2>1 DEF BetterCopy, Present
<1>3. CASE sync'[s] # sync[s]
  <2> DEFINE d == Doc(s)
             o == row[d].dup
  <2>1. Release(s)
    BY <1>3, FilterMoves
  <2>2. Doc(s)' = d /\ sync'[s].old = row[o].id
    BY <1>1, <2>1, ReleaseMove, LocalFields DEF Becomes, Doc
  <2>3. /\ Present' = Present /\ d \in Present /\ \A e \in Present : row'[e].id = row[e].id
        /\ row'[d].result \in Shown
    BY <2>1, PassedRow DEF Passes
  <2>4. o \in Twins(d)
    BY <2>1, <2>3, MailAssumption DEF Release, MailInv, RowInv
  <2>5. o \in Present /\ o # d /\ Number[o] = Number[d]
    BY <2>4 DEF Twins
  <2> HIDE DEF d, o
  <2> QED
    BY <2>2, <2>3, <2>5 DEF MailInv, RowInv
<1> QED
  BY <1>2, <1>3

\* The filters of one sync at a time never drop the last document that shows a
\* number the provider has confirmed, whatever the order in which the copies
\* arrive and wherever the process crashes.
THEOREM ConfirmedTheorem == Spec => []ConfirmedSurvives
<1>1. Init => SoleSync /\ ProvedInv
  BY DEF Init, SoleSync, ProvedInv, StillShown, AloneInReview, BetterCopy, Idle, Working, At
<1>2. MailInv /\ SoleSync /\ ProvedInv /\ [Next]_vars => (SoleSync /\ ProvedInv)'
  BY SoleStep, ShownStep, ReviewStep, BetterStep DEF ProvedInv
<1>3. ProvedInv => ConfirmedSurvives
  BY DEF ProvedInv, StillShown, ConfirmedSurvives
<1> QED
  BY <1>1, <1>2, <1>3, MailInvariant, PTL DEF Spec
=============================================================================
