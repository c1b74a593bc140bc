---------------------------- MODULE IngestionProofs ----------------------------
(***************************************************************************)
(* ingest_bytes for any callers, owners, contents, sizes and limits.  What    *)
(* each property needs is what the caller inside _ingest_lock has found out   *)
(* and may still rely on, while deletions and the clock go on beside it.      *)
(*                                                                         *)
(* The invariant comes in four layers, each proved with the help of the ones  *)
(* before it: who is inside, which files and rows there are, what they take,  *)
(* and what has been counted.                                               *)
(***************************************************************************)
EXTENDS Ingestion, FiniteSetTheorems, TLAPS

Inside(w) == pc[w] # "idle"

-----------------------------------------------------------------------------
(***************************************************************************)
(* First layer: types, and the lock.                                       *)
(***************************************************************************)

\* One caller at a time; who is inside knows what it ingests, and an owner's
\* limits were not skipped.
OneInside ==
    /\ \A v, w \in Callers : Inside(v) /\ Inside(w) => v = w
    /\ \A w \in Callers : Inside(w) =>
          /\ job[w] \in Job
          /\ pc[w] \in {"check", "reserve"} => job[w].owner # NoOwner

LockInv == TypeOK /\ OneInside

\* Giving a reservation back lowers one of today's counters, or none.
LEMMA ReleasedLowers ==
  ASSUME TypeOK, NEW w \in Callers, job[w] \in Job
  PROVE  /\ Released(w) \in [Owners \X Days -> 0..DailyLimit]
         /\ \A o \in Owners, d \in Days : Released(w)[<<o, d>>] =
               IF o = job[w].owner /\ d = today /\ usage[<<o, d>>] # 0
               THEN usage[<<o, d>>] - 1 ELSE usage[<<o, d>>]
<1> DEFINE od == <<job[w].owner, today>>
<1>1. job[w].owner # NoOwner => od \in Owners \X Days
  BY DEF TypeOK, Job, Tenants
<1>2. Released(w) = IF job[w].owner = NoOwner \/ usage[od] = 0 THEN usage
                    ELSE [usage EXCEPT ![od] = @ - 1]
  BY DEF Released
<1>3. \A o \in Owners, d \in Days : (o = job[w].owner /\ d = today) <=> (<<o, d>> = od)
  OBVIOUS
<1>4. NoOwner \notin Owners /\ DailyLimit \in Nat
  BY IngestionAssumption
<1> HIDE DEF od
<1>5. CASE job[w].owner = NoOwner \/ usage[od] = 0
  BY <1>2, <1>3, <1>4, <1>5 DEF TypeOK
<1>6. CASE job[w].owner # NoOwner /\ usage[od] # 0
  <2>1. /\ od \in Owners \X Days /\ usage \in [Owners \X Days -> 0..DailyLimit]
        /\ usage[od] - 1 \in 0..DailyLimit
    <3>1. od \in Owners \X Days /\ usage \in [Owners \X Days -> 0..DailyLimit]
      BY <1>1, <1>6 DEF TypeOK
    <3>2. usage[od] \in 0..DailyLimit
      BY <3>1
    <3> QED
      BY <1>4, <1>6, <3>1, <3>2
  <2>2. Released(w) = [usage EXCEPT ![od] = usage[od] - 1]
    BY <1>2, <1>6
  <2>3. Released(w) \in [Owners \X Days -> 0..DailyLimit]
    BY <2>1, <2>2
  <2>4. ASSUME NEW o \in Owners, NEW d \in Days
        PROVE  Released(w)[<<o, d>>] =
                  IF <<o, d>> = od THEN usage[od] - 1 ELSE usage[<<o, d>>]
    BY <2>1, <2>2
  <2> QED
    BY <1>3, <1>6, <2>3, <2>4
<1> QED
  BY <1>5, <1>6

\* A new process has nobody inside.
LEMMA InitLockInv == Init => LockInv
  BY IngestionAssumption DEF Init, LockInv, TypeOK, OneInside, Inside, PC

\* Entering needs the lock; every other step is the caller's that has it.
LEMMA LockInvStep == LockInv /\ [Next]_vars => LockInv'
<1> SUFFICES ASSUME LockInv, [Next]_vars PROVE LockInv'
  OBVIOUS
<1> USE IngestionAssumption DEF LockInv
<1>1. ASSUME NEW w \in Callers, NEW o \in Tenants, NEW c \in Contents, NEW i \in Ids,
             Enter(w, o, c, i)
      PROVE  LockInv'
  BY <1>1 DEF Enter, LockFree, Goto, TypeOK, OneInside, Inside, PC, Job, Tenants
<1>2. ASSUME NEW w \in Callers, CheckStorage(w) PROVE LockInv'
  BY <1>2 DEF CheckStorage, Goto, TypeOK, OneInside, Inside, PC, Job, Tenants, Row
<1>3. ASSUME NEW w \in Callers, RefuseStorage(w) PROVE LockInv'
  BY <1>3 DEF RefuseStorage, Goto, Return, TypeOK, OneInside, Inside, PC, Job, Tenants, Row
<1>4. ASSUME NEW w \in Callers, Reserve(w) PROVE LockInv'
  <2> DEFINE od == <<job[w].owner, today>>
  <2>1. od \in Owners \X Days /\ job[w] \in Job
    BY <1>4 DEF Reserve, TypeOK, OneInside, Inside, Job, Tenants
  <2>2. usage[od] \in 0..DailyLimit /\ usage[od] < DailyLimit
    BY <1>4, <2>1 DEF Reserve, TypeOK
  <2>3. usage' = [usage EXCEPT ![od] = @ + 1]
    BY <1>4 DEF Reserve
  <2> HIDE DEF od
  <2>4. usage' \in [Owners \X Days -> 0..DailyLimit]
    BY <2>1, <2>2, <2>3 DEF TypeOK
  <2> QED
    BY <1>4, <2>1, <2>4 DEF Reserve, Goto, TypeOK, OneInside, Inside, PC, Job
<1>5. ASSUME NEW w \in Callers, RefuseQuota(w) PROVE LockInv'
  BY <1>5 DEF RefuseQuota, Goto, Return, TypeOK, OneInside, Inside, PC, Job, Tenants, Row
<1>6. ASSUME NEW w \in Callers, Write(w) PROVE LockInv'
  BY <1>6 DEF Write, Goto, TypeOK, OneInside, Inside, PC, Job, Tenants, Row
<1>7. ASSUME NEW w \in Callers, WriteFails(w) PROVE LockInv'
  BY <1>7 DEF WriteFails, Goto, Mark, TypeOK, OneInside, Inside, PC, Job, Tenants, Row
<1>8. ASSUME NEW w \in Callers, Commit(w) PROVE LockInv'
  BY <1>8 DEF Commit, Goto, Return, TypeOK, OneInside, Inside, PC, Job, Tenants, Row
<1>9. ASSUME NEW w \in Callers, CommitFails(w) PROVE LockInv'
  BY <1>9 DEF CommitFails, Goto, Mark, TypeOK, OneInside, Inside, PC, Job, Tenants, Row
<1>10. ASSUME NEW w \in Callers, UnlinkFailed(w) PROVE LockInv'
  BY <1>10 DEF UnlinkFailed, Goto, TypeOK, OneInside, Inside, PC, Job, Tenants, Row
<1>11. ASSUME NEW w \in Callers, Release(w) PROVE LockInv'
  <2>1. usage' \in [Owners \X Days -> 0..DailyLimit]
    BY <1>11, ReleasedLowers DEF Release, OneInside, Inside
  <2> QED
    BY <1>11, <2>1 DEF Release, Goto, Return, TypeOK, OneInside, Inside, PC
<1>12. ASSUME NEW i \in Ids,
              \/ Remove(i) \/ Unlink(i) \/ UnlinkFails(i)
              \/ BatchUnlink(i) \/ BatchCommit(i) \/ BatchFails(i)
       PROVE  LockInv'
  BY <1>12 DEF Remove, Unlink, UnlinkFails, BatchUnlink, BatchCommit, BatchFails, Mark,
               TypeOK, OneInside, Inside
<1>13. CASE Midnight
  BY <1>13 DEF Midnight, Mark, TypeOK, OneInside, Inside
<1>14. CASE Crash
  BY <1>14 DEF Crash, Mark, TypeOK, OneInside, Inside, PC
<1>15. CASE UNCHANGED vars
  BY <1>15 DEF vars, TypeOK, OneInside, Inside
<1>16. ASSUME NEW w \in Callers,
              \/ LimitsFail(w) \/ MkdirFails(w) \/ UnlinkFailedFails(w) \/ ReleaseFails(w)
       PROVE  LockInv'
  BY <1>16 DEF LimitsFail, MkdirFails, UnlinkFailedFails, ReleaseFails, Goto, Return, Mark,
               TypeOK, OneInside, Inside, PC
<1> QED
  BY <1>1, <1>2, <1>3, <1>4, <1>5, <1>6, <1>7, <1>8, <1>9, <1>10, <1>11,
     <1>12, <1>13, <1>14, <1>15, <1>16 DEF Next, Step

\* So it holds in every state.
LEMMA LockInvariant == Spec => []LockInv
  BY InitLockInv, LockInvStep, PTL DEF Spec

\* Types hold at every step of an ingestion.
THEOREM IngestionTypes == Spec => []TypeOK
<1>1. LockInv => TypeOK
  BY DEF LockInv
<1> QED
  BY <1>1, LockInvariant, PTL

-----------------------------------------------------------------------------
(***************************************************************************)
(* Second layer: the names given out, and what rows and files bear them.     *)
(***************************************************************************)

\* A name is fresh until its file is written, and nobody else's until its row
\* is committed; while a caller is inside, nobody stores its content.
NameInHand(w) ==
    /\ job[w].id \in issued /\ job[w].id \notin IdsOf(rows) \cup removing \cup doomed
    /\ pc[w] \in {"check", "reserve", "write", "commit"} =>
          ~Stored(job[w].owner, job[w].content)
    /\ pc[w] \in {"check", "reserve", "write"} => job[w].id \notin disk
    /\ pc[w] = "commit" => job[w].id \in disk
    /\ pc[w] = "release" /\ "disk" \notin faults => job[w].id \notin disk

NamesInv ==
    /\ disk \cup removing \cup doomed \cup IdsOf(rows) \subseteq issued
    /\ removing \cap IdsOf(rows) = {} /\ doomed \cap disk = {}
    /\ \A w \in Callers : Inside(w) => NameInHand(w)
    /\ UniqueContent /\ FilesMatchRows

\* Nothing is named yet.
LEMMA InitNamesInv == Init => NamesInv
  BY DEF Init, NamesInv, NameInHand, Inside, IdsOf, UniqueContent, FilesMatchRows

\* The files that nobody answers for are those of a crash or of a failed write.
LEMMA NamesInvStep == LockInv /\ NamesInv /\ [Next]_vars => NamesInv'
<1> SUFFICES ASSUME LockInv, NamesInv, [Next]_vars PROVE NamesInv'
  OBVIOUS
<1> USE DEF LockInv, OneInside, Inside, NamesInv, NameInHand, UniqueContent, FilesMatchRows,
            IdsOf, Stored, TypeOK, Job, Row
<1>1. ASSUME NEW w \in Callers, NEW o \in Tenants, NEW c \in Contents, NEW i \in Ids,
             Enter(w, o, c, i)
      PROVE  NamesInv'
  BY <1>1 DEF Enter, LockFree, Goto
<1>2. ASSUME NEW w \in Callers, CheckStorage(w) PROVE NamesInv'
  BY <1>2 DEF CheckStorage, Goto
<1>3. ASSUME NEW w \in Callers, RefuseStorage(w) PROVE NamesInv'
  BY <1>3 DEF RefuseStorage, Goto, Return
<1>4. ASSUME NEW w \in Callers, Reserve(w) PROVE NamesInv'
  BY <1>4 DEF Reserve, Goto
<1>5. ASSUME NEW w \in Callers, RefuseQuota(w) PROVE NamesInv'
  BY <1>5 DEF RefuseQuota, Goto, Return
<1>6. ASSUME NEW w \in Callers, Write(w) PROVE NamesInv'
  BY <1>6 DEF Write, Goto
<1>7. ASSUME NEW w \in Callers, WriteFails(w) PROVE NamesInv'
  BY <1>7 DEF WriteFails, Goto, Mark
<1>8. ASSUME NEW w \in Callers, Commit(w) PROVE NamesInv'
  <2> DEFINE new == [id |-> job[w].id, owner |-> job[w].owner, content |-> job[w].content]
  <2>1. /\ pc[w] = "commit" /\ job[w] \in Job /\ rows' = rows \cup {new}
        /\ pc' = [pc EXCEPT ![w] = "idle"] /\ job' = [job EXCEPT ![w] = NoJob]
        /\ UNCHANGED <<disk, issued, removing, doomed, faults>>
    BY <1>8 DEF Commit, Goto, Return
  <2>2. new.id = job[w].id /\ new.owner = job[w].owner /\ new.content = job[w].content
    OBVIOUS
  <2> HIDE DEF new
  <2>3. IdsOf(rows)' = IdsOf(rows) \cup {job[w].id}
    BY <2>1, <2>2
  <2>4. /\ job[w].id \in issued /\ job[w].id \notin IdsOf(rows) \cup removing \cup doomed
        /\ job[w].id \in disk
        /\ ~\E r \in rows : r.owner = new.owner /\ r.content = new.content
    BY <2>1, <2>2
  <2>5. \A v \in Callers : pc'[v] = "idle"
    BY <2>1
  <2>6. UniqueContent'
    BY <2>1, <2>4
  <2> HIDE DEF IdsOf
  <2>7. FilesMatchRows'
    <3>1. ("batch" \notin faults => IdsOf(rows) \ doomed \subseteq disk)'
      BY <2>1, <2>3, <2>4
    <3>2. \A v \in Callers : pc[v] # "idle" => v = w
      BY <2>1
    <3>3. faults \cap {"crash", "disk"} = {} =>
             disk \subseteq IdsOf(rows) \cup removing \cup {job[w].id}
      BY <3>2
    <3>4. faults' \cap {"crash", "disk"} = {} => disk' \subseteq IdsOf(rows)' \cup removing'
      BY <2>1, <2>3, <3>3
    <3> QED
      BY <3>1, <3>4
  <2>8. /\ (disk \cup removing \cup doomed \cup IdsOf(rows) \subseteq issued)'
        /\ (removing \cap IdsOf(rows) = {} /\ doomed \cap disk = {})'
    <3>1. disk' = disk /\ removing' = removing /\ doomed' = doomed /\ issued' = issued
      BY <2>1
    <3>2. /\ disk \cup removing \cup doomed \cup IdsOf(rows) \subseteq issued
          /\ removing \cap IdsOf(rows) = {} /\ doomed \cap disk = {}
      OBVIOUS
    <3> QED
      BY <2>3, <2>4, <3>1, <3>2
  <2> QED
    BY <2>5, <2>6, <2>7, <2>8
<1>9. ASSUME NEW w \in Callers, CommitFails(w) PROVE NamesInv'
  BY <1>9 DEF CommitFails, Goto, Mark
<1>10. ASSUME NEW w \in Callers, UnlinkFailed(w) PROVE NamesInv'
  BY <1>10 DEF UnlinkFailed, Goto
<1>11. ASSUME NEW w \in Callers, Release(w) PROVE NamesInv'
  BY <1>11 DEF Release, Goto, Released, Return
<1>12. ASSUME NEW i \in Ids, Remove(i) PROVE NamesInv'
  BY <1>12 DEF Remove
<1>13. ASSUME NEW i \in Ids, Unlink(i) PROVE NamesInv'
  BY <1>13 DEF Unlink
<1>14. CASE Midnight
  BY <1>14 DEF Midnight, Mark
<1>15. CASE Crash
  BY <1>15 DEF Crash
<1>16. CASE UNCHANGED vars
  BY <1>16 DEF vars
<1>17. ASSUME NEW w \in Callers, LimitsFail(w) \/ MkdirFails(w) PROVE NamesInv'
  BY <1>17 DEF LimitsFail, MkdirFails, Goto, Return, Mark
<1>18. ASSUME NEW w \in Callers, UnlinkFailedFails(w) PROVE NamesInv'
  BY <1>18 DEF UnlinkFailedFails, Goto, Return
<1>19. ASSUME NEW w \in Callers, ReleaseFails(w) PROVE NamesInv'
  BY <1>19 DEF ReleaseFails, Goto, Return, Mark
<1>20. ASSUME NEW i \in Ids, UnlinkFails(i) PROVE NamesInv'
  BY <1>20 DEF UnlinkFails, Mark
<1>21. ASSUME NEW i \in Ids, BatchUnlink(i) PROVE NamesInv'
  BY <1>21 DEF BatchUnlink
<1>22. ASSUME NEW i \in Ids, BatchCommit(i) PROVE NamesInv'
  BY <1>22 DEF BatchCommit
<1>23. ASSUME NEW i \in Ids, BatchFails(i) PROVE NamesInv'
  BY <1>23 DEF BatchFails, Mark
<1> QED
  BY <1>1, <1>2, <1>3, <1>4, <1>5, <1>6, <1>7, <1>8, <1>9, <1>10, <1>11,
     <1>12, <1>13, <1>14, <1>15, <1>16, <1>17, <1>18, <1>19, <1>20, <1>21,
     <1>22, <1>23 DEF Next, Step

\* So it holds in every state.
LEMMA NamesInvariant == Spec => []NamesInv
  BY InitNamesInv, NamesInvStep, LockInvariant, PTL DEF Spec

\* A tenant never holds one content twice, with an owner or without
\* (ingestion.py:77).
THEOREM UniqueContentTheorem == Spec => []UniqueContent
<1>1. NamesInv => UniqueContent
  BY DEF NamesInv
<1> QED
  BY <1>1, NamesInvariant, PTL

\* As long as no batch deletion was cut short, a row that none is about to
\* delete has its file; without a crash and a failing disk a file always has its
\* row, its ingestion or its deletion (ingestion.py:115, :125, main.py:1696).
THEOREM FilesTheorem == Spec => []FilesMatchRows
<1>1. NamesInv => FilesMatchRows
  BY DEF NamesInv
<1> QED
  BY <1>1, NamesInvariant, PTL

-----------------------------------------------------------------------------
(***************************************************************************)
(* Third layer: the bytes of an owner.                                     *)
(***************************************************************************)

\* Fewer rows hold fewer bytes.
LEMMA BytesShrink ==
  ASSUME NEW S, NEW T \in SUBSET S, IsFiniteSet(Bytes(S))
  PROVE  /\ IsFiniteSet(Bytes(T))
         /\ Cardinality(Bytes(T)) \in Nat /\ Cardinality(Bytes(S)) \in Nat
         /\ Cardinality(Bytes(T)) <= Cardinality(Bytes(S))
<1>1. Bytes(T) \in SUBSET Bytes(S)
  BY DEF Bytes
<1> QED
  BY <1>1, FS_Subset, FS_CardinalityType

\* One row more adds its size at most.
LEMMA BytesGrow ==
  ASSUME NEW S, IsFiniteSet(Bytes(S)), NEW r \in Row
  PROVE  /\ IsFiniteSet(Bytes(S \cup {r}))
         /\ Cardinality(Bytes(S \cup {r})) <= Cardinality(Bytes(S)) + Size[r.content]
<1> DEFINE file == {r} \X (1..Size[r.content])
<1>1. Size[r.content] \in Nat
  BY IngestionAssumption DEF Row
<1>2. /\ IsFiniteSet({r}) /\ Cardinality({r}) = 1
      /\ IsFiniteSet(1..Size[r.content]) /\ Cardinality(1..Size[r.content]) = Size[r.content]
  <2>1. IsFiniteSet({r}) /\ Cardinality({r}) = 1
    BY FS_Singleton
  <2>2. 1 \in Int /\ Size[r.content] \in Int
    BY <1>1
  <2>3. /\ IsFiniteSet(1..Size[r.content])
        /\ Cardinality(1..Size[r.content]) =
              IF 1 > Size[r.content] THEN 0 ELSE Size[r.content] - 1 + 1
    BY <2>2, FS_Interval
  <2> QED
    BY <1>1, <2>1, <2>3
<1>3. IsFiniteSet(file) /\ Cardinality(file) = Size[r.content]
  BY <1>1, <1>2, FS_Product
<1>4. Bytes(S \cup {r}) = Bytes(S) \cup file
  BY DEF Bytes
<1> HIDE DEF file
<1>5. IsFiniteSet(Bytes(S) \cap file)
  BY <1>3, FS_Intersection
<1>6. /\ Cardinality(Bytes(S)) \in Nat /\ Cardinality(file) \in Nat
      /\ Cardinality(Bytes(S) \cap file) \in Nat
  BY <1>3, <1>5, FS_CardinalityType
<1>7. /\ IsFiniteSet(Bytes(S) \cup file)
      /\ Cardinality(Bytes(S) \cup file) =
            Cardinality(Bytes(S)) + Cardinality(file) - Cardinality(Bytes(S) \cap file)
  BY <1>3, FS_Union
<1>8. /\ IsFiniteSet(Bytes(S \cup {r}))
      /\ Cardinality(Bytes(S \cup {r})) =
            Cardinality(Bytes(S)) + Size[r.content] - Cardinality(Bytes(S) \cap file)
  BY <1>3, <1>4, <1>7
<1> QED
  BY <1>1, <1>6, <1>8

Mine(o) == {r \in rows : r.owner = o}

\* Once the storage was found sufficient it stays so until the commit, since no
\* other caller adds to it.
RoomInHand(w) ==
    pc[w] \in {"reserve", "write", "commit"} /\ job[w].owner # NoOwner =>
        UsedBy(job[w].owner) + Size[job[w].content] <= StorageLimit

StorageInv ==
    /\ IsFiniteSet(Bytes(rows))
    /\ \A w \in Callers : Inside(w) => RoomInHand(w)
    /\ StorageWithinLimit

\* No file, no bytes.
LEMMA InitStorageInv == Init => StorageInv
<1> SUFFICES ASSUME Init PROVE StorageInv
  OBVIOUS
<1>1. Bytes(rows) = {} /\ \A o \in Owners : Bytes(Mine(o)) = {}
  BY DEF Init, Bytes, Mine
<1>2. IsFiniteSet(Bytes(rows)) /\ \A o \in Owners : UsedBy(o) = 0
  BY <1>1, FS_EmptySet DEF UsedBy, Mine
<1>3. \A w \in Callers : ~Inside(w)
  BY DEF Init, Inside
<1> QED
  BY <1>2, <1>3, IngestionAssumption DEF StorageInv, StorageWithinLimit

\* Whatever takes rows away lowers what everybody uses.
LEMMA UsedShrinks ==
  ASSUME IsFiniteSet(Bytes(rows)), rows' \subseteq rows
  PROVE  /\ IsFiniteSet(Bytes(rows'))
         /\ \A o : UsedBy(o) \in Nat /\ UsedBy(o)' \in Nat /\ UsedBy(o)' <= UsedBy(o)
<1>1. IsFiniteSet(Bytes(rows'))
  BY BytesShrink
<1>2. ASSUME NEW o
      PROVE  UsedBy(o) \in Nat /\ UsedBy(o)' \in Nat /\ UsedBy(o)' <= UsedBy(o)
  <2>1. Mine(o) \in SUBSET rows /\ Mine(o)' \in SUBSET Mine(o)
    BY DEF Mine
  <2>2. IsFiniteSet(Bytes(Mine(o)))
    BY <2>1, BytesShrink
  <2>3. /\ Cardinality(Bytes(Mine(o))) \in Nat /\ Cardinality(Bytes(Mine(o)')) \in Nat
        /\ Cardinality(Bytes(Mine(o)')) <= Cardinality(Bytes(Mine(o)))
    BY <2>1, <2>2, BytesShrink
  <2> QED
    BY <2>3 DEF UsedBy, Mine
<1> QED
  BY <1>1, <1>2

Spending == {"reserve", "write", "commit"}

\* A step that adds no row keeps the limit, if the storage that those after it
\* count on was there before it.
LEMMA StorageKept ==
  ASSUME StorageInv, rows' \subseteq rows,
         \A v \in Callers : pc'[v] \in Spending /\ job'[v].owner # NoOwner =>
            /\ job'[v].content \in Contents
            /\ UsedBy(job'[v].owner) + Size[job'[v].content] <= StorageLimit
  PROVE  StorageInv'
<1>1. /\ IsFiniteSet(Bytes(rows'))
      /\ \A o : UsedBy(o) \in Nat /\ UsedBy(o)' \in Nat /\ UsedBy(o)' <= UsedBy(o)
  BY UsedShrinks DEF StorageInv
<1>2. ASSUME NEW v \in Callers, NEW o, NEW c,
             pc'[v] \in Spending, o = job'[v].owner, o # NoOwner, c = job'[v].content
      PROVE  UsedBy(o)' + Size[c] <= StorageLimit
  <2>1. c \in Contents /\ UsedBy(o) + Size[c] <= StorageLimit
    BY <1>2
  <2>2. UsedBy(o) \in Nat /\ UsedBy(o)' \in Nat /\ UsedBy(o)' <= UsedBy(o)
    BY <1>1
  <2>3. Size[c] \in Nat /\ StorageLimit \in Nat
    BY <2>1, IngestionAssumption
  <2> QED
    BY <2>1, <2>2, <2>3
<1>3. \A v \in Callers : RoomInHand(v)'
  BY <1>2 DEF RoomInHand, Spending, UsedBy
<1>4. ASSUME NEW o \in Owners PROVE UsedBy(o)' <= StorageLimit
  <2>1. UsedBy(o) <= StorageLimit
    BY DEF StorageInv, StorageWithinLimit
  <2> QED
    BY <1>1, <2>1, IngestionAssumption
<1> QED
  BY <1>1, <1>3, <1>4 DEF StorageInv, StorageWithinLimit

\* The one step that adds a row adds what its caller has found room for.
LEMMA CommitKeepsStorage ==
  ASSUME LockInv, StorageInv, NEW w \in Callers, Commit(w)
  PROVE  StorageInv'
<1> DEFINE new == [id |-> job[w].id, owner |-> job[w].owner, content |-> job[w].content]
<1>1. /\ Inside(w) /\ pc[w] = "commit" /\ job[w] \in Job
      /\ rows' = rows \cup {new} /\ pc' = [pc EXCEPT ![w] = "idle"]
      /\ pc \in [Callers -> PC]
  BY DEF Commit, Goto, Return, LockInv, OneInside, Inside, TypeOK
<1>2. new \in Row /\ new.owner = job[w].owner /\ new.content = job[w].content
  BY <1>1 DEF Job, Row
<1> HIDE DEF new
<1>3. \A v \in Callers : ~Inside(v)'
  BY <1>1 DEF LockInv, OneInside, Inside
<1>4. IsFiniteSet(Bytes(rows))
  BY DEF StorageInv
<1>5. IsFiniteSet(Bytes(rows'))
  BY <1>1, <1>2, <1>4, BytesGrow
<1>6. ASSUME NEW o \in Owners PROVE UsedBy(o)' <= StorageLimit
  <2>1. UsedBy(o) <= StorageLimit
    BY DEF StorageInv, StorageWithinLimit
  <2>2. UsedBy(o) = Cardinality(Bytes(Mine(o))) /\ UsedBy(o)' = Cardinality(Bytes(Mine(o)'))
    BY DEF UsedBy, Mine
  <2>3. CASE o # job[w].owner
    <3>1. Mine(o)' = Mine(o)
      BY <1>1, <1>2, <2>3 DEF Mine
    <3> QED
      BY <2>1, <2>2, <3>1
  <2>4. CASE o = job[w].owner
    <3>1. Mine(o)' = Mine(o) \cup {new}
      BY <1>1, <1>2, <2>4 DEF Mine
    <3>2. IsFiniteSet(Bytes(Mine(o)))
      BY <1>4, BytesShrink DEF Mine
    <3>3. Cardinality(Bytes(Mine(o) \cup {new}))
             <= Cardinality(Bytes(Mine(o))) + Size[new.content]
      BY <1>2, <3>2, BytesGrow
    <3>4. IsFiniteSet(Bytes(Mine(o) \cup {new}))
      BY <1>2, <3>2, BytesGrow
    <3>5. UsedBy(o) \in Nat /\ UsedBy(o)' \in Nat
      BY <2>2, <3>1, <3>2, <3>4, FS_CardinalityType
    <3>6. UsedBy(o)' <= UsedBy(o) + Size[new.content]
      BY <2>2, <3>1, <3>3
    <3>7. UsedBy(o) + Size[new.content] <= StorageLimit
      BY <1>1, <1>2, <2>4, IngestionAssumption DEF StorageInv, RoomInHand
    <3>8. Size[new.content] \in Nat /\ StorageLimit \in Nat
      BY <1>2, IngestionAssumption DEF Row
    <3> QED
      BY <3>5, <3>6, <3>7, <3>8
  <2> QED
    BY <2>3, <2>4
<1> QED
  BY <1>3, <1>5, <1>6 DEF StorageInv, StorageWithinLimit

\* The room is found inside the lock and used there: a deletion only adds to it.
LEMMA StorageInvStep == LockInv /\ StorageInv /\ [Next]_vars => StorageInv'
<1> SUFFICES ASSUME LockInv, StorageInv, [Next]_vars PROVE StorageInv'
  OBVIOUS
<1> DEFINE Covered(v) ==
             pc'[v] \in Spending /\ job'[v].owner # NoOwner =>
                /\ job'[v].content \in Contents
                /\ UsedBy(job'[v].owner) + Size[job'[v].content] <= StorageLimit
<1>1. ASSUME NEW v \in Callers, pc[v] \in Spending, job[v].owner # NoOwner
      PROVE  /\ job[v].content \in Contents
             /\ UsedBy(job[v].owner) + Size[job[v].content] <= StorageLimit
  BY <1>1 DEF LockInv, OneInside, Inside, Job, Spending, StorageInv, RoomInHand
<1>2. pc \in [Callers -> PC] /\ job \in [Callers -> Job \cup {NoJob}]
  BY DEF LockInv, TypeOK
<1>3. ASSUME NEW w \in Callers, NEW o \in Tenants, NEW c \in Contents, NEW i \in Ids,
             Enter(w, o, c, i)
      PROVE  StorageInv'
  <2>1. \A v \in Callers : Covered(v)
    BY <1>2, <1>3 DEF Enter, LockFree, Goto, Spending
  <2> QED
    BY <1>3, <2>1, StorageKept DEF Enter
<1>4. ASSUME NEW w \in Callers, CheckStorage(w) PROVE StorageInv'
  <2>1. \A v \in Callers : Covered(v)
    BY <1>1, <1>2, <1>4 DEF CheckStorage, Goto, LockInv, OneInside, Inside, Job
  <2> QED
    BY <1>4, <2>1, StorageKept DEF CheckStorage
<1>5. ASSUME NEW w \in Callers, Reserve(w) PROVE StorageInv'
  <2>1. \A v \in Callers : Covered(v)
    BY <1>1, <1>2, <1>5 DEF Reserve, Goto, LockInv, OneInside, Inside, Job, Spending
  <2> QED
    BY <1>5, <2>1, StorageKept DEF Reserve
<1>6. ASSUME NEW w \in Callers, Write(w) PROVE StorageInv'
  <2>1. \A v \in Callers : Covered(v)
    BY <1>1, <1>2, <1>6 DEF Write, Goto, Spending
  <2> QED
    BY <1>6, <2>1, StorageKept DEF Write
<1>7. ASSUME NEW w \in Callers, Commit(w) PROVE StorageInv'
  BY <1>7, CommitKeepsStorage
<1>8. ASSUME NEW w \in Callers,
             \/ RefuseStorage(w) \/ RefuseQuota(w) \/ LimitsFail(w) \/ MkdirFails(w)
             \/ WriteFails(w) \/ CommitFails(w) \/ UnlinkFailed(w) \/ UnlinkFailedFails(w)
             \/ Release(w) \/ ReleaseFails(w)
      PROVE  StorageInv'
  <2>1. \A v \in Callers : Covered(v)
    BY <1>1, <1>2, <1>8
       DEF RefuseStorage, RefuseQuota, LimitsFail, MkdirFails, WriteFails, CommitFails,
           UnlinkFailed, UnlinkFailedFails, Release, ReleaseFails, Goto, Return, Spending
  <2>2. rows' = rows
    BY <1>8 DEF RefuseStorage, RefuseQuota, LimitsFail, MkdirFails, WriteFails, CommitFails,
                UnlinkFailed, UnlinkFailedFails, Release, ReleaseFails
  <2> QED
    BY <2>1, <2>2, StorageKept
<1>9. CASE \/ \E i \in Ids : Remove(i) \/ Unlink(i) \/ UnlinkFails(i)
           \/ \E i \in Ids : BatchUnlink(i) \/ BatchCommit(i) \/ BatchFails(i)
           \/ Midnight \/ Crash \/ UNCHANGED vars
  <2>1. \A v \in Callers : Covered(v)
    BY <1>1, <1>9 DEF Remove, Unlink, UnlinkFails, BatchUnlink, BatchCommit, BatchFails,
                      Midnight, Crash, vars, Spending
  <2>2. rows' \subseteq rows
    BY <1>9 DEF Remove, Unlink, UnlinkFails, BatchUnlink, BatchCommit, BatchFails,
                Midnight, Crash, vars
  <2> QED
    BY <2>1, <2>2, StorageKept
<1> QED
  BY <1>3, <1>4, <1>5, <1>6, <1>7, <1>8, <1>9 DEF Next, Step

\* So it holds in every state.
LEMMA StorageInvariant == Spec => []StorageInv
  BY InitStorageInv, StorageInvStep, LockInvariant, PTL DEF Spec

\* No interleaving of callers, deletions and crashes stores more than the
\* owner's share (ingestion.py:140).
THEOREM StorageTheorem == Spec => []StorageWithinLimit
<1>1. StorageInv => StorageWithinLimit
  BY DEF StorageInv
<1> QED
  BY <1>1, StorageInvariant, PTL

-----------------------------------------------------------------------------
(***************************************************************************)
(* Fourth layer: the daily counter.                                        *)
(***************************************************************************)

Reserved(w) == pc[w] \in {"write", "commit", "unlink", "release"}

\* The reservations of an owner's day that are neither used nor given back.
Held(o, d) == IF Pending(o, d) = {} THEN 0 ELSE 1

\* While a caller holds a reservation its owner counts nothing on a later day,
\* so that a release after midnight finds nothing to take.
LateReleaseHarmless(w) ==
    /\ job[w].day <= today
    /\ \A o \in Owners, d \in Days : o = job[w].owner /\ d > job[w].day => usage[<<o, d>>] = 0
    /\ "midnight" \notin faults => job[w].day = today

CounterInv ==
    /\ \A o \in Owners, d \in Days :
          /\ accepted[<<o, d>>] + Held(o, d) <= usage[<<o, d>>]
          /\ faults \cap {"crash", "midnight", "kept"} = {} =>
                usage[<<o, d>>] = accepted[<<o, d>>] + Held(o, d)
          /\ d > today => usage[<<o, d>>] = 0
    /\ \A w \in Callers : Reserved(w) => LateReleaseHarmless(w)

\* The lock leaves one reservation pending at most.
LEMMA HeldCounts ==
  ASSUME LockInv, NEW o, NEW d
  PROVE  Cardinality(Pending(o, d)) = Held(o, d)
<1>1. CASE Pending(o, d) = {}
  BY <1>1, FS_EmptySet DEF Held
<1>2. CASE Pending(o, d) # {}
  <2>1. PICK w \in Callers : w \in Pending(o, d)
    BY <1>2 DEF Pending
  <2>2. Pending(o, d) = {w}
    BY <2>1 DEF Pending, LockInv, OneInside, Inside
  <2> QED
    BY <1>2, <2>2, FS_Singleton DEF Held
<1> QED
  BY <1>1, <1>2

\* The caller inside is the only one whose reservation is pending.
LEMMA HeldAlone ==
  ASSUME LockInv, NEW w \in Callers, Inside(w)
  PROVE  \A o, d : Held(o, d) =
            IF Reserved(w) /\ job[w].owner = o /\ job[w].day = d THEN 1 ELSE 0
<1> SUFFICES ASSUME NEW o, NEW d
             PROVE  Held(o, d) =
                       IF Reserved(w) /\ job[w].owner = o /\ job[w].day = d THEN 1 ELSE 0
  OBVIOUS
<1>1. \A v \in Pending(o, d) : v = w
  BY DEF Pending, LockInv, OneInside, Inside
<1>2. w \in Pending(o, d) <=> Reserved(w) /\ job[w].owner = o /\ job[w].day = d
  BY DEF Pending, Reserved
<1> QED
  BY <1>1, <1>2 DEF Held

\* Nothing is counted, nothing reserved.
LEMMA InitCounterInv == Init => CounterInv
<1> SUFFICES ASSUME Init PROVE CounterInv
  OBVIOUS
<1>1. \A o, d : Held(o, d) = 0
  BY DEF Init, Held, Pending
<1>2. ASSUME NEW o \in Owners, NEW d \in Days
      PROVE  accepted[<<o, d>>] = 0 /\ usage[<<o, d>>] = 0
  <2>1. <<o, d>> \in Owners \X Days
    OBVIOUS
  <2> QED
    BY <2>1 DEF Init
<1>3. \A w \in Callers : ~Reserved(w)
  BY DEF Init, Reserved
<1> QED
  BY <1>1, <1>2, <1>3 DEF CounterInv

\* The counters of a state are numbers, day by day.
LEMMA CountersAreNumbers ==
  ASSUME TypeOK
  PROVE  /\ today \in Nat
         /\ \A o \in Owners, d \in Days :
               /\ d \in Nat /\ usage[<<o, d>>] \in Nat /\ accepted[<<o, d>>] \in Nat
               /\ Held(o, d) \in {0, 1}
<1>1. today \in Nat
  BY IngestionAssumption DEF TypeOK
<1>2. ASSUME NEW o \in Owners, NEW d \in Days
      PROVE  d \in Nat /\ usage[<<o, d>>] \in Nat /\ accepted[<<o, d>>] \in Nat
  <2>1. <<o, d>> \in Owners \X Days
    OBVIOUS
  <2>2. usage[<<o, d>>] \in 0..DailyLimit /\ accepted[<<o, d>>] \in Nat
    BY <2>1 DEF TypeOK
  <2>3. \A n \in 0..DailyLimit : n \in Nat
    BY IngestionAssumption
  <2> QED
    BY <2>2, <2>3, IngestionAssumption
<1>3. \A o, d : Held(o, d) \in {0, 1}
  BY DEF Held
<1> QED
  BY <1>1, <1>2, <1>3

\* A caller that has not reserved leaves every counter and reservation alone.
LEMMA CountersUntouched ==
  ASSUME TypeOK, CounterInv,
         UNCHANGED <<usage, accepted, today>>, faults \subseteq faults',
         \A o \in Owners, d \in Days : Held(o, d)' = Held(o, d),
         \A w \in Callers : Reserved(w)' =>
            \/ Reserved(w) /\ job'[w] = job[w]
            \/ job'[w].owner = NoOwner /\ job'[w].day = today
  PROVE  CounterInv'
<1> USE IngestionAssumption
<1>1. ASSUME NEW o \in Owners, NEW d \in Days
      PROVE  /\ (accepted[<<o, d>>] + Held(o, d) <= usage[<<o, d>>])'
             /\ (faults \cap {"crash", "midnight", "kept"} = {} =>
                   usage[<<o, d>>] = accepted[<<o, d>>] + Held(o, d))'
             /\ (d > today => usage[<<o, d>>] = 0)'
  BY DEF CounterInv
<1>2. ASSUME NEW w \in Callers, Reserved(w)' PROVE LateReleaseHarmless(w)'
  <2>1. CASE Reserved(w) /\ job'[w] = job[w]
    BY <2>1 DEF CounterInv, LateReleaseHarmless
  <2>2. CASE job'[w].owner = NoOwner /\ job'[w].day = today
    BY <2>2, CountersAreNumbers DEF LateReleaseHarmless
  <2> QED
    BY <1>2, <2>1, <2>2
<1> QED
  BY <1>1, <1>2 DEF CounterInv

\* A reservation adds one to the counter and is pending.
LEMMA ReserveCounts ==
  ASSUME LockInv, LockInv', CounterInv, NEW w \in Callers, Reserve(w)
  PROVE  CounterInv'
<1>1. /\ pc[w] = "reserve" /\ pc'[w] = "write" /\ job[w] \in Job /\ job[w].owner \in Owners
      /\ job'[w] = [job[w] EXCEPT !.day = today]
      /\ usage' = [usage EXCEPT ![<<job[w].owner, today>>] = @ + 1]
      /\ UNCHANGED <<accepted, today, faults>>
  BY DEF Reserve, Goto, LockInv, OneInside, Inside, TypeOK, Job, Tenants
<1>2. Inside(w) /\ Inside(w)' /\ ~Reserved(w) /\ Reserved(w)'
  BY <1>1 DEF Inside, Reserved
<1>3. job'[w].owner = job[w].owner /\ job'[w].day = today
  BY <1>1 DEF Job
<1>4. ASSUME NEW o \in Owners, NEW d \in Days
      PROVE  /\ Held(o, d) = 0
             /\ Held(o, d)' = IF o = job[w].owner /\ d = today THEN 1 ELSE 0
             /\ usage'[<<o, d>>] = IF o = job[w].owner /\ d = today
                                   THEN usage[<<o, d>>] + 1 ELSE usage[<<o, d>>]
  <2>1. Held(o, d) = 0
    BY <1>2, HeldAlone
  <2>2. Held(o, d)' = IF o = job[w].owner /\ d = today THEN 1 ELSE 0
    <3>1. \A v \in Callers : Reserved(v)' => v = w
      BY <1>2 DEF LockInv, OneInside, Inside, Reserved
    <3>2. Pending(o, d)' = IF o = job[w].owner /\ d = today THEN {w} ELSE {}
      BY <1>2, <1>3, <3>1 DEF Pending, Reserved
    <3> QED
      BY <3>2 DEF Held
  <2>3. <<o, d>> \in Owners \X Days /\ usage \in [Owners \X Days -> 0..DailyLimit]
    BY DEF LockInv, TypeOK
  <2> QED
    BY <1>1, <2>1, <2>2, <2>3
<1>5. ASSUME NEW o \in Owners, NEW d \in Days
      PROVE  /\ (accepted[<<o, d>>] + Held(o, d) <= usage[<<o, d>>])'
             /\ (faults \cap {"crash", "midnight", "kept"} = {} =>
                   usage[<<o, d>>] = accepted[<<o, d>>] + Held(o, d))'
             /\ (d > today => usage[<<o, d>>] = 0)'
  <2>1. /\ today \in Nat /\ d \in Nat
        /\ usage[<<o, d>>] \in Nat /\ accepted[<<o, d>>] \in Nat
    BY CountersAreNumbers DEF LockInv
  <2> QED
    BY <1>1, <1>4, <2>1 DEF CounterInv
<1>6. ASSUME NEW v \in Callers, Reserved(v)' PROVE LateReleaseHarmless(v)'
  <2>1. v = w
    BY <1>2, <1>6 DEF LockInv, OneInside, Inside, Reserved
  <2>2. today \in Nat /\ today' = today
    BY <1>1, CountersAreNumbers DEF LockInv
  <2>3. \A o \in Owners, d \in Days : d > today => usage'[<<o, d>>] = 0
    BY <1>1, <1>5
  <2> QED
    BY <1>3, <2>1, <2>2, <2>3 DEF LateReleaseHarmless
<1> QED
  BY <1>5, <1>6 DEF CounterInv

\* A commit turns the reservation into a stored file.
LEMMA CommitCounts ==
  ASSUME LockInv, LockInv', CounterInv, NEW w \in Callers, Commit(w)
  PROVE  CounterInv'
<1>1. /\ pc[w] = "commit" /\ pc' = [pc EXCEPT ![w] = "idle"] /\ job[w] \in Job
      /\ pc \in [Callers -> PC] /\ accepted \in [Owners \X Days -> Nat]
      /\ accepted' = IF job[w].owner = NoOwner THEN accepted
                     ELSE [accepted EXCEPT ![<<job[w].owner, job[w].day>>] = @ + 1]
      /\ UNCHANGED <<usage, today, faults>>
  BY DEF Commit, Goto, Return, LockInv, OneInside, Inside, TypeOK
<1>2. Inside(w) /\ Reserved(w)
  BY <1>1 DEF Inside, Reserved
<1>3. \A v \in Callers : ~Reserved(v)'
  BY <1>1, <1>2 DEF LockInv, OneInside, Inside, Reserved
<1>4. ASSUME NEW o \in Owners, NEW d \in Days
      PROVE  /\ Held(o, d) = IF job[w].owner = o /\ job[w].day = d THEN 1 ELSE 0
             /\ Held(o, d)' = 0
             /\ accepted'[<<o, d>>] = accepted[<<o, d>>] + Held(o, d)
  <2>1. Held(o, d) = IF job[w].owner = o /\ job[w].day = d THEN 1 ELSE 0
    BY <1>2, HeldAlone
  <2>2. Held(o, d)' = 0
    BY <1>3 DEF Held, Pending, Reserved
  <2>3. <<o, d>> \in Owners \X Days /\ NoOwner \notin Owners
    BY IngestionAssumption
  <2>4. accepted[<<o, d>>] \in Nat
    BY <1>1, <2>3
  <2>5. accepted'[<<o, d>>] = IF job[w].owner = o /\ job[w].day = d
                              THEN accepted[<<o, d>>] + 1 ELSE accepted[<<o, d>>]
    BY <1>1, <2>3
  <2> QED
    BY <2>1, <2>2, <2>4, <2>5
<1>5. ASSUME NEW o \in Owners, NEW d \in Days
      PROVE  /\ (accepted[<<o, d>>] + Held(o, d) <= usage[<<o, d>>])'
             /\ (faults \cap {"crash", "midnight", "kept"} = {} =>
                   usage[<<o, d>>] = accepted[<<o, d>>] + Held(o, d))'
             /\ (d > today => usage[<<o, d>>] = 0)'
  <2>1. /\ usage[<<o, d>>] \in Nat /\ accepted[<<o, d>>] \in Nat /\ Held(o, d) \in {0, 1}
    BY CountersAreNumbers DEF LockInv
  <2> QED
    BY <1>1, <1>4, <2>1 DEF CounterInv
<1> QED
  BY <1>3, <1>5 DEF CounterInv

\* A release takes the reservation back on its own day, and nothing later.
LEMMA ReleaseCounts ==
  ASSUME LockInv, LockInv', CounterInv, NEW w \in Callers, Release(w)
  PROVE  CounterInv'
<1>1. /\ pc[w] = "release" /\ pc' = [pc EXCEPT ![w] = "idle"] /\ job[w] \in Job
      /\ pc \in [Callers -> PC]
      /\ usage' = Released(w)
      /\ UNCHANGED <<accepted, today, faults>>
  BY DEF Release, Goto, Return, LockInv, OneInside, Inside, TypeOK
<1>2. Inside(w) /\ Reserved(w)
  BY <1>1 DEF Inside, Reserved
<1>3. \A v \in Callers : ~Reserved(v)'
  BY <1>1, <1>2 DEF LockInv, OneInside, Inside, Reserved
<1>4. ASSUME NEW o \in Owners, NEW d \in Days
      PROVE  /\ (accepted[<<o, d>>] + Held(o, d) <= usage[<<o, d>>])'
             /\ (faults \cap {"crash", "midnight", "kept"} = {} =>
                   usage[<<o, d>>] = accepted[<<o, d>>] + Held(o, d))'
             /\ (d > today => usage[<<o, d>>] = 0)'
  <2>1. Held(o, d) = IF job[w].owner = o /\ job[w].day = d THEN 1 ELSE 0
    BY <1>2, HeldAlone
  <2>2. Held(o, d)' = 0
    BY <1>3 DEF Held, Pending, Reserved
  <2>3. usage'[<<o, d>>] = IF o = job[w].owner /\ d = today /\ usage[<<o, d>>] # 0
                           THEN usage[<<o, d>>] - 1 ELSE usage[<<o, d>>]
    BY <1>1, ReleasedLowers DEF LockInv
  <2>4. /\ today \in Nat /\ d \in Nat /\ job[w].day \in Nat
        /\ usage[<<o, d>>] \in Nat /\ accepted[<<o, d>>] \in Nat
    BY <1>1, CountersAreNumbers, IngestionAssumption DEF LockInv, Job
  <2>5. /\ accepted[<<o, d>>] + Held(o, d) <= usage[<<o, d>>]
        /\ faults \cap {"crash", "midnight", "kept"} = {} =>
              usage[<<o, d>>] = accepted[<<o, d>>] + Held(o, d)
        /\ d > today => usage[<<o, d>>] = 0
    BY DEF CounterInv
  <2>6. /\ job[w].day <= today
        /\ o = job[w].owner /\ d > job[w].day => usage[<<o, d>>] = 0
        /\ "midnight" \notin faults => job[w].day = today
    BY <1>2 DEF CounterInv, LateReleaseHarmless
  <2>7. (accepted[<<o, d>>] <= usage'[<<o, d>>]) /\ (d > today => usage'[<<o, d>>] = 0)
    BY <2>1, <2>3, <2>4, <2>5, <2>6
  <2>8. ASSUME faults \cap {"crash", "midnight", "kept"} = {}
        PROVE  usage'[<<o, d>>] = accepted[<<o, d>>]
    <3>1. job[w].day = today
      BY <2>6, <2>8
    <3>2. usage[<<o, d>>] = accepted[<<o, d>>] + Held(o, d)
      BY <2>5, <2>8
    <3> QED
      BY <2>1, <2>3, <2>4, <2>6, <3>1, <3>2
  <2> QED
    BY <1>1, <2>2, <2>4, <2>7, <2>8
<1> QED
  BY <1>3, <1>4 DEF CounterInv

\* The day ends: what was counted stays, and the new day starts at zero.
LEMMA MidnightCounts ==
  ASSUME LockInv, CounterInv, Midnight
  PROVE  CounterInv'
<1>1. /\ today' = today + 1 /\ "midnight" \in faults'
      /\ UNCHANGED <<pc, job, usage, accepted>>
  BY DEF Midnight, Mark
<1>2. ASSUME NEW o \in Owners, NEW d \in Days
      PROVE  /\ (accepted[<<o, d>>] + Held(o, d) <= usage[<<o, d>>])'
             /\ (d > today => usage[<<o, d>>] = 0)'
  <2>1. today \in Nat /\ d \in Nat
    BY CountersAreNumbers DEF LockInv
  <2>2. Held(o, d)' = Held(o, d)
    BY <1>1 DEF Held, Pending
  <2> QED
    BY <1>1, <2>1, <2>2 DEF CounterInv
<1>3. ASSUME NEW w \in Callers, Reserved(w)' PROVE LateReleaseHarmless(w)'
  <2>1. Reserved(w) /\ job[w] \in Job
    BY <1>1, <1>3 DEF Reserved, LockInv, OneInside, Inside
  <2>2. today \in Nat /\ job[w].day \in Nat
    BY <2>1, CountersAreNumbers, IngestionAssumption DEF LockInv, Job
  <2> QED
    BY <1>1, <2>1, <2>2 DEF CounterInv, LateReleaseHarmless
<1> QED
  BY <1>1, <1>2, <1>3 DEF CounterInv

\* A crash forgets who held a reservation, and the counter keeps it.
LEMMA CrashCounts ==
  ASSUME LockInv, CounterInv, Crash
  PROVE  CounterInv'
<1>1. /\ \A w \in Callers : ~Reserved(w)'
      /\ "crash" \in faults' /\ UNCHANGED <<usage, accepted, today>>
  BY DEF Crash, Reserved
<1>2. ASSUME NEW o \in Owners, NEW d \in Days
      PROVE  /\ (accepted[<<o, d>>] + Held(o, d) <= usage[<<o, d>>])'
             /\ (d > today => usage[<<o, d>>] = 0)'
  <2>1. /\ usage[<<o, d>>] \in Nat /\ accepted[<<o, d>>] \in Nat /\ Held(o, d) \in {0, 1}
    BY CountersAreNumbers DEF LockInv
  <2>2. Held(o, d)' = 0
    BY <1>1 DEF Held, Pending, Reserved
  <2> QED
    BY <1>1, <2>1, <2>2 DEF CounterInv
<1> QED
  BY <1>1, <1>2 DEF CounterInv

\* A caller that leaves without giving back leaves its charge in the counter.
LEMMA ChargeKept ==
  ASSUME LockInv, CounterInv, NEW w \in Callers,
         MkdirFails(w) \/ UnlinkFailedFails(w) \/ ReleaseFails(w)
  PROVE  CounterInv'
<1>1. /\ Inside(w) /\ pc \in [Callers -> PC] /\ pc' = [pc EXCEPT ![w] = "idle"]
      /\ "kept" \in faults' /\ UNCHANGED <<usage, accepted, today>>
  BY DEF MkdirFails, UnlinkFailedFails, ReleaseFails, Goto, Return, Mark, Inside,
         LockInv, TypeOK
<1>2. \A v \in Callers : ~Reserved(v)'
  BY <1>1 DEF LockInv, OneInside, Inside, Reserved
<1>3. ASSUME NEW o \in Owners, NEW d \in Days
      PROVE  /\ (accepted[<<o, d>>] + Held(o, d) <= usage[<<o, d>>])'
             /\ (d > today => usage[<<o, d>>] = 0)'
  <2>1. /\ usage[<<o, d>>] \in Nat /\ accepted[<<o, d>>] \in Nat /\ Held(o, d) \in {0, 1}
    BY CountersAreNumbers DEF LockInv
  <2>2. Held(o, d)' = 0
    BY <1>2 DEF Held, Pending, Reserved
  <2> QED
    BY <1>1, <2>1, <2>2 DEF CounterInv
<1> QED
  BY <1>1, <1>2, <1>3 DEF CounterInv

\* The other steps leave the counters, and who holds what, alone.
LEMMA CounterInvStep == LockInv /\ LockInv' /\ CounterInv /\ [Next]_vars => CounterInv'
<1> SUFFICES ASSUME LockInv, LockInv', CounterInv, [Next]_vars PROVE CounterInv'
  OBVIOUS
<1>1. ASSUME NEW w \in Callers, NEW o \in Tenants, NEW c \in Contents, NEW i \in Ids,
             Enter(w, o, c, i)
      PROVE  CounterInv'
  <2>1. /\ pc \in [Callers -> PC] /\ job \in [Callers -> Job \cup {NoJob}]
        /\ \A v \in Callers : pc[v] = "idle"
        /\ pc' = [pc EXCEPT ![w] = IF o = NoOwner THEN "write" ELSE "check"]
        /\ job' = [job EXCEPT ![w] = [owner |-> o, content |-> c, id |-> i, day |-> today]]
        /\ UNCHANGED <<usage, accepted, today, faults>>
    BY <1>1 DEF Enter, Goto, LockFree, LockInv, TypeOK
  <2>2. \A v \in Callers : Reserved(v)' =>
           v = w /\ job'[v].owner = NoOwner /\ job'[v].day = today
    BY <2>1 DEF Reserved
  <2>3. \A p \in Owners, d \in Days : Pending(p, d) = {} /\ Pending(p, d)' = {}
    BY <2>1, <2>2, IngestionAssumption DEF Pending, Reserved
  <2> QED
    BY <2>1, <2>2, <2>3, CountersUntouched DEF LockInv, Held
<1>2. ASSUME NEW w \in Callers,
             \/ CheckStorage(w) \/ RefuseStorage(w) \/ RefuseQuota(w) \/ LimitsFail(w)
             \/ Write(w)
             \/ WriteFails(w) \/ CommitFails(w) \/ UnlinkFailed(w)
      PROVE  CounterInv'
  <2>1. pc \in [Callers -> PC] /\ job \in [Callers -> Job \cup {NoJob}]
    BY DEF LockInv, TypeOK
  <2>2. /\ UNCHANGED <<usage, accepted, today>> /\ faults \subseteq faults'
        /\ \A v \in Callers : Reserved(v)' <=> Reserved(v)
        /\ \A v \in Callers : Reserved(v)' => job'[v] = job[v]
    BY <1>2, <2>1
       DEF CheckStorage, RefuseStorage, RefuseQuota, LimitsFail, Write, WriteFails,
           CommitFails, UnlinkFailed, Goto, Return, Mark, Reserved
  <2>3. \A o, d : Pending(o, d)' = Pending(o, d)
    BY <2>2 DEF Pending, Reserved
  <2> QED
    BY <2>2, <2>3, CountersUntouched DEF LockInv, Held
<1>3. ASSUME NEW w \in Callers, Reserve(w) \/ Commit(w) \/ Release(w) PROVE CounterInv'
  BY <1>3, ReserveCounts, CommitCounts, ReleaseCounts
<1>4. ASSUME \/ \E i \in Ids : Remove(i) \/ Unlink(i) \/ UnlinkFails(i)
             \/ \E i \in Ids : BatchUnlink(i) \/ BatchCommit(i) \/ BatchFails(i)
             \/ UNCHANGED vars
      PROVE  CounterInv'
  <2>1. UNCHANGED <<pc, job, usage, accepted, today>> /\ faults \subseteq faults'
    BY <1>4 DEF Remove, Unlink, UnlinkFails, BatchUnlink, BatchCommit, BatchFails, Mark, vars
  <2>2. \A o, d : Held(o, d)' = Held(o, d)
    BY <2>1 DEF Held, Pending
  <2> QED
    BY <2>1, <2>2, CountersUntouched DEF LockInv, Reserved
<1>5. CASE Midnight
  BY <1>5, MidnightCounts
<1>6. CASE Crash
  BY <1>6, CrashCounts
<1>7. ASSUME NEW w \in Callers, MkdirFails(w) \/ UnlinkFailedFails(w) \/ ReleaseFails(w)
      PROVE  CounterInv'
  BY <1>7, ChargeKept
<1> QED
  BY <1>1, <1>2, <1>3, <1>4, <1>5, <1>6, <1>7 DEF Next, Step

\* So it holds in every state.
LEMMA CounterInvariant == Spec => []CounterInv
  BY InitCounterInv, CounterInvStep, LockInvariant, PTL DEF Spec

\* The counter covers what was stored on the strength of it, across midnight
\* too; without midnight, crash and a failed clean-up it is exactly that and the
\* reservation in hand (quota_service.py:232, ingestion.py:95, :116, :126).
THEOREM CounterTheorem == Spec => []CounterCoversAccepted
<1>1. LockInv /\ CounterInv => CounterCoversAccepted
  <2> SUFFICES ASSUME LockInv, CounterInv PROVE CounterCoversAccepted
    OBVIOUS
  <2>1. ASSUME NEW o \in Owners, NEW d \in Days
        PROVE  /\ accepted[<<o, d>>] <= usage[<<o, d>>]
               /\ faults \cap {"crash", "midnight", "kept"} = {} =>
                     usage[<<o, d>>] = accepted[<<o, d>>] + Cardinality(Pending(o, d))
    <3>1. /\ usage[<<o, d>>] \in Nat /\ accepted[<<o, d>>] \in Nat /\ Held(o, d) \in {0, 1}
      BY CountersAreNumbers DEF LockInv
    <3>2. Cardinality(Pending(o, d)) = Held(o, d)
      BY HeldCounts
    <3> QED
      BY <3>1, <3>2 DEF CounterInv
  <2> QED
    BY <2>1 DEF CounterCoversAccepted
<1> QED
  BY <1>1, LockInvariant, CounterInvariant, PTL
=============================================================================
