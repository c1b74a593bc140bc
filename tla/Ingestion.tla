----------------------------- MODULE Ingestion -----------------------------
(***************************************************************************)
(* ingest_bytes of app/services/ingestion.py: how one validated file becomes *)
(* a stored original and a row, within the owner's storage and daily upload  *)
(* limits of app/services/quota_service.py.                                  *)
(*                                                                         *)
(* Callers are the upload handler on the event loop and mailbox scans on     *)
(* their threads.  _ingest_lock makes them take turns, but not the deletions *)
(* and not the clock: every database commit and every file operation is a    *)
(* step of its own, and the process may stop between any two of them.        *)
(***************************************************************************)
EXTENDS Naturals, FiniteSets

CONSTANTS
    Callers,      \* threads that call ingest_bytes
    Owners,       \* user ids
    NoOwner,      \* owner_id None: a mailbox without created_by
    Contents,     \* files that pass validate_file, told apart by sha256
    Size,         \* Size[c]: length of the content
    Ids,          \* ids, and stored names, ever given out (a bound)
    Days,         \* 1..n, the calendar days of a behaviour (a bound)
    StorageLimit, \* max_user_storage_mb
    DailyLimit    \* max_user_daily_upload_files

NoJob == [owner |-> "none"]
Tenants == Owners \cup {NoOwner}
Job == [owner : Tenants, content : Contents, id : Ids, day : Days]

ASSUME IngestionAssumption ==
    /\ NoOwner \notin Owners
    /\ Size \in [Contents -> Nat]
    /\ StorageLimit \in Nat /\ DailyLimit \in Nat \ {0}
    /\ Days \subseteq Nat /\ 1 \in Days

VARIABLES
    pc,        \* where each caller is in _ingest_bytes_locked
    job,       \* what it ingests; day is the day it reserved on
    rows,      \* the invoices table
    disk,      \* stored names in uploads/
    issued,    \* ids given out so far
    usage,     \* resource_usage: count of "upload" by owner and day
    removing,  \* rows deleted, file not yet unlinked
    doomed,    \* files unlinked by a batch deletion, rows not yet deleted
    today,     \* the calendar day
    accepted,  \* history: files stored, by owner and day of reservation
    faults     \* history: faults that happened

vars == <<pc, job, rows, disk, issued, usage, removing, doomed, today, accepted, faults>>

Row == [id : Ids, owner : Tenants, content : Contents]
PC == {"idle", "check", "reserve", "write", "commit", "unlink", "release"}

TypeOK ==
    /\ pc \in [Callers -> PC]
    /\ job \in [Callers -> Job \cup {NoJob}]
    /\ rows \subseteq Row
    /\ disk \subseteq Ids /\ issued \subseteq Ids
    /\ removing \subseteq Ids /\ doomed \subseteq Ids
    /\ usage \in [Owners \X Days -> 0..DailyLimit]
    /\ accepted \in [Owners \X Days -> Nat]
    /\ today \in Days
    /\ faults \subseteq {"crash", "midnight", "disk", "database", "kept", "batch"}

Init ==
    /\ pc = [w \in Callers |-> "idle"]
    /\ job = [w \in Callers |-> NoJob]
    /\ rows = {} /\ disk = {} /\ issued = {} /\ removing = {} /\ doomed = {}
    /\ usage = [od \in Owners \X Days |-> 0]
    /\ accepted = [od \in Owners \X Days |-> 0]
    /\ today = 1
    /\ faults = {}

-----------------------------------------------------------------------------

\* Mutant: no lock.
LockIgnored == TRUE

LockFree == \A w \in Callers : pc[w] = "idle"

Stored(o, c) == \E r \in rows : r.owner = o /\ r.content = c
IdsOf(S) == {r.id : r \in S}

\* The sum of file_size over the owner's rows, as the number of bytes stored.
Bytes(S) == UNION {{r} \X (1..Size[r.content]) : r \in S}
UsedBy(o) == Cardinality(Bytes({r \in rows : r.owner = o}))

Goto(w, label) == pc' = [pc EXCEPT ![w] = label]
Return(w) == Goto(w, "idle") /\ job' = [job EXCEPT ![w] = NoJob]
Mark(fault) == faults' = faults \cup {fault}

\* The lock is taken and the owner has no row with this content; a content
\* already stored is answered with its row and changes nothing.
Enter(w, o, c, i) ==
    /\ pc[w] = "idle" /\ LockFree
    /\ ~Stored(o, c)
    /\ i \in Ids \ issued
    /\ Goto(w, IF o = NoOwner THEN "write" ELSE "check")
    /\ job' = [job EXCEPT ![w] = [owner |-> o, content |-> c, id |-> i, day |-> today]]
    /\ issued' = issued \cup {i}
    /\ UNCHANGED <<rows, disk, usage, removing, doomed, today, accepted, faults>>

\* assert_user_storage_available
CheckStorage(w) ==
    /\ pc[w] = "check"
    /\ UsedBy(job[w].owner) + Size[job[w].content] <= StorageLimit
    /\ Goto(w, "reserve")
    /\ UNCHANGED <<job, rows, disk, issued, usage, removing, doomed, today, accepted, faults>>

RefuseStorage(w) ==
    /\ pc[w] = "check"
    /\ UsedBy(job[w].owner) + Size[job[w].content] > StorageLimit
    /\ Return(w)
    /\ UNCHANGED <<rows, disk, issued, usage, removing, doomed, today, accepted, faults>>

\* reserve_resource_usage: one upsert, bounded by its WHERE clause.
Reserve(w) ==
    /\ pc[w] = "reserve"
    /\ usage[<<job[w].owner, today>>] < DailyLimit
    /\ usage' = [usage EXCEPT ![<<job[w].owner, today>>] = @ + 1]
    /\ job' = [job EXCEPT ![w].day = today]
    /\ Goto(w, "write")
    /\ UNCHANGED <<rows, disk, issued, removing, doomed, today, accepted, faults>>

RefuseQuota(w) ==
    /\ pc[w] = "reserve"
    /\ usage[<<job[w].owner, today>>] >= DailyLimit
    /\ Return(w)
    /\ UNCHANGED <<rows, disk, issued, usage, removing, doomed, today, accepted, faults>>

\* A query or the commit of the reservation fails: nothing is charged.
LimitsFail(w) ==
    /\ pc[w] \in {"check", "reserve"}
    /\ Mark("database")
    /\ Return(w)
    /\ UNCHANGED <<rows, disk, issued, usage, removing, doomed, today, accepted>>

\* mkdir raises, outside of the try: the reservation stays charged.
MkdirFails(w) ==
    /\ pc[w] = "write"
    /\ Mark("kept")
    /\ Return(w)
    /\ UNCHANGED <<rows, disk, issued, usage, removing, doomed, today, accepted>>

Write(w) ==
    /\ pc[w] = "write"
    /\ disk' = disk \cup {job[w].id}
    /\ Goto(w, "commit")
    /\ UNCHANGED <<job, rows, issued, usage, removing, doomed, today, accepted, faults>>

\* write_bytes raises; what it wrote so far stays on disk.
WriteFails(w) ==
    /\ pc[w] = "write"
    /\ \E partial \in {{}, {job[w].id}} : disk' = disk \cup partial
    /\ Mark("disk")
    /\ Goto(w, "release")
    /\ UNCHANGED <<job, rows, issued, usage, removing, doomed, today, accepted>>

\* uq_invoice_owner_sha256; NULL owners do not conflict.
Conflict(w) == job[w].owner # NoOwner /\ Stored(job[w].owner, job[w].content)

Commit(w) ==
    /\ pc[w] = "commit"
    /\ ~Conflict(w)
    /\ rows' = rows \cup {[id |-> job[w].id, owner |-> job[w].owner,
                           content |-> job[w].content]}
    /\ accepted' = IF job[w].owner = NoOwner THEN accepted
                   ELSE [accepted EXCEPT ![<<job[w].owner, job[w].day>>] = @ + 1]
    /\ Return(w)
    /\ UNCHANGED <<disk, issued, usage, removing, doomed, today, faults>>

\* Mutant: the file of a failed commit is forgotten.
CommitFailsKeepsFile(w) ==
    /\ pc[w] = "commit"
    /\ Mark("database")
    /\ Goto(w, "release")
    /\ UNCHANGED <<job, rows, disk, issued, usage, removing, doomed, today, accepted>>

\* The constraint, a locked or a full database: roll back, then clean up.
CommitFails(w) ==
    /\ pc[w] = "commit"
    /\ Mark("database")
    /\ Goto(w, "unlink")
    /\ UNCHANGED <<job, rows, disk, issued, usage, removing, doomed, today, accepted>>

UnlinkFailed(w) ==
    /\ pc[w] = "unlink"
    /\ disk' = disk \ {job[w].id}
    /\ Goto(w, "release")
    /\ UNCHANGED <<job, rows, issued, usage, removing, doomed, today, accepted, faults>>

\* The clean-up itself fails: the file stays, and so does the charge.
UnlinkFailedFails(w) ==
    /\ pc[w] = "unlink"
    /\ faults' = faults \cup {"disk", "kept"}
    /\ Return(w)
    /\ UNCHANGED <<rows, disk, issued, usage, removing, doomed, today, accepted>>

\* Mutants: the reservation is kept; the counter has no floor.
NotReleased(w) == usage
ReleasedBelowZero(w) == [usage EXCEPT ![<<job[w].owner, today>>] = @ - 1]

\* release_resource_usage looks at today's counter, not at the reservation's.
Released(w) ==
    IF job[w].owner = NoOwner \/ usage[<<job[w].owner, today>>] = 0 THEN usage
    ELSE [usage EXCEPT ![<<job[w].owner, today>>] = @ - 1]

Release(w) ==
    /\ pc[w] = "release"
    /\ usage' = Released(w)
    /\ Return(w)
    /\ UNCHANGED <<rows, disk, issued, removing, doomed, today, accepted, faults>>

\* The release is a commit of its own, to the database that may just have failed.
ReleaseFails(w) ==
    /\ pc[w] = "release"
    /\ Released(w) # usage
    /\ Mark("kept")
    /\ Return(w)
    /\ UNCHANGED <<rows, disk, issued, usage, removing, doomed, today, accepted>>

(***************************************************************************)
(* What goes on beside an ingestion.                                       *)
(***************************************************************************)

\* Mutant: unlink, then commit.
RemoveFileFirst(i) ==
    /\ i \in IdsOf(rows)
    /\ \/ i \in disk /\ disk' = disk \ {i} /\ UNCHANGED rows
       \/ i \notin disk /\ rows' = {r \in rows : r.id # i} /\ UNCHANGED disk
    /\ UNCHANGED <<pc, job, issued, usage, removing, doomed, today, accepted, faults>>

\* delete_invoice, _remove_email_invoice: commit, then unlink.
Remove(i) ==
    /\ i \in IdsOf(rows)
    /\ rows' = {r \in rows : r.id # i}
    /\ removing' = removing \cup {i}
    /\ UNCHANGED <<pc, job, disk, issued, usage, doomed, today, accepted, faults>>

Unlink(i) ==
    /\ i \in removing
    /\ removing' = removing \ {i}
    /\ disk' = disk \ {i}
    /\ UNCHANGED <<pc, job, rows, issued, usage, doomed, today, accepted, faults>>

\* The unlink of a deletion fails; its row is gone already.
UnlinkFails(i) ==
    /\ i \in removing
    /\ removing' = removing \ {i}
    /\ Mark("disk")
    /\ UNCHANGED <<pc, job, rows, disk, issued, usage, doomed, today, accepted>>

\* invoices_batch_delete unlinks each file while its row still stands; the row
\* goes with the commit of the next audit record, or with the last one.
BatchUnlink(i) ==
    /\ i \in IdsOf(rows) /\ doomed = {}
    /\ disk' = disk \ {i}
    /\ doomed' = {i}
    /\ UNCHANGED <<pc, job, rows, issued, usage, removing, today, accepted, faults>>

BatchCommit(i) ==
    /\ i \in doomed
    /\ rows' = {r \in rows : r.id # i}
    /\ doomed' = doomed \ {i}
    /\ UNCHANGED <<pc, job, disk, issued, usage, removing, today, accepted, faults>>

\* The deletion is refused, because a row still refers to it, or its commit
\* fails: the row stays without its file.
BatchFails(i) ==
    /\ i \in doomed
    /\ doomed' = doomed \ {i}
    /\ Mark("batch")
    /\ UNCHANGED <<pc, job, rows, disk, issued, usage, removing, today, accepted>>

Midnight ==
    /\ today + 1 \in Days
    /\ today' = today + 1
    /\ Mark("midnight")
    /\ UNCHANGED <<pc, job, rows, disk, issued, usage, removing, doomed, accepted>>

\* The process stops; nothing cleans up when it starts again.
Crash ==
    /\ faults' = faults \cup {"crash"} \cup (IF doomed = {} THEN {} ELSE {"batch"})
    /\ pc' = [w \in Callers |-> "idle"]
    /\ job' = [w \in Callers |-> NoJob]
    /\ removing' = {} /\ doomed' = {}
    /\ UNCHANGED <<rows, disk, issued, usage, today, accepted>>

-----------------------------------------------------------------------------

Step(w) ==
    \/ CheckStorage(w) \/ RefuseStorage(w) \/ Reserve(w) \/ RefuseQuota(w)
    \/ LimitsFail(w) \/ MkdirFails(w) \/ Write(w) \/ WriteFails(w)
    \/ Commit(w) \/ CommitFails(w) \/ UnlinkFailed(w) \/ UnlinkFailedFails(w)
    \/ Release(w) \/ ReleaseFails(w)

Next ==
    \/ \E w \in Callers, o \in Tenants, c \in Contents, i \in Ids : Enter(w, o, c, i)
    \/ \E w \in Callers : Step(w)
    \/ \E i \in Ids : Remove(i) \/ Unlink(i) \/ UnlinkFails(i)
    \/ \E i \in Ids : BatchUnlink(i) \/ BatchCommit(i) \/ BatchFails(i)
    \/ Midnight \/ Crash

Spec == Init /\ [][Next]_vars

-----------------------------------------------------------------------------

\* A tenant never holds one content twice: not even the rows without an owner,
\* which the unique constraint does not cover (ingestion.py:77).
UniqueContent ==
    \A r, s \in rows : r.owner = s.owner /\ r.content = s.content => r = s

\* No interleaving of callers, deletions and crashes stores more than the
\* owner's share (the docstring of ingest_bytes, ingestion.py:140).
StorageWithinLimit == \A o \in Owners : UsedBy(o) <= StorageLimit

\* The ingestions that hold a reservation of the day.
Pending(o, d) ==
    {w \in Callers : /\ pc[w] \in {"write", "commit", "unlink", "release"}
                     /\ job[w].owner = o /\ job[w].day = d}

\* The counter never falls below what was stored on the strength of it, so
\* the daily limit bounds the files stored, also across midnight, although
\* the release looks at the wrong day (quota_service.py:232).  A file that is
\* refused or fails costs nothing (ingestion.py:95, :116, :126), unless a crash
\* or midnight falls into an ingestion or its clean-up fails as well: a release
\* that cannot commit, a file that cannot be removed, a directory that cannot
\* be made (ingestion.py:91) keep the charge.
CounterCoversAccepted ==
    \A o \in Owners, d \in Days :
        /\ accepted[<<o, d>>] <= usage[<<o, d>>]
        /\ faults \cap {"crash", "midnight", "kept"} = {} =>
              usage[<<o, d>>] = accepted[<<o, d>>] + Cardinality(Pending(o, d))

\* Files and rows agree.  As long as no batch deletion is cut short, a row that
\* none is about to delete has its original, after a crash too: the file is
\* written before the row is committed (ingestion.py:93, :113), and the deletion
\* of one invoice unlinks it after the row is gone (main.py:1696).  A batch
\* deletion unlinks first; run ledger_batch_file shows what a refused one leaves.
\* A file belongs to a row, to an ingestion or to a deletion in progress: a
\* failed commit leaves no file behind (ingestion.py:115, :125).
FilesMatchRows ==
    /\ "batch" \notin faults => IdsOf(rows) \ doomed \subseteq disk
    /\ faults \cap {"crash", "disk"} = {} =>
          disk \subseteq IdsOf(rows) \cup removing
                          \cup {job[w].id : w \in {v \in Callers : pc[v] # "idle"}}
=============================================================================
