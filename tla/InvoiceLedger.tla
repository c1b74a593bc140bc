--------------------------- MODULE InvoiceLedger ---------------------------
(***************************************************************************)
(* The invoices table, the stored files and everything that changes them:   *)
(* the page handlers of app/main.py (upload, reprocess, save, delete, batch  *)
(* delete) and the background task process_invoice of                        *)
(* app/services/verifier.py.                                                 *)
(*                                                                         *)
(* Handlers run on the one event loop.  After their last await they run to   *)
(* the end without another handler in between, so each is one action, except *)
(* that batch delete commits several times: tasks of the thread pool run     *)
(* between its commits, other handlers do not.                               *)
(*                                                                         *)
(* A task keeps the row it read (the session is made with                    *)
(* expire_on_commit=False) and writes, at the end, only the columns that     *)
(* differ from what it read; a row deleted meanwhile makes the flush raise,  *)
(* the error handler meets a dead transaction and raises again, and the      *)
(* remaining background tasks of that request are never run.  A database     *)
(* error outside the task's try, or in a flush, has the same end, and leaves  *)
(* the row as it was last committed.                                          *)
(***************************************************************************)
EXTENDS Naturals, Sequences, FiniteSets

CONSTANTS
    N,          \* ids of the universe (a bound)
    Requests,   \* responses whose background tasks can be pending at a time
    Owner,      \* Owner[i]: the owner_id of invoice i
    Printed,    \* Printed[i]: the number a successful extraction reads
    NoNumber,   \* the empty invoice_number
    Capacity,   \* tasks that work at a time: the slots of ProcessingSlots
    Environments
        \* each a record: size, the invoices that arrive at most (a bound), and
        \* ops, the user operations and faults that occur; "parallel" lets
        \* requests overlap, "busy" lets a wait for a slot time out, "fault"
        \* lets the database fail

Inv == 1..N
None == 0       \* duplicate_of NULL

Numbers == {Printed[i] : i \in Inv}

ASSUME LedgerAssumption ==
    /\ N \in Nat /\ Capacity \in Nat \ {0}
    /\ DOMAIN Owner = Inv /\ DOMAIN Printed = Inv
    /\ NoNumber \notin Numbers
    /\ \A e \in Environments : e.size \in 0..N

Status == {"pending", "processing", "verified", "consistent", "review",
           "reviewed", "duplicate", "failed"}
Method == {"", "provider", "dual", "single"}

\* method "provider" is piaozone or kingdee, "single" is ocr or llm; vat says
\* whether verified_at is set; num stands for the fields of the business key.
Row == [status : Status, method : Method, vat : BOOLEAN,
        num : Numbers \cup {NoNumber}, dup : Inv \cup {None}]

NoRow == [status |-> "absent"]

NewRow == [status |-> "pending", method |-> "", vat |-> FALSE,
           num |-> NoNumber, dup |-> None]

VARIABLES
    row,       \* the invoices table: row[i] or NoRow
    created,   \* how many ids were ever given out, in created_at order
    file,      \* ids whose original file is on disk
    unlinking, \* ids whose row is gone and whose file is being removed
    tasks,     \* tasks[r]: the process_invoice calls left in request r
    snap,      \* snap[r]: the row the running task read, NoRow if none runs
    batch,     \* the batch delete in progress
    env        \* the environment of this behaviour, chosen once

vars == <<row, created, file, unlinking, tasks, snap, batch, env>>

NoBatch == [active |-> FALSE, todo |-> <<>>, marked |-> None]

TypeOK ==
    /\ row \in [Inv -> Row \cup {NoRow}]
    /\ created \in 0..N
    /\ file \subseteq Inv
    /\ unlinking \subseteq Inv
    /\ tasks \in [Requests -> Seq(Inv)]
    /\ snap \in [Requests -> Row \cup {NoRow}]
    /\ batch \in [active : BOOLEAN, todo : Seq(Inv), marked : Inv \cup {None}]
    /\ env \in Environments

Init ==
    /\ row = [i \in Inv |-> NoRow]
    /\ created = 0
    /\ file = {}
    /\ unlinking = {}
    /\ tasks = [r \in Requests |-> <<>>]
    /\ snap = [r \in Requests |-> NoRow]
    /\ batch = NoBatch
    /\ env \in Environments

-----------------------------------------------------------------------------

Present == {i \in Inv : row[i] # NoRow}
Children(S) == {c \in Present : row[c].dup \in S}
Working == {r \in Requests : snap[r] # NoRow}

\* The event loop is free for another handler.
LoopFree == ~batch.active
Idle(r) == tasks[r] = <<>>

Occurs(op) == op \in env.ops
CanSubmit(r) == IF Occurs("parallel") THEN Idle(r) ELSE \A q \in Requests : Idle(q)

Earliest(S) == CHOOSE i \in S : \A j \in S : i <= j

\* Mutant: the relation is cut, the status is forgotten.
ReleasedKeepsStatus(x) == [x EXCEPT !.dup = None]

\* What the deletion of its original does to a duplicate.
Released(x) ==
    [x EXCEPT !.dup = None, !.status = IF x.vat THEN "verified" ELSE "review"]

(***************************************************************************)
(* Page handlers.                                                          *)
(***************************************************************************)

\* ingest_bytes stored k new files (module Ingestion); the tasks of the
\* response run in the order of the files.
Upload(r, k) ==
    /\ Occurs("upload")
    /\ LoopFree /\ CanSubmit(r)
    /\ created + k <= env.size
    /\ LET new == created + 1 .. created + k IN
          /\ row' = [i \in Inv |-> IF i \in new THEN NewRow ELSE row[i]]
          /\ file' = file \cup new
          /\ created' = created + k
          /\ tasks' = [tasks EXCEPT ![r] = [n \in 1..k |-> created + n]]
    /\ UNCHANGED <<unlinking, snap, batch, env>>

Reprocess(r, i) ==
    /\ Occurs("reprocess")
    /\ LoopFree /\ CanSubmit(r)
    /\ i \in Present
    /\ row' = [row EXCEPT ![i].status = "pending"]
    /\ tasks' = [tasks EXCEPT ![r] = <<i>>]
    /\ UNCHANGED <<created, file, unlinking, snap, batch, env>>

\* A provider's fields are read-only for the user, the others are not.
SaveInvoice(i, n) ==
    /\ Occurs("save")
    /\ LoopFree
    /\ i \in Present
    /\ row[i].method = "provider" => n = row[i].num
    /\ row' = [row EXCEPT ![i].num = n, ![i].status = "reviewed",
                          ![i].vat = TRUE]
    /\ UNCHANGED <<created, file, unlinking, tasks, snap, batch, env>>

DeleteInvoice(i) ==
    /\ Occurs("delete")
    /\ LoopFree
    /\ i \in Present
    /\ row' = [c \in Inv |-> IF c = i THEN NoRow
                             ELSE IF c \in Children({i}) THEN Released(row[c])
                             ELSE row[c]]
    /\ unlinking' = unlinking \cup {i}
    /\ UNCHANGED <<created, file, tasks, snap, batch, env>>

\* The unlink after the commit of delete_invoice.
Unlink(i) ==
    /\ i \in unlinking
    /\ unlinking' = unlinking \ {i}
    /\ file' = file \ {i}
    /\ UNCHANGED <<row, created, tasks, snap, batch, env>>

(***************************************************************************)
(* invoices_batch_delete.  The audit record of each invoice commits what is  *)
(* pending: the row marked before it.  The file is unlinked at once.         *)
(***************************************************************************)

\* The rows arrive in no particular order (the query has no ORDER BY).
Orders(S) ==
    {s \in [1..Cardinality(S) -> S] : \A m, n \in DOMAIN s : s[m] = s[n] => m = n}

BatchStart(s) ==
    /\ Occurs("batch")
    /\ LoopFree
    /\ s # <<>>
    /\ LET selected == {s[n] : n \in DOMAIN s} IN
          row' = [c \in Inv |-> IF c \in Children(selected) \ selected
                                THEN Released(row[c]) ELSE row[c]]
    /\ batch' = [active |-> TRUE, todo |-> Tail(s), marked |-> Head(s)]
    /\ file' = file \ {Head(s)}
    /\ UNCHANGED <<created, unlinking, tasks, snap, env>>

\* The flush deletes the marked row; SQLite refuses it while another row
\* still refers to it.
Referenced(i) == \E c \in Present \ {i} : row[c].dup = i

BatchNext ==
    /\ batch.active /\ batch.todo # <<>>
    /\ ~Referenced(batch.marked)
    /\ row' = [row EXCEPT ![batch.marked] = NoRow]
    /\ batch' = [batch EXCEPT !.todo = Tail(@), !.marked = Head(batch.todo)]
    /\ file' = file \ {Head(batch.todo)}
    /\ UNCHANGED <<created, unlinking, tasks, snap, env>>

BatchEnd ==
    /\ batch.active /\ batch.todo = <<>>
    /\ ~Referenced(batch.marked)
    /\ row' = [row EXCEPT ![batch.marked] = NoRow]
    /\ batch' = NoBatch
    /\ UNCHANGED <<created, file, unlinking, tasks, snap, env>>

\* IntegrityError, or a commit that fails: the handler ends with a 500, what is
\* committed stays.
BatchFails ==
    /\ batch.active
    /\ Referenced(batch.marked) \/ Occurs("fault")
    /\ batch' = NoBatch
    /\ UNCHANGED <<row, created, file, unlinking, tasks, snap, env>>

(***************************************************************************)
(* process_invoice, the background task at the head of a request.           *)
(***************************************************************************)

Done(r) == [tasks EXCEPT ![r] = Tail(@)]

\* Mutant: the task of a missing row is not dropped.
SkipMissingStuck(r) ==
    /\ ~Idle(r) /\ snap[r] = NoRow
    /\ Head(tasks[r]) \notin Present
    /\ UNCHANGED vars

\* The row was deleted while the task was queued.
SkipMissing(r) ==
    /\ ~Idle(r) /\ snap[r] = NoRow
    /\ Head(tasks[r]) \notin Present
    /\ tasks' = Done(r)
    /\ UNCHANGED <<row, created, file, unlinking, snap, batch, env>>

BeginProcessing(r) ==
    /\ ~Idle(r) /\ snap[r] = NoRow
    /\ Head(tasks[r]) \in Present
    /\ Cardinality(Working) < Capacity
    /\ LET i == Head(tasks[r])
           read == [row[i] EXCEPT !.status = "processing"] IN
          /\ row' = [row EXCEPT ![i] = read]
          /\ snap' = [snap EXCEPT ![r] = read]
    /\ UNCHANGED <<created, file, unlinking, tasks, batch, env>>

\* Mutant: a status no page knows.
QueueBusyUnknown(r) ==
    /\ Occurs("busy")
    /\ ~Idle(r) /\ snap[r] = NoRow
    /\ Head(tasks[r]) \in Present
    /\ row' = [row EXCEPT ![Head(tasks[r])].status = "queued"]
    /\ tasks' = Done(r)
    /\ UNCHANGED <<created, file, unlinking, snap, batch, env>>

\* ProcessingCapacityError: the row waits for the user to ask again.  The slots
\* may all be held by mailbox scans, which are not in this module.
QueueBusy(r) ==
    /\ Occurs("busy")
    /\ ~Idle(r) /\ snap[r] = NoRow
    /\ Head(tasks[r]) \in Present
    /\ row' = [row EXCEPT ![Head(tasks[r])].status = "pending"]
    /\ tasks' = Done(r)
    /\ UNCHANGED <<created, file, unlinking, snap, batch, env>>

\* Mutant: the consistent branch forgets the method.
VerdictsNoMethod(x, p) ==
    {[x EXCEPT !.status = "consistent", !.vat = TRUE, !.num = p],
     [x EXCEPT !.status = "verified", !.method = "provider", !.num = p]}

\* verified_at is set by every conclusion but a review.
Concluded(x, status, method, num) ==
    [x EXCEPT !.status = status, !.method = method, !.num = num,
              !.vat = @ \/ status # "review"]

\* The session's row when _process_invoice is done with the sources: x is
\* the row it read, p the number printed on the document.  A provider call
\* yields the printed fields; a cached answer is found by the row's own fields
\* when they are complete, so by what a user typed into them.  OCR and LLM read
\* the number or leave it empty, over what the row had.  A refused LLM
\* quota with OCR switched off leaves the method as it was.
Verdicts(x, p) ==
    LET found == {p, NoNumber} IN
    {Concluded(x, "verified", "provider", n) : n \in {x.num, p} \ {NoNumber}}
    \cup {Concluded(x, "consistent", "dual", n) : n \in found}
    \cup {Concluded(x, "review", "dual", n) : n \in found}
    \cup {Concluded(x, "review", "single", n) : n \in found}
    \cup {Concluded(x, "review", m, x.num) : m \in {"", x.method}}

\* Mutants: the row finds itself; the owner is not compared.
TwinsWithSelf(i, n) ==
    {j \in Present \cup {i} : /\ n # NoNumber
                              /\ Owner[j] = Owner[i]
                              /\ j = i \/ row[j].num = n}
TwinsOfAll(i, n) == {j \in Present \ {i} : n # NoNumber /\ row[j].num = n}

\* Same owner, same business key, the earliest of them.
Twins(i, n) ==
    {j \in Present \ {i} : /\ n # NoNumber
                           /\ Owner[j] = Owner[i]
                           /\ row[j].num = n}

WithDuplicate(i, x) ==
    IF Twins(i, x.num) = {}
    THEN [x EXCEPT !.dup = None]
    ELSE [x EXCEPT !.dup = Earliest(Twins(i, x.num)), !.status = "duplicate"]

\* The search for a duplicate and the commit are one transaction: the search
\* flushes the changed row first, and SQLite has a single writer.  So the row
\* found is still there at the commit.
\*
\* UPDATE sets the columns whose value differs from the one the session read.
Flush(read, new, current) ==
    [f \in DOMAIN current |-> IF new[f] # read[f] THEN new[f] ELSE current[f]]

WriteBack(r, new) ==
    /\ row' = [row EXCEPT ![Head(tasks[r])] = Flush(snap[r], new, @)]
    /\ snap' = [snap EXCEPT ![r] = NoRow]
    /\ tasks' = Done(r)
    /\ UNCHANGED <<created, file, unlinking, batch, env>>

\* Mutant: the session row is merged back whether or not it still exists.
FinishMerging(r) ==
    /\ snap[r] # NoRow
    /\ LET i == Head(tasks[r]) IN
          \E v \in Verdicts(snap[r], Printed[i]) :
             /\ row' = [row EXCEPT ![i] = WithDuplicate(i, v)]
             /\ snap' = [snap EXCEPT ![r] = NoRow]
             /\ tasks' = Done(r)
    /\ UNCHANGED <<created, file, unlinking, batch, env>>

FinishProcessing(r) ==
    /\ snap[r] # NoRow
    /\ Head(tasks[r]) \in Present
    /\ LET i == Head(tasks[r]) IN
          \E v \in Verdicts(snap[r], Printed[i]) : WriteBack(r, WithDuplicate(i, v))

\* Mutant: the error handler does not touch the row.
FailSilently(r) ==
    /\ snap[r] # NoRow
    /\ Head(tasks[r]) \in Present
    /\ WriteBack(r, snap[r])

\* An exception outside the provider and LLM calls, with the session still
\* usable: the handler commits "failed", with no field applied yet or with all of
\* them; the relation is cleared before the search.
FailedWith(v, d) == [v EXCEPT !.status = "failed", !.dup = d]

Failures(x, p) ==
    {[x EXCEPT !.status = "failed"]}
    \cup {FailedWith(v, d) : v \in Verdicts(x, p), d \in {x.dup, None}}

FailProcessing(r) ==
    /\ snap[r] # NoRow
    /\ Head(tasks[r]) \in Present
    /\ \E v \in Failures(snap[r], Printed[Head(tasks[r])]) : WriteBack(r, v)

\* StaleDataError, then PendingRollbackError out of the error handler: the
\* exception leaves the task and BackgroundTasks stops.
AbortRequest(r) ==
    /\ snap[r] # NoRow
    /\ Head(tasks[r]) \notin Present
    /\ snap' = [snap EXCEPT ![r] = NoRow]
    /\ tasks' = [tasks EXCEPT ![r] = <<>>]
    /\ UNCHANGED <<row, created, file, unlinking, batch, env>>

\* A database error the task does not survive: in the look-up or the commit
\* before its try, in reading the configuration once "processing" is committed,
\* in the last flush or commit, after which the handler's own commit raises, or
\* in that commit.  The row stays as it was last committed.
DatabaseFails(r) ==
    /\ Occurs("fault")
    /\ ~Idle(r)
    /\ snap' = [snap EXCEPT ![r] = NoRow]
    /\ tasks' = [tasks EXCEPT ![r] = <<>>]
    /\ UNCHANGED <<row, created, file, unlinking, batch, env>>

\* The process stops and starts again: tables and files stay, the rest is
\* gone, and lifespan queues nothing.
Restart ==
    /\ Occurs("restart")
    /\ unlinking' = {}
    /\ tasks' = [r \in Requests |-> <<>>]
    /\ snap' = [r \in Requests |-> NoRow]
    /\ batch' = NoBatch
    /\ UNCHANGED <<row, created, file, env>>

-----------------------------------------------------------------------------

Process(r) ==
    \/ SkipMissing(r) \/ BeginProcessing(r) \/ QueueBusy(r)
    \/ FinishProcessing(r) \/ FailProcessing(r) \/ AbortRequest(r)

Batch == BatchNext \/ BatchEnd \/ BatchFails

Next ==
    \/ \E r \in Requests, k \in 1..N : Upload(r, k)
    \/ \E r \in Requests, i \in Inv : Reprocess(r, i)
    \/ \E i \in Inv, n \in Numbers \cup {NoNumber} : SaveInvoice(i, n)
    \/ \E i \in Inv : DeleteInvoice(i) \/ Unlink(i)
    \/ \E S \in SUBSET Present : \E s \in Orders(S) : BatchStart(s)
    \/ Batch
    \/ \E r \in Requests : Process(r) \/ DatabaseFails(r)
    \/ Restart

Spec == Init /\ [][Next]_vars

\* The thread pool runs the tasks of a response, and every outgoing call a
\* task makes has a timeout; nothing obliges a user to act or the database to fail.
\* Fairness is strong because a slot comes and goes: a wait that does not time out
\* ends with a slot, whoever else takes slots meanwhile.
Fairness == \A r \in Requests : SF_vars(Process(r))

FairSpec == Spec /\ Fairness

-----------------------------------------------------------------------------

\* Each property names what it excludes; README.md says which exclusions are
\* known limits of the code.
Without(ops) == env.ops \cap ops = {}

\* duplicate_of always names another stored invoice of the same owner
\* (docs/ARCHITECTURE.md:9, deduplication stays inside the owner), whatever is
\* deleted, edited or processed in parallel; and of the rows that carry one
\* number some row is not flagged as a duplicate: copies processed in parallel
\* do not flag each other, and the deletion of an original sets its copies
\* free (verifier.py:845, main.py:1688).
DuplicatesHaveOriginal ==
    /\ \A i \in Present : row[i].dup # None =>
          /\ row[i].dup \in Present \ {i}
          /\ Owner[row[i].dup] = Owner[i]
    /\ Without({"reprocess", "save", "batch"}) =>
          \A i \in Present : row[i].status = "duplicate" =>
              \E j \in Present : /\ Owner[j] = Owner[i]
                                 /\ row[j].num = row[i].num
                                 /\ row[j].status # "duplicate"

\* The status of a row and the columns that justify it stay together: a row
\* shown as a duplicate names the row it duplicates, and "consistent" is a
\* conclusion from OCR and LLM together (docs/ARCHITECTURE.md:7 and :72),
\* across deletions, edits, reprocessing and restarts.  Two tasks on one row
\* mix the columns of both, so requests that overlap are left out, and batch
\* deletion beside a task for the duplicates.
StatusHasItsEvidence == \A i \in Present :
    /\ Without({"batch"}) /\ ~({"parallel", "reprocess"} \subseteq env.ops) =>
          (row[i].status = "duplicate" => row[i].dup # None)
    /\ Without({"parallel"}) =>
          (row[i].status = "consistent" => row[i].method = "dual")

\* Whenever no handler is in the middle of a deletion, a file referenced by the
\* table is on disk (docs/DEPLOYMENT.md:142).
FilesInPlace == LoopFree => Present \subseteq file

\* A row that is gone is not written back by a task that read it before.
NoResurrection ==
    [][\A i \in 1..created : i \notin Present => row'[i] = NoRow]_vars

\* Inside a run of the process, and as long as the database does not fail, a row
\* is "processing" only while a task works on it (docs/ARCHITECTURE.md:70).
ProcessingHasWorker ==
    Without({"restart", "fault"}) =>
        \A i \in Present : row[i].status = "processing" =>
            \E r \in Working : Head(tasks[r]) = i

\* What is queued is eventually settled, also when several requests wait for one
\* slot ("being verified in the background", main.py:1586), as long as nothing
\* is deleted, no wait times out, the database answers and the process runs.
\* Where one of these comes between, a request's tasks still come to an end:
\* none lasts for ever.
InProgress(i) == i \in Present /\ row[i].status \in {"pending", "processing"}
Settles ==
    /\ \A i \in Inv : []<>(Without({"restart", "delete", "busy", "fault"}) => ~InProgress(i))
    /\ \A r \in Requests : []<>(tasks[r] = <<>>)
=============================================================================
